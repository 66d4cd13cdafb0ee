--------------------------- MODULE SearchProofs ---------------------------
(***************************************************************************)
(* Proofs about SemanticIndex and Search, for any processes, entities,     *)
(* texts and corpora, from any directory, rows and entities that Beginning *)
(* allows: the four properties their run checks.                           *)
(*                                                                         *)
(* First what the pure parts of a search do to its lists, whatever these   *)
(* are; from that, what the answer owes to the hits.  Then the state: what *)
(* goes with each place of a process, whose inodes the two names of a file *)
(* stand for, and what one who is alone knows of the files; from that,     *)
(* that files are left whole.  Last a quiet run: what it has read is still *)
(* so, hence the rows it writes are fresh, and the search that follows     *)
(* answers.                                                                *)
(***************************************************************************)
EXTENDS Search, FunctionTheorems, FiniteSetTheorems, SequenceTheorems, WellFoundedInduction, TLAPS

-----------------------------------------------------------------------------
(* Sequences in an order, and parts of sequences.                            *)

\* A set of naturals has a least member.
LEMMA LeastOf ==
  ASSUME NEW T \in SUBSET Nat, T # {}
  PROVE  \E n \in T : \A m \in T : n <= m
<1> DEFINE Less == {x \in Nat \X Nat : x[1] < x[2]}
<1>1. IsWellFoundedOn(Less, Nat)
  BY NatLessThanWellFounded, Zenon DEF OpToRel
<1>2. PICK n \in T : \A m \in T : ~ (<<m, n>> \in Less)
  <2> HIDE DEF Less
  <2> QED  BY <1>1, WFMin, Zenon
<1>3. \A m \in T : ~(m < n)
  BY <1>2
<1> QED  BY <1>3

Orders(R, S) ==
    /\ \A x \in S : <<x, x>> \notin R
    /\ \A x, y \in S : x # y => <<x, y>> \in R \/ <<y, x>> \in R
    /\ \A x, y, z \in S : <<x, y>> \in R /\ <<y, z>> \in R => <<x, z>> \in R

Rank(S, R, x) == Cardinality({y \in S : <<y, x>> \in R})

\* A strict total order ranks the members of a finite set from 0 on, each at a rank
\* of its own.
LEMMA Ranks ==
  ASSUME NEW S, IsFiniteSet(S), NEW R, Orders(R, S)
  PROVE  /\ Cardinality(S) \in Nat
         /\ \A x \in S : Rank(S, R, x) \in 0..(Cardinality(S) - 1)
         /\ \A x, y \in S : <<x, y>> \in R => Rank(S, R, x) < Rank(S, R, y)
         /\ \A k \in 0..(Cardinality(S) - 1) : \E x \in S : Rank(S, R, x) = k
<1> DEFINE n == Cardinality(S)
           Below(x) == {y \in S : <<y, x>> \in R}
<1>1. n \in Nat
  BY FS_CardinalityType
<1>2. ASSUME NEW x \in S
      PROVE  IsFiniteSet(Below(x)) /\ Rank(S, R, x) \in 0..(n - 1)
  <2>1. Below(x) \in SUBSET (S \ {x}) /\ Below(x) \in SUBSET S
    BY DEF Orders
  <2>2. IsFiniteSet(S \ {x}) /\ Cardinality(S \ {x}) = n - 1
    BY FS_RemoveElement
  <2>3. Cardinality(Below(x)) <= n - 1 /\ IsFiniteSet(Below(x))
    BY <2>1, <2>2, FS_Subset, ZenonT(60)
  <2>4. Cardinality(Below(x)) \in Nat
    BY <2>3, FS_CardinalityType
  <2> QED  BY <1>1, <2>3, <2>4 DEF Rank
<1>3. ASSUME NEW x \in S, NEW y \in S, <<x, y>> \in R
      PROVE  Rank(S, R, x) < Rank(S, R, y)
  <2>1. Below(x) \in SUBSET Below(y)
    BY <1>3 DEF Orders
  <2>2. x \in Below(y) /\ x \notin Below(x)
    BY <1>3 DEF Orders
  <2>3. IsFiniteSet(Below(y)) /\ Rank(S, R, x) \in Nat /\ Rank(S, R, y) \in Nat
    <3>1. IsFiniteSet(Below(y))
      BY <1>2
    <3>2. Rank(S, R, x) \in 0..(n - 1) /\ Rank(S, R, y) \in 0..(n - 1)
      BY <1>2
    <3> QED  BY <1>1, <3>1, <3>2
  <2>4. /\ Cardinality(Below(x)) <= Cardinality(Below(y))
        /\ Cardinality(Below(y)) = Cardinality(Below(x)) => Below(y) = Below(x)
    BY <2>1, <2>3, FS_Subset, Zenon
  <2> QED  BY <2>2, <2>3, <2>4 DEF Rank
<1>4. \A k \in 0..(n - 1) : \E x \in S : Rank(S, R, x) = k
  <2> DEFINE f == [x \in S |-> Rank(S, R, x)]
  <2>1. f \in [S -> 0..(n - 1)]
    BY <1>2
  <2>2. ASSUME NEW x \in S, NEW y \in S, f[x] = f[y]
        PROVE  x = y
    <3>1. Rank(S, R, x) = Rank(S, R, y)
      BY <2>2
    <3>2. Rank(S, R, x) \in 0..(n - 1)
      BY <1>2
    <3>3. <<x, y>> \notin R /\ <<y, x>> \notin R
      BY <1>1, <1>3, <3>1, <3>2
    <3> QED  BY <3>3 DEF Orders
  <2>3. f \in Injection(S, 0..(n - 1))
    BY <2>1, <2>2, Fun_IsInj, Zenon
  <2>4. IsFiniteSet(0..(n - 1)) /\ Cardinality(0..(n - 1)) = n
    BY <1>1, FS_Interval
  <2>5. f \in Surjection(S, 0..(n - 1))
    BY <2>3, <2>4, FS_Injection, Zenon
  <2>6. \A k \in 0..(n - 1) : \E x \in S : f[x] = k
    BY <2>5 DEF Surjection
  <2> QED  BY <2>6
<1> QED  BY <1>1, <1>2, <1>3, <1>4

\* What InOrder returns: the members of S, each once, in the order.
LEMMA InOrderFacts ==
  ASSUME NEW S, IsFiniteSet(S), NEW R, Orders(R, S)
  PROVE  /\ Cardinality(S) \in Nat
         /\ InOrder(S, R) \in [1..Cardinality(S) -> S]
         /\ \A x \in S : \E k \in 1..Cardinality(S) : InOrder(S, R)[k] = x
         /\ \A i, j \in 1..Cardinality(S) :
               i < j => <<InOrder(S, R)[i], InOrder(S, R)[j]>> \in R
<1> DEFINE n == Cardinality(S)
           s == InOrder(S, R)
<1>1. n \in Nat
  BY FS_CardinalityType
<1>2. ASSUME NEW k \in 1..n
      PROVE  s[k] \in S /\ Rank(S, R, s[k]) = k - 1
  <2>1. k - 1 \in 0..(n - 1)
    BY <1>1
  <2>2. \E x \in S : Rank(S, R, x) = k - 1
    BY <2>1, Ranks
  <2>3. s[k] = CHOOSE x \in S : Rank(S, R, x) = k - 1
    BY DEF InOrder, Rank
  <2> QED  BY <2>2, <2>3
<1>3. s \in [1..n -> S]
  BY <1>2 DEF InOrder
<1>4. ASSUME NEW x \in S, NEW y \in S, Rank(S, R, x) = Rank(S, R, y)
      PROVE  x = y
  <2>1. Rank(S, R, x) \in 0..(n - 1)
    BY Ranks
  <2>2. <<x, y>> \notin R /\ <<y, x>> \notin R
    BY <1>1, <1>4, <2>1, Ranks
  <2> QED  BY <2>2 DEF Orders
<1>5. ASSUME NEW x \in S
      PROVE  \E k \in 1..n : s[k] = x
  <2>1. Rank(S, R, x) \in 0..(n - 1)
    BY Ranks
  <2>2. Rank(S, R, x) + 1 \in 1..n /\ Rank(S, R, x) + 1 - 1 = Rank(S, R, x)
    BY <1>1, <2>1
  <2>3. PICK k \in 1..n : k = Rank(S, R, x) + 1
    BY <2>2
  <2>4. s[k] \in S /\ Rank(S, R, s[k]) = k - 1
    BY <1>2
  <2>5. Rank(S, R, s[k]) = Rank(S, R, x)
    <3> HIDE DEF s
    <3> QED  BY <2>1, <2>3, <2>4, <1>1
  <2> QED  BY <1>4, <2>4, <2>5, Zenon
<1>6. ASSUME NEW i \in 1..n, NEW j \in 1..n, i < j
      PROVE  <<s[i], s[j]>> \in R
  <2>1. s[i] \in S /\ s[j] \in S /\ Rank(S, R, s[i]) < Rank(S, R, s[j])
    BY <1>1, <1>2, <1>6
  <2>2. <<s[j], s[i]>> \in R => Rank(S, R, s[j]) < Rank(S, R, s[i])
    BY <2>1, Ranks
  <2>3. Rank(S, R, s[i]) \in Int /\ Rank(S, R, s[j]) \in Int
    BY <2>1, Ranks
  <2> QED  BY <2>1, <2>2, <2>3 DEF Orders
<1> QED  BY <1>1, <1>3, <1>5, <1>6, Zenon

\* Sub takes the members at a set of places, in the order of the places.
LEMMA SubPlaces ==
  ASSUME NEW T, NEW s \in Seq(T), NEW I \in SUBSET DOMAIN s
  PROVE  /\ IsFiniteSet(I) /\ Cardinality(I) \in 0..Len(s)
         /\ \E at \in [1..Cardinality(I) -> I] :
               /\ \A i \in I : \E k \in 1..Cardinality(I) : at[k] = i
               /\ \A j, k \in 1..Cardinality(I) : j < k => at[j] < at[k]
               /\ Sub(s, I) = [k \in 1..Cardinality(I) |-> s[at[k]]]
<1> DEFINE R == {x \in I \X I : x[1] < x[2]}
           n == Cardinality(I)
           at == InOrder(I, R)
<1>1. Len(s) \in Nat /\ DOMAIN s = 1..Len(s)
  BY LenProperties
<1>2. IsFiniteSet(1..Len(s)) /\ Cardinality(1..Len(s)) = Len(s)
  <2>1. \A m \in Nat : IsFiniteSet(1..m) /\ Cardinality(1..m) = m
    BY FS_Interval
  <2> QED  BY <1>1, <2>1
<1>3. IsFiniteSet(I) /\ n <= Len(s)
  <2>1. I \in SUBSET (1..Len(s))
    BY <1>1
  <2> QED  BY <1>2, <2>1, FS_Subset
<1>4. n \in Nat
  BY <1>3, FS_CardinalityType
<1>5. Orders(R, I)
  BY <1>1 DEF Orders
<1>6. /\ at \in [1..n -> I]
      /\ \A i \in I : \E k \in 1..n : at[k] = i
      /\ \A j, k \in 1..n : j < k => <<at[j], at[k]>> \in R
  <2> HIDE DEF R
  <2> QED  BY <1>3, <1>5, InOrderFacts
<1>7. Sub(s, I) = [k \in 1..n |-> s[at[k]]]
  BY <1>6 DEF Sub
<1>8. \A j, k \in 1..n : j < k => at[j] < at[k]
  BY <1>6
<1> HIDE DEF at, n
<1>9. n \in 0..Len(s)
  BY <1>1, <1>3, <1>4
<1> QED  BY <1>3, <1>6, <1>7, <1>8, <1>9 DEF n

\* ... so it returns just those members, and each once if the sequence has it once.
LEMMA SubMembers ==
  ASSUME NEW T, NEW s \in Seq(T), NEW I \in SUBSET DOMAIN s
  PROVE  /\ Sub(s, I) \in Seq(T) /\ Len(Sub(s, I)) <= Len(s)
         /\ \A k \in DOMAIN Sub(s, I) : \E i \in I : Sub(s, I)[k] = s[i]
         /\ \A i \in I : \E k \in DOMAIN Sub(s, I) : Sub(s, I)[k] = s[i]
         /\ IsInjective(s) => IsInjective(Sub(s, I))
<1> DEFINE n == Cardinality(I)
<1>1. Len(s) \in Nat /\ DOMAIN s = 1..Len(s) /\ s \in [1..Len(s) -> T]
  BY LenProperties
<1>2. n \in 0..Len(s)
  BY SubPlaces
<1>3. PICK at \in [1..n -> I] :
          /\ \A i \in I : \E k \in 1..n : at[k] = i
          /\ \A j, k \in 1..n : j < k => at[j] < at[k]
          /\ Sub(s, I) = [k \in 1..n |-> s[at[k]]]
  BY SubPlaces, SMTT(30)
<1>4. \A k \in 1..n : at[k] \in I /\ at[k] \in 1..Len(s) /\ s[at[k]] \in T
  BY <1>1, <1>3
<1>5. Sub(s, I) \in Seq(T) /\ Len(Sub(s, I)) = n /\ DOMAIN Sub(s, I) = 1..n
  BY <1>1, <1>2, <1>3, <1>4, IsASeq, LenProperties
<1>6. ASSUME IsInjective(s)
      PROVE  IsInjective(Sub(s, I))
  <2>1. ASSUME NEW j \in 1..n, NEW k \in 1..n, s[at[j]] = s[at[k]]
        PROVE  j = k
    <3>1. at[j] = at[k]
      BY <1>1, <1>4, <1>6, <2>1 DEF IsInjective
    <3>2. ~(j < k) /\ ~(k < j)
      BY <1>1, <1>3, <1>4, <3>1
    <3> QED  BY <1>2, <3>2
  <2> QED  BY <1>3, <1>5, <2>1 DEF IsInjective
<1>7. \A k \in DOMAIN Sub(s, I) : \E i \in I : Sub(s, I)[k] = s[i]
  BY <1>3, <1>4, <1>5
<1>8. \A i \in I : \E k \in DOMAIN Sub(s, I) : Sub(s, I)[k] = s[i]
  BY <1>3, <1>4, <1>5
<1>9. Len(Sub(s, I)) <= Len(s)
  <2> HIDE DEF n
  <2> QED  BY <1>1, <1>2, <1>5
<1> QED  BY <1>5, <1>6, <1>7, <1>8, <1>9

\* Filter keeps the members that are in a set, in their order.
LEMMA FilterMembers ==
  ASSUME NEW T, NEW s \in Seq(T), NEW S
  PROVE  /\ Filter(s, S) \in Seq(T) /\ Len(Filter(s, S)) <= Len(s)
         /\ ToSet(Filter(s, S)) = ToSet(s) \intersect S
         /\ IsInjective(s) => IsInjective(Filter(s, S))
<1> DEFINE I == {i \in DOMAIN s : s[i] \in S}
<1>1. I \in SUBSET DOMAIN s /\ Filter(s, S) = Sub(s, I)
  BY DEF Filter
<1> DEFINE t == Filter(s, S)
<1>2. /\ t \in Seq(T) /\ Len(t) <= Len(s)
      /\ \A k \in DOMAIN t : \E i \in I : t[k] = s[i]
      /\ \A i \in I : \E k \in DOMAIN t : t[k] = s[i]
      /\ IsInjective(s) => IsInjective(t)
  <2> HIDE DEF I
  <2> QED  BY <1>1, SubMembers
<1> HIDE DEF t
<1>3. ToSet(t) = ToSet(s) \intersect S
  BY <1>2, SMTT(30) DEF ToSet
<1> QED  BY <1>2, <1>3 DEF t

\* FirstOfEach keeps every member, once.
LEMMA FirstOfEachMembers ==
  ASSUME NEW T, NEW s \in Seq(T)
  PROVE  /\ FirstOfEach(s) \in Seq(T)
         /\ ToSet(FirstOfEach(s)) = ToSet(s)
         /\ IsInjective(FirstOfEach(s))
<1> DEFINE I == {i \in DOMAIN s : \A j \in 1..(i - 1) : s[j] # s[i]}
           t == FirstOfEach(s)
           n == Cardinality(I)
<1>1. Len(s) \in Nat /\ DOMAIN s = 1..Len(s) /\ I \in SUBSET DOMAIN s /\ t = Sub(s, I)
  BY LenProperties DEF FirstOfEach
<1>2. /\ t \in Seq(T)
      /\ \A k \in DOMAIN t : \E i \in I : t[k] = s[i]
      /\ \A i \in I : \E k \in DOMAIN t : t[k] = s[i]
  <2> HIDE DEF I
  <2> QED  BY <1>1, SubMembers
<1>3. ASSUME NEW i \in DOMAIN s
      PROVE  \E j \in I : s[j] = s[i]
  <2> DEFINE Same == {k \in 1..Len(s) : s[k] = s[i]}
  <2>1. Same \in SUBSET Nat /\ Same # {}
    BY <1>1
  <2>2. PICK j \in Same : \A k \in Same : j <= k
    BY <2>1, LeastOf
  <2>3. \A k \in 1..(j - 1) : s[k] # s[j]
    BY <1>1, <2>2
  <2> QED  BY <1>1, <2>2, <2>3
<1>4. ToSet(t) = ToSet(s)
  <2> HIDE DEF I, t
  <2>1. I \subseteq DOMAIN s
    BY <1>1
  <2> QED  BY <1>2, <1>3, <2>1 DEF ToSet
<1>5. IsInjective(t)
  <2>1. n \in 0..Len(s)
    BY <1>1, SubPlaces
  <2>2. PICK at \in [1..n -> I] :
            /\ \A j, k \in 1..n : j < k => at[j] < at[k]
            /\ t = [k \in 1..n |-> s[at[k]]]
    <3> HIDE DEF I
    <3> QED  BY <1>1, SubPlaces, SMTT(30)
  <2>3. ASSUME NEW j \in 1..n, NEW k \in 1..n, j < k
        PROVE  s[at[j]] # s[at[k]]
    <3>1. at[j] < at[k] /\ at[j] \in 1..Len(s) /\ at[k] \in I /\ at[k] \in 1..Len(s)
      BY <1>1, <2>2, <2>3
    <3>2. at[j] \in 1..(at[k] - 1)
      BY <1>1, <3>1
    <3> QED  BY <3>1, <3>2
  <2> HIDE DEF n
  <2>4. \A j, k \in 1..n : s[at[j]] = s[at[k]] => j = k
    BY <2>1, <2>3
  <2> HIDE DEF t, I
  <2> QED  BY <2>2, <2>4 DEF IsInjective
<1> QED  BY <1>2, <1>4, <1>5

\* Cut keeps the first members.
LEMMA CutMembers ==
  ASSUME NEW T, NEW s \in Seq(T), NEW n \in Nat
  PROVE  /\ Cut(s, n) \in Seq(T)
         /\ Len(Cut(s, n)) = IF Len(s) < n THEN Len(s) ELSE n
         /\ \A i \in DOMAIN Cut(s, n) : i \in DOMAIN s /\ Cut(s, n)[i] = s[i]
         /\ \A i \in DOMAIN s : i <= Len(Cut(s, n)) => i \in DOMAIN Cut(s, n)
         /\ ToSet(Cut(s, n)) \subseteq ToSet(s)
         /\ IsInjective(s) => IsInjective(Cut(s, n))
<1> DEFINE m == IF Len(s) < n THEN Len(s) ELSE n
           t == Cut(s, n)
<1>1. Len(s) \in Nat /\ DOMAIN s = 1..Len(s) /\ s \in [1..Len(s) -> T]
  BY LenProperties
<1>2. m \in 0..Len(s)
  BY <1>1
<1>3. t = SubSeq(s, 1, m)
  BY DEF Cut
<1> HIDE DEF m, t
<1>4. \A i \in 1..m : s[i] \in T
  BY <1>1, <1>2
<1>5. /\ t \in Seq(T) /\ Len(t) = IF 1 <= m THEN m - 1 + 1 ELSE 0
      /\ \A i \in 1..(m - 1 + 1) : t[i] = s[1 + i - 1]
  BY <1>2, <1>3, <1>4, SubSeqProperties
<1>6. Len(t) = m /\ DOMAIN t = 1..m
  BY <1>2, <1>5, LenProperties
<1>7. \A i \in 1..m : i \in DOMAIN s /\ t[i] = s[i]
  BY <1>1, <1>2, <1>5
<1>8. ToSet(t) \subseteq ToSet(s)
  BY <1>6, <1>7 DEF ToSet
<1>9. IsInjective(s) => IsInjective(t)
  BY <1>6, <1>7 DEF IsInjective
<1> QED  BY <1>1, <1>2, <1>5, <1>6, <1>7, <1>8, <1>9 DEF m, t

\* The members of two sequences put together.
LEMMA ConcatMembers ==
  ASSUME NEW T, NEW s \in Seq(T), NEW t \in Seq(T)
  PROVE  /\ s \o t \in Seq(T) /\ Len(s \o t) = Len(s) + Len(t)
         /\ ToSet(s \o t) = ToSet(s) \union ToSet(t)
         /\ IsInjective(s) /\ IsInjective(t) /\ ToSet(s) \intersect ToSet(t) = {}
            => IsInjective(s \o t)
<1> DEFINE u == s \o t
<1>1. Len(s) \in Nat /\ DOMAIN s = 1..Len(s) /\ Len(t) \in Nat /\ DOMAIN t = 1..Len(t)
  BY LenProperties
<1>2. /\ u \in Seq(T) /\ Len(u) = Len(s) + Len(t)
      /\ \A i \in 1..(Len(s) + Len(t)) : u[i] = IF i <= Len(s) THEN s[i] ELSE t[i - Len(s)]
  BY ConcatProperties
<1>3. DOMAIN u = 1..(Len(s) + Len(t))
  BY <1>2, LenProperties
<1> HIDE DEF u
<1>4. \A i \in DOMAIN s : i \in DOMAIN u /\ u[i] = s[i]
  BY <1>1, <1>2, <1>3
<1>5. \A i \in DOMAIN t : i + Len(s) \in DOMAIN u /\ u[i + Len(s)] = t[i]
  BY <1>1, <1>2, <1>3
<1>6. \A i \in DOMAIN u : \/ i \in DOMAIN s /\ u[i] = s[i]
                          \/ i - Len(s) \in DOMAIN t /\ u[i] = t[i - Len(s)]
  BY <1>1, <1>2, <1>3
<1>7. ToSet(u) = ToSet(s) \union ToSet(t)
  BY <1>4, <1>5, <1>6 DEF ToSet
<1>8. ASSUME IsInjective(s), IsInjective(t), ToSet(s) \intersect ToSet(t) = {}
      PROVE  IsInjective(u)
  <2>1. ASSUME NEW i \in DOMAIN u, NEW j \in DOMAIN u, u[i] = u[j]
        PROVE  i = j
    <3>1. \A x \in DOMAIN s, y \in DOMAIN t : s[x] # t[y]
      BY <1>8 DEF ToSet
    <3>2. \/ i \in DOMAIN s /\ j \in DOMAIN s /\ s[i] = s[j]
          \/ /\ i - Len(s) \in DOMAIN t /\ j - Len(s) \in DOMAIN t
             /\ t[i - Len(s)] = t[j - Len(s)]
      BY <1>6, <2>1, <3>1
    <3>3. i = j \/ i - Len(s) = j - Len(s)
      BY <1>8, <3>2 DEF IsInjective
    <3> QED  BY <1>1, <1>3, <3>3
  <2> QED  BY <2>1 DEF IsInjective
<1> QED  BY <1>2, <1>7, <1>8 DEF u

-----------------------------------------------------------------------------
(* Who is ahead of whom.                                                     *)

\* The place of each member of a sequence without repetitions.
LEMMA Places ==
  ASSUME NEW T, NEW s \in Seq(T), IsInjective(s)
  PROVE  /\ \A i \in DOMAIN s : Place(s, s[i]) = i
         /\ \A e \in ToSet(s) : Place(s, e) \in DOMAIN s /\ s[Place(s, e)] = e
         /\ \A e : e \notin ToSet(s) <=> Place(s, e) = 0
         /\ \A e : Place(s, e) \in Nat
<1>1. DOMAIN s = 1..Len(s) /\ Len(s) \in Nat
  BY LenProperties
<1>2. ASSUME NEW i \in DOMAIN s
      PROVE  Place(s, s[i]) = i
  <2>1. s[i] \in ToSet(s)
    BY DEF ToSet
  <2>2. \A j \in DOMAIN s : s[j] = s[i] => j = i
    BY DEF IsInjective
  <2> QED  BY <2>1, <2>2 DEF Place
<1>3. ASSUME NEW e \in ToSet(s)
      PROVE  Place(s, e) \in DOMAIN s /\ s[Place(s, e)] = e
  <2>1. PICK i \in DOMAIN s : s[i] = e
    BY DEF ToSet
  <2> QED  BY <1>2, <2>1
<1>4. ASSUME NEW e, e \notin ToSet(s)
      PROVE  Place(s, e) = 0
  BY <1>4 DEF Place
<1>5. \A e : e \notin ToSet(s) <=> Place(s, e) = 0
  BY <1>1, <1>3, <1>4
<1>6. \A e : Place(s, e) \in Nat
  BY <1>1, <1>3, <1>4
<1> QED  BY <1>2, <1>3, <1>5, <1>6

\* An order's sequence has the lesser ahead.
LEMMA OrderedAhead ==
  ASSUME NEW T, NEW S \in SUBSET T, IsFiniteSet(S), NEW R, Orders(R, S)
  PROVE  /\ InOrder(S, R) \in Seq(T) /\ Len(InOrder(S, R)) = Cardinality(S)
         /\ ToSet(InOrder(S, R)) = S /\ IsInjective(InOrder(S, R))
         /\ \A e, f \in S : <<e, f>> \in R => IsAhead(InOrder(S, R), e, f)
<1> DEFINE s == InOrder(S, R)
           n == Cardinality(S)
<1>1. /\ n \in Nat /\ s \in [1..n -> S]
      /\ \A x \in S : \E k \in 1..n : s[k] = x
      /\ \A i, j \in 1..n : i < j => <<s[i], s[j]>> \in R
  BY InOrderFacts
<1> HIDE DEF s, n
<1>2. s \in Seq(T) /\ Len(s) = n /\ DOMAIN s = 1..n
  BY <1>1, IsASeq, LenProperties
<1>3. ToSet(s) = S
  BY <1>1, <1>2 DEF ToSet
<1>4. IsInjective(s)
  <2>1. ASSUME NEW i \in 1..n, NEW j \in 1..n, s[i] = s[j]
        PROVE  i = j
    <3>1. s[i] \in S /\ <<s[i], s[i]>> \notin R
      BY <1>1 DEF Orders
    <3>2. ~(i < j) /\ ~(j < i)
      BY <1>1, <2>1, <3>1
    <3> QED  BY <1>1, <3>2
  <2> QED  BY <1>2, <2>1 DEF IsInjective
<1>5. ASSUME NEW e \in S, NEW f \in S, <<e, f>> \in R
      PROVE  IsAhead(s, e, f)
  <2> DEFINE i == Place(s, e)
             j == Place(s, f)
  <2>1. i \in 1..n /\ j \in 1..n /\ s[i] = e /\ s[j] = f
    BY <1>2, <1>3, <1>4, Places
  <2> HIDE DEF i, j
  <2>2. ~(j < i) /\ i # j
    <3>1. <<f, e>> \notin R /\ e # f
      BY <1>5 DEF Orders
    <3> QED  BY <1>1, <2>1, <3>1
  <2>3. i # 0 /\ i < j
    BY <1>1, <2>1, <2>2
  <2> QED  BY <2>3 DEF IsAhead, i, j
<1> QED  BY <1>2, <1>3, <1>4, <1>5 DEF s, n

\* A filter keeps the order of what it keeps.
LEMMA FilterAhead ==
  ASSUME NEW T, NEW s \in Seq(T), IsInjective(s), NEW S, NEW e \in S, NEW f,
         IsAhead(s, e, f)
  PROVE  IsAhead(Filter(s, S), e, f)
<1> DEFINE I == {i \in DOMAIN s : s[i] \in S}
           n == Cardinality(I)
           t == Filter(s, S)
<1>1. Len(s) \in Nat /\ DOMAIN s = 1..Len(s)
  BY LenProperties
<1>2. I \in SUBSET DOMAIN s /\ t = Sub(s, I)
  BY DEF Filter
<1>3. /\ n \in 0..Len(s)
      /\ \E at \in [1..n -> I] :
            /\ \A i \in I : \E k \in 1..n : at[k] = i
            /\ \A j, k \in 1..n : j < k => at[j] < at[k]
            /\ t = [k \in 1..n |-> s[at[k]]]
  <2> HIDE DEF I, t
  <2> QED  BY <1>2, SubPlaces, SMTT(30)
<1>4. PICK at \in [1..n -> I] :
          /\ \A i \in I : \E k \in 1..n : at[k] = i
          /\ \A j, k \in 1..n : j < k => at[j] < at[k]
          /\ t = [k \in 1..n |-> s[at[k]]]
  BY <1>3
<1>5. t \in Seq(T) /\ IsInjective(t) /\ ToSet(t) = ToSet(s) \intersect S
  BY FilterMembers
<1> DEFINE i == Place(s, e)
           j == Place(s, f)
<1>6. i \in DOMAIN s /\ s[i] = e /\ e \in ToSet(s)
  BY Places DEF IsAhead
<1>7. i \in I
  BY <1>6
<1> HIDE DEF n, t
<1>8. PICK k \in 1..n : at[k] = i
  BY <1>4, <1>7
<1>9. k \in DOMAIN t /\ t[k] = e
  BY <1>4, <1>6, <1>8
<1>10. Place(t, e) = k
  BY <1>5, <1>9, Places
<1>11. CASE f \notin ToSet(t)
  <2>1. Place(t, f) = 0
    BY <1>5, <1>11, Places
  <2>2. k # 0
    BY <1>1, <1>3
  <2> QED  BY <1>10, <2>1, <2>2 DEF IsAhead, t
<1>12. CASE f \in ToSet(t)
  <2>1. f \in ToSet(s) /\ f \in S
    BY <1>5, <1>12
  <2>2. j \in DOMAIN s /\ s[j] = f /\ j \in I
    BY <2>1, Places
  <2>3. i < j
    BY <2>2, <1>1 DEF IsAhead
  <2>4. PICK l \in 1..n : at[l] = j
    BY <1>4, <2>2
  <2>5. Place(t, f) = l
    <3>1. l \in DOMAIN t /\ t[l] = f
      BY <1>4, <2>2, <2>4
    <3> QED  BY <1>5, <3>1, Places
  <2> HIDE DEF i, j, I
  <2>6. k < l
    <3>1. ~(l < k) /\ l # k
      <4>1. i \in Int /\ j \in Int
        BY <1>1, <1>6, <2>2
      <4> QED  BY <1>4, <1>8, <2>3, <2>4, <4>1
    <3> QED  BY <1>3, <3>1
  <2> QED  BY <1>3, <1>10, <2>5, <2>6 DEF IsAhead, t
<1> QED  BY <1>11, <1>12

\* What is cut off was not ahead of anything that is kept.
LEMMA CutAhead ==
  ASSUME NEW T, NEW s \in Seq(T), IsInjective(s), NEW n \in Nat, NEW e, NEW f,
         IsAhead(s, e, f)
  PROVE  ~IsAhead(Cut(s, n), f, e)
<1> DEFINE t == Cut(s, n)
<1>1. Len(s) \in Nat /\ DOMAIN s = 1..Len(s)
  BY LenProperties
<1>2. /\ t \in Seq(T) /\ IsInjective(t)
      /\ \A i \in DOMAIN t : i \in DOMAIN s /\ t[i] = s[i]
      /\ \A i \in DOMAIN s : i <= Len(t) => i \in DOMAIN t
  BY CutMembers
<1> HIDE DEF t
<1>3. DOMAIN t = 1..Len(t) /\ Len(t) \in Nat
  BY <1>2, LenProperties
<1> SUFFICES ASSUME IsAhead(t, f, e) PROVE FALSE
  BY DEF t
<1>4. Place(t, f) \in DOMAIN t /\ t[Place(t, f)] = f
  BY <1>2, Places DEF IsAhead
<1>5. Place(s, f) = Place(t, f)
  BY <1>2, <1>4, Places
<1>6. Place(s, f) # 0
  BY <1>3, <1>4, <1>5
<1>7. Place(s, e) # 0 /\ Place(s, e) < Place(s, f)
  BY <1>6 DEF IsAhead
<1>8. Place(s, e) \in DOMAIN s /\ s[Place(s, e)] = e
  BY <1>7, Places
<1>9. Place(s, e) \in DOMAIN t
  BY <1>1, <1>2, <1>3, <1>4, <1>5, <1>7, <1>8
<1>10. Place(t, e) = Place(s, e)
  BY <1>2, <1>8, <1>9, Places
<1> QED  BY <1>1, <1>3, <1>4, <1>5, <1>6, <1>7, <1>8, <1>10 DEF IsAhead

\* Of two sequences put together, the first is ahead of the second.
LEMMA ConcatAhead ==
  ASSUME NEW T, NEW s \in Seq(T), NEW t \in Seq(T), IsInjective(s), IsInjective(t),
         ToSet(s) \intersect ToSet(t) = {}, NEW e, NEW f,
         IsAhead(s, e, f) \/ (f \notin ToSet(s) /\ IsAhead(t, e, f))
  PROVE  IsAhead(s \o t, e, f)
<1> DEFINE u == s \o t
<1>1. Len(s) \in Nat /\ DOMAIN s = 1..Len(s) /\ Len(t) \in Nat /\ DOMAIN t = 1..Len(t)
  BY LenProperties
<1>2. /\ u \in Seq(T) /\ IsInjective(u) /\ ToSet(u) = ToSet(s) \union ToSet(t)
      /\ Len(u) = Len(s) + Len(t)
  BY ConcatMembers
<1>3. DOMAIN u = 1..(Len(s) + Len(t))
  BY <1>2, LenProperties
<1>4. \A i \in 1..(Len(s) + Len(t)) : u[i] = IF i <= Len(s) THEN s[i] ELSE t[i - Len(s)]
  BY ConcatProperties
<1> HIDE DEF u
<1>5. ASSUME NEW g, Place(s, g) # 0
      PROVE  Place(u, g) = Place(s, g) /\ Place(s, g) \in 1..Len(s)
  <2>1. Place(s, g) \in 1..Len(s) /\ s[Place(s, g)] = g
    BY <1>1, <1>5, Places
  <2>2. Place(s, g) \in DOMAIN u /\ u[Place(s, g)] = g
    BY <1>1, <1>3, <1>4, <2>1
  <2> QED  BY <1>2, <2>1, <2>2, Places
<1>6. ASSUME NEW g, Place(t, g) # 0
      PROVE  Place(u, g) = Place(t, g) + Len(s) /\ Place(t, g) \in 1..Len(t)
  <2>1. Place(t, g) \in 1..Len(t) /\ t[Place(t, g)] = g
    BY <1>1, <1>6, Places
  <2>2. Place(t, g) + Len(s) \in DOMAIN u /\ u[Place(t, g) + Len(s)] = g
    BY <1>1, <1>3, <1>4, <2>1
  <2> QED  BY <1>2, <2>1, <2>2, Places
<1>7. \/ Place(s, f) # 0 \/ Place(t, f) # 0 \/ Place(u, f) = 0
  BY <1>2, Places
<1>8. CASE IsAhead(s, e, f)
  <2>1. Place(u, e) = Place(s, e) /\ Place(s, e) \in 1..Len(s)
    BY <1>5, <1>8 DEF IsAhead
  <2>2. CASE Place(s, f) # 0
    BY <1>5, <1>8, <2>1, <2>2 DEF IsAhead, u
  <2>3. CASE Place(t, f) # 0
    <3>1. Place(u, f) > Len(s)
      BY <1>1, <1>6, <2>3
    <3>2. Place(u, e) < Place(u, f)
      BY <1>1, <1>6, <2>1, <2>3
    <3> QED  BY <2>1, <3>2 DEF IsAhead, u
  <2>4. CASE Place(u, f) = 0
    BY <2>1, <2>4 DEF IsAhead, u
  <2> QED  BY <1>7, <2>2, <2>3, <2>4
<1>9. CASE f \notin ToSet(s) /\ IsAhead(t, e, f)
  <2>1. Place(u, e) = Place(t, e) + Len(s) /\ Place(t, e) \in 1..Len(t)
    BY <1>6, <1>9 DEF IsAhead
  <2>2. Place(s, f) = 0
    BY <1>9, Places
  <2>3. CASE Place(t, f) # 0
    BY <1>1, <1>6, <1>9, <2>1, <2>3 DEF IsAhead, u
  <2>4. CASE Place(u, f) = 0
    BY <1>1, <2>1, <2>4 DEF IsAhead, u
  <2> QED  BY <1>7, <2>2, <2>3, <2>4
<1> QED  BY <1>8, <1>9

-----------------------------------------------------------------------------
(* Scores.                                                                   *)

Positive == Nat \ {0}

\* Products of positive numbers are positive, and keep an order.
LEMMA Products ==
  /\ \A m, n \in Positive : m * n \in Positive
  /\ \A l, m, n \in Positive : l < m <=> l * n < m * n
  /\ \A l, m, n \in Positive : l = m <=> l * n = m * n
<1>1. \A m, n \in Positive : m * n \in Positive
  BY DEF Positive
<1>2. \A l, m, n \in Positive : l < m => l * n < m * n
  <2> SUFFICES ASSUME NEW l \in Positive, NEW m \in Positive, NEW n \in Positive, l < m
               PROVE  l * n < m * n
    OBVIOUS
  <2>1. m - l \in Positive
    BY DEF Positive
  <2>2. (m - l) * n \in Positive
    BY <1>1, <2>1
  <2>3. (m - l) * n = m * n - l * n
    BY DEF Positive
  <2> QED  BY <2>2, <2>3 DEF Positive
<1>3. ASSUME NEW l \in Positive, NEW m \in Positive, NEW n \in Positive
      PROVE  (l < m <=> l * n < m * n) /\ (l = m <=> l * n = m * n)
  <2>1. l * n \in Positive /\ m * n \in Positive
    BY <1>1
  <2>2. (l < m => l * n < m * n) /\ (m < l => m * n < l * n)
    BY <1>2
  <2>3. l < m \/ l = m \/ m < l
    BY DEF Positive
  <2> DEFINE a == l * n
             b == m * n
  <2>4. l = m => a = b
    OBVIOUS
  <2> HIDE DEF a, b
  <2>5. (l < m => a < b) /\ (m < l => b < a) /\ a \in Positive /\ b \in Positive
    BY <2>1, <2>2 DEF a, b
  <2>6. (l < m <=> a < b) /\ (l = m <=> a = b)
    BY <2>3, <2>4, <2>5 DEF Positive
  <2> QED  BY <2>6 DEF a, b
<1> QED  BY <1>1, <1>3, Zenon

\* Fractions are in an order.
LEMMA Fractions ==
  ASSUME NEW a \in Positive, NEW b \in Positive, NEW c \in Positive, NEW d \in Positive,
         NEW e \in Positive, NEW f \in Positive
  PROVE  /\ a * d > c * b /\ c * f > e * d => a * f > e * b
         /\ a * d = c * b /\ c * f > e * d => a * f > e * b
         /\ a * d > c * b /\ c * f = e * d => a * f > e * b
         /\ a * d = c * b /\ c * f = e * d => a * f = e * b
<1>1. /\ a * d \in Positive /\ c * b \in Positive /\ c * f \in Positive /\ e * d \in Positive
      /\ a * f \in Positive /\ e * b \in Positive
  BY Products
<1>2. /\ a * d > c * b => (a * d) * f > (c * b) * f
      /\ a * d = c * b => (a * d) * f = (c * b) * f
  BY <1>1, Products
<1>3. /\ c * f > e * d => (c * f) * b > (e * d) * b
      /\ c * f = e * d => (c * f) * b = (e * d) * b
  BY <1>1, Products
<1>4. /\ (a * d) * f = (a * f) * d /\ (c * b) * f = (c * f) * b /\ (e * d) * b = (e * b) * d
  BY DEF Positive
<1>5. /\ a * f > e * b <=> (a * f) * d > (e * b) * d
      /\ a * f = e * b <=> (a * f) * d = (e * b) * d
  BY <1>1, Products
<1>6. /\ (a * f) * d \in Positive /\ (e * b) * d \in Positive /\ (c * f) * b \in Positive
  BY <1>1, Products
<1> DEFINE x == (a * f) * d
           y == (c * f) * b
           z == (e * b) * d
<1>7. x \in Positive /\ y \in Positive /\ z \in Positive
  BY <1>6
<1>8. /\ a * d > c * b => x > y
      /\ a * d = c * b => x = y
      /\ c * f > e * d => y > z
      /\ c * f = e * d => y = z
      /\ a * f > e * b <=> x > z
      /\ a * f = e * b <=> x = z
  BY <1>2, <1>3, <1>4, <1>5
<1> HIDE DEF x, y, z
<1>9. /\ x > y /\ y > z => x > z
      /\ x = y /\ y > z => x > z
      /\ x > y /\ y = z => x > z
      /\ x = y /\ y = z => x = z
  BY <1>7 DEF Positive
<1> QED  BY <1>8, <1>9

\* By the greater fraction, then by the lesser first rank, then by the lesser place.
LEMMA ByFraction ==
  ASSUME NEW S, NEW num \in [S -> Positive], NEW den \in [S -> Positive],
         NEW fst \in [S -> Nat], NEW at \in [S -> Nat], \A e, f \in S : at[e] = at[f] => e = f,
         NEW R, R = {z \in S \X S :
              IF num[z[1]] * den[z[2]] # num[z[2]] * den[z[1]]
              THEN num[z[1]] * den[z[2]] > num[z[2]] * den[z[1]]
              ELSE IF fst[z[1]] # fst[z[2]] THEN fst[z[1]] < fst[z[2]]
              ELSE at[z[1]] < at[z[2]]}
  PROVE  Orders(R, S)
<1> DEFINE P(e, f) == num[e] * den[f]
           In(e, f) == \/ P(e, f) > P(f, e)
                       \/ P(e, f) = P(f, e) /\ fst[e] < fst[f]
                       \/ P(e, f) = P(f, e) /\ fst[e] = fst[f] /\ at[e] < at[f]
<1>1. \A e, f \in S : P(e, f) \in Positive
  BY Products
<1>2. \A e, f, g \in S : /\ P(e, f) > P(f, e) /\ P(f, g) > P(g, f) => P(e, g) > P(g, e)
                         /\ P(e, f) = P(f, e) /\ P(f, g) > P(g, f) => P(e, g) > P(g, e)
                         /\ P(e, f) > P(f, e) /\ P(f, g) = P(g, f) => P(e, g) > P(g, e)
                         /\ P(e, f) = P(f, e) /\ P(f, g) = P(g, f) => P(e, g) = P(g, e)
  BY Fractions, SMTT(30)
<1>3. \A e, f \in S : <<e, f>> \in R <=> In(e, f)
  BY <1>1 DEF Positive
<1> HIDE DEF P
<1>4. \A e \in S : ~In(e, e)
  BY <1>1 DEF Positive
<1>5. \A e, f \in S : e # f => In(e, f) \/ In(f, e)
  BY <1>1 DEF Positive
<1>6. \A e, f, g \in S : In(e, f) /\ In(f, g) => In(e, g)
  BY <1>1, <1>2 DEF Positive
<1> HIDE DEF In
<1> QED  BY <1>3, <1>4, <1>5, <1>6 DEF Orders

\* Scores are fractions of positive numbers, ...
LEMMA Scores ==
  ASSUME NEW i \in Nat, NEW j \in Nat
  PROVE  Score(i, j)[1] \in Positive /\ Score(i, j)[2] \in Positive
<1>1. RrfK + i \in Positive /\ RrfK + j \in Positive /\ 2 * RrfK + i + j \in Positive
      /\ 1 \in Positive
  BY DEF RrfK, Positive
<1>2. (RrfK + i) * (RrfK + j) \in Positive
  BY <1>1, Products
<1> QED  BY <1>1, <1>2 DEF Score

\* ... and better ranks score more.
LEMMA BetterRanks ==
  ASSUME NEW i \in Nat, NEW j \in Nat, NEW k \in Nat, NEW l \in Nat,
         k # 0 \/ l # 0,
         k = 0 \/ (i # 0 /\ i <= k), l = 0 \/ (j # 0 /\ j <= l),
         (i # 0 /\ (k = 0 \/ i < k)) \/ (j # 0 /\ (l = 0 \/ j < l))
  PROVE  Score(i, j)[1] * Score(k, l)[2] > Score(k, l)[1] * Score(i, j)[2]
<1> DEFINE u == RrfK + i
           v == RrfK + j
           p == RrfK + k
           q == RrfK + l
<1>1. u \in Positive /\ v \in Positive /\ p \in Positive /\ q \in Positive
  BY DEF RrfK, Positive
<1>2. /\ u * v \in Positive /\ p * q \in Positive /\ (u + v) \in Positive
      /\ u * p \in Positive /\ v * q \in Positive /\ u * q \in Positive
  BY <1>1, Products DEF Positive
<1>3. CASE k = 0 /\ i = 0
  <2>1. Score(i, j) = <<1, v>> /\ Score(k, l) = <<1, q>> /\ v < q
    BY <1>3 DEF Score, RrfK
  <2> HIDE DEF v, q
  <2> QED  BY <1>1, <2>1 DEF Positive
<1>4. CASE k = 0 /\ i # 0
  <2>1. /\ Score(i, j) = <<u + v, u * v>> /\ Score(k, l) = <<1, q>>
        /\ u < u + v /\ (v < q \/ v = q)
    BY <1>4 DEF Score, RrfK
  <2> HIDE DEF u, v, p, q
  <2>2. u * q < (u + v) * q /\ (u + v) * q \in Positive
    BY <1>1, <1>2, <2>1, Products
  <2>3. v * u < q * u \/ v * u = q * u
    BY <1>1, <2>1, Products
  <2>4. v * u = u * v /\ q * u = u * q
    BY <1>1 DEF Positive
  <2>5. u * v < (u + v) * q
    BY <1>2, <2>2, <2>3, <2>4 DEF Positive
  <2>6. 1 * (u * v) = u * v
    BY <1>2 DEF Positive
  <2> QED  BY <1>2, <2>1, <2>2, <2>5, <2>6 DEF Positive
<1>5. CASE l = 0 /\ j = 0
  <2>1. Score(i, j) = <<1, u>> /\ Score(k, l) = <<1, p>> /\ u < p
    BY <1>5 DEF Score, RrfK
  <2> HIDE DEF u, p
  <2> QED  BY <1>1, <2>1 DEF Positive
<1>6. CASE l = 0 /\ j # 0
  <2>1. /\ Score(i, j) = <<u + v, u * v>> /\ Score(k, l) = <<1, p>>
        /\ v < u + v /\ (u < p \/ u = p)
    BY <1>6 DEF Score, RrfK
  <2> HIDE DEF u, v, p, q
  <2>2. v * p < (u + v) * p /\ (u + v) * p \in Positive /\ v * p \in Positive
    BY <1>1, <1>2, <2>1, Products
  <2>3. u * v < p * v \/ u * v = p * v
    BY <1>1, <2>1, Products
  <2>4. p * v = v * p
    BY <1>1 DEF Positive
  <2>5. u * v < (u + v) * p
    BY <1>2, <2>2, <2>3, <2>4 DEF Positive
  <2>6. 1 * (u * v) = u * v
    BY <1>2 DEF Positive
  <2> QED  BY <1>2, <2>1, <2>2, <2>5, <2>6 DEF Positive
<1>7. CASE k # 0 /\ l # 0
  <2>1. /\ Score(i, j) = <<u + v, u * v>> /\ Score(k, l) = <<p + q, p * q>>
    BY <1>7 DEF Score, RrfK
  <2>2. /\ u < p \/ u = p
        /\ v < q \/ v = q
        /\ u < p \/ v < q
    BY <1>7 DEF RrfK
  <2> HIDE DEF u, v, p, q
  <2>3. /\ v < q => v * (u * p) < q * (u * p)
        /\ v = q => v * (u * p) = q * (u * p)
        /\ u < p => u * (v * q) < p * (v * q)
        /\ u = p => u * (v * q) = p * (v * q)
    BY <1>1, <1>2, Products
  <2>4. /\ (u + v) * (p * q) = q * (u * p) + p * (v * q)
        /\ (p + q) * (u * v) = v * (u * p) + u * (v * q)
    BY <1>1 DEF Positive
  <2>5. /\ v * (u * p) \in Positive /\ q * (u * p) \in Positive
        /\ u * (v * q) \in Positive /\ p * (v * q) \in Positive
    BY <1>1, <1>2, Products
  <2> DEFINE a == v * (u * p)
             b == q * (u * p)
             c == u * (v * q)
             d == p * (v * q)
  <2>6. /\ a \in Positive /\ b \in Positive /\ c \in Positive /\ d \in Positive
        /\ (a < b \/ a = b) /\ (c < d \/ c = d) /\ (a < b \/ c < d)
    BY <2>2, <2>3, <2>5
  <2>7. (u + v) * (p * q) = b + d /\ (p + q) * (u * v) = a + c
    BY <2>4
  <2> HIDE DEF a, b, c, d
  <2>8. b + d > a + c
    BY <2>6 DEF Positive
  <2>9. Score(i, j)[1] * Score(k, l)[2] = b + d /\ Score(k, l)[1] * Score(i, j)[2] = a + c
    BY <2>1, <2>7
  <2> QED  BY <2>8, <2>9
<1> QED  BY <1>3, <1>4, <1>5, <1>6, <1>7

-----------------------------------------------------------------------------
(* Rows.                                                                     *)

Source  == {Body, Meta, Near} \union {Edge(e) : e \in Entity} \union {Child(e) : e \in Entity}
Row     == [id : Entity, why : Seq(Source)]
RowList == {rs \in Seq(Row) : IsInjective(IdsOf(rs))}

\* The entities of rows of which no two are of one entity.
LEMMA RowListFacts ==
  ASSUME NEW rs \in RowList
  PROVE  /\ rs \in Seq(Row) /\ IdsOf(rs) \in Listing /\ ToSet(IdsOf(rs)) = Ids(rs)
         /\ Len(IdsOf(rs)) = Len(rs) /\ DOMAIN IdsOf(rs) = DOMAIN rs
         /\ Ids(rs) \subseteq Entity
         /\ \A i \in DOMAIN rs : rs[i] \in Row /\ At(rs, rs[i].id) = i
         /\ \A e \in Ids(rs) : At(rs, e) \in DOMAIN rs /\ rs[At(rs, e)].id = e
         /\ \A e \in Entity : RowOf(rs, e) \in Row /\ RowOf(rs, e).id = e
<1>1. rs \in Seq(Row) /\ IsInjective(IdsOf(rs))
  BY DEF RowList
<1>2. Len(rs) \in Nat /\ DOMAIN rs = 1..Len(rs) /\ \A i \in DOMAIN rs : rs[i] \in Row
  BY <1>1, LenProperties
<1>3. \A i \in DOMAIN rs : rs[i].id \in Entity
  BY <1>2 DEF Row
<1>4. IdsOf(rs) \in Seq(Entity) /\ DOMAIN IdsOf(rs) = DOMAIN rs /\ Len(IdsOf(rs)) = Len(rs)
  BY <1>2, <1>3, IsASeq DEF IdsOf
<1>5. IdsOf(rs) \in Listing /\ ToSet(IdsOf(rs)) = Ids(rs) /\ Ids(rs) \subseteq Entity
  BY <1>1, <1>3, <1>4 DEF Listing, ToSet, IdsOf, Ids
<1>6. \A i, j \in DOMAIN rs : rs[i].id = rs[j].id => i = j
  BY <1>1 DEF IsInjective, IdsOf
<1>7. \A i \in DOMAIN rs : At(rs, rs[i].id) = i
  BY <1>6 DEF At
<1>8. \A e \in Ids(rs) : At(rs, e) \in DOMAIN rs /\ rs[At(rs, e)].id = e
  BY <1>7 DEF Ids
<1>9. ASSUME NEW e \in Entity
      PROVE  RowOf(rs, e) \in Row /\ RowOf(rs, e).id = e
  <2>1. CASE e \in Ids(rs)
    BY <1>2, <1>8, <2>1 DEF RowOf
  <2>2. CASE e \notin Ids(rs)
    <3>1. RowOf(rs, e) = [id |-> e, why |-> <<>>]
      BY <2>2 DEF RowOf
    <3>2. <<>> \in Seq(Source)
      BY EmptySeq
    <3> QED  BY <3>1, <3>2 DEF Row
  <2> QED  BY <2>1, <2>2
<1> QED  BY <1>1, <1>2, <1>4, <1>5, <1>7, <1>8, <1>9

\* Adding sources.
LEMMA AddSourcesFacts ==
  ASSUME NEW r \in Row, NEW new \in Seq(Source)
  PROVE  AddSources(r, new) \in Row /\ AddSources(r, new).id = r.id
<1>1. r.id \in Entity /\ r.why \in Seq(Source)
  BY DEF Row
<1>2. r.why \o new \in Seq(Source)
  BY <1>1, ConcatProperties
<1>3. FirstOfEach(r.why \o new) \in Seq(Source)
  BY <1>2, FirstOfEachMembers
<1> QED  BY <1>1, <1>3 DEF AddSources, Row

\* A list of rows made from a list of entities.
LEMMA RowsMade ==
  ASSUME NEW ids \in Listing, NEW rs, DOMAIN rs = DOMAIN ids, rs = [i \in DOMAIN ids |-> rs[i]],
         \A i \in DOMAIN ids : rs[i] \in Row /\ rs[i].id = ids[i]
  PROVE  rs \in RowList /\ IdsOf(rs) = ids /\ Ids(rs) = ToSet(ids)
<1>1. ids \in Seq(Entity) /\ IsInjective(ids)
  BY DEF Listing
<1>2. Len(ids) \in Nat /\ DOMAIN ids = 1..Len(ids) /\ ids = [i \in 1..Len(ids) |-> ids[i]]
  BY <1>1, LenProperties
<1>3. rs \in Seq(Row)
  BY <1>2, IsASeq
<1>4. IdsOf(rs) = ids
  BY <1>2 DEF IdsOf
<1> QED  BY <1>1, <1>3, <1>4 DEF RowList, Ids, ToSet

\* Cutting a list of rows.
LEMMA CutRows ==
  ASSUME NEW rs \in RowList, NEW n \in Nat
  PROVE  Cut(rs, n) \in RowList /\ Ids(Cut(rs, n)) \subseteq Ids(rs)
<1>1. rs \in Seq(Row) /\ IsInjective(IdsOf(rs))
  BY DEF RowList
<1>2. /\ Cut(rs, n) \in Seq(Row)
      /\ \A i \in DOMAIN Cut(rs, n) : i \in DOMAIN rs /\ Cut(rs, n)[i] = rs[i]
  BY <1>1, CutMembers
<1>3. IsInjective(IdsOf(Cut(rs, n)))
  BY <1>1, <1>2 DEF IsInjective, IdsOf
<1> QED  BY <1>2, <1>3 DEF RowList, Ids

\* A part of a list of rows.
LEMMA SubRows ==
  ASSUME NEW rs \in RowList, NEW I \in SUBSET DOMAIN rs
  PROVE  /\ Sub(rs, I) \in RowList
         /\ Ids(Sub(rs, I)) = {rs[i].id : i \in I}
<1> DEFINE t == Sub(rs, I)
<1>1. rs \in Seq(Row) /\ IsInjective(IdsOf(rs))
  BY DEF RowList
<1>2. IsInjective(rs)
  BY <1>1 DEF IsInjective, IdsOf
<1>3. /\ t \in Seq(Row) /\ IsInjective(t)
      /\ \A k \in DOMAIN t : \E i \in I : t[k] = rs[i]
      /\ \A i \in I : \E k \in DOMAIN t : t[k] = rs[i]
  BY <1>1, <1>2, SubMembers
<1> HIDE DEF t
<1>4. \A j, k \in DOMAIN t : t[j].id = t[k].id => j = k
  <2> SUFFICES ASSUME NEW j \in DOMAIN t, NEW k \in DOMAIN t, t[j].id = t[k].id
               PROVE  j = k
    OBVIOUS
  <2>1. PICK x \in I : t[j] = rs[x]
    BY <1>3
  <2>2. PICK y \in I : t[k] = rs[y]
    BY <1>3
  <2>3. x = y
    BY <1>1, <2>1, <2>2 DEF IsInjective, IdsOf
  <2> QED  BY <1>3, <2>1, <2>2, <2>3 DEF IsInjective
<1>5. t \in RowList
  BY <1>3, <1>4 DEF RowList, IsInjective, IdsOf
<1>6. Ids(t) = {rs[i].id : i \in I}
  <2>1. \A k \in DOMAIN t : t[k].id \in {rs[i].id : i \in I}
    BY <1>3
  <2>2. \A i \in I : rs[i].id \in Ids(t)
    BY <1>3 DEF Ids
  <2> QED  BY <2>1, <2>2 DEF Ids
<1> QED  BY <1>5, <1>6 DEF t

\* sortSearchRows puts rows in an order.
LEMMA BeforeOrders ==
  ASSUME NEW rs \in Seq(Row)
  PROVE  Orders({x \in (DOMAIN rs) \X (DOMAIN rs) : Before(rs, x[1], x[2])}, DOMAIN rs)
<1> DEFINE D == DOMAIN rs
           A == {i \in D : Has(rs[i], Body)}
           B == {i \in D : IsDocumentByEdge(rs[i])}
           l == [i \in D |-> Len(rs[i].why)]
           R == {x \in D \X D : Before(rs, x[1], x[2])}
           In(i, j) == \/ i \in A /\ j \notin A
                       \/ /\ i \in A <=> j \in A
                          /\ \/ i \in B /\ j \notin B
                             \/ /\ i \in B <=> j \in B
                                /\ l[i] > l[j] \/ (l[i] = l[j] /\ i < j)
<1>1. Len(rs) \in Nat /\ D = 1..Len(rs) /\ \A i \in D : rs[i] \in Row
  BY LenProperties
<1>2. \A i \in D : l[i] \in Nat
  BY <1>1, LenProperties DEF Row
<1>3. ASSUME NEW i \in D, NEW j \in D
      PROVE  <<i, j>> \in R <=> In(i, j)
  <2>1. <<i, j>> \in R <=> Before(rs, i, j)
    OBVIOUS
  <2>2. /\ Has(rs[i], Body) = (i \in A) /\ Has(rs[j], Body) = (j \in A)
        /\ IsDocumentByEdge(rs[i]) = (i \in B) /\ IsDocumentByEdge(rs[j]) = (j \in B)
    BY DEF Has, IsDocumentByEdge
  <2>3. l[i] = Len(rs[i].why) /\ l[j] = Len(rs[j].why) /\ l[i] \in Nat /\ l[j] \in Nat
    BY <1>2
  <2>4. Before(rs, i, j) <=>
          (IF (i \in A) # (j \in A) THEN i \in A
           ELSE IF (i \in B) # (j \in B) THEN i \in B
           ELSE IF l[i] # l[j] THEN l[i] > l[j]
           ELSE i < j)
    <3> HIDE DEF A, B, l, D
    <3> QED  BY <2>2, <2>3 DEF Before
  <2> HIDE DEF R, A, B, l
  <2> QED  BY <1>1, <2>1, <2>3, <2>4
<1> HIDE DEF A, B, l, R, D
<1>4. \A i \in D : ~In(i, i)
  BY <1>1, <1>2
<1>5. \A i, j \in D : i # j => In(i, j) \/ In(j, i)
  BY <1>1, <1>2
<1>6. \A i, j, k \in D : In(i, j) /\ In(j, k) => In(i, k)
  BY <1>1, <1>2
<1> HIDE DEF In
<1>7. Orders(R, D)
  BY <1>3, <1>4, <1>5, <1>6 DEF Orders
<1> QED  BY <1>7 DEF R, D

\* ... and neither loses nor repeats any.
LEMMA SortedRows ==
  ASSUME NEW rs \in RowList
  PROVE  Sorted(rs) \in RowList /\ Ids(Sorted(rs)) = Ids(rs)
<1> DEFINE D == DOMAIN rs
           R == {x \in D \X D : Before(rs, x[1], x[2])}
           n == Cardinality(D)
           at == InOrder(D, R)
           t == Sorted(rs)
<1>1. rs \in Seq(Row) /\ IsInjective(IdsOf(rs)) /\ D = 1..Len(rs) /\ Len(rs) \in Nat
  BY LenProperties DEF RowList
<1>2. IsFiniteSet(D)
  BY <1>1, FS_Interval
<1>3. Orders(R, D)
  BY <1>1, BeforeOrders
<1>4. t = [k \in DOMAIN at |-> rs[at[k]]]
  BY DEF Sorted
<1> HIDE DEF R, D
<1>5. /\ n \in Nat /\ at \in Seq(D) /\ Len(at) = n /\ ToSet(at) = D /\ IsInjective(at)
  <2>1. D \in SUBSET D
    OBVIOUS
  <2>2. at \in Seq(D) /\ Len(at) = n /\ ToSet(at) = D /\ IsInjective(at)
    BY <1>2, <1>3, <2>1, OrderedAhead
  <2> QED  BY <1>2, <2>2, FS_CardinalityType
<1> HIDE DEF at, t
<1>6. DOMAIN at = 1..n /\ \A k \in 1..n : at[k] \in D
  BY <1>5, LenProperties
<1>7. \A k \in 1..n : rs[at[k]] \in Row
  BY <1>1, <1>6, LenProperties
<1>8. t \in Seq(Row) /\ DOMAIN t = 1..n
  BY <1>4, <1>5, <1>6, <1>7, IsASeq, LenProperties
<1>9. IsInjective(IdsOf(t))
  <2>1. \A i, j \in D : rs[i].id = rs[j].id => i = j
    BY <1>1 DEF IsInjective, IdsOf, D
  <2>2. \A j, k \in 1..n : t[j].id = t[k].id => j = k
    BY <1>4, <1>5, <1>6, <2>1 DEF IsInjective
  <2> QED  BY <1>8, <2>2 DEF IsInjective, IdsOf
<1>10. Ids(t) = Ids(rs)
  <2>1. \A i \in D : \E k \in 1..n : at[k] = i
    BY <1>5, <1>6 DEF ToSet
  <2> QED  BY <1>4, <1>6, <1>8, <2>1 DEF Ids, D
<1> QED  BY <1>8, <1>9, <1>10 DEF RowList, t

-----------------------------------------------------------------------------
(* What the parts of a search find.                                          *)

\* What a corpus is.
LEMMA CorpusFacts ==
  ASSUME corpus \in Corpora
  PROVE  /\ corpus.limit \in Nat \ {0} /\ Pool \in Nat /\ 3 * Pool \in Nat
         /\ corpus.project \in BOOLEAN
         /\ corpus.parent \in [Entity -> Entity \union {Gone}]
         /\ corpus.edges \in SUBSET (Entity \X Entity) /\ corpus.named \in SUBSET Entity
         /\ corpus.body \in Listing /\ corpus.bodyAny \in Listing
         /\ corpus.meta \in Listing /\ corpus.metaAny \in Listing
         /\ corpus.near \in Listing /\ corpus.order \in Listing
         /\ ToSet(corpus.order) = Entity
<1>1. corpus.limit \in Nat \ {0}
  BY CorporaAssumption
<1>2. Pool \in Nat /\ 3 * Pool \in Nat
  BY <1>1 DEF Pool
<1> QED  BY <1>1, <1>2, CorporaAssumption

\* Parts of listings are listings.
LEMMA ListingParts ==
  ASSUME NEW s \in Listing, NEW n \in Nat, NEW S
  PROVE  /\ s \in Seq(Entity) /\ IsInjective(s) /\ ToSet(s) \subseteq Entity
         /\ Cut(s, n) \in Listing /\ ToSet(Cut(s, n)) \subseteq ToSet(s)
         /\ Filter(s, S) \in Listing /\ ToSet(Filter(s, S)) = ToSet(s) \intersect S
<1>1. s \in Seq(Entity) /\ IsInjective(s)
  BY DEF Listing
<1>2. Cut(s, n) \in Seq(Entity) /\ IsInjective(Cut(s, n)) /\ ToSet(Cut(s, n)) \subseteq ToSet(s)
  BY <1>1, CutMembers
<1>3. /\ Filter(s, S) \in Seq(Entity) /\ IsInjective(Filter(s, S))
      /\ ToSet(Filter(s, S)) = ToSet(s) \intersect S
  BY <1>1, FilterMembers
<1>4. ToSet(s) \subseteq Entity
  BY <1>1, LenProperties DEF ToSet
<1> QED  BY <1>1, <1>2, <1>3, <1>4 DEF Listing

\* A query finds entities that are there.
LEMMA HitsFacts ==
  ASSUME corpus \in Corpora
  PROVE  /\ BodyHits \in Listing /\ ToSet(BodyHits) \subseteq Standing
         /\ MetaHits \in Listing /\ ToSet(MetaHits) \subseteq Standing
<1>1. ASSUME NEW s \in Listing
      PROVE  Hits(s, Pool) \in Listing /\ ToSet(Hits(s, Pool)) \subseteq Standing
  <2>1. Pool \in Nat
    BY CorpusFacts
  <2>2. Filter(s, Standing) \in Listing /\ ToSet(Filter(s, Standing)) \subseteq Standing
    BY <2>1, ListingParts
  <2> QED  BY <2>1, <2>2, ListingParts DEF Hits
<1>2. /\ corpus.body \in Listing /\ corpus.bodyAny \in Listing
      /\ Filter(corpus.meta, Sought) \in Listing /\ Filter(corpus.metaAny, Sought) \in Listing
  BY CorpusFacts, ListingParts
<1> QED  BY <1>1, <1>2 DEF BodyHits, MetaHits, OrElse

\* collectSearchRows: no two rows are of one entity, and each is of a hit.
LEMMA CollectedRows ==
  ASSUME corpus \in Corpora, NEW body \in Listing, NEW meta \in Listing
  PROVE  /\ Collected(body, meta) \in RowList
         /\ Ids(Collected(body, meta)) \subseteq ToSet(body) \union ToSet(meta)
<1> DEFINE first == Filter(body, Sought)
           ids == FirstOfEach(first \o meta)
           why(e) == (IF e \in ToSet(first) THEN <<Body>> ELSE <<>>)
                     \o (IF e \in ToSet(meta) THEN <<Meta>> ELSE <<>>)
           rs == [i \in DOMAIN ids |-> [id |-> ids[i], why |-> why(ids[i])]]
<1>1. Pool \in Nat
  BY CorpusFacts
<1>2. /\ first \in Seq(Entity) /\ meta \in Seq(Entity)
      /\ ToSet(first) \subseteq ToSet(body) /\ ToSet(body) \subseteq Entity
      /\ ToSet(meta) \subseteq Entity
  <2>1. first \in Listing /\ ToSet(first) = ToSet(body) \intersect Sought
    BY <1>1, ListingParts
  <2> HIDE DEF first
  <2> QED  BY <1>1, <2>1, ListingParts
<1> HIDE DEF first
<1>3. first \o meta \in Seq(Entity) /\ ToSet(first \o meta) = ToSet(first) \union ToSet(meta)
  BY <1>2, ConcatMembers
<1>4. ids \in Listing /\ ToSet(ids) = ToSet(first) \union ToSet(meta)
  BY <1>3, FirstOfEachMembers DEF Listing
<1> HIDE DEF ids
<1>5. \A i \in DOMAIN ids : ids[i] \in Entity
  BY <1>2, <1>4 DEF ToSet
<1>6. ASSUME NEW e
      PROVE  why(e) \in Seq(Source)
  <2>1. Body \in Source /\ Meta \in Source
    BY DEF Source
  <2>2. <<>> \in Seq(Source) /\ <<Body>> \in Seq(Source) /\ <<Meta>> \in Seq(Source)
    <3> HIDE DEF Body, Meta, Source
    <3> QED  BY <2>1
  <2> QED  BY <2>2, ConcatProperties
<1> HIDE DEF why
<1>7. \A i \in DOMAIN ids : rs[i] \in Row /\ rs[i].id = ids[i]
  BY <1>5, <1>6 DEF Row
<1>8. rs \in RowList /\ Ids(rs) = ToSet(ids)
  <2>1. DOMAIN rs = DOMAIN ids /\ rs = [i \in DOMAIN ids |-> rs[i]]
    OBVIOUS
  <2> HIDE DEF rs
  <2> QED  BY <1>4, <1>7, <2>1, RowsMade
<1>9. Collected(body, meta) = Cut(Sorted(rs), Pool)
  BY DEF Collected, first, ids, why
<1> HIDE DEF rs
<1>10. Sorted(rs) \in RowList /\ Ids(Sorted(rs)) = ToSet(ids)
  BY <1>8, SortedRows
<1>11. Cut(Sorted(rs), Pool) \in RowList /\ Ids(Cut(Sorted(rs), Pool)) \subseteq ToSet(ids)
  BY <1>1, <1>10, CutRows
<1> QED  BY <1>2, <1>4, <1>9, <1>11

\* The edges into rows are edges between entities that are there.
LEMMA EdgesFound ==
  ASSUME corpus \in Corpora, NEW rs \in RowList
  PROVE  /\ EdgesInto(rs) \in Seq(Entity \X Entity)
         /\ \A i \in DOMAIN EdgesInto(rs) :
               Exists(EdgesInto(rs)[i][1]) /\ EdgesInto(rs)[i][1] \in Entity
<1> DEFINE into == {x \in corpus.edges : x[2] \in Ids(rs) /\ Exists(x[2]) /\ Exists(x[1])}
           earlier(x, y) == \/ At(rs, x[2]) < At(rs, y[2])
                            \/ /\ x[2] = y[2]
                               /\ Place(corpus.order, x[1]) < Place(corpus.order, y[1])
           R == {z \in into \X into : earlier(z[1], z[2])}
           t == InOrder(into, R)
<1>1. /\ corpus.edges \in SUBSET (Entity \X Entity) /\ corpus.order \in Seq(Entity)
      /\ IsInjective(corpus.order) /\ ToSet(corpus.order) = Entity
  BY CorpusFacts DEF Listing
<1>2. into \in SUBSET (Entity \X Entity)
  BY <1>1
<1>3. IsFiniteSet(into)
  <2>1. IsFiniteSet(Entity \X Entity)
    BY SemanticAssumption, FS_Product
  <2> HIDE DEF into
  <2> QED  BY <1>2, <2>1, FS_Subset
<1>4. Orders(R, into)
  <2>1. \A x \in into : At(rs, x[2]) \in Nat /\ x[2] = rs[At(rs, x[2])].id
    <3>1. \A e \in Ids(rs) : At(rs, e) \in DOMAIN rs /\ e = rs[At(rs, e)].id
      BY RowListFacts
    <3>2. DOMAIN rs = 1..Len(rs) /\ Len(rs) \in Nat
      BY RowListFacts, LenProperties
    <3> QED  BY <3>1, <3>2
  <2>2. \A x \in into : /\ Place(corpus.order, x[1]) \in Nat
                        /\ corpus.order[Place(corpus.order, x[1])] = x[1]
    BY <1>1, Places
  <2>3. \A x, y \in into : x[1] = y[1] /\ x[2] = y[2] => x = y
    BY <1>2
  <2>4. \A x, y \in into : <<x, y>> \in R <=> earlier(x, y)
    OBVIOUS
  <2> HIDE DEF into, R
  <2>5. \A x \in into : ~earlier(x, x)
    BY <2>1, <2>2
  <2>6. \A x, y \in into : x # y => earlier(x, y) \/ earlier(y, x)
    <3> SUFFICES ASSUME NEW x \in into, NEW y \in into, x # y
                 PROVE  earlier(x, y) \/ earlier(y, x)
      OBVIOUS
    <3>1. CASE x[2] # y[2]
      <4>1. At(rs, x[2]) # At(rs, y[2])
        BY <2>1, <3>1
      <4> QED  BY <2>1, <4>1
    <3>2. CASE x[2] = y[2]
      <4>1. Place(corpus.order, x[1]) # Place(corpus.order, y[1])
        BY <2>2, <2>3, <3>2
      <4> QED  BY <2>2, <3>2, <4>1
    <3> QED  BY <3>1, <3>2
  <2>7. \A x, y, z \in into : earlier(x, y) /\ earlier(y, z) => earlier(x, z)
    BY <2>1, <2>2
  <2> HIDE DEF earlier
  <2> QED  BY <2>4, <2>5, <2>6, <2>7 DEF Orders
<1>5. EdgesInto(rs) = t
  BY DEF EdgesInto
<1>6. \A x \in into : Exists(x[1]) /\ x[1] \in Entity
  BY <1>2
<1> HIDE DEF into, R
<1>7. t \in Seq(Entity \X Entity) /\ ToSet(t) = into
  BY <1>2, <1>3, <1>4, OrderedAhead
<1>8. \A i \in DOMAIN t : t[i] \in into
  BY <1>7 DEF ToSet
<1> HIDE DEF t
<1> QED  BY <1>5, <1>6, <1>7, <1>8

\* expandHybridRows: what comes in is the source of an edge.
LEMMA ExpandedRows ==
  ASSUME corpus \in Corpora, NEW rs \in RowList, NEW edges \in Seq(Entity \X Entity)
  PROVE  /\ Expanded(rs, edges) \in RowList
         /\ Ids(Expanded(rs, edges)) \subseteq Ids(rs) \union {edges[i][1] : i \in DOMAIN edges}
<1> DEFINE I == {i \in DOMAIN edges : edges[i][1] \in Sought}
           follow == Sub(edges, I)
           sources == [i \in DOMAIN follow |-> follow[i][1]]
           ids == FirstOfEach(IdsOf(rs) \o sources)
           from(e) == Sub(follow, {i \in DOMAIN follow : follow[i][1] = e})
           new(e) == [i \in DOMAIN from(e) |-> Edge(from(e)[i][2])]
           made == [i \in DOMAIN ids |-> AddSources(RowOf(rs, ids[i]), new(ids[i]))]
<1>1. Pool \in Nat
  BY CorpusFacts
<1>2. /\ follow \in Seq(Entity \X Entity)
      /\ \A k \in DOMAIN follow : \E i \in I : follow[k] = edges[i]
  <2>1. I \in SUBSET DOMAIN edges
    OBVIOUS
  <2> HIDE DEF I
  <2> QED  BY <2>1, SubMembers
<1> HIDE DEF follow
<1>3. Len(follow) \in Nat /\ DOMAIN follow = 1..Len(follow) /\ \A k \in DOMAIN follow : follow[k] \in Entity \X Entity
  BY <1>2, LenProperties
<1>4. sources \in Seq(Entity) /\ ToSet(sources) \subseteq {edges[i][1] : i \in DOMAIN edges}
  <2>1. sources \in Seq(Entity) /\ DOMAIN sources = DOMAIN follow
    BY <1>3, IsASeq
  <2>2. \A k \in DOMAIN follow : sources[k] \in {edges[i][1] : i \in DOMAIN edges}
    BY <1>2
  <2> HIDE DEF sources
  <2> QED  BY <2>1, <2>2 DEF ToSet
<1>5. IdsOf(rs) \in Seq(Entity) /\ ToSet(IdsOf(rs)) = Ids(rs)
  BY RowListFacts DEF Listing
<1> HIDE DEF sources
<1>6. IdsOf(rs) \o sources \in Seq(Entity) /\ ToSet(IdsOf(rs) \o sources) = Ids(rs) \union ToSet(sources)
  BY <1>4, <1>5, ConcatMembers
<1>7. ids \in Listing /\ ToSet(ids) = Ids(rs) \union ToSet(sources)
  BY <1>6, FirstOfEachMembers DEF Listing
<1> HIDE DEF ids
<1>8. \A i \in DOMAIN ids : ids[i] \in Entity
  BY <1>7, LenProperties DEF Listing
<1>9. ASSUME NEW e
      PROVE  new(e) \in Seq(Source)
  <2>1. {i \in DOMAIN follow : follow[i][1] = e} \in SUBSET DOMAIN follow
    OBVIOUS
  <2>2. from(e) \in Seq(Entity \X Entity)
    BY <1>2, <2>1, SubMembers
  <2> HIDE DEF from
  <2>3. /\ Len(from(e)) \in Nat /\ DOMAIN from(e) = 1..Len(from(e))
        /\ \A k \in DOMAIN from(e) : from(e)[k] \in Entity \X Entity
    BY <2>2, LenProperties
  <2>4. \A k \in DOMAIN from(e) : Edge(from(e)[k][2]) \in Source
    BY <2>3 DEF Source
  <2> QED  BY <2>3, <2>4, IsASeq
<1> HIDE DEF new
<1>10. \A i \in DOMAIN ids : made[i] \in Row /\ made[i].id = ids[i]
  <2> SUFFICES ASSUME NEW i \in DOMAIN ids PROVE made[i] \in Row /\ made[i].id = ids[i]
    OBVIOUS
  <2>1. RowOf(rs, ids[i]) \in Row /\ RowOf(rs, ids[i]).id = ids[i]
    BY <1>8, RowListFacts
  <2> QED  BY <1>9, <2>1, AddSourcesFacts
<1>11. made \in RowList /\ Ids(made) = ToSet(ids)
  <2>1. DOMAIN made = DOMAIN ids /\ made = [i \in DOMAIN ids |-> made[i]]
    OBVIOUS
  <2> HIDE DEF made
  <2> QED  BY <1>7, <1>10, <2>1, RowsMade
<1>12. Expanded(rs, edges) = Cut(Sorted(made), Pool)
  BY DEF Expanded, follow, sources, ids, new
<1> HIDE DEF made
<1>13. Sorted(made) \in RowList /\ Ids(Sorted(made)) = ToSet(ids)
  BY <1>11, SortedRows
<1>14. Cut(Sorted(made), Pool) \in RowList /\ Ids(Cut(Sorted(made), Pool)) \subseteq ToSet(ids)
  BY <1>1, <1>13, CutRows
<1> QED  BY <1>4, <1>7, <1>12, <1>14

-----------------------------------------------------------------------------
(* Fusion.                                                                   *)

\* A sequence without repetitions is as long as its members are many.
LEMMA InjectiveLength ==
  ASSUME NEW T, NEW s \in Seq(T), IsInjective(s)
  PROVE  IsFiniteSet(ToSet(s)) /\ Cardinality(ToSet(s)) = Len(s)
<1>1. Len(s) \in Nat /\ DOMAIN s = 1..Len(s) /\ s \in [1..Len(s) -> T]
  BY LenProperties
<1>2. s \in [1..Len(s) -> ToSet(s)] /\ \A e \in ToSet(s) : \E i \in 1..Len(s) : s[i] = e
  BY <1>1 DEF ToSet
<1>3. \A i, j \in 1..Len(s) : s[i] = s[j] => i = j
  BY <1>1 DEF IsInjective
<1>4. s \in Bijection(1..Len(s), ToSet(s))
  BY <1>2, <1>3, Fun_IsBij
<1>5. ExistsBijection(1..Len(s), ToSet(s))
  BY <1>4 DEF ExistsBijection
<1>6. Cardinality(ToSet(s)) = Len(s)
  BY <1>1, <1>5, FS_CountingElements
<1>7. IsFiniteSet(ToSet(s))
  BY <1>1, <1>5, FS_NatBijection
<1> QED  BY <1>6, <1>7

\* e is ahead of f in one of two listings and behind it in none.
Leads(ids, found, e, f) ==
    /\ IsAhead(ids, e, f) \/ IsAhead(found, e, f)
    /\ ~IsAhead(ids, f, e) /\ ~IsAhead(found, f, e)

\* The better of two entities: an order, in which whatever leads is the better.
LEMMA BetterOrders ==
  ASSUME corpus \in Corpora, NEW ids \in Listing, NEW found \in Listing,
         NEW all, all = ToSet(ids) \union ToSet(found)
  PROVE  /\ Orders({x \in all \X all : Better(ids, found, x[1], x[2])}, all)
         /\ \A e, f \in all : Leads(ids, found, e, f) => Better(ids, found, e, f)
<1> DEFINE i(e) == Place(ids, e)
           j(e) == Place(found, e)
           num == [e \in all |-> Score(i(e), j(e))[1]]
           den == [e \in all |-> Score(i(e), j(e))[2]]
           fst == [e \in all |-> FirstRank(i(e), j(e))]
           at  == [e \in all |-> Place(corpus.order, e)]
           R   == {x \in all \X all : Better(ids, found, x[1], x[2])}
<1>1. /\ ids \in Seq(Entity) /\ IsInjective(ids) /\ ToSet(ids) \subseteq Entity
      /\ found \in Seq(Entity) /\ IsInjective(found) /\ ToSet(found) \subseteq Entity
      /\ corpus.order \in Seq(Entity) /\ IsInjective(corpus.order) /\ ToSet(corpus.order) = Entity
  <2>1. /\ ids \in Seq(Entity) /\ IsInjective(ids) /\ found \in Seq(Entity) /\ IsInjective(found)
        /\ corpus.order \in Seq(Entity) /\ IsInjective(corpus.order) /\ ToSet(corpus.order) = Entity
    BY CorpusFacts DEF Listing
  <2>2. ToSet(ids) \subseteq Entity /\ ToSet(found) \subseteq Entity
    BY <2>1, LenProperties DEF ToSet
  <2> QED  BY <2>1, <2>2
<1>2. \A e : i(e) \in Nat /\ j(e) \in Nat
  BY <1>1, Places
<1>3. \A e \in all : i(e) # 0 \/ j(e) # 0
  BY <1>1, Places
<1>4. all \subseteq Entity
  BY <1>1
<1>5. /\ num \in [all -> Positive] /\ den \in [all -> Positive]
  BY <1>2, Scores
<1>6. fst \in [all -> Nat]
  BY <1>2 DEF FirstRank
<1>7. at \in [all -> Nat] /\ \A e, f \in all : at[e] = at[f] => e = f
  <2>1. \A e \in Entity : /\ Place(corpus.order, e) \in Nat
                          /\ corpus.order[Place(corpus.order, e)] = e
    BY <1>1, Places
  <2> QED  BY <1>4, <2>1
<1>8. \A e, f \in all :
         Better(ids, found, e, f) <=>
             (IF num[e] * den[f] # num[f] * den[e] THEN num[e] * den[f] > num[f] * den[e]
              ELSE IF fst[e] # fst[f] THEN fst[e] < fst[f]
              ELSE at[e] < at[f])
  BY DEF Better
<1>9. R = {z \in all \X all :
              IF num[z[1]] * den[z[2]] # num[z[2]] * den[z[1]]
              THEN num[z[1]] * den[z[2]] > num[z[2]] * den[z[1]]
              ELSE IF fst[z[1]] # fst[z[2]] THEN fst[z[1]] < fst[z[2]]
              ELSE at[z[1]] < at[z[2]]}
  <2> HIDE DEF num, den, fst, at
  <2> QED  BY <1>8
<1>10. Orders(R, all)
  <2> HIDE DEF num, den, fst, at, R
  <2> QED  BY <1>5, <1>6, <1>7, <1>9, ByFraction
<1>11. ASSUME NEW e \in all, NEW f \in all, Leads(ids, found, e, f)
       PROVE  Better(ids, found, e, f)
  <2>1. /\ i(f) = 0 \/ (i(e) # 0 /\ i(e) <= i(f))
        /\ j(f) = 0 \/ (j(e) # 0 /\ j(e) <= j(f))
        /\ (i(e) # 0 /\ (i(f) = 0 \/ i(e) < i(f))) \/ (j(e) # 0 /\ (j(f) = 0 \/ j(e) < j(f)))
    BY <1>2, <1>11 DEF Leads, IsAhead
  <2>2. i(f) # 0 \/ j(f) # 0
    BY <1>3
  <2>3. Score(i(e), j(e))[1] * Score(i(f), j(f))[2] > Score(i(f), j(f))[1] * Score(i(e), j(e))[2]
    <3> HIDE DEF i, j
    <3> QED  BY <1>2, <2>1, <2>2, BetterRanks
  <2>4. num[e] * den[f] > num[f] * den[e]
    BY <2>3
  <2>5. num[e] * den[f] \in Positive /\ num[f] * den[e] \in Positive
    <3>1. num[e] \in Positive /\ den[e] \in Positive /\ num[f] \in Positive /\ den[f] \in Positive
      BY <1>5
    <3> QED  BY <3>1, Products
  <2> HIDE DEF num, den, fst, at
  <2> QED  BY <1>8, <2>4, <2>5 DEF Positive
<1> QED  BY <1>10, <1>11

\* What fusion returns: of the entities in two listings, as many as the limit allows,
\* those that the query names first, and whatever leads ahead.
LEMMA FusedOrder ==
  ASSUME corpus \in Corpora, NEW rs \in RowList, NEW found \in Listing
  PROVE  LET all == Ids(rs) \union ToSet(found)
             out == Fused(rs, found)
         IN  /\ out \in Listing /\ ToSet(out) \subseteq all
             /\ Len(out) = IF Cardinality(all) < corpus.limit THEN Cardinality(all)
                           ELSE corpus.limit
             /\ \A e, f \in all :
                   \/ Named(e) /\ ~Named(f)
                   \/ (Named(e) <=> Named(f)) /\ Leads(IdsOf(rs), found, e, f)
                   => ~IsAhead(out, f, e)
<1> DEFINE ids == IdsOf(rs)
           all == Ids(rs) \union ToSet(found)
           R == {x \in all \X all : Better(ids, found, x[1], x[2])}
           ranked == IF found = <<>> THEN ids ELSE InOrder(all, R)
           first == Filter(ranked, corpus.named)
           last == Filter(ranked, Entity \ corpus.named)
           out == Fused(rs, found)
<1>1. ids \in Listing /\ ToSet(ids) = Ids(rs) /\ Ids(rs) \subseteq Entity
  BY RowListFacts
<1>2. /\ corpus.limit \in Nat /\ corpus.named \in SUBSET Entity
      /\ found \in Seq(Entity) /\ IsInjective(found) /\ ToSet(found) \subseteq Entity
      /\ ids \in Seq(Entity) /\ IsInjective(ids)
  <2>1. corpus.limit \in Nat /\ corpus.named \in SUBSET Entity
    BY CorpusFacts
  <2>2. found \in Seq(Entity) /\ IsInjective(found)
    BY DEF Listing
  <2>3. ToSet(found) \subseteq Entity
    BY <2>2, LenProperties DEF ToSet
  <2> QED  BY <1>1, <2>1, <2>2, <2>3 DEF Listing
<1>3. all \in SUBSET Entity /\ IsFiniteSet(all)
  <2>1. all \in SUBSET Entity
    BY <1>1, <1>2
  <2> HIDE DEF all
  <2> QED  BY <2>1, SemanticAssumption, FS_Subset
<1>4. out = Cut(first \o last, corpus.limit)
  BY <1>1 DEF Fused, Promote
<1> HIDE DEF ids, out
<1>5. /\ Orders(R, all)
      /\ \A e, f \in all : Leads(ids, found, e, f) => <<e, f>> \in R
  <2>1. all = ToSet(ids) \union ToSet(found)
    BY <1>1
  <2> HIDE DEF all
  <2>2. /\ Orders(R, all)
        /\ \A e, f \in all : Leads(ids, found, e, f) => Better(ids, found, e, f)
    BY <1>1, <2>1, BetterOrders
  <2> QED  BY <2>2
<1> HIDE DEF R
<1>6. /\ ranked \in Seq(Entity) /\ IsInjective(ranked) /\ ToSet(ranked) = all
      /\ \A e, f \in all : Leads(ids, found, e, f) => IsAhead(ranked, e, f)
  <2>1. CASE found = <<>>
    <3>1. ToSet(found) = {} /\ \A e : Place(found, e) = 0
      BY <2>1 DEF ToSet, Place
    <3>2. ranked = ids /\ all = ToSet(ids)
      BY <1>1, <2>1, <3>1
    <3> QED  BY <1>2, <3>1, <3>2 DEF Leads, IsAhead
  <2>2. CASE found # <<>>
    <3>1. ranked = InOrder(all, R)
      BY <2>2
    <3> HIDE DEF all, ranked
    <3>2. /\ InOrder(all, R) \in Seq(Entity) /\ ToSet(InOrder(all, R)) = all
          /\ IsInjective(InOrder(all, R))
          /\ \A e, f \in all : <<e, f>> \in R => IsAhead(InOrder(all, R), e, f)
      BY <1>3, <1>5, OrderedAhead
    <3> QED  BY <1>5, <3>1, <3>2
  <2> QED  BY <2>1, <2>2
<1> HIDE DEF all, ranked
<1>7. /\ first \in Seq(Entity) /\ IsInjective(first) /\ ToSet(first) = all \intersect corpus.named
      /\ last \in Seq(Entity) /\ IsInjective(last)
      /\ ToSet(last) = all \intersect (Entity \ corpus.named)
  BY <1>6, FilterMembers
<1>8. ASSUME NEW e \in corpus.named, NEW f, IsAhead(ranked, e, f)
      PROVE  IsAhead(first, e, f)
  BY <1>6, <1>8, FilterAhead
<1>9. ASSUME NEW e \in Entity \ corpus.named, NEW f, IsAhead(ranked, e, f)
      PROVE  IsAhead(last, e, f)
  BY <1>6, <1>9, FilterAhead
<1> HIDE DEF first, last
<1>10. ToSet(first) \intersect ToSet(last) = {} /\ ToSet(first) \union ToSet(last) = all
  BY <1>3, <1>7
<1>11. /\ first \o last \in Seq(Entity) /\ IsInjective(first \o last)
       /\ ToSet(first \o last) = all
  <2>1. /\ first \o last \in Seq(Entity) /\ IsInjective(first \o last)
        /\ ToSet(first \o last) = ToSet(first) \union ToSet(last)
    BY <1>7, <1>10, ConcatMembers
  <2> QED  BY <1>10, <2>1
<1>12. Len(first \o last) = Cardinality(all)
  BY <1>11, InjectiveLength
<1>13. /\ out \in Seq(Entity) /\ IsInjective(out) /\ ToSet(out) \subseteq all
       /\ Len(out) = IF Cardinality(all) < corpus.limit THEN Cardinality(all) ELSE corpus.limit
  <2> DEFINE u == first \o last
  <2>1. u \in Seq(Entity) /\ IsInjective(u) /\ ToSet(u) = all /\ Len(u) = Cardinality(all)
    BY <1>11, <1>12
  <2>2. out = Cut(u, corpus.limit)
    BY <1>4
  <2> HIDE DEF u
  <2>3. /\ out \in Seq(Entity) /\ IsInjective(out) /\ ToSet(out) \subseteq ToSet(u)
        /\ Len(out) = IF Len(u) < corpus.limit THEN Len(u) ELSE corpus.limit
    BY <1>2, <2>1, <2>2, CutMembers
  <2> QED  BY <2>1, <2>3
<1>14. ASSUME NEW e \in all, NEW f \in all,
              \/ Named(e) /\ ~Named(f)
              \/ (Named(e) <=> Named(f)) /\ Leads(ids, found, e, f)
       PROVE  ~IsAhead(out, f, e)
  <2>1. CASE Named(e) /\ ~Named(f)
    <3>1. e \in ToSet(first) /\ f \notin ToSet(first)
      BY <1>7, <2>1 DEF Named
    <3>2. IsAhead(first, e, f)
      BY <1>7, <3>1, Places DEF IsAhead
    <3>3. IsAhead(first \o last, e, f)
      BY <1>7, <1>10, <3>2, ConcatAhead
    <3> QED  BY <1>2, <1>4, <1>11, <3>3, CutAhead
  <2>2. CASE Named(e) /\ Named(f) /\ Leads(ids, found, e, f)
    <3>1. IsAhead(first, e, f)
      BY <1>6, <1>8, <2>2 DEF Named
    <3>2. IsAhead(first \o last, e, f)
      BY <1>7, <1>10, <3>1, ConcatAhead
    <3> QED  BY <1>2, <1>4, <1>11, <3>2, CutAhead
  <2>3. CASE ~Named(e) /\ ~Named(f) /\ Leads(ids, found, e, f)
    <3>1. IsAhead(last, e, f)
      BY <1>3, <1>6, <1>9, <2>3 DEF Named
    <3>2. f \notin ToSet(first)
      BY <1>7, <2>3 DEF Named
    <3>3. IsAhead(first \o last, e, f)
      BY <1>7, <1>10, <3>1, <3>2, ConcatAhead
    <3> QED  BY <1>2, <1>4, <1>11, <3>3, CutAhead
  <2> QED  BY <1>14, <2>1, <2>2, <2>3
<1>15. out \in Listing
  BY <1>13 DEF Listing
<1> QED  BY <1>13, <1>14, <1>15 DEF ids, all, out

\* The rows of a listing.
LEMMA RowsWithSources ==
  ASSUME NEW rs \in RowList, NEW found, NEW ids \in Listing
  PROVE  /\ WithSources(rs, found, ids) \in RowList
         /\ IdsOf(WithSources(rs, found, ids)) = ids
         /\ Ids(WithSources(rs, found, ids)) = ToSet(ids)
<1> DEFINE new(e) == IF e \in ToSet(found) THEN <<Near>> ELSE <<>>
           made == [i \in DOMAIN ids |-> AddSources(RowOf(rs, ids[i]), new(ids[i]))]
<1>1. \A i \in DOMAIN ids : ids[i] \in Entity
  BY LenProperties DEF Listing
<1>2. ASSUME NEW e
      PROVE  new(e) \in Seq(Source)
  <2>1. Near \in Source
    BY DEF Source
  <2>2. <<>> \in Seq(Source) /\ <<Near>> \in Seq(Source)
    <3> HIDE DEF Near, Source
    <3> QED  BY <2>1
  <2> QED  BY <2>2
<1>3. made = WithSources(rs, found, ids)
  BY DEF WithSources
<1> HIDE DEF new
<1>4. \A i \in DOMAIN ids : made[i] \in Row /\ made[i].id = ids[i]
  <2> SUFFICES ASSUME NEW i \in DOMAIN ids PROVE made[i] \in Row /\ made[i].id = ids[i]
    OBVIOUS
  <2>1. RowOf(rs, ids[i]) \in Row /\ RowOf(rs, ids[i]).id = ids[i]
    BY <1>1, RowListFacts
  <2> QED  BY <1>2, <2>1, AddSourcesFacts
<1>5. DOMAIN made = DOMAIN ids /\ made = [i \in DOMAIN ids |-> made[i]]
  OBVIOUS
<1> HIDE DEF made
<1>6. made \in RowList /\ IdsOf(made) = ids /\ Ids(made) = ToSet(ids)
  BY <1>4, <1>5, RowsMade
<1> QED  BY <1>3, <1>6

-----------------------------------------------------------------------------
(* Owners.                                                                   *)

\* Gathered: one row for each target.
LEMMA GatheredRows ==
  ASSUME NEW kept \in RowList, NEW target \in [Entity -> Entity]
  PROVE  /\ Gathered(kept, target) \in RowList
         /\ Ids(Gathered(kept, target)) = {target[e] : e \in Ids(kept)}
<1> DEFINE goals == [i \in DOMAIN kept |-> target[kept[i].id]]
           ids == FirstOfEach(goals)
           into(t) == Sub(kept, {i \in DOMAIN kept : target[kept[i].id] = t /\ kept[i].id # t})
           new(t) == [i \in DOMAIN into(t) |-> Child(into(t)[i].id)]
           made == [i \in DOMAIN ids |-> AddSources(RowOf(kept, ids[i]), new(ids[i]))]
<1>1. /\ kept \in Seq(Row) /\ Len(kept) \in Nat /\ DOMAIN kept = 1..Len(kept)
      /\ \A i \in DOMAIN kept : kept[i].id \in Entity
  <2>1. kept \in Seq(Row) /\ \A i \in DOMAIN kept : kept[i] \in Row
    BY RowListFacts
  <2>2. Len(kept) \in Nat /\ DOMAIN kept = 1..Len(kept)
    BY <2>1, LenProperties
  <2> QED  BY <2>1, <2>2 DEF Row
<1>2. goals \in Seq(Entity) /\ ToSet(goals) = {target[e] : e \in Ids(kept)}
  <2>1. goals \in Seq(Entity) /\ DOMAIN goals = DOMAIN kept
    BY <1>1, IsASeq
  <2> QED  BY <2>1 DEF ToSet, Ids
<1> HIDE DEF goals
<1>3. ids \in Listing /\ ToSet(ids) = {target[e] : e \in Ids(kept)}
  BY <1>2, FirstOfEachMembers DEF Listing
<1> HIDE DEF ids
<1>4. \A i \in DOMAIN ids : ids[i] \in Entity
  BY <1>3, LenProperties DEF Listing
<1>5. ASSUME NEW t
      PROVE  new(t) \in Seq(Source)
  <2>1. {i \in DOMAIN kept : target[kept[i].id] = t /\ kept[i].id # t} \in SUBSET DOMAIN kept
    OBVIOUS
  <2>2. into(t) \in RowList
    BY <2>1, SubRows
  <2> HIDE DEF into
  <2>3. /\ Len(into(t)) \in Nat /\ DOMAIN into(t) = 1..Len(into(t))
        /\ \A k \in DOMAIN into(t) : into(t)[k].id \in Entity
    <3>1. into(t) \in Seq(Row) /\ \A i \in DOMAIN into(t) : into(t)[i] \in Row
      BY <2>2, RowListFacts
    <3>2. Len(into(t)) \in Nat /\ DOMAIN into(t) = 1..Len(into(t))
      BY <3>1, LenProperties
    <3> QED  BY <3>1, <3>2 DEF Row
  <2>4. \A k \in DOMAIN into(t) : Child(into(t)[k].id) \in Source
    BY <2>3 DEF Source
  <2> QED  BY <2>3, <2>4, IsASeq
<1>6. made = Gathered(kept, target)
  BY DEF Gathered, ids, goals
<1> HIDE DEF new
<1>7. \A i \in DOMAIN ids : made[i] \in Row /\ made[i].id = ids[i]
  <2> SUFFICES ASSUME NEW i \in DOMAIN ids PROVE made[i] \in Row /\ made[i].id = ids[i]
    OBVIOUS
  <2>1. RowOf(kept, ids[i]) \in Row /\ RowOf(kept, ids[i]).id = ids[i]
    BY <1>4, RowListFacts
  <2> QED  BY <1>5, <2>1, AddSourcesFacts
<1>8. DOMAIN made = DOMAIN ids /\ made = [i \in DOMAIN ids |-> made[i]]
  OBVIOUS
<1> HIDE DEF made
<1>9. made \in RowList /\ Ids(made) = ToSet(ids)
  BY <1>3, <1>7, <1>8, RowsMade
<1> QED  BY <1>3, <1>6, <1>9

\* What projection returns: a hit, or its owner in its place, and no owner of an owner.
LEMMA ProjectedRows ==
  ASSUME NEW rs \in RowList, NEW found \in SUBSET Ids(rs), NEW brought,
         NEW owner \in [Entity -> Entity \union {Gone}]
  PROVE  LET parents == {owner[e] : e \in found} \ {Gone}
             out == Projected(rs, found, brought, owner)
         IN  /\ out \in RowList
             /\ Ids(out) \subseteq Ids(rs) \union {owner[e] : e \in found \ parents}
             /\ \A e \in found : IF e \in parents THEN e \in Ids(out)
                                 ELSE e \in Ids(out) \/ owner[e] \in Ids(out)
<1> DEFINE parents == {owner[e] : e \in found} \ {Gone}
           owners == {owner[e] : e \in Owned(found, owner)}
           target == [e \in Entity |-> IF e \in Owned(found, owner) \ owners THEN owner[e] ELSE e]
           I == {i \in DOMAIN rs : \/ rs[i].id \in found \/ brought[rs[i].id] # Gone
                                   \/ FromEdges(rs[i]) = {}}
           kept == Kept(rs, found, brought)
           out == Projected(rs, found, brought, owner)
<1>1. owners = parents
  BY DEF Owned
<1>2. found \subseteq Entity /\ Ids(rs) \subseteq Entity
  BY RowListFacts
<1>3. \A e \in Owned(found, owner) : e \in found /\ e \in Entity /\ owner[e] \in Entity
  BY <1>2 DEF Owned
<1>4. target \in [Entity -> Entity]
  BY <1>3
<1>5. out = Gathered(kept, target)
  BY DEF Projected
<1>6. kept = Sub(rs, I) /\ I \in SUBSET DOMAIN rs
  BY DEF Kept
<1>7. \A e \in found : \E i \in I : rs[i].id = e
  BY DEF Ids
<1>8. \A i \in I : rs[i].id \in Ids(rs)
  BY DEF Ids
<1> HIDE DEF I, kept, owners
<1>9. kept \in RowList /\ Ids(kept) = {rs[i].id : i \in I}
  BY <1>6, SubRows
<1>10. found \subseteq Ids(kept) /\ Ids(kept) \subseteq Ids(rs)
  BY <1>7, <1>8, <1>9
<1>11. out \in RowList /\ Ids(out) = {target[e] : e \in Ids(kept)}
  <2> HIDE DEF out, target
  <2> QED  BY <1>4, <1>5, <1>9, GatheredRows
<1>12. ASSUME NEW e \in Ids(kept)
       PROVE  target[e] \in Ids(rs) \union {owner[x] : x \in found \ parents}
  <2>1. e \in Ids(rs) /\ e \in Entity
    BY <1>2, <1>10
  <2>2. CASE e \in Owned(found, owner) \ owners
    BY <1>1, <1>3, <2>1, <2>2
  <2>3. CASE e \notin Owned(found, owner) \ owners
    BY <2>1, <2>3
  <2> QED  BY <2>2, <2>3
<1>13. ASSUME NEW e \in found
       PROVE  IF e \in parents THEN e \in Ids(out) ELSE e \in Ids(out) \/ owner[e] \in Ids(out)
  <2>1. target[e] \in Ids(out) /\ e \in Entity
    BY <1>2, <1>10, <1>11
  <2>2. target[e] = IF e \in Owned(found, owner) \ owners THEN owner[e] ELSE e
    BY <2>1
  <2> HIDE DEF target, out, parents
  <2> QED  BY <1>1, <2>1, <2>2
<1>14. Ids(out) \subseteq Ids(rs) \union {owner[e] : e \in found \ parents}
  <2> HIDE DEF target, out, parents
  <2> QED  BY <1>11, <1>12
<1> QED  BY <1>11, <1>13, <1>14

-----------------------------------------------------------------------------
(* The invariants.                                                           *)

FilePlaces  == {"check", "fetch", "open", "write", "verify", "rename", "load"}
QueryPlaces == {"probe", "collect body", "collect fields", "inbound", "expand", "join", "fuse",
                "project", "route", "enrich"}
AllPlaces   == {"idle", "list", "rows", "texts", "embed", "commit", "count", "semantic", "done",
                "dead"} \union FilePlaces \union QueryPlaces

Notes == {"company", "edit", "no rows", "cut off", "disk"}
ControlTypes ==
    /\ build \in {"thin", "fat"}
    /\ job \in [Proc -> {"index", "search", "pack", "keyword"}]
    /\ pc \in [Proc -> AllPlaces] /\ stage \in [Proc -> {"ensure", "query"}]
    /\ outcome \in [Proc -> {"none", "failed", "indexed", "hybrid", "lexical"}]
    /\ saw \in [Proc -> SUBSET Notes]
IndexTypes ==
    /\ store \in [Entity -> Text \union {Gone}]
    /\ row \in [Entity -> Text \union {Gone, Old, Mixed}]
    /\ edits \in 0..MaxEdits
PassTypes ==
    /\ seen \in [Proc -> [Entity -> Text \union {Gone}]]
    /\ todo \in [Proc -> [Entity -> Text \union {Gone, Mixed}]]
    /\ drop \in [Proc -> SUBSET Entity]
FileTypes ==
    /\ loaded \in SUBSET Proc
    /\ file \in [Proc -> File] /\ offset \in [Proc -> 0..2]
    /\ open \in [Proc -> Inode \union {Gone}]
    /\ final \in [File -> Inode \union {Gone}] /\ tmp \in [File -> Inode \union {Gone}]
    /\ bytes \in [Inode -> SUBSET Chunks]
    /\ \A p \in Proc : pc[p] = "write" => open[p] \in Inode /\ offset[p] \in 0..1
SemanticTypes == ControlTypes /\ IndexTypes /\ PassTypes /\ FileTypes

\* The rows of an answer are no longer followed.
PipeTypes ==
    /\ corpus \in Corpora
    /\ DOMAIN rows = Proc /\ DOMAIN own = Proc /\ DOMAIN witness = Proc /\ DOMAIN snapshot = Proc
    /\ inbound \in [Proc -> Seq(Entity \X Entity)]
    /\ hits \in [Proc -> Listing] /\ routed \in [Proc -> Nat]
    /\ \A p \in Proc : pc[p] # "done" => rows[p] \in RowList

\* What goes with a place.
Placed ==
    \A p \in Proc :
        /\ pc[p] # "done" => outcome[p] = "none"
        /\ pc[p] = "verify" => build = "thin" /\ file[p] = "model"
        /\ pc[p] = "project" => corpus.project
        /\ pc[p] = "idle" => rows[p] = <<>> /\ hits[p] = <<>> /\ inbound[p] = <<>>
        /\ pc[p] = "rows" => job[p] # "index"
        /\ pc[p] = "texts" => job[p] = "index"
        /\ pc[p] \in {"idle", "list", "rows", "texts"} => drop[p] = {}
        /\ pc[p] \in {"idle", "list", "rows", "texts", "embed", "commit", "count"}
           => stage[p] = "ensure"

\* Of two processes at work, each has seen that it is not alone.
Alone(p) == "company" \notin saw[p]
Company == \A p, q \in Proc : p # q /\ Running(p) /\ Running(q) => ~Alone(p)

\* Whose inodes the names of a file stand for.
Links ==
    /\ \A f \in File :
          /\ final[f] = Gone \/ \E o \in Proc \union {Gone} : final[f] = <<o, f>>
          /\ tmp[f] = Gone \/ \E o \in Proc : tmp[f] = <<o, f>>
          /\ tmp[f] # Gone => tmp[f] # final[f]
    /\ \A p \in Proc : pc[p] = "write" => \E o \in Proc : open[p] = <<o, file[p]>>

\* A process makes its own inode of a file once.
Unused(i) ==
    /\ \A f \in File : final[f] # i /\ tmp[f] # i
    /\ \A p \in Proc : pc[p] = "write" => open[p] # i
NotYet ==
    \A p \in Proc :
        LET neither == Unused(<<p, "model">>) /\ Unused(<<p, "lib">>)
        IN  /\ pc[p] \in {"idle", "list", "rows", "texts", "embed"} => neither
            /\ pc[p] \in {"check", "fetch", "open"} => Unused(<<p, file[p]>>)
            /\ pc[p] \in {"check", "fetch", "open", "write", "verify", "rename"}
               /\ file[p] = "model" => Unused(<<p, "lib">>)
            /\ pc[p] \in {"commit", "count"} => p \in loaded \/ neither
            /\ pc[p] \in {"probe", "collect body", "collect fields", "inbound", "expand", "semantic"}
               => p \in loaded \/ stage[p] = "ensure" \/ neither

\* What one who is alone has made of the files.
AloneAtWork ==
    \A p \in Proc :
        Running(p) /\ Alone(p) =>
            /\ pc[p] = "write" => /\ tmp[file[p]] = open[p]
                                  /\ bytes[open[p]] = 1..offset[p]
            /\ pc[p] \in {"verify", "rename"} => Whole(tmp[file[p]])
            /\ pc[p] \in FilePlaces /\ file[p] = "lib" => InPlace("model")
            /\ pc[p] = "load" => InPlace("model") /\ InPlace("lib")

\* Unless somebody was cut short in company, what stands is whole or has a writer that has left
\* out nothing so far.
NoneLost == ~ \E p \in Proc : CutShort(p) /\ "company" \in saw[p]
Written(i) ==
    \/ bytes[i] = Chunks
    \/ \E p \in Proc : pc[p] = "write" /\ open[p] = i /\ 1..offset[p] \subseteq bytes[i]
InWriting ==
    NoneLost =>
        \A f \in File :
            /\ final[f] = Gone \/ Written(final[f]) \/ (final[f] = <<Gone, f>> /\ bytes[final[f]] = {})
            /\ tmp[f] # Gone
               /\ (\E p \in Proc : pc[p] \in {"write", "verify", "rename"} /\ file[p] = f)
               => Written(tmp[f])

\* A row is there only for an entity.
RowsHaveEntities == \A e \in Entity : store[e] = Gone => row[e] = Gone

\* What a quiet pass is to write.
Due(p) == IF job[p] = "index" THEN store
          ELSE [e \in Entity |-> IF store[e] # Gone /\ row[e] # store[e] THEN store[e] ELSE Gone]
QuietPass ==
    \A p \in Proc :
        Running(p) /\ Quiet(p) =>
            /\ pc[p] \in {"rows", "texts"} => seen[p] = store
            /\ pc[p] \in {"embed", "commit"} \/ (pc[p] \in FilePlaces /\ stage[p] = "ensure")
               => todo[p] = Due(p) /\ drop[p] \intersect Standing = {}
            /\ stage[p] = "query" => \E e \in Entity : Current(row[e])

\* What a quiet query has found is still there.
QuietQuery ==
    \A p \in Proc :
        Running(p) /\ Quiet(p) =>
            /\ Ids(rows[p]) \union ToSet(hits[p]) \subseteq Standing
            /\ \A i \in DOMAIN inbound[p] : Exists(inbound[p][i][1])
            /\ pc[p] = "enrich" => snapshot[p] = RouteView(rows[p][routed[p] + 1].id)

\* A torn file that is taken for good, and that nobody is about to make anew.
Stuck(f) ==
    /\ build = "fat" \/ f = "lib"
    /\ Stands(final[f]) /\ ~Whole(final[f])
    /\ \A p \in Proc : pc[p] \in {"fetch", "open", "write", "verify", "rename"} => file[p] # f
QuietWays ==
    \A p \in Proc :
        job[p] \in {"search", "pack"} =>
            /\ Running(p) /\ saw[p] = {} =>
                  /\ pc[p] \in QueryPlaces \union {"semantic"}
                     => stage[p] = "query" \/ \E f \in File : Stuck(f)
                  /\ pc[p] = "join" => p \in loaded
                  /\ pc[p] \in {"fuse", "project", "route", "enrich"}
                     => (p \in loaded /\ stage[p] = "query") \/ \E f \in File : Stuck(f)
            /\ pc[p] = "done" /\ outcome[p] = "failed" /\ Quiet(p) => corpus.project \/ "disk" \in saw[p]
            /\ pc[p] = "done" /\ outcome[p] = "lexical" /\ saw[p] = {} => \E f \in File : Stuck(f)

-----------------------------------------------------------------------------
(* Steps.                                                                    *)

\* All that the semantic side can see of a step of a query.
QueryMove(p) ==
    /\ pc[p] \in QueryPlaces
    /\ \/ /\ \E l \in (QueryPlaces \ {"probe", "join"}) \union {"semantic"} :
                 pc' = [pc EXCEPT ![p] = l]
          /\ outcome' = outcome
       \/ \E r \in {"failed", "hybrid", "lexical"} :
             pc' = [pc EXCEPT ![p] = "done"] /\ outcome' = [outcome EXCEPT ![p] = r]
    /\ UNCHANGED <<build, job, stage, saw, index, pass, loaded, writing, disk, corpus>>

QueryStep(p) ==
    \/ Probe(p) \/ CollectBody(p) \/ CollectFields(p) \/ ReadInbound(p) \/ Expand(p)
    \/ JoinIndex(p) \/ Fuse(p) \/ Project(p) \/ SnapshotRoute(p) \/ Enrich(p) \/ Answer(p)

\* A step of a query is such a step.
LEMMA QuerySteps ==
  ASSUME NEW p \in Proc, QueryStep(p)
  PROVE  QueryMove(p)
<1> USE DEF QueryStep, QueryMove, QueryPlaces, Step, StepOrFail, Goto, Finish
<1>1. CASE Probe(p)
  BY <1>1 DEF Probe
<1>2. CASE CollectBody(p)
  BY <1>2 DEF CollectBody
<1>3. CASE CollectFields(p)
  BY <1>3 DEF CollectFields
<1>4. CASE ReadInbound(p)
  BY <1>4 DEF ReadInbound
<1>5. CASE Expand(p)
  BY <1>5 DEF Expand
<1>6. CASE JoinIndex(p)
  BY <1>6 DEF JoinIndex
<1>7. CASE Fuse(p)
  BY <1>7 DEF Fuse
<1>8. CASE Project(p)
  BY <1>8 DEF Project
<1>9. CASE SnapshotRoute(p)
  BY <1>9 DEF SnapshotRoute
<1>10. CASE Enrich(p)
  BY <1>10 DEF Enrich
<1>11. CASE Answer(p)
  BY <1>11 DEF Answer
<1> QED  BY <1>1, <1>2, <1>3, <1>4, <1>5, <1>6, <1>7, <1>8, <1>9, <1>10, <1>11

\* A step of the system, as the semantic side sees it.
Move ==
    \/ \E p \in Proc : SemanticStep(p) /\ UNCHANGED <<corpus, pipe>>
    \/ \E e \in Entity : Edit(e) /\ UNCHANGED <<corpus, pipe>>
    \/ \E p \in Proc : QueryStep(p) /\ QueryMove(p)
    \/ UNCHANGED searchVars

\* Every step is one of these.
LEMMA Moves ==
  ASSUME [Next]_searchVars
  PROVE  Move
<1>1. CASE UNCHANGED searchVars
  BY <1>1 DEF Move
<1>2. CASE Next
  <2>1. CASE \E p \in Proc : SemanticStep(p) /\ UNCHANGED <<corpus, pipe>>
    BY <2>1 DEF Move
  <2>2. CASE \E e \in Entity : Edit(e) /\ UNCHANGED <<corpus, pipe>>
    BY <2>2 DEF Move
  <2>3. ASSUME NEW p \in Proc, QueryStep(p)
        PROVE  Move
    BY <2>3, QuerySteps DEF Move
  <2> QED  BY <1>2, <2>1, <2>2, <2>3 DEF Next, QueryStep
<1> QED  BY <1>1, <1>2

-----------------------------------------------------------------------------
(* Who changes what.                                                         *)

\* A step that the disk refuses.
LEMMA Refusals ==
  ASSUME NEW p \in Proc, DiskRefuses(p)
  PROVE  /\ pc[p] \in {"check", "fetch", "open", "write", "verify", "rename"}
         /\ Note(p, "disk")
         /\ \/ \E l \in {"probe", "fuse"} :
                  /\ pc' = [pc EXCEPT ![p] = l] /\ outcome' = outcome
                  /\ l = "probe" => stage[p] = "ensure"
            \/ pc' = [pc EXCEPT ![p] = "done"] /\ outcome' = [outcome EXCEPT ![p] = "failed"]
         /\ tmp' = tmp \/ tmp' = [tmp EXCEPT ![file[p]] = Gone]
         /\ UNCHANGED <<build, job, stage, store, row, edits, seen, todo, drop, loaded>>
         /\ UNCHANGED <<file, offset, open, final, bytes>>
<1>1. IF Downloading(p) THEN Unavailable(p) ELSE Finish(p, "failed")
  BY DEF DiskRefuses
<1>2. \/ \E l \in {"probe", "fuse"} :
            /\ pc' = [pc EXCEPT ![p] = l] /\ outcome' = outcome
            /\ l = "probe" => stage[p] = "ensure"
      \/ pc' = [pc EXCEPT ![p] = "done"] /\ outcome' = [outcome EXCEPT ![p] = "failed"]
  BY <1>1 DEF Unavailable, Goto, Finish
<1>3. tmp' = tmp \/ tmp' = [tmp EXCEPT ![file[p]] = Gone]
  BY DEF DiskRefuses
<1> QED  BY <1>2, <1>3 DEF DiskRefuses, index, pass, writing

\* Where a step of the index or of the files may lead.
LEMMA WhereTo ==
  ASSUME NEW p \in Proc, SemanticStep(p)
  PROVE  /\ UNCHANGED <<build, job, store, edits>>
         /\ pc[p] \notin {"done", "dead"} /\ (pc[p] \in QueryPlaces => Kill(p))
         /\ \/ \E l \in AllPlaces \ {"done", "idle", "write"} :
                  pc' = [pc EXCEPT ![p] = l] /\ outcome' = outcome
            \/ OpenTmp(p) /\ pc' = [pc EXCEPT ![p] = "write"] /\ outcome' = outcome
            \/ Write(p) /\ pc' = [pc EXCEPT ![p] = "write"] /\ outcome' = outcome
            \/ \E r \in {"failed", "indexed"} :
                  pc' = [pc EXCEPT ![p] = "done"] /\ outcome' = [outcome EXCEPT ![p] = r]
<1> USE DEF Goto, Finish, index, AllPlaces, FilePlaces, QueryPlaces
<1>1. CASE Begin(p)
  <2>1. /\ pc[p] = "idle" /\ \E l \in {"probe", "list"} : Goto(p, l)
        /\ UNCHANGED <<build, job, stage, index, pass, loaded, writing, disk>>
    <3> HIDE DEF Goto, index
    <3> QED  BY <1>1, Zenon DEF Begin
  <2> QED  BY <2>1
<1>2. CASE Kill(p)
  BY <1>2 DEF Kill, Running
<1>3. CASE ListEntities(p)
  BY <1>3 DEF ListEntities
<1>4. CASE Compare(p)
  BY <1>4 DEF Compare
<1>5. CASE ReadTexts(p)
  BY <1>5 DEF ReadTexts
<1>6. CASE Embed(p)
  BY <1>6 DEF Embed
<1>7. CASE Commit(p)
  BY <1>7 DEF Commit
<1>8. CASE CheckFile(p)
  BY <1>8 DEF CheckFile, After
<1>9. CASE Fetch(p)
  BY <1>9 DEF Fetch, Unavailable
<1>10. CASE OpenTmp(p)
  BY <1>10 DEF OpenTmp
<1>11. CASE Write(p)
  BY <1>11 DEF Write
<1>12. CASE VerifyTmp(p)
  BY <1>12 DEF VerifyTmp, Unavailable
<1>13. CASE RenameTmp(p)
  BY <1>13 DEF RenameTmp, After, Unavailable
<1>14. CASE Load(p)
  BY <1>14 DEF Load, Unavailable
<1>15. CASE Count(p)
  BY <1>15 DEF Count
<1>16. CASE EmbedQuery(p)
  BY <1>16 DEF EmbedQuery
<1>17. CASE DiskRefuses(p)
  BY <1>17, Refusals
<1> QED  BY <1>1, <1>2, <1>3, <1>4, <1>5, <1>6, <1>7, <1>8, <1>9, <1>10, <1>11, <1>12,
            <1>13, <1>14, <1>15, <1>16, <1>17 DEF SemanticStep

\* Who may change each part of the state.
LEMMA WhoChanges ==
  ASSUME NEW p \in Proc, SemanticStep(p)
  PROVE  /\ UNCHANGED row \/ Commit(p)
         /\ UNCHANGED saw \/ Begin(p) \/ Fetch(p) \/ DiskRefuses(p) \/ Count(p)
         /\ UNCHANGED stage \/ Count(p)
         /\ UNCHANGED seen \/ ListEntities(p)
         /\ UNCHANGED todo \/ Compare(p) \/ ReadTexts(p)
         /\ UNCHANGED drop \/ Compare(p)
         /\ UNCHANGED loaded \/ Load(p)
         /\ UNCHANGED file \/ Embed(p) \/ CheckFile(p) \/ RenameTmp(p) \/ EmbedQuery(p)
         /\ UNCHANGED <<offset, bytes>> \/ OpenTmp(p) \/ Write(p)
         /\ UNCHANGED open \/ OpenTmp(p)
         /\ UNCHANGED final \/ RenameTmp(p)
         /\ UNCHANGED tmp \/ Fetch(p) \/ OpenTmp(p) \/ VerifyTmp(p) \/ RenameTmp(p) \/ DiskRefuses(p)
<1>1. CASE Begin(p)
  <2>1. UNCHANGED <<build, job, stage, index, pass, loaded, writing, disk>>
    BY <1>1, Zenon DEF Begin
  <2>2. UNCHANGED <<stage, row, seen, todo, drop, loaded, file, offset, open, final, tmp, bytes>>
    BY <2>1 DEF index, pass, writing, disk
  <2> QED  BY <1>1, <2>2
<1> USE DEF index, pass, writing, disk, Note
<1>2. CASE Kill(p)
  BY <1>2 DEF Kill
<1>3. CASE ListEntities(p)
  BY <1>3 DEF ListEntities
<1>4. CASE Compare(p)
  BY <1>4 DEF Compare
<1>5. CASE ReadTexts(p)
  BY <1>5 DEF ReadTexts
<1>6. CASE Embed(p)
  BY <1>6 DEF Embed
<1>7. CASE Commit(p)
  BY <1>7 DEF Commit
<1>8. CASE CheckFile(p)
  BY <1>8 DEF CheckFile, After
<1>9. CASE Fetch(p)
  BY <1>9 DEF Fetch, Unavailable
<1>10. CASE OpenTmp(p)
  BY <1>10 DEF OpenTmp
<1>11. CASE Write(p)
  BY <1>11 DEF Write
<1>12. CASE VerifyTmp(p)
  BY <1>12 DEF VerifyTmp, Unavailable
<1>13. CASE RenameTmp(p)
  BY <1>13 DEF RenameTmp, After, Unavailable
<1>14. CASE Load(p)
  BY <1>14 DEF Load, Unavailable
<1>15. CASE Count(p)
  BY <1>15 DEF Count
<1>16. CASE EmbedQuery(p)
  BY <1>16 DEF EmbedQuery
<1>17. CASE DiskRefuses(p)
  BY <1>17, Refusals
<1> QED  BY <1>1, <1>2, <1>3, <1>4, <1>5, <1>6, <1>7, <1>8, <1>9, <1>10, <1>11, <1>12,
            <1>13, <1>14, <1>15, <1>16, <1>17 DEF SemanticStep

\* Where only one step, or two, can be taken.
LEMMA IdleBegins ==
  ASSUME NEW p \in Proc, SemanticStep(p)
  PROVE  /\ pc[p] = "idle" => Begin(p)
         /\ pc[p] \in {"write", "verify", "rename"}
            => Kill(p) \/ Write(p) \/ VerifyTmp(p) \/ RenameTmp(p) \/ DiskRefuses(p)
<1> USE DEF SemanticStep
<1> QED  BY Refusals DEF Kill, Running, ListEntities, Compare, ReadTexts, Embed, Commit, CheckFile, Fetch,
            OpenTmp, Write, VerifyTmp, RenameTmp, Load, Count, EmbedQuery, Begin

-----------------------------------------------------------------------------
(* Types.                                                                    *)

\* The types hold at first.
LEMMA TypesAtFirst ==
  ASSUME Beginning
  PROVE  SemanticTypes
<1> USE DEF Beginning, SemanticInit
<1>1. ControlTypes
  <2>1. pc \in [Proc -> {"idle", "done"}]
    OBVIOUS
  <2>2. pc \in [Proc -> AllPlaces]
    BY <2>1 DEF AllPlaces
  <2> QED  BY <2>2 DEF ControlTypes
<1>2. IndexTypes
  <2>1. edits \in 0..MaxEdits /\ 0..edits \subseteq 0..MaxEdits
    BY SemanticAssumption
  <2>2. /\ store \in [Entity -> (0..edits) \union {Gone}]
        /\ row \in [Entity -> (0..edits) \union {Gone, Old, Mixed}]
    OBVIOUS
  <2> QED  BY <2>1, <2>2 DEF IndexTypes, Text
<1>3. PassTypes
  BY DEF PassTypes
<1>4. FileTypes
  <2>1. \A p \in Proc : pc[p] # "write"
    OBVIOUS
  <2> QED  BY <2>1 DEF FileTypes, File
<1> QED  BY <1>1, <1>2, <1>3, <1>4 DEF SemanticTypes

\* A file has two chunks.
LEMMA ChunkCount == Cardinality(Chunks) = 2
<1>1. \A m \in Nat : Cardinality(1..m) = m
  BY FS_Interval
<1> QED  BY <1>1 DEF Chunks

\* A step of the index or of the files keeps them, ...
LEMMA TypesKeptBySemanticStep ==
  ASSUME SemanticTypes, NEW p \in Proc, SemanticStep(p)
  PROVE  SemanticTypes'
<1> USE WhereTo, WhoChanges DEF SemanticTypes
<1>1. ControlTypes'
  <2>1. "done" \in AllPlaces /\ "write" \in AllPlaces
    BY DEF AllPlaces, FilePlaces
  <2>2. pc' \in [Proc -> AllPlaces]
    BY <2>1 DEF ControlTypes
  <2>3. outcome' \in [Proc -> {"none", "failed", "indexed", "hybrid", "lexical"}]
    BY DEF ControlTypes
  <2>4. saw' \in [Proc -> SUBSET Notes]
    <3> HIDE WhereTo, WhoChanges
    <3>1. CASE Begin(p)
      <4>1. /\ saw \in [Proc -> SUBSET Notes]
            /\ \A q \in Proc : saw[q] \union {"company"} \in SUBSET Notes
        BY DEF ControlTypes, Notes
      <4> QED  BY <3>1, <4>1 DEF Begin
    <3> DEFINE Seen == Notes
    <3>0. /\ saw \in [Proc -> SUBSET Seen]
          /\ \A w \in Seen : [saw EXCEPT ![p] = @ \union {w}] \in [Proc -> SUBSET Seen]
          /\ "no rows" \in Seen /\ "cut off" \in Seen /\ "disk" \in Seen
      BY DEF ControlTypes, Notes
    <3> HIDE DEF Seen
    <3>2. CASE Fetch(p)
      BY <3>0, <3>2 DEF Fetch, Note, Seen
    <3>3. CASE Count(p)
      BY <3>0, <3>3 DEF Count, Note, Seen
    <3>4. CASE DiskRefuses(p)
      BY <3>0, <3>4, Refusals DEF Note, Seen
    <3> QED  BY <3>1, <3>2, <3>3, <3>4, WhoChanges DEF ControlTypes
  <2>5. stage' \in [Proc -> {"ensure", "query"}]
    BY DEF ControlTypes, Count
  <2> QED  BY <2>2, <2>3, <2>4, <2>5 DEF ControlTypes
<1>2. IndexTypes'
  <2>1. CASE Commit(p)
    <3>1. row' \in [Entity -> Text \union {Gone, Old, Mixed}]
      BY <2>1 DEF Commit, IndexTypes, PassTypes
    <3> QED  BY <3>1 DEF IndexTypes
  <2>2. CASE UNCHANGED row
    BY <2>2 DEF IndexTypes
  <2> QED  BY <2>1, <2>2
<1>3. PassTypes'
  <2>1. seen' \in [Proc -> [Entity -> Text \union {Gone}]]
    BY DEF ListEntities, PassTypes, IndexTypes
  <2>2. todo' \in [Proc -> [Entity -> Text \union {Gone, Mixed}]]
    <3>1. \A e \in Entity : TextOf(p, e) \in Text \union {Gone, Mixed}
      BY DEF TextOf, IndexTypes
    <3>2. CASE Compare(p)
      BY <3>1, <3>2 DEF Compare, PassTypes
    <3>3. CASE ReadTexts(p)
      BY <3>1, <3>3 DEF ReadTexts, PassTypes
    <3> QED  BY <3>2, <3>3 DEF PassTypes
  <2>3. drop' \in [Proc -> SUBSET Entity]
    <3>1. CASE Compare(p)
      <4>1. \E d \in SUBSET Entity : drop' = [drop EXCEPT ![p] = d]
        BY <3>1 DEF Compare
      <4> QED  BY <4>1 DEF PassTypes
    <3> QED  BY <3>1 DEF PassTypes
  <2> QED  BY <2>1, <2>2, <2>3 DEF PassTypes
<1>4. FileTypes'
  <2>1. loaded' \in SUBSET Proc /\ file' \in [Proc -> File]
    BY DEF FileTypes, Load, Embed, CheckFile, After, RenameTmp, EmbedQuery, File
  <2>2. CASE OpenTmp(p)
    <3>1. PICK i \in Inode : /\ tmp' = [tmp EXCEPT ![file[p]] = i]
                             /\ bytes' = [bytes EXCEPT ![i] = {}]
                             /\ open' = [open EXCEPT ![p] = i] /\ offset' = [offset EXCEPT ![p] = 0]
      <4> DEFINE i == IF tmp[file[p]] = Gone THEN <<p, file[p]>> ELSE tmp[file[p]]
      <4>1. i \in Inode
        BY DEF FileTypes, Inode
      <4> QED  BY <2>2, <4>1 DEF OpenTmp
    <3>2. UNCHANGED final /\ pc' = [pc EXCEPT ![p] = "write"]
      BY <2>2 DEF OpenTmp, Goto
    <3>3. \A q \in Proc : pc'[q] = "write" => open'[q] \in Inode /\ offset'[q] \in 0..1
      <4> SUFFICES ASSUME NEW q \in Proc, pc'[q] = "write"
                   PROVE  open'[q] \in Inode /\ offset'[q] \in 0..1
        OBVIOUS
      <4>1. CASE q = p
        BY <3>1, <4>1 DEF FileTypes
      <4>2. CASE q # p
        <5>1. pc[q] = "write" /\ offset'[q] = offset[q] /\ open'[q] = open[q]
          BY <3>1, <3>2, <4>2 DEF ControlTypes, FileTypes
        <5> QED  BY <5>1 DEF FileTypes
      <4> QED  BY <4>1, <4>2
    <3>4. tmp' \in [File -> Inode \union {Gone}] /\ bytes' \in [Inode -> SUBSET Chunks]
      BY <3>1 DEF FileTypes
    <3>5. open' \in [Proc -> Inode \union {Gone}] /\ offset' \in [Proc -> 0..2]
      BY <3>1 DEF FileTypes
    <3> QED  BY <2>1, <3>2, <3>3, <3>4, <3>5 DEF FileTypes
  <2>3. CASE Write(p)
    <3>1. open[p] \in Inode /\ offset[p] \in 0..1 /\ pc[p] = "write"
      BY <2>3 DEF Write, FileTypes
    <3>2. /\ UNCHANGED <<open, final, tmp>>
          /\ bytes' = [bytes EXCEPT ![open[p]] = @ \union {offset[p] + 1}]
          /\ offset' = [offset EXCEPT ![p] = @ + 1]
          /\ pc'[p] = "write" => offset'[p] < Cardinality(Chunks)
      BY <2>3 DEF Write, Goto, ControlTypes
    <3>3. Cardinality(Chunks) = 2
      BY ChunkCount
    <3>4. offset[p] + 1 \in Chunks /\ offset[p] + 1 \in 0..2
      BY <3>1 DEF Chunks
    <3>5. bytes' \in [Inode -> SUBSET Chunks] /\ offset' \in [Proc -> 0..2]
      BY <3>1, <3>2, <3>4 DEF FileTypes
    <3>6. offset'[p] = offset[p] + 1
      BY <3>2 DEF FileTypes
    <3>7. \A q \in Proc : pc'[q] = "write" => open'[q] \in Inode /\ offset'[q] \in 0..1
      <4> SUFFICES ASSUME NEW q \in Proc, pc'[q] = "write"
                   PROVE  open'[q] \in Inode /\ offset'[q] \in 0..1
        OBVIOUS
      <4>1. CASE q = p
        BY <3>1, <3>2, <3>3, <3>6, <4>1
      <4>2. CASE q # p
        <5>1. pc'[q] = pc[q]
          BY <2>3, <4>2 DEF Write, Goto, ControlTypes
        <5>2. offset'[q] = offset[q]
          BY <3>2, <4>2 DEF FileTypes
        <5> QED  BY <3>2, <4>2, <5>1, <5>2 DEF FileTypes
      <4> QED  BY <4>1, <4>2
    <3> QED  BY <2>1, <3>2, <3>5, <3>7 DEF FileTypes
  <2>4. CASE ~OpenTmp(p) /\ ~Write(p)
    <3>1. UNCHANGED <<offset, bytes, open>>
      BY <2>4
    <3>2. final' \in [File -> Inode \union {Gone}] /\ tmp' \in [File -> Inode \union {Gone}]
      BY <2>4, Refusals DEF FileTypes, Fetch, VerifyTmp, RenameTmp
    <3>3. \A q \in Proc : pc'[q] = "write" => pc[q] = "write"
      BY <2>4 DEF ControlTypes
    <3> QED  BY <2>1, <3>1, <3>2, <3>3 DEF FileTypes
  <2> QED  BY <2>2, <2>3, <2>4
<1> QED  BY <1>1, <1>2, <1>3, <1>4

\* ... and so does every other.
LEMMA TypesKept ==
  ASSUME SemanticTypes, [Next]_searchVars
  PROVE  SemanticTypes'
<1> USE DEF SemanticTypes
<1>1. Move
  BY Moves
<1>2. ASSUME NEW p \in Proc, QueryMove(p)
      PROVE  SemanticTypes'
  <2>0. (QueryPlaces \ {"probe", "join"}) \union {"semantic", "done"} \subseteq AllPlaces \ {"write"}
    BY DEF QueryPlaces, AllPlaces
  <2>1. /\ pc' \in [Proc -> AllPlaces] /\ \A q \in Proc : pc'[q] = "write" => pc[q] = "write"
        /\ outcome' \in [Proc -> {"none", "failed", "indexed", "hybrid", "lexical"}]
    <3>1. CASE /\ \E l \in (QueryPlaces \ {"probe", "join"}) \union {"semantic"} :
                      pc' = [pc EXCEPT ![p] = l]
               /\ outcome' = outcome
      BY <2>0, <3>1, ZenonT(60) DEF ControlTypes
    <3>2. CASE \E r \in {"failed", "hybrid", "lexical"} :
                  pc' = [pc EXCEPT ![p] = "done"] /\ outcome' = [outcome EXCEPT ![p] = r]
      <4>1. pc' \in [Proc -> AllPlaces] /\ \A q \in Proc : pc'[q] = "write" => pc[q] = "write"
        BY <2>0, <3>2 DEF ControlTypes
      <4>2. outcome' \in [Proc -> {"none", "failed", "indexed", "hybrid", "lexical"}]
        <5>1. outcome \in [Proc -> {"none", "failed", "indexed", "hybrid", "lexical"}]
          BY DEF ControlTypes
        <5> QED  BY <3>2, <5>1
      <4> QED  BY <4>1, <4>2
    <3> QED  BY <1>2, <3>1, <3>2 DEF QueryMove
  <2>2. UNCHANGED <<build, job, stage, saw, index, pass, loaded, writing, disk>>
    BY <1>2 DEF QueryMove
  <2> QED  BY <2>1, <2>2 DEF ControlTypes, IndexTypes, PassTypes, FileTypes, index, pass, writing, disk
<1>3. ASSUME NEW e \in Entity, Edit(e)
      PROVE  SemanticTypes'
  <2>1. edits + 1 \in 0..MaxEdits /\ edits' = edits + 1
    BY <1>3, SemanticAssumption DEF Edit, IndexTypes
  <2>2. PICK t \in {Gone, edits + 1} :
            /\ store' = [store EXCEPT ![e] = t]
            /\ row' = [row EXCEPT ![e] = IF t = Gone THEN Gone ELSE @]
    BY <1>3 DEF Edit
  <2>3. IndexTypes'
    BY <2>1, <2>2 DEF IndexTypes, Text
  <2>4. UNCHANGED <<build, job, pc, stage, outcome, pass, loaded, writing, disk>>
    BY <1>3 DEF Edit
  <2>5. saw' \in [Proc -> SUBSET Notes]
    BY <1>3 DEF Edit, ControlTypes, Notes
  <2> QED  BY <2>3, <2>4, <2>5 DEF ControlTypes, PassTypes, FileTypes, pass, writing, disk
<1>4. ASSUME NEW p \in Proc, SemanticStep(p)
      PROVE  SemanticTypes'
  BY <1>4, TypesKeptBySemanticStep
<1>5. CASE UNCHANGED searchVars
  BY <1>5 DEF searchVars, semanticVars, index, pass, writing, disk, ControlTypes, IndexTypes,
              PassTypes, FileTypes
<1> QED  BY <1>1, <1>2, <1>3, <1>4, <1>5 DEF Move

Types == SemanticTypes /\ PipeTypes

\* A process that is not done was not done before, and its rows are a list of rows.
LEMMA NotDone ==
  ASSUME Types, NEW p \in Proc, SemanticStep(p) \/ QueryMove(p), NEW q \in Proc, pc'[q] # "done"
  PROVE  pc[q] # "done" /\ rows[q] \in RowList
<1>1. pc[q] # "done"
  <2>1. CASE SemanticStep(p)
    BY <2>1, WhereTo DEF Types, SemanticTypes, ControlTypes
  <2>2. CASE QueryMove(p)
    BY <2>2 DEF QueryMove, QueryPlaces, Types, SemanticTypes, ControlTypes
  <2> QED  BY <2>1, <2>2
<1> QED  BY <1>1 DEF Types, PipeTypes

\* The types of a query hold at first, ...
LEMMA PipeTypesAtFirst ==
  ASSUME Beginning
  PROVE  PipeTypes
<1>1. <<>> \in RowList
  BY EmptySeq DEF RowList, IdsOf, IsInjective
<1>2. <<>> \in Listing
  BY EmptySeq DEF Listing, IsInjective
<1>3. <<>> \in Seq(Entity \X Entity)
  BY EmptySeq
<1> QED  BY <1>1, <1>2, <1>3 DEF Beginning, SearchInit, PipeTypes

\* ... a step of a query keeps them, ...
LEMMA PipeTypesKeptByQuery ==
  ASSUME Types, NEW p \in Proc, QueryStep(p)
  PROVE  PipeTypes'
<1>1. QueryMove(p)
  BY QuerySteps
<1>2. pc[p] # "done" /\ rows[p] \in RowList
  BY <1>1 DEF QueryMove, QueryPlaces, Types, PipeTypes
<1>3. corpus' \in Corpora /\ corpus \in Corpora
  BY <1>1 DEF QueryMove, Types, PipeTypes
<1>4. \A q \in Proc : pc'[q] # "done" => pc[q] # "done" /\ rows[q] \in RowList
  BY <1>1, NotDone
<1> USE DEF Types, PipeTypes
<1>5. CASE Probe(p)
  BY <1>3, <1>4, <1>5 DEF Probe
<1>6. CASE CollectBody(p)
  <2>1. BodyHits \in Listing
    BY <1>3, HitsFacts
  <2> QED  BY <1>3, <1>4, <1>6, <2>1 DEF CollectBody
<1>7. CASE CollectFields(p)
  <2>1. hits[p] \in Listing /\ MetaHits \in Listing
    BY <1>3, HitsFacts
  <2>2. Collected(hits[p], MetaHits) \in RowList
    BY <1>3, <2>1, CollectedRows
  <2>3. <<>> \in Listing
    BY EmptySeq DEF Listing, IsInjective
  <2> QED  BY <1>3, <1>4, <1>7, <2>2, <2>3 DEF CollectFields
<1>8. CASE ReadInbound(p)
  <2>1. EdgesInto(rows[p]) \in Seq(Entity \X Entity)
    BY <1>2, <1>3, EdgesFound
  <2> QED  BY <1>3, <1>4, <1>8, <2>1 DEF ReadInbound
<1>9. CASE Expand(p)
  <2>1. Expanded(rows[p], inbound[p]) \in RowList
    BY <1>2, <1>3, ExpandedRows
  <2> QED  BY <1>3, <1>4, <1>9, <2>1 DEF Expand
<1>10. CASE JoinIndex(p)
  <2>1. \A S : Cut(Filter(corpus.near, S), Pool) \in Listing
    BY <1>3, CorpusFacts, ListingParts
  <2>2. \E S : hits' = [hits EXCEPT ![p] = Cut(Filter(corpus.near, S), Pool)]
    BY <1>10 DEF JoinIndex
  <2> QED  BY <1>3, <1>4, <1>10, <2>1, <2>2 DEF JoinIndex
<1>11. CASE Fuse(p)
  <2>1. hits[p] \in Listing
    OBVIOUS
  <2>2. Fused(rows[p], hits[p]) \in Listing
    BY <1>2, <1>3, <2>1, FusedOrder
  <2>3. WithSources(rows[p], hits[p], Fused(rows[p], hits[p])) \in RowList
    BY <1>2, <2>2, RowsWithSources
  <2> QED  BY <1>3, <1>4, <1>11, <2>3 DEF Fuse
<1>12. CASE Project(p)
  <2> DEFINE rs == rows[p]
             found == own[p] \intersect Ids(rs)
             brought == witness[p]
             owner == [e \in Entity |-> OwnerOf(e)]
             out == Projected(rs, found, brought, owner)
  <2>1. owner \in [Entity -> Entity \union {Gone}] /\ found \in SUBSET Ids(rs) /\ rs \in RowList
    BY <1>2 DEF OwnerOf, Sought
  <2>2. rows' = [rows EXCEPT ![p] = out] /\ UNCHANGED <<own, witness, inbound, hits, routed, snapshot>>
    BY <1>12 DEF Project
  <2>3. out \in RowList
    <3> HIDE DEF rs, found, brought, owner
    <3> QED  BY <2>1, ProjectedRows
  <2> HIDE DEF out
  <2> QED  BY <1>3, <1>4, <2>2, <2>3
<1>13. CASE SnapshotRoute(p)
  BY <1>3, <1>4, <1>13 DEF SnapshotRoute
<1>14. CASE Enrich(p)
  BY <1>3, <1>4, <1>14 DEF Enrich
<1>15. CASE Answer(p)
  <2>1. pc'[p] = "done"
    BY <1>15 DEF Answer, Finish, SemanticTypes, ControlTypes
  <2>2. DOMAIN rows' = Proc /\ \A q \in Proc \ {p} : rows'[q] = rows[q]
    BY <1>15 DEF Answer
  <2>3. UNCHANGED <<own, witness, inbound, hits, routed, snapshot>>
    BY <1>15 DEF Answer
  <2> QED  BY <1>3, <1>4, <2>1, <2>2, <2>3
<1> QED  BY <1>5, <1>6, <1>7, <1>8, <1>9, <1>10, <1>11, <1>12, <1>13, <1>14, <1>15 DEF QueryStep

\* ... and so does every other.
LEMMA PipeTypesKept ==
  ASSUME Types, [Next]_searchVars
  PROVE  PipeTypes'
<1>1. ASSUME NEW p \in Proc, SemanticStep(p), UNCHANGED <<corpus, pipe>>
      PROVE  PipeTypes'
  <2>1. \A q \in Proc : pc'[q] # "done" => rows[q] \in RowList
    BY <1>1, NotDone
  <2> QED  BY <1>1, <2>1 DEF Types, PipeTypes, pipe
<1>2. ASSUME NEW e \in Entity, Edit(e), UNCHANGED <<corpus, pipe>>
      PROVE  PipeTypes'
  BY <1>2 DEF Edit, Types, PipeTypes, pipe
<1>3. CASE UNCHANGED searchVars
  BY <1>3 DEF searchVars, semanticVars, Types, PipeTypes, pipe
<1> QED  BY <1>1, <1>2, <1>3, Moves, PipeTypesKeptByQuery DEF Move

\* TYPES: in every run the state has its types; up to the answer no entity has two
\* rows.
THEOREM TypesHold == SearchSpec => []Types
<1>1. Beginning => Types
  BY TypesAtFirst, PipeTypesAtFirst DEF Types
<1>2. Types /\ [Next]_searchVars => Types'
  BY TypesKept, PipeTypesKept DEF Types
<1> QED  BY <1>1, <1>2, PTL DEF SearchSpec

-----------------------------------------------------------------------------
(* What the hits say, the answer says.                                       *)

\* Only fusion and projection lead out of their places, unless the process is killed.
LEMMA OnlyFuse ==
  ASSUME Types, [Next]_searchVars, NEW p \in Proc
  PROVE  /\ pc[p] = "fuse" /\ pc'[p] \notin {"fuse", "dead"} => Fuse(p)
         /\ pc[p] = "project" /\ pc'[p] = "route" => Project(p)
<1> SUFFICES ASSUME pc[p] \in {"fuse", "project"}, pc'[p] # pc[p], pc'[p] # "dead"
             PROVE  (pc[p] = "fuse" => Fuse(p)) /\ (pc[p] = "project" => Project(p))
  OBVIOUS
<1>0. pc[p] \in QueryPlaces
  BY DEF QueryPlaces
<1> USE DEF Types, SemanticTypes, ControlTypes
<1>1. ASSUME NEW q \in Proc, SemanticStep(q)
      PROVE  FALSE
  <2>1. q = p
    BY <1>1, WhereTo, ZenonT(60)
  <2>2. Kill(p)
    BY <1>0, <1>1, <2>1, WhereTo
  <2> QED  BY <2>2 DEF Kill
<1>2. ASSUME NEW q \in Proc, QueryStep(q), QueryMove(q)
      PROVE  (pc[p] = "fuse" => Fuse(p)) /\ (pc[p] = "project" => Project(p))
  <2>1. q = p
    BY <1>2 DEF QueryMove
  <2> QED  BY <1>2, <2>1 DEF QueryStep, Probe, CollectBody, CollectFields, ReadInbound, Expand,
                             JoinIndex, SnapshotRoute, Enrich, Answer, Step, StepOrFail, Fuse, Project
<1>3. ASSUME NEW e \in Entity, Edit(e)
      PROVE  FALSE
  BY <1>3 DEF Edit
<1>4. CASE UNCHANGED searchVars
  BY <1>4 DEF searchVars, semanticVars
<1> QED  BY <1>1, <1>2, <1>3, <1>4, Moves DEF Move

\* Fusion keeps the order of the hits.
LEMMA FuseKeepsOrder ==
  ASSUME Types, NEW p \in Proc, Fuse(p)
  PROVE  FusionKeepsOrder(p)
<1> DEFINE rs == rows[p]
           found == hits[p]
           fused == Fused(rs, found)
<1>1. corpus \in Corpora /\ rs \in RowList /\ found \in Listing
  BY DEF Types, PipeTypes, Fuse, Step
<1>2. rows'[p] = WithSources(rs, found, fused)
  BY DEF Fuse, Types, PipeTypes
<1> HIDE DEF rs, found
<1>3. ToSet(IdsOf(rs)) = Ids(rs)
  BY <1>1, RowListFacts
<1>4. LET all == Ids(rs) \union ToSet(found)
      IN  /\ fused \in Listing
          /\ Len(fused) = IF Cardinality(all) < corpus.limit THEN Cardinality(all) ELSE corpus.limit
          /\ \A e, f \in all :
                \/ Named(e) /\ ~Named(f)
                \/ (Named(e) <=> Named(f)) /\ Leads(IdsOf(rs), found, e, f)
                => ~IsAhead(fused, f, e)
  BY <1>1, FusedOrder
<1> HIDE DEF fused
<1>5. IdsOf(rows'[p]) = fused
  BY <1>1, <1>2, <1>4, RowsWithSources
<1> QED  BY <1>3, <1>4, <1>5 DEF FusionKeepsOrder, Leads, rs, found

\* Projection goes one hop.
LEMMA ProjectGoesOneHop ==
  ASSUME Types, NEW p \in Proc, Project(p)
  PROVE  OneHop(p)
<1> DEFINE rs == rows[p]
           found == own[p] \intersect Ids(rs)
           brought == witness[p]
           owner == [e \in Entity |-> OwnerOf(e)]
           out == Projected(rs, found, brought, owner)
<1>1. rs \in RowList
  BY DEF Types, PipeTypes, Project, StepOrFail
<1>2. rows'[p] = out
  BY DEF Project, Types, PipeTypes
<1>3. owner \in [Entity -> Entity \union {Gone}] /\ found \in SUBSET Ids(rs)
  BY DEF OwnerOf, Sought
<1>4. found \subseteq Entity
  BY <1>1, RowListFacts
<1>5. \A e \in Entity : owner[e] = OwnerOf(e)
  OBVIOUS
<1> HIDE DEF rs, found, brought, owner
<1>6. LET parents == {owner[e] : e \in found} \ {Gone}
      IN  /\ out \in RowList
          /\ Ids(out) \subseteq Ids(rs) \union {owner[e] : e \in found \ parents}
          /\ \A e \in found : IF e \in parents THEN e \in Ids(out)
                              ELSE e \in Ids(out) \/ owner[e] \in Ids(out)
  BY <1>1, <1>3, ProjectedRows
<1> HIDE DEF out
<1>7. Cardinality(Ids(out)) = Len(out)
  <2>1. /\ IdsOf(out) \in Seq(Entity) /\ IsInjective(IdsOf(out)) /\ ToSet(IdsOf(out)) = Ids(out)
        /\ Len(IdsOf(out)) = Len(out)
    BY <1>6, RowListFacts DEF Listing
  <2> QED  BY <2>1, InjectiveLength
<1>8. {owner[e] : e \in found} = {OwnerOf(e) : e \in found}
  BY <1>4, <1>5
<1>9. {owner[e] : e \in found \ ({OwnerOf(x) : x \in found} \ {Gone})}
      = {OwnerOf(e) : e \in found \ ({OwnerOf(x) : x \in found} \ {Gone})}
  BY <1>4, <1>5
<1> QED  BY <1>2, <1>4, <1>5, <1>6, <1>7, <1>8, <1>9 DEF OneHop, rs, found

\* WHAT THE HITS SAY, THE ANSWER SAYS: for any corpus, and whatever other commands do
\* in between, fusion keeps the order of the rows and of the semantic hits up to the
\* limit (fuseSemanticRows), and the projection on owners goes one hop and loses no
\* text hit (projectStructuralOwnerWitnessRows).
THEOREM AnswersFollow == SearchSpec => AnswerFollowsHits
<1>1. ASSUME Types, [Next]_searchVars, NEW p \in Proc
      PROVE  /\ pc[p] = "fuse" /\ pc'[p] \notin {"fuse", "dead"} => FusionKeepsOrder(p)
             /\ pc[p] = "project" /\ pc'[p] = "route" => OneHop(p)
  BY <1>1, OnlyFuse, FuseKeepsOrder, ProjectGoesOneHop
<1>2. Types /\ [Next]_searchVars
      => [\A p \in Proc :
            /\ pc[p] = "fuse" /\ pc'[p] \notin {"fuse", "dead"} => FusionKeepsOrder(p)
            /\ pc[p] = "project" /\ pc'[p] = "route" => OneHop(p)]_searchVars
  BY <1>1
<1> QED  BY <1>2, TypesHold, PTL DEF SearchSpec, AnswerFollowsHits

-----------------------------------------------------------------------------
(* Company.                                                                  *)

\* What each process has seen is not forgotten; only a beginning makes it run.
LEMMA SawGrows ==
  ASSUME Types, [Next]_searchVars, NEW p \in Proc
  PROVE  /\ saw[p] \subseteq saw'[p]
         /\ Running(p)' => Running(p) \/ Begin(p)
         /\ ~Running(p) => saw'[p] = saw[p] \/ Begin(p)
         /\ pc[p] = "dead" => pc'[p] = "dead"
<1> USE DEF Types, SemanticTypes, ControlTypes
<1>1. ASSUME NEW q \in Proc, SemanticStep(q)
      PROVE  /\ saw[p] \subseteq saw'[p]
             /\ Running(p)' => Running(p) \/ Begin(p)
             /\ ~Running(p) => saw'[p] = saw[p] \/ Begin(p)
             /\ pc[p] = "dead" => pc'[p] = "dead"
  <2>1. /\ q # p => pc'[p] = pc[p]
        /\ pc[q] # "dead" /\ pc[q] # "done"
    BY <1>1, WhereTo, ZenonT(60)
  <2>2. pc[q] = "idle" => Begin(q)
    BY <1>1, IdleBegins
  <2>3. UNCHANGED saw \/ Begin(q) \/ \E w : Note(q, w)
    BY <1>1, WhoChanges, Refusals DEF Fetch, Count
  <2>4. saw[p] \subseteq saw'[p] /\ (~Running(p) /\ p # q => saw'[p] = saw[p])
    <3>1. CASE Begin(q)
      BY <3>1 DEF Begin
    <3>2. CASE \E w : Note(q, w)
      <4>1. PICK w : saw' = [saw EXCEPT ![q] = saw[q] \union {w}]
        BY <3>2 DEF Note
      <4>2. q \in DOMAIN saw /\ p \in DOMAIN saw
        OBVIOUS
      <4>3. saw'[p] = IF p = q THEN saw[q] \union {w} ELSE saw[p]
        BY <4>1, <4>2, Zenon
      <4> QED  BY <4>3
    <3> QED  BY <2>3, <3>1, <3>2
  <2> QED  BY <2>1, <2>2, <2>4 DEF Running
<1>2. ASSUME NEW q \in Proc, QueryMove(q)
      PROVE  /\ saw' = saw
             /\ Running(p)' => Running(p)
             /\ pc[p] = "dead" => pc'[p] = "dead"
  BY <1>2 DEF QueryMove, QueryPlaces, Running
<1>3. ASSUME NEW e \in Entity, Edit(e)
      PROVE  pc' = pc /\ saw[p] \subseteq saw'[p] /\ (~Running(p) => saw'[p] = saw[p])
  BY <1>3 DEF Edit
<1>4. CASE UNCHANGED searchVars
  BY <1>4 DEF searchVars, semanticVars, Running
<1>5. ASSUME NEW e \in Entity, Edit(e)
      PROVE  Running(p)' => Running(p)
  BY <1>3, <1>5 DEF Running
<1> QED  BY <1>1, <1>2, <1>3, <1>4, <1>5, Moves DEF Move

\* Of two processes at work each has seen company, and goes on having seen it.
LEMMA CompanyKept ==
  ASSUME Types, Company, [Next]_searchVars
  PROVE  Company'
<1> SUFFICES ASSUME NEW p \in Proc, NEW q \in Proc, p # q, Running(p)', Running(q)'
             PROVE  "company" \in saw'[p]
  BY DEF Company, Alone
<1> USE DEF Types, SemanticTypes, ControlTypes
<1>1. CASE Running(p) /\ Running(q)
  BY <1>1, SawGrows DEF Company, Alone
<1>2. CASE Begin(p)
  <2>1. ~Begin(q)
    BY <1>2 DEF Begin, Goto
  <2>2. Running(q)
    BY <2>1, SawGrows
  <2> QED  BY <1>2, <2>2 DEF Begin
<1>3. CASE Begin(q) /\ Running(p)
  BY <1>3 DEF Begin
<1> QED  BY <1>1, <1>2, <1>3, SawGrows

\* While a process is at work and stays alone, only it takes steps.
LEMMA AloneSteps ==
  ASSUME Types, Company, [Next]_searchVars,
         NEW p \in Proc, Running(p), Alone(p)', NEW q \in Proc, SemanticStep(q) \/ QueryMove(q)
  PROVE  q = p /\ Alone(p)
<1>1. Alone(p)
  BY SawGrows DEF Alone
<1>2. ASSUME q # p
      PROVE  FALSE
  <2>1. ~Running(q)
    BY <1>1, <1>2 DEF Company
  <2>2. Begin(q)
    BY <2>1, WhereTo, IdleBegins DEF Running, QueryMove, QueryPlaces
  <2>3. "company" \in saw'[p]
    BY <1>2, <2>2 DEF Begin, Types, SemanticTypes, ControlTypes
  <2> QED  BY <2>3 DEF Alone
<1> QED  BY <1>1, <1>2

-----------------------------------------------------------------------------
(* The files.                                                                *)

\* A step of one process leaves what belongs to another alone.
LEMMA OthersKeep ==
  ASSUME Types, NEW p \in Proc, SemanticStep(p), NEW q \in Proc, q # p
  PROVE  /\ pc'[q] = pc[q] /\ outcome'[q] = outcome[q] /\ stage'[q] = stage[q]
         /\ seen'[q] = seen[q] /\ todo'[q] = todo[q] /\ drop'[q] = drop[q]
         /\ file'[q] = file[q] /\ offset'[q] = offset[q] /\ open'[q] = open[q]
         /\ q \in loaded' <=> q \in loaded
<1> USE DEF Types, SemanticTypes
<1>1. pc'[q] = pc[q] /\ outcome'[q] = outcome[q]
  <2>1. q \in DOMAIN pc /\ q \in DOMAIN outcome
    BY DEF ControlTypes
  <2>2. /\ \E l : pc' = [pc EXCEPT ![p] = l]
        /\ outcome' = outcome \/ \E r : outcome' = [outcome EXCEPT ![p] = r]
    BY WhereTo
  <2> QED  BY <2>1, <2>2
<1>2. stage'[q] = stage[q]
  BY WhoChanges DEF Count, ControlTypes
<1>3. seen'[q] = seen[q] /\ todo'[q] = todo[q] /\ drop'[q] = drop[q]
  BY WhoChanges DEF ListEntities, Compare, ReadTexts, PassTypes
<1>4. offset'[q] = offset[q] /\ open'[q] = open[q]
  <2>1. q \in DOMAIN offset /\ q \in DOMAIN open
    BY DEF FileTypes
  <2>2. /\ offset' = offset \/ \E n : offset' = [offset EXCEPT ![p] = n]
        /\ open' = open \/ \E i : open' = [open EXCEPT ![p] = i]
    <3>1. CASE OpenTmp(p)
      BY <3>1 DEF OpenTmp
    <3>2. CASE Write(p)
      BY <3>2 DEF Write
    <3> QED  BY <3>1, <3>2, WhoChanges
  <2> QED  BY <2>1, <2>2
<1>5. file'[q] = file[q]
  BY WhoChanges DEF Embed, CheckFile, After, RenameTmp, EmbedQuery, FileTypes
<1>6. q \in loaded' <=> q \in loaded
  BY WhoChanges DEF Load
<1> QED  BY <1>1, <1>2, <1>3, <1>4, <1>5, <1>6

\* A step that at most takes a temporary name away.
LeavesFiles(p) ==
    /\ UNCHANGED <<final, bytes, offset, open>>
    /\ tmp' = tmp \/ \E f \in File : tmp' = [tmp EXCEPT ![f] = Gone]
    /\ pc'[p] # "write" /\ (pc[p] = "write" => Kill(p) \/ DiskRefuses(p))
    /\ pc'[p] \in {"verify", "rename"} => VerifyTmp(p) /\ tmp' = tmp /\ file' = file

\* What a step of the index or of the files does to the files.
LEMMA FileSteps ==
  ASSUME Types, NEW p \in Proc, SemanticStep(p)
  PROVE  \/ OpenTmp(p) \/ Write(p) \/ LeavesFiles(p)
         \/ RenameTmp(p) /\ tmp[file[p]] # Gone
<1> SUFFICES ASSUME ~OpenTmp(p), ~Write(p), ~(RenameTmp(p) /\ tmp[file[p]] # Gone)
             PROVE  LeavesFiles(p)
  OBVIOUS
<1>1. UNCHANGED <<bytes, offset, open>>
  BY WhoChanges
<1>2. UNCHANGED final
  BY WhoChanges DEF RenameTmp
<1>3. tmp' = tmp \/ \E f \in File : tmp' = [tmp EXCEPT ![f] = Gone]
  <2>1. "model" \in File /\ file[p] \in File
    BY DEF File, Types, SemanticTypes, FileTypes
  <2> QED  BY <2>1, WhoChanges, Refusals DEF Fetch, VerifyTmp, RenameTmp
<1>4. pc'[p] # "write" /\ (pc[p] = "write" => Kill(p) \/ DiskRefuses(p))
  <2>1. p \in DOMAIN pc
    BY DEF Types, SemanticTypes, ControlTypes
  <2>2. pc'[p] # "write"
    BY <2>1, WhereTo
  <2>3. pc[p] = "write" => Kill(p) \/ DiskRefuses(p)
    BY IdleBegins DEF VerifyTmp, RenameTmp
  <2> QED  BY <2>2, <2>3
<1>5. pc'[p] \in {"verify", "rename"} => VerifyTmp(p) /\ tmp' = tmp /\ file' = file
  <2> USE DEF Goto, Finish, Unavailable, Types, SemanticTypes, ControlTypes
  <2>1. pc'[p] \in {"verify", "rename"} => VerifyTmp(p)
    <3>1. DiskRefuses(p) => pc'[p] \notin {"verify", "rename"}
      BY Refusals
    <3> QED  BY <3>1, ZenonT(60) DEF SemanticStep, Begin, Kill, ListEntities, Compare, ReadTexts, Embed,
       Commit, CheckFile, After, Fetch, RenameTmp, Load, Count, EmbedQuery
  <2> QED  BY <2>1 DEF VerifyTmp, writing
<1> QED  BY <1>1, <1>2, <1>3, <1>4, <1>5 DEF LeavesFiles

\* A step that is not of the index or of the files, as these see it.
LEMMA OtherSteps ==
  ASSUME Types, [Next]_searchVars, \A p \in Proc : ~SemanticStep(p)
  PROVE  /\ UNCHANGED <<build, job, stage, loaded, file, offset, open, final, tmp, bytes, corpus>>
         /\ UNCHANGED <<seen, todo, drop>>
         /\ \A q \in Proc : \/ pc'[q] = pc[q] /\ outcome'[q] = outcome[q]
                            \/ QueryStep(q) /\ QueryMove(q)
<1>1. ASSUME NEW p \in Proc, QueryStep(p), QueryMove(p)
      PROVE  \A q \in Proc : \/ pc'[q] = pc[q] /\ outcome'[q] = outcome[q]
                             \/ QueryStep(q) /\ QueryMove(q)
  <2> SUFFICES ASSUME NEW q \in Proc, q # p PROVE pc'[q] = pc[q] /\ outcome'[q] = outcome[q]
    BY <1>1
  <2> QED  BY <1>1 DEF QueryMove, Types, SemanticTypes, ControlTypes
<1>2. ASSUME NEW p \in Proc, QueryMove(p)
      PROVE  UNCHANGED <<build, job, stage, loaded, pass, writing, disk, corpus>>
  BY <1>2 DEF QueryMove
<1>3. ASSUME NEW e \in Entity, Edit(e), UNCHANGED <<corpus, pipe>>
      PROVE  UNCHANGED <<build, job, pc, stage, outcome, pass, loaded, writing, disk, corpus>>
  BY <1>3 DEF Edit
<1>4. CASE UNCHANGED searchVars
  BY <1>4 DEF searchVars, semanticVars, pass, writing, disk
<1> QED  BY <1>1, <1>2, <1>3, <1>4, Moves DEF Move, pass, writing, disk

\* Nobody is made to write by such a step.
LEMMA NoWriters ==
  ASSUME Types, [Next]_searchVars, \A p \in Proc : ~SemanticStep(p), NEW q \in Proc,
         pc'[q] \in FilePlaces \union {"idle", "list", "rows", "texts", "embed", "commit", "count"}
  PROVE  pc'[q] = pc[q]
<1>1. q \in DOMAIN pc
  BY DEF Types, SemanticTypes, ControlTypes
<1>2. QueryMove(q) => pc'[q] \in (QueryPlaces \ {"probe", "join"}) \union {"semantic", "done"}
  BY <1>1 DEF QueryMove
<1> QED  BY <1>2, OtherSteps DEF QueryPlaces, FilePlaces

\* Each name stands for an inode of its file, and no inode has two names.
LEMMA LinksKept ==
  ASSUME Types, Links, NotYet, [Next]_searchVars
  PROVE  Links'
<1> USE DEF Types, SemanticTypes
<1>1. ASSUME NEW p \in Proc, SemanticStep(p)
      PROVE  Links'
  <2>1. \A q \in Proc \ {p} : pc'[q] = pc[q] /\ file'[q] = file[q] /\ open'[q] = open[q]
    BY <1>1, OthersKeep
  <2>2. CASE OpenTmp(p)
    <3> DEFINE f == file[p]
               i == IF tmp[f] = Gone THEN <<p, f>> ELSE tmp[f]
    <3>1. /\ tmp' = [tmp EXCEPT ![f] = i] /\ open' = [open EXCEPT ![p] = i]
          /\ UNCHANGED <<file, final>> /\ pc[p] = "open"
      BY <2>2 DEF OpenTmp
    <3>2. f \in File /\ final[f] # <<p, f>>
      BY <3>1 DEF NotYet, Unused, FileTypes
    <3>3. i # final[f] /\ i # Gone /\ \E o \in Proc : i = <<o, f>>
      <4>1. CASE tmp[f] = Gone
        <5>1. <<p, f>> \in Inode
          BY <3>2 DEF Inode
        <5> QED  BY <3>2, <4>1, <5>1, SemanticAssumption
      <4>2. CASE tmp[f] # Gone
        BY <3>2, <4>2 DEF Links
      <4> QED  BY <4>1, <4>2
    <3> HIDE DEF i
    <3>4. open'[p] = i /\ tmp'[f] = i /\ \A g \in File \ {f} : tmp'[g] = tmp[g]
      BY <3>1, <3>2 DEF FileTypes
    <3>5. \A q \in Proc : pc'[q] = "write" => \E o \in Proc : open'[q] = <<o, file'[q]>>
      BY <2>1, <3>1, <3>3, <3>4 DEF Links
    <3>6. \A g \in File :
             /\ final[g] = Gone \/ \E o \in Proc \union {Gone} : final[g] = <<o, g>>
             /\ tmp'[g] = Gone \/ \E o \in Proc : tmp'[g] = <<o, g>>
             /\ tmp'[g] # Gone => tmp'[g] # final[g]
      BY <3>3, <3>4 DEF Links
    <3> QED  BY <3>1, <3>5, <3>6 DEF Links
  <2>3. CASE Write(p)
    <3>1. UNCHANGED <<file, open, final, tmp>> /\ pc[p] = "write"
      BY <2>3 DEF Write
    <3> QED  BY <2>1, <3>1 DEF Links
  <2>4. CASE RenameTmp(p) /\ tmp[file[p]] # Gone
    <3> DEFINE f == file[p]
    <3>1. /\ final' = [final EXCEPT ![f] = tmp[f]] /\ tmp' = [tmp EXCEPT ![f] = Gone]
          /\ f \in File
      BY <2>4 DEF RenameTmp, FileTypes
    <3>2. pc'[p] # "write"
      BY <2>4 DEF RenameTmp, After, Goto, ControlTypes
    <3> HIDE DEF f
    <3>3. /\ final'[f] = tmp[f] /\ tmp'[f] = Gone
          /\ \A g \in File \ {f} : final'[g] = final[g] /\ tmp'[g] = tmp[g]
      BY <3>1 DEF FileTypes
    <3>4. \A g \in File :
             /\ final'[g] = Gone \/ \E o \in Proc \union {Gone} : final'[g] = <<o, g>>
             /\ tmp'[g] = Gone \/ \E o \in Proc : tmp'[g] = <<o, g>>
             /\ tmp'[g] # Gone => tmp'[g] # final'[g]
      BY <3>1, <3>3 DEF Links
    <3> QED  BY <2>1, <3>2, <3>4 DEF Links
  <2>5. CASE LeavesFiles(p)
    <3>1. UNCHANGED final /\ pc'[p] # "write" /\ \A g \in File : tmp'[g] \in {tmp[g], Gone}
      BY <2>5 DEF LeavesFiles, FileTypes
    <3> QED  BY <2>1, <3>1 DEF Links
  <2> QED  BY <1>1, <2>2, <2>3, <2>4, <2>5, FileSteps
<1>2. CASE \A p \in Proc : ~SemanticStep(p)
  <2>1. UNCHANGED <<file, open, final, tmp>>
    BY <1>2, OtherSteps
  <2>2. \A q \in Proc : pc'[q] = "write" => pc[q] = "write"
    BY <1>2, NoWriters DEF FilePlaces
  <2> QED  BY <2>1, <2>2 DEF Links
<1> QED  BY <1>1, <1>2

EarlyPlaces == {"probe", "collect body", "collect fields", "inbound", "expand", "semantic"}

\* In which order a query goes.
LEMMA QueryOrder ==
  ASSUME Types, NEW p \in Proc, QueryStep(p)
  PROVE  /\ pc'[p] \in EarlyPlaces => pc[p] \in EarlyPlaces
         /\ pc'[p] \in {"fuse", "project", "route", "enrich"}
            => pc[p] \in {"join", "fuse", "project", "route", "enrich"}
         /\ pc'[p] = "project" => corpus'.project
<1>1. p \in DOMAIN pc
  BY DEF Types, SemanticTypes, ControlTypes
<1> QED  BY <1>1 DEF QueryStep, EarlyPlaces, Step, StepOrFail, Goto, Finish, Probe, CollectBody,
             CollectFields, ReadInbound, Expand, JoinIndex, Fuse, Project, SnapshotRoute, Enrich, Answer

\* A step of a query leaves what the others have found alone.
LEMMA OwnRows ==
  ASSUME Types, NEW p \in Proc, QueryStep(p), NEW q \in Proc, q # p
  PROVE  /\ rows'[q] = rows[q] /\ hits'[q] = hits[q] /\ inbound'[q] = inbound[q]
         /\ routed'[q] = routed[q] /\ snapshot'[q] = snapshot[q]
<1>1. /\ q \in DOMAIN rows /\ q \in DOMAIN hits /\ q \in DOMAIN inbound
      /\ q \in DOMAIN routed /\ q \in DOMAIN snapshot
  BY DEF Types, PipeTypes
<1>2. rows' = rows \/ \E x : rows' = [rows EXCEPT ![p] = x]
  BY DEF QueryStep, Probe, CollectBody, CollectFields, ReadInbound, Expand, JoinIndex, Fuse, Project,
         SnapshotRoute, Enrich, Answer
<1>3. /\ hits' = hits \/ \E x : hits' = [hits EXCEPT ![p] = x]
      /\ inbound' = inbound \/ \E x : inbound' = [inbound EXCEPT ![p] = x]
  BY DEF QueryStep, Probe, CollectBody, CollectFields, ReadInbound, Expand, JoinIndex, Fuse, Project,
         SnapshotRoute, Enrich, Answer
<1>4. /\ routed' = routed \/ \E x : routed' = [routed EXCEPT ![p] = x]
      /\ snapshot' = snapshot \/ \E x : snapshot' = [snapshot EXCEPT ![p] = x]
  BY DEF QueryStep, Probe, CollectBody, CollectFields, ReadInbound, Expand, JoinIndex, Fuse, Project,
         SnapshotRoute, Enrich, Answer
<1> QED  BY <1>1, <1>2, <1>3, <1>4

\* An inode that is nowhere in use stays so, unless its maker makes it.
LEMMA UnusedKept ==
  ASSUME Types, NEW p \in Proc, SemanticStep(p), NEW i \in Inode, Unused(i),
         OpenTmp(p) => i # <<p, file[p]>>
  PROVE  Unused(i)'
<1> USE DEF Types, SemanticTypes
<1>0. i # Gone
  BY SemanticAssumption
<1>1. \A q \in Proc \ {p} : pc'[q] = pc[q] /\ open'[q] = open[q]
  BY OthersKeep
<1>2. CASE OpenTmp(p)
  <2> DEFINE f == file[p]
             j == IF tmp[f] = Gone THEN <<p, f>> ELSE tmp[f]
  <2>1. /\ tmp' = [tmp EXCEPT ![f] = j] /\ open' = [open EXCEPT ![p] = j]
        /\ UNCHANGED final /\ f \in File
    BY <1>2 DEF OpenTmp, FileTypes
  <2>2. j # i
    BY <1>2, <2>1 DEF Unused
  <2> HIDE DEF f, j
  <2>3. open'[p] = j /\ \A g \in File : tmp'[g] \in {j, tmp[g]}
    BY <2>1 DEF FileTypes
  <2> QED  BY <1>1, <2>1, <2>2, <2>3 DEF Unused
<1>3. CASE Write(p)
  <2>1. UNCHANGED <<open, final, tmp>> /\ pc[p] = "write"
    BY <1>3 DEF Write
  <2> QED  BY <1>1, <2>1 DEF Unused
<1>4. CASE RenameTmp(p) /\ tmp[file[p]] # Gone
  <2> DEFINE f == file[p]
  <2>1. /\ final' = [final EXCEPT ![f] = tmp[f]] /\ tmp' = [tmp EXCEPT ![f] = Gone] /\ f \in File
    BY <1>4 DEF RenameTmp, FileTypes
  <2>2. pc'[p] # "write"
    BY <1>4 DEF RenameTmp, After, Goto, ControlTypes
  <2> HIDE DEF f
  <2>3. \A g \in File : final'[g] \in {final[g], tmp[f]} /\ tmp'[g] \in {Gone, tmp[g]}
    BY <2>1 DEF FileTypes
  <2> QED  BY <1>0, <1>1, <2>1, <2>2, <2>3 DEF Unused
<1>5. CASE LeavesFiles(p)
  <2>1. UNCHANGED final /\ pc'[p] # "write" /\ \A g \in File : tmp'[g] \in {tmp[g], Gone}
    BY <1>5 DEF LeavesFiles, FileTypes
  <2> QED  BY <1>0, <1>1, <2>1 DEF Unused
<1> QED  BY <1>2, <1>3, <1>4, <1>5, FileSteps

\* A process makes its inode of a file once.
LEMMA NotYetKept ==
  ASSUME Types, Placed, NotYet, [Next]_searchVars
  PROVE  NotYet'
<1> USE DEF Types, SemanticTypes
<1>0. \A p \in Proc, f \in File : <<p, f>> \in Inode
  BY DEF Inode
<1>1. ASSUME NEW p \in Proc, SemanticStep(p)
      PROVE  NotYet'
  <2> DEFINE Of(q, f) == Unused(<<q, f>>)
             Fits(q, at, f, st, in, m, l) ==
                 /\ at \in {"idle", "list", "rows", "texts", "embed"} => m /\ l
                 /\ at \in {"check", "fetch", "open"} => (f = "model" => m) /\ (f = "lib" => l)
                 /\ at \in {"check", "fetch", "open", "write", "verify", "rename"} /\ f = "model" => l
                 /\ at \in {"commit", "count"} => in \/ (m /\ l)
                 /\ at \in EarlyPlaces => in \/ st = "ensure" \/ (m /\ l)
  <2>1. NotYet <=> \A q \in Proc :
            Fits(q, pc[q], file[q], stage[q], q \in loaded, Of(q, "model"), Of(q, "lib"))
    BY DEF NotYet, EarlyPlaces, FileTypes, File
  <2>2. NotYet' <=> \A q \in Proc :
            Fits(q, pc'[q], file'[q], stage'[q], q \in loaded', Of(q, "model")', Of(q, "lib")')
    <3>1. file' \in [Proc -> File]
      BY <1>1, TypesKept DEF FileTypes
    <3> QED  BY <3>1 DEF NotYet, EarlyPlaces, File
  <2>3. \A q \in Proc \ {p} : (Of(q, "model") => Of(q, "model")') /\ (Of(q, "lib") => Of(q, "lib")')
    BY <1>0, <1>1, UnusedKept DEF File
  <2>4. /\ ~OpenTmp(p) => (Of(p, "model") => Of(p, "model")') /\ (Of(p, "lib") => Of(p, "lib")')
        /\ file[p] = "model" => (Of(p, "lib") => Of(p, "lib")')
    BY <1>0, <1>1, UnusedKept DEF File
  <2> HIDE DEF Of
  <2>5. \A q \in Proc \ {p} :
            Fits(q, pc'[q], file'[q], stage'[q], q \in loaded', Of(q, "model")', Of(q, "lib")')
    <3> SUFFICES ASSUME NEW q \in Proc \ {p}
                 PROVE  Fits(q, pc'[q], file'[q], stage'[q], q \in loaded', Of(q, "model")', Of(q, "lib")')
      OBVIOUS
    <3>1. /\ pc'[q] = pc[q] /\ stage'[q] = stage[q] /\ file'[q] = file[q]
          /\ q \in loaded' <=> q \in loaded
      BY <1>1, OthersKeep
    <3> QED  BY <2>1, <2>3, <3>1
  <2>6. Fits(p, pc[p], file[p], stage[p], p \in loaded, Of(p, "model"), Of(p, "lib"))
    BY <2>1
  <2>7. p \in DOMAIN pc /\ p \in DOMAIN file /\ p \in DOMAIN stage /\ file[p] \in {"model", "lib"}
    BY DEF ControlTypes, FileTypes, File
  <2>8. pc[p] \in {"idle", "list", "rows", "texts", "embed", "commit", "count"} => stage[p] = "ensure"
    BY DEF Placed
  <2> DEFINE Goal == Fits(p, pc'[p], file'[p], stage'[p], p \in loaded', Of(p, "model")', Of(p, "lib")')
  <2>9. SUFFICES Goal
    <3> HIDE DEF Fits
    <3> QED  BY <2>2, <2>5
  <2> USE DEF Goto, Finish, EarlyPlaces, writing
  <2>10. CASE Begin(p)
    <3>1. pc'[p] \in {"probe", "list"} /\ pc[p] = "idle" /\ ~OpenTmp(p)
      BY <2>7, <2>10, Zenon DEF Begin, OpenTmp
    <3> QED  BY <2>4, <2>6, <3>1
  <2>11. CASE Kill(p)
    BY <2>7, <2>11 DEF Kill
  <2>12. CASE ListEntities(p)
    <3>1. pc'[p] \in {"rows", "texts"} /\ pc[p] = "list" /\ ~OpenTmp(p)
      BY <2>7, <2>12 DEF ListEntities, OpenTmp
    <3> QED  BY <2>4, <2>6, <3>1
  <2>13. CASE Compare(p)
    <3>1. pc'[p] \in {"embed", "count"} /\ pc[p] = "rows" /\ ~OpenTmp(p)
      BY <2>7, <2>13 DEF Compare, OpenTmp
    <3> QED  BY <2>4, <2>6, <3>1
  <2>14. CASE ReadTexts(p)
    <3>1. pc'[p] = "embed" /\ pc[p] = "texts" /\ ~OpenTmp(p)
      BY <2>7, <2>14 DEF ReadTexts, OpenTmp
    <3> QED  BY <2>4, <2>6, <3>1
  <2>15. CASE Embed(p)
    <3>1. /\ pc'[p] = "commit" \/ (pc'[p] = "check" /\ file'[p] = "model")
          /\ pc[p] = "embed" /\ ~OpenTmp(p)
      BY <2>7, <2>15 DEF Embed, OpenTmp
    <3> QED  BY <2>4, <2>6, <3>1
  <2>16. CASE Commit(p)
    <3>1. pc'[p] \in {"done", "count"} /\ pc[p] = "commit" /\ ~OpenTmp(p) /\ loaded' = loaded
      BY <2>7, <2>16 DEF Commit, OpenTmp
    <3> QED  BY <2>4, <2>6, <3>1
  <2>17. CASE CheckFile(p)
    <3>1. /\ pc[p] = "check" /\ ~OpenTmp(p)
          /\ \/ file[p] = "model" /\ pc'[p] = "check" /\ file'[p] = "lib"
             \/ pc'[p] = "load"
             \/ pc'[p] \in {"fetch", "open"} /\ file'[p] = file[p]
      BY <2>7, <2>17 DEF CheckFile, After, OpenTmp
    <3> QED  BY <2>4, <2>6, <3>1
  <2>18. CASE Fetch(p)
    <3>1. /\ pc[p] = "fetch" /\ ~OpenTmp(p) /\ file' = file /\ stage' = stage
          /\ pc'[p] \in {"open", "done", "fuse"} \/ (pc'[p] = "probe" /\ stage[p] = "ensure")
      BY <2>7, <2>18 DEF Fetch, Unavailable, OpenTmp
    <3> QED  BY <2>4, <2>6, <3>1
  <2>19. CASE OpenTmp(p)
    <3>1. pc[p] = "open" /\ pc'[p] = "write" /\ file' = file
      BY <2>7, <2>19 DEF OpenTmp
    <3> QED  BY <2>4, <2>6, <3>1
  <2>20. CASE Write(p)
    <3>1. /\ pc[p] = "write" /\ ~OpenTmp(p) /\ file' = file
          /\ pc'[p] \in {"write", "verify", "rename"}
      BY <2>7, <2>20 DEF Write, OpenTmp
    <3> QED  BY <2>4, <2>6, <3>1
  <2>21. CASE VerifyTmp(p)
    <3>1. /\ pc[p] = "verify" /\ ~OpenTmp(p) /\ file' = file /\ stage' = stage
          /\ pc'[p] \in {"rename", "done", "fuse"} \/ (pc'[p] = "probe" /\ stage[p] = "ensure")
      BY <2>7, <2>21 DEF VerifyTmp, Unavailable, OpenTmp
    <3> QED  BY <2>4, <2>6, <3>1
  <2>22. CASE RenameTmp(p)
    <3>1. /\ pc[p] = "rename" /\ ~OpenTmp(p) /\ stage' = stage
          /\ \/ file[p] = "model" /\ pc'[p] = "check" /\ file'[p] = "lib"
             \/ pc'[p] \in {"load", "done", "fuse"} \/ (pc'[p] = "probe" /\ stage[p] = "ensure")
      BY <2>7, <2>22 DEF RenameTmp, After, Unavailable, OpenTmp
    <3> QED  BY <2>4, <2>6, <3>1
  <2>23. CASE Load(p)
    <3>1. /\ pc[p] = "load" /\ ~OpenTmp(p) /\ stage' = stage
          /\ \/ p \in loaded' /\ pc'[p] \in {"commit", "join"}
             \/ pc'[p] \in {"done", "fuse"} \/ (pc'[p] = "probe" /\ stage[p] = "ensure")
      BY <2>7, <2>23 DEF Load, Unavailable, OpenTmp
    <3> QED  BY <2>4, <2>6, <3>1
  <2>24. CASE Count(p)
    <3>1. pc[p] = "count" /\ ~OpenTmp(p) /\ pc'[p] = "probe" /\ loaded' = loaded
      BY <2>7, <2>24 DEF Count, OpenTmp
    <3> QED  BY <2>4, <2>6, <3>1
  <2>25. CASE EmbedQuery(p)
    <3>1. /\ pc[p] = "semantic" /\ ~OpenTmp(p)
          /\ \/ pc'[p] \in {"fuse", "join"}
             \/ p \notin loaded /\ stage[p] = "query" /\ pc'[p] = "check" /\ file'[p] = "model"
      BY <2>7, <2>25 DEF EmbedQuery, OpenTmp
    <3> QED  BY <2>4, <2>6, <3>1
  <2>26. CASE DiskRefuses(p)
    <3>1. /\ file' = file /\ stage' = stage /\ (OpenTmp(p) => pc'[p] = "write")
          /\ pc'[p] \in {"done", "fuse"} \/ (pc'[p] = "probe" /\ stage[p] = "ensure")
      BY <2>7, <2>26, Refusals DEF OpenTmp
    <3> QED  BY <2>4, <2>6, <3>1
  <2> HIDE DEF Goal
  <2> QED
    BY <1>1, <2>10, <2>11, <2>12, <2>13, <2>14, <2>15, <2>16, <2>17, <2>18, <2>19, <2>20, <2>21, <2>22,
       <2>23, <2>24, <2>25, <2>26 DEF SemanticStep
<1>2. CASE \A p \in Proc : ~SemanticStep(p)
  <2>1. UNCHANGED <<final, tmp, open, file, stage, loaded>>
    BY <1>2, OtherSteps
  <2>2. \A q \in Proc :
           pc'[q] \in FilePlaces \union {"idle", "list", "rows", "texts", "embed", "commit", "count"}
                        => pc'[q] = pc[q]
    BY <1>2, NoWriters
  <2>3. \A q \in Proc : pc'[q] \in EarlyPlaces => pc[q] \in EarlyPlaces
    BY <1>2, OtherSteps, QueryOrder
  <2>4. \A i : Unused(i) => Unused(i)'
    BY <2>1, <2>2 DEF Unused, FilePlaces
  <2> HIDE DEF Types
  <2> QED  BY <2>1, <2>2, <2>3, <2>4 DEF NotYet, FilePlaces, EarlyPlaces
<1> QED  BY <1>1, <1>2

\* What one who is alone has made of the files stays as it made it.
LEMMA AloneAtWorkKept ==
  ASSUME Types, Company, Placed, Links, AloneAtWork, [Next]_searchVars
  PROVE  AloneAtWork'
<1> USE DEF Types, SemanticTypes
<1> DEFINE Made(p) ==
        /\ pc[p] = "write" => tmp[file[p]] = open[p] /\ bytes[open[p]] = 1..offset[p]
        /\ pc[p] \in {"verify", "rename"} => Whole(tmp[file[p]])
        /\ pc[p] \in FilePlaces /\ file[p] = "lib" => InPlace("model")
        /\ pc[p] = "load" => InPlace("model") /\ InPlace("lib")
<1>1. AloneAtWork <=> \A p \in Proc : Running(p) /\ Alone(p) => Made(p)
  BY DEF AloneAtWork
<1>2. AloneAtWork' <=> \A p \in Proc : Running(p)' /\ Alone(p)' => Made(p)'
  BY DEF AloneAtWork
<1> SUFFICES ASSUME NEW p \in Proc, Running(p)', Alone(p)' PROVE Made(p)'
  <2> HIDE DEF Made
  <2> QED  BY <1>2
<1>4. p \in DOMAIN pc /\ p \in DOMAIN file /\ file[p] \in {"model", "lib"} /\ file[p] \in File
  BY DEF ControlTypes, FileTypes, File
<1>5. CASE SemanticStep(p) /\ Running(p)
  <2>1. Made(p)
    BY <1>1, <1>5, SawGrows DEF Alone
  <2> USE DEF Goto, Finish, FilePlaces, writing, disk
  <2>2. CASE OpenTmp(p)
    <3> DEFINE f == file[p]
               i == IF tmp[f] = Gone THEN <<p, f>> ELSE tmp[f]
    <3>1. /\ tmp' = [tmp EXCEPT ![f] = i] /\ open' = [open EXCEPT ![p] = i]
          /\ bytes' = [bytes EXCEPT ![i] = {}] /\ offset' = [offset EXCEPT ![p] = 0]
          /\ UNCHANGED <<build, file, final>> /\ pc[p] = "open" /\ pc'[p] = "write"
      BY <1>4, <2>2 DEF OpenTmp
    <3>2. i \in Inode /\ \E o \in Proc : i = <<o, f>>
      BY <1>4 DEF Inode, Links, FileTypes
    <3> HIDE DEF i
    <3>3. tmp'[f] = i /\ open'[p] = i /\ bytes'[i] = {} /\ offset'[p] = 0
      BY <1>4, <3>1, <3>2 DEF FileTypes
    <3>4. 1..0 = {}
      OBVIOUS
    <3>5. f = "lib" => InPlace("model")'
      <4> SUFFICES ASSUME f = "lib" PROVE InPlace("model")'
        OBVIOUS
      <4>1. InPlace("model") /\ final["model"] # i
        BY <2>1, <3>1, <3>2, SemanticAssumption DEF Links, File
      <4>2. final["model"] # Gone => bytes'[final["model"]] = bytes[final["model"]]
        BY <3>1, <4>1 DEF FileTypes, File
      <4> QED  BY <3>1, <4>1, <4>2 DEF InPlace, Whole, Stands
    <3> QED  BY <3>1, <3>3, <3>4, <3>5
  <2>3. CASE Write(p)
    <3> DEFINE f == file[p]
               i == open[p]
    <3>1. /\ pc[p] = "write" /\ i \in Inode /\ offset[p] \in 0..1
          /\ tmp[f] = i /\ bytes[i] = 1..offset[p]
      BY <2>1, <2>3 DEF Write, FileTypes
    <3>2. /\ UNCHANGED <<build, file, open, final, tmp>>
          /\ bytes' = [bytes EXCEPT ![i] = @ \union {offset[p] + 1}]
          /\ offset' = [offset EXCEPT ![p] = @ + 1]
          /\ offset'[p] < 2 \/ pc'[p] # "write"
          /\ pc'[p] \in {"write", "verify", "rename"} /\ (pc'[p] = "write" \/ offset'[p] >= 2)
      BY <1>4, <2>3, ChunkCount, <3>1 DEF Write, FileTypes
    <3>3. offset'[p] = offset[p] + 1 /\ bytes'[i] = bytes[i] \union {offset[p] + 1}
      BY <3>1, <3>2 DEF FileTypes
    <3>4. bytes'[i] = 1..offset'[p]
      BY <3>1, <3>3
    <3>5. pc'[p] \in {"verify", "rename"} => bytes'[i] = Chunks
      BY <3>1, <3>2, <3>3, <3>4 DEF Chunks
    <3>6. i # Gone
      BY <3>1, SemanticAssumption
    <3>7. f = "lib" => InPlace("model")'
      <4> SUFFICES ASSUME f = "lib" PROVE InPlace("model")'
        OBVIOUS
      <4>1. InPlace("model") /\ final["model"] # i
        <5>1. i \in Inode /\ \E o \in Proc : i = <<o, f>>
          BY <3>1 DEF Links
        <5> QED  BY <2>1, <3>1, <5>1, SemanticAssumption DEF Links, File
      <4>2. final["model"] # Gone => bytes'[final["model"]] = bytes[final["model"]]
        BY <3>2, <4>1 DEF FileTypes, File
      <4> QED  BY <3>2, <4>1, <4>2 DEF InPlace, Whole, Stands
    <3> HIDE DEF i
    <3> QED  BY <3>1, <3>2, <3>4, <3>5, <3>6, <3>7 DEF Whole, i
  <2>4. CASE RenameTmp(p)
    <3> DEFINE f == file[p]
    <3>1. Whole(tmp[f]) /\ tmp[f] # Gone /\ pc[p] = "rename" /\ (f = "lib" => InPlace("model"))
      BY <2>1, <2>4 DEF RenameTmp, Whole
    <3>2. /\ final' = [final EXCEPT ![f] = tmp[f]] /\ UNCHANGED <<build, bytes>>
          /\ \/ f = "model" /\ pc'[p] = "check" /\ file'[p] = "lib"
             \/ f = "lib" /\ pc'[p] = "load" /\ file' = file
      BY <1>4, <2>4, <3>1 DEF RenameTmp, After
    <3>3. final'[f] = tmp[f] /\ \A g \in File \ {f} : final'[g] = final[g]
      BY <1>4, <3>2 DEF FileTypes
    <3>4. \A g \in File : g = f => InPlace(g)'
      <4>1. Chunks # {}
        BY DEF Chunks
      <4> QED  BY <3>1, <3>2, <3>3, <4>1 DEF InPlace, Whole, Stands
    <3>5. f = "lib" => InPlace("model")'
      <4>1. f = "lib" => final'["model"] = final["model"]
        BY <3>3 DEF File
      <4> QED  BY <3>1, <3>2, <4>1 DEF InPlace, Whole, Stands
    <3>6. f = "model" => InPlace("model")'
      BY <1>4, <3>4
    <3>7. f = "lib" => InPlace("lib")'
      BY <1>4, <3>4
    <3> QED  BY <3>2, <3>5, <3>6, <3>7
  <2>5. CASE ~OpenTmp(p) /\ ~Write(p) /\ ~RenameTmp(p)
    <3>1. UNCHANGED <<build, final, bytes>>
      BY <1>5, <2>5, WhereTo, WhoChanges
    <3>2. InPlace("model")' = InPlace("model") /\ InPlace("lib")' = InPlace("lib")
      BY <3>1 DEF InPlace, Whole, Stands
    <3>3. pc'[p] # "write" /\ (pc'[p] \in {"verify", "rename"} => VerifyTmp(p) /\ tmp' = tmp /\ file' = file)
      BY <1>5, <2>5, FileSteps DEF LeavesFiles
    <3>4. pc'[p] \in {"verify", "rename"} => Whole(tmp[file[p]])'
      <4> SUFFICES ASSUME pc'[p] \in {"verify", "rename"} PROVE Whole(tmp[file[p]])'
        OBVIOUS
      <4>1. VerifyTmp(p) /\ tmp' = tmp /\ file' = file
        BY <3>3
      <4>2. pc[p] = "verify"
        BY <4>1 DEF VerifyTmp
      <4> QED  BY <2>1, <3>1, <4>1, <4>2 DEF Whole
    <3>5. pc'[p] = "load" => InPlace("model") /\ InPlace("lib")
      <4> SUFFICES ASSUME pc'[p] = "load" PROVE InPlace("model") /\ InPlace("lib")
        OBVIOUS
      <4>1. CheckFile(p)
        BY <1>4, <1>5, <2>5, Refusals DEF SemanticStep, Begin, Kill, ListEntities, Compare, ReadTexts, Embed,
              Commit, Fetch, Unavailable, VerifyTmp, Load, Count, EmbedQuery
      <4>2. pc[p] = "check" /\ file[p] = "lib" /\ InPlace("lib")
        BY <1>4, <4>1 DEF CheckFile, After
      <4> QED  BY <2>1, <4>2
    <3>6. pc'[p] \in FilePlaces /\ file'[p] = "lib" => InPlace("model")
      <4> SUFFICES ASSUME pc'[p] \in FilePlaces, file'[p] = "lib" PROVE InPlace("model")
        OBVIOUS
      <4>1. CASE pc[p] \in FilePlaces /\ file[p] = "lib"
        BY <2>1, <4>1
      <4>2. CASE CheckFile(p)
        BY <1>4, <2>1, <4>2 DEF CheckFile, After
      <4>3. CASE pc[p] \notin FilePlaces
        <5>1. ~CheckFile(p)
          BY <4>3 DEF CheckFile
        <5>2. Embed(p) \/ EmbedQuery(p)
          BY <1>4, <1>5, <2>5, <4>3, <5>1, Refusals DEF SemanticStep, Begin, Kill, ListEntities, Compare, ReadTexts,
                Commit, Fetch, Unavailable, VerifyTmp, Load, Count
        <5> QED  BY <1>4, <5>2 DEF Embed, EmbedQuery
      <4>4. CASE pc[p] \in FilePlaces /\ file[p] = "model" /\ ~CheckFile(p)
        <5>1. UNCHANGED file
          BY <1>5, <2>5, <4>4, WhoChanges DEF Embed, EmbedQuery
        <5> QED  BY <4>4, <5>1
      <4> QED  BY <1>4, <4>1, <4>2, <4>3, <4>4
    <3>7. Made(p)'
      <4> HIDE DEF FilePlaces
      <4> QED  BY <3>2, <3>3, <3>4, <3>5, <3>6
    <3> QED  BY <3>7
  <2> HIDE DEF Made
  <2> QED  BY <2>2, <2>3, <2>4, <2>5
<1>6. CASE \A q \in Proc : ~SemanticStep(q)
  <2>1. UNCHANGED <<build, file, offset, open, final, tmp, bytes>>
    BY <1>6, OtherSteps
  <2>2. pc'[p] \in FilePlaces => pc'[p] = pc[p]
    BY <1>6, NoWriters
  <2>3. pc'[p] \in FilePlaces => Made(p)
    <3>1. pc'[p] \in FilePlaces => Running(p)
      BY <2>2 DEF Running, FilePlaces
    <3>2. Alone(p)
      BY SawGrows DEF Alone
    <3> HIDE DEF Made
    <3> QED  BY <1>1, <3>1, <3>2
  <2> QED  BY <2>1, <2>2, <2>3 DEF FilePlaces, InPlace, Whole, Stands
<1>7. CASE Begin(p)
  <2>1. pc'[p] \in {"probe", "list"}
    BY <1>4, <1>7, Zenon DEF Begin, Goto
  <2> QED  BY <2>1 DEF FilePlaces
<1>8. ASSUME NEW q \in Proc, SemanticStep(q), Running(p)
      PROVE  q = p
  BY <1>8, AloneSteps
<1> HIDE DEF Made
<1> QED  BY <1>5, <1>6, <1>7, <1>8, SawGrows

\* What is written stays written, or is being written by one who has left out nothing.
LEMMA InWritingKept ==
  ASSUME Types, Company, Links, NotYet, AloneAtWork, InWriting, [Next]_searchVars
  PROVE  InWriting'
<1> USE DEF Types, SemanticTypes
<1> DEFINE Writes(q) == pc[q] \in {"write", "verify", "rename"}
           Fine(f) == \/ final[f] = Gone \/ Written(final[f])
                      \/ final[f] = <<Gone, f>> /\ bytes[final[f]] = {}
           Made(f) == tmp[f] # Gone /\ (\E q \in Proc : Writes(q) /\ file[q] = f) => Written(tmp[f])
<1> SUFFICES ASSUME NoneLost' PROVE \A f \in File : Fine(f)' /\ Made(f)'
  BY DEF InWriting
<1>1. NoneLost
  BY SawGrows DEF NoneLost, CutShort
<1>2. \A f \in File : Fine(f) /\ Made(f)
  BY <1>1 DEF InWriting
<1>3. \A f \in File : /\ final[f] \in Inode \union {Gone} /\ tmp[f] \in Inode \union {Gone}
                      /\ final[f] # Gone => \E o \in Proc \union {Gone} : final[f] = <<o, f>>
                      /\ tmp[f] # Gone => \E o \in Proc : tmp[f] = <<o, f>>
                      /\ tmp[f] # Gone => tmp[f] # final[f]
  BY DEF Links, FileTypes
<1>4. ASSUME NEW p \in Proc, SemanticStep(p)
      PROVE  \A f \in File : Fine(f)' /\ Made(f)'
  <2>1. \A q \in Proc \ {p} : /\ pc'[q] = pc[q] /\ file'[q] = file[q]
                              /\ offset'[q] = offset[q] /\ open'[q] = open[q]
    BY <1>4, OthersKeep
  <2>2. CASE LeavesFiles(p) /\ ~Kill(p) /\ ~DiskRefuses(p)
    <3>1. \A i : Written(i) => Written(i)'
      BY <2>1, <2>2 DEF LeavesFiles, Written
    <3>2. \A f \in File : tmp'[f] \in {tmp[f], Gone} /\ final'[f] = final[f]
      BY <2>2 DEF LeavesFiles, FileTypes
    <3>3. \A q \in Proc : Writes(q)' => Writes(q) /\ file'[q] = file[q]
      <4>1. Writes(p)' => Writes(p) /\ file'[p] = file[p]
        BY <2>2 DEF LeavesFiles, VerifyTmp
      <4> QED  BY <2>1, <4>1
    <3>4. bytes' = bytes
      BY <2>2 DEF LeavesFiles
    <3> HIDE DEF Writes
    <3> QED  BY <1>2, <3>1, <3>2, <3>3, <3>4
  <2>3. CASE Kill(p) \/ DiskRefuses(p)
    <3>0. p \in DOMAIN pc /\ p \in DOMAIN saw
      BY DEF ControlTypes
    <3>1. /\ UNCHANGED <<final, bytes>> /\ Running(p)
          /\ pc'[p] \in {"dead", "done", "probe", "fuse"} /\ CutShort(p)'
      <4>1. CASE Kill(p)
        BY <3>0, <4>1 DEF Kill, disk, CutShort
      <4>2. CASE DiskRefuses(p)
        BY <3>0, <4>2, Refusals DEF Note, Running, CutShort
      <4> QED  BY <2>3, <4>1, <4>2
    <3>2. Alone(p)
      <4>1. Alone(p)'
        BY <3>1 DEF NoneLost, Alone
      <4> QED  BY <4>1, SawGrows DEF Alone
    <3>3. \A q \in Proc \ {p} : ~Running(q)
      BY <3>1, <3>2 DEF Company
    <3>4. \A q \in Proc \ {p} : ~Writes(q) /\ pc[q] # "write"
      BY <3>3 DEF Running
    <3>5. ASSUME NEW f \in File, final[f] # Gone, Written(final[f])
          PROVE  bytes[final[f]] = Chunks
      <4> SUFFICES ASSUME pc[p] = "write", open[p] = final[f] PROVE FALSE
        BY <3>4, <3>5 DEF Written
      <4>1. tmp[file[p]] = final[f] /\ file[p] \in File
        BY <3>1, <3>2 DEF AloneAtWork, FileTypes
      <4>2. file[p] = f
        BY <1>3, <3>5, <4>1
      <4> QED  BY <1>3, <3>5, <4>1, <4>2
    <3>6. \A q \in Proc : ~Writes(q)'
      BY <2>1, <3>1, <3>4
    <3>7. \A f \in File : Fine(f)'
      <4> SUFFICES ASSUME NEW f \in File, final[f] # Gone PROVE Fine(f)'
        BY <3>1
      <4>1. CASE Written(final[f])
        <5>1. bytes[final[f]] = Chunks
          BY <3>5, <4>1
        <5> QED  BY <3>1, <5>1 DEF Written
      <4>2. CASE ~Written(final[f])
        BY <1>2, <3>1, <4>2
      <4> QED  BY <4>1, <4>2
    <3> HIDE DEF Fine, Writes
    <3> QED  BY <3>6, <3>7
  <2>4. CASE OpenTmp(p)
    <3> DEFINE f == file[p]
    <3>0. PICK i : /\ i = IF tmp[f] = Gone THEN <<p, f>> ELSE tmp[f]
                   /\ tmp' = [tmp EXCEPT ![f] = i] /\ open' = [open EXCEPT ![p] = i]
                   /\ bytes' = [bytes EXCEPT ![i] = {}]
      BY <2>4 DEF OpenTmp
    <3>1. /\ tmp' = [tmp EXCEPT ![f] = i] /\ open' = [open EXCEPT ![p] = i]
          /\ bytes' = [bytes EXCEPT ![i] = {}] /\ offset' = [offset EXCEPT ![p] = 0]
          /\ UNCHANGED <<file, final>> /\ pc[p] = "open" /\ pc'[p] = "write" /\ f \in File
      BY <2>4, <3>0 DEF OpenTmp, Goto, ControlTypes, FileTypes
    <3>2. i \in Inode /\ (\E o \in Proc : i = <<o, f>>) /\ final[f] # i /\ tmp[f] \in {i, Gone}
      BY <1>3, <3>0, <3>1 DEF Inode, NotYet, Unused
    <3> HIDE DEF f
    <3>3. \A g \in File : final[g] # Gone => final[g] # i
      BY <1>3, <3>1, <3>2
    <3>4. \A g \in File \ {f} : tmp[g] # Gone => tmp[g] # i
      BY <1>3, <3>1, <3>2
    <3>5. ASSUME NEW j \in Inode, j # i, Written(j)
          PROVE  Written(j)' /\ bytes'[j] = bytes[j]
      <4>1. bytes'[j] = bytes[j]
        BY <3>1, <3>5
      <4> QED  BY <2>1, <3>1, <3>5, <4>1 DEF Written
    <3>6. Written(i)'
      <4>1. open'[p] = i /\ bytes'[i] = {} /\ offset'[p] = 0
        BY <3>1, <3>2 DEF FileTypes
      <4>2. 1..offset'[p] = {}
        BY <4>1
      <4> QED  BY <3>1, <4>1, <4>2 DEF Written
    <3>7. ASSUME NEW g \in File PROVE Fine(g)' /\ Made(g)'
      <4>1. Fine(g)'
        <5> SUFFICES ASSUME final[g] # Gone PROVE Fine(g)'
          BY <3>1
        <5>1. final[g] \in Inode /\ final[g] # i /\ final'[g] = final[g]
          BY <1>3, <3>1, <3>3
        <5>2. bytes'[final[g]] = bytes[final[g]]
          BY <3>1, <5>1
        <5> QED  BY <1>2, <3>5, <5>1, <5>2
      <4>2. CASE g = f
        <5>1. tmp'[g] = i
          BY <3>1, <4>2 DEF FileTypes
        <5> QED  BY <3>6, <4>1, <5>1
      <4>3. CASE g # f
        <5>1. tmp'[g] = tmp[g]
          BY <3>1, <4>3 DEF FileTypes
        <5>2. (\E q \in Proc : Writes(q)' /\ file'[q] = g) => (\E q \in Proc : Writes(q) /\ file[q] = g)
          BY <2>1, <3>1, <4>3 DEF f
        <5> HIDE DEF Writes
        <5>3. tmp[g] # Gone => tmp[g] \in Inode /\ tmp[g] # i
          BY <1>3, <3>4, <4>3
        <5> QED  BY <1>2, <3>5, <4>1, <5>1, <5>2, <5>3
      <4> QED  BY <4>2, <4>3
    <3> HIDE DEF Fine, Made
    <3> QED  BY <3>7
  <2>5. CASE Write(p)
    <3> DEFINE i == open[p]
               n == offset[p] + 1
    <3>1. /\ pc[p] = "write" /\ i \in Inode /\ offset[p] \in 0..1
          /\ UNCHANGED <<file, open, final, tmp>>
          /\ bytes' = [bytes EXCEPT ![i] = @ \union {n}] /\ offset' = [offset EXCEPT ![p] = n]
          /\ pc'[p] = "write" \/ n >= 2
      <4>1. pc[p] = "write" /\ i \in Inode /\ offset[p] \in 0..1 /\ p \in DOMAIN offset
        BY <2>5 DEF Write, FileTypes
      <4>2. /\ UNCHANGED <<file, open, final, tmp>>
            /\ bytes' = [bytes EXCEPT ![i] = @ \union {n}] /\ offset' = [offset EXCEPT ![p] = n]
        BY <2>5 DEF Write
      <4>3. offset'[p] = n
        BY <4>1, <4>2
      <4>4. pc'[p] = "write" \/ ~(offset'[p] < 2)
        BY <2>5, ChunkCount DEF Write, Goto, ControlTypes
      <4> QED  BY <4>1, <4>2, <4>3, <4>4
    <3>2. n \in Chunks /\ offset'[p] = n /\ bytes'[i] = bytes[i] \union {n}
      BY <3>1 DEF Chunks, FileTypes
    <3>3. \A j \in Inode : bytes[j] \subseteq bytes'[j] /\ bytes'[j] \subseteq Chunks /\ bytes[j] \subseteq Chunks
      BY <3>1, <3>2 DEF FileTypes
    <3>4. ASSUME NEW j \in Inode, Written(j)
          PROVE  Written(j)'
      <4>1. CASE bytes[j] = Chunks
        BY <3>3, <4>1 DEF Written
      <4>2. CASE \E q \in Proc \ {p} : pc[q] = "write" /\ open[q] = j /\ 1..offset[q] \subseteq bytes[j]
        BY <2>1, <3>3, <4>2 DEF Written
      <4>3. CASE i = j /\ 1..offset[p] \subseteq bytes[j]
        <5>1. 1..n \subseteq bytes'[j]
          BY <3>1, <3>2, <4>3
        <5>2. n >= 2 => bytes'[j] = Chunks
          BY <3>1, <3>3, <5>1 DEF Chunks
        <5> QED  BY <3>1, <3>2, <4>3, <5>1, <5>2 DEF Written
      <4> QED  BY <3>4, <4>1, <4>2, <4>3 DEF Written
    <3>5. ASSUME NEW f \in File, final[f] = <<Gone, f>>
          PROVE  bytes'[final[f]] = bytes[final[f]]
      <4>1. final[f] # i
        BY <3>1, <3>5, SemanticAssumption DEF Links
      <4>2. final[f] \in Inode
        BY <3>5 DEF Inode
      <4> QED  BY <3>1, <4>1, <4>2 DEF FileTypes
    <3>6. \A q \in Proc : Writes(q)' => Writes(q)
      BY <2>1, <3>1
    <3> HIDE DEF Writes, i, n
    <3> QED  BY <1>2, <1>3, <3>1, <3>4, <3>5, <3>6
  <2>6. CASE RenameTmp(p) /\ tmp[file[p]] # Gone
    <3> DEFINE f == file[p]
    <3>1. /\ final' = [final EXCEPT ![f] = tmp[f]] /\ tmp' = [tmp EXCEPT ![f] = Gone]
          /\ UNCHANGED <<bytes, offset, open>> /\ pc[p] = "rename" /\ f \in File /\ tmp[f] # Gone
      BY <2>6 DEF RenameTmp, FileTypes
    <3>2. pc'[p] \notin {"write", "verify", "rename"}
      BY <2>6 DEF RenameTmp, After, Goto, ControlTypes
    <3>3. Written(tmp[f])
      BY <1>2, <3>1
    <3>4. \A j : Written(j) => Written(j)'
      BY <2>1, <3>1 DEF Written
    <3>5. \A q \in Proc : Writes(q)' => Writes(q) /\ file'[q] = file[q]
      BY <2>1, <3>2
    <3> HIDE DEF Writes, f
    <3>6. /\ final'[f] = tmp[f] /\ tmp'[f] = Gone
          /\ \A g \in File \ {f} : final'[g] = final[g] /\ tmp'[g] = tmp[g]
      BY <3>1 DEF FileTypes
    <3>7. ASSUME NEW g \in File PROVE Fine(g)' /\ Made(g)'
      <4>1. CASE g = f
        BY <3>3, <3>4, <3>6, <4>1
      <4>2. CASE g # f
        BY <1>2, <3>1, <3>4, <3>5, <3>6, <4>2
      <4> QED  BY <4>1, <4>2
    <3> HIDE DEF Fine, Made
    <3> QED  BY <3>7
  <2> HIDE DEF Fine, Made
  <2> QED  BY <1>4, <2>2, <2>3, <2>4, <2>5, <2>6, FileSteps
<1>5. CASE \A p \in Proc : ~SemanticStep(p)
  <2>1. UNCHANGED <<file, offset, open, final, tmp, bytes>>
    BY <1>5, OtherSteps
  <2>2. \A q \in Proc : Writes(q)' => Writes(q) /\ pc'[q] = pc[q]
    BY <1>5, NoWriters DEF FilePlaces
  <2>3. \A q \in Proc : pc[q] = "write" => pc'[q] = "write"
    <3>1. \A q \in Proc : pc[q] = "write" => ~QueryMove(q)
      BY DEF QueryMove, QueryPlaces
    <3> QED  BY <1>5, <3>1, OtherSteps
  <2>4. \A i : Written(i) => Written(i)'
    BY <2>1, <2>3 DEF Written
  <2> HIDE DEF Writes
  <2> QED  BY <1>2, <2>1, <2>2, <2>4
<1> HIDE DEF Fine, Made
<1> QED  BY <1>4, <1>5

\* What goes with a place goes with it after every step.
LEMMA PlacedKept ==
  ASSUME Types, Placed, [Next]_searchVars
  PROVE  Placed'
<1> USE DEF Types, SemanticTypes
<1> DEFINE Early == {"idle", "list", "rows", "texts", "embed", "commit", "count"}
           Right(q) ==
               /\ pc[q] # "done" => outcome[q] = "none"
               /\ pc[q] = "verify" => build = "thin" /\ file[q] = "model"
               /\ pc[q] = "project" => corpus.project
               /\ pc[q] = "idle" => rows[q] = <<>> /\ hits[q] = <<>> /\ inbound[q] = <<>>
               /\ pc[q] = "rows" => job[q] # "index"
               /\ pc[q] = "texts" => job[q] = "index"
               /\ pc[q] \in {"idle", "list", "rows", "texts"} => drop[q] = {}
               /\ pc[q] \in Early => stage[q] = "ensure"
<1>1. /\ Placed <=> \A q \in Proc : Right(q)
      /\ Placed' <=> \A q \in Proc : Right(q)'
  BY DEF Placed
<1>2. ASSUME NEW p \in Proc, SemanticStep(p), UNCHANGED <<corpus, pipe>>
      PROVE  \A q \in Proc : Right(q)'
  <2>1. UNCHANGED <<build, job, corpus, rows, hits, inbound>>
    BY <1>2, WhereTo DEF pipe
  <2>2. ASSUME NEW q \in Proc \ {p} PROVE Right(q)'
    <3>1. Right(q)
      BY <1>1
    <3>2. /\ pc'[q] = pc[q] /\ outcome'[q] = outcome[q] /\ stage'[q] = stage[q]
          /\ drop'[q] = drop[q] /\ file'[q] = file[q]
      BY <1>2, OthersKeep
    <3> QED  BY <2>1, <3>1, <3>2
  <2>3. p \in DOMAIN pc /\ p \in DOMAIN outcome /\ Right(p) /\ pc[p] # "done"
    BY <1>1, <1>2, WhereTo, ZenonT(60) DEF ControlTypes
  <2>4. pc'[p] # "done" => outcome'[p] = "none"
    BY <1>2, <2>3, WhereTo
  <2>5. pc'[p] = "verify" => build = "thin" /\ file'[p] = "model"
    <3> SUFFICES ASSUME pc'[p] = "verify" PROVE build = "thin" /\ file'[p] = "model"
      OBVIOUS
    <3>1. ~OpenTmp(p) /\ ~RenameTmp(p) /\ ~VerifyTmp(p)
      BY <2>3 DEF OpenTmp, RenameTmp, VerifyTmp, After, Unavailable, Goto, Finish
    <3>2. Write(p)
      BY <1>2, <3>1, FileSteps DEF LeavesFiles
    <3> QED  BY <2>3, <3>2 DEF Write, Goto
  <2> USE DEF Goto, Finish, pass, Unavailable, After
  <2>6. /\ pc'[p] \notin {"idle", "project"}
        /\ pc'[p] \in {"list", "rows", "texts"} => Begin(p) \/ ListEntities(p)
        /\ pc'[p] \in Early => pc[p] \in Early \/ (Load(p) /\ stage[p] = "ensure")
    <3>1. DiskRefuses(p) => pc'[p] \in {"probe", "fuse", "done"}
      BY <2>3, Refusals
    <3> QED  BY <1>2, <2>3, <3>1 DEF SemanticStep, Begin, Kill, ListEntities, Compare, ReadTexts, Embed, Commit,
          CheckFile, Fetch, OpenTmp, Write, VerifyTmp, RenameTmp, Load, Count, EmbedQuery
  <2>7. pc'[p] \in Early => stage'[p] = "ensure"
    <3> SUFFICES ASSUME pc'[p] \in Early PROVE stage'[p] = "ensure"
      OBVIOUS
    <3>1. ~Count(p)
      BY <2>3 DEF Count
    <3>2. stage[p] = "ensure"
      BY <2>3, <2>6
    <3> QED  BY <1>2, <3>1, <3>2, WhoChanges
  <2>8. /\ pc'[p] = "rows" => job[p] # "index"
        /\ pc'[p] = "texts" => job[p] = "index"
        /\ pc'[p] \in {"list", "rows", "texts"} => drop'[p] = {}
    <3>1. CASE Begin(p)
      <4>1. /\ pc[p] = "idle" /\ pc'[p] \in {"probe", "list"}
            /\ UNCHANGED <<build, job, stage, index, pass, loaded, writing, disk>>
        <5> HIDE DEF index, pass, writing, disk
        <5> QED  BY <2>3, <3>1, Zenon DEF Begin
      <4> QED  BY <2>3, <4>1
    <3>2. CASE ListEntities(p)
      BY <2>3, <3>2 DEF ListEntities
    <3>3. CASE ~Begin(p) /\ ~ListEntities(p)
      <4>1. pc'[p] \notin {"list", "rows", "texts"}
        BY <2>6, <3>3
      <4> QED  BY <4>1
    <3> QED  BY <3>1, <3>2, <3>3
  <2>9. Right(p)'
    BY <2>1, <2>4, <2>5, <2>6, <2>7, <2>8
  <2> HIDE DEF Right
  <2> QED  BY <2>2, <2>9
<1>3. ASSUME NEW p \in Proc, QueryStep(p), QueryMove(p)
      PROVE  \A q \in Proc : Right(q)'
  <2>1. UNCHANGED <<build, job, stage, file, drop, corpus>>
    BY <1>3 DEF QueryMove, writing, pass
  <2>2. \A q \in Proc \ {p} : pc'[q] = pc[q] /\ outcome'[q] = outcome[q]
    BY <1>3 DEF QueryMove, ControlTypes
  <2>3. \A q \in Proc \ {p} : rows'[q] = rows[q] /\ hits'[q] = hits[q] /\ inbound'[q] = inbound[q]
    BY <1>3, OwnRows
  <2>4. /\ pc'[p] \notin {"idle", "list", "rows", "texts", "embed", "commit", "count", "verify"}
        /\ pc[p] # "done" /\ (pc'[p] # "done" => outcome'[p] = outcome[p])
    BY <1>3 DEF QueryMove, QueryPlaces, ControlTypes
  <2>5. pc'[p] = "project" => corpus'.project
    BY <1>3, QueryOrder
  <2>6. Right(p)'
    BY <1>1, <2>4, <2>5
  <2>7. ASSUME NEW q \in Proc \ {p} PROVE Right(q)'
    <3>1. Right(q)
      BY <1>1
    <3> QED  BY <2>1, <2>2, <2>3, <3>1
  <2> HIDE DEF Right
  <2> QED  BY <2>6, <2>7
<1>4. ASSUME NEW e \in Entity, Edit(e), UNCHANGED <<corpus, pipe>>
      PROVE  Placed'
  BY <1>4 DEF Edit, Placed, pipe, pass, writing
<1>5. CASE UNCHANGED searchVars
  BY <1>5 DEF searchVars, semanticVars, pipe, pass, writing, Placed
<1> HIDE DEF Right
<1> QED  BY <1>1, <1>2, <1>3, <1>4, <1>5, Moves DEF Move

-----------------------------------------------------------------------------
(* Files are left whole.                                                     *)

FileInvariant == Types /\ Company /\ Placed /\ Links /\ NotYet /\ AloneAtWork

\* What is known of the files holds at first, ...
LEMMA FilesAtFirst ==
  ASSUME Beginning
  PROVE  FileInvariant
<1> USE DEF Beginning, SemanticInit, SearchInit
<1>1. Types
  BY TypesAtFirst, PipeTypesAtFirst DEF Types
<1>2. \A p \in Proc : pc[p] \in {"idle", "done"}
  OBVIOUS
<1>3. Company /\ AloneAtWork
  BY <1>2 DEF Company, AloneAtWork, Running
<1>4. Placed
  BY <1>2 DEF Placed
<1>5. \A f \in File : final[f] \in {Gone, <<Gone, f>>} /\ tmp[f] = Gone
  OBVIOUS
<1>6. Links
  BY <1>2, <1>5 DEF Links
<1>7. \A p \in Proc, f \in File : Unused(<<p, f>>)
  <2> SUFFICES ASSUME NEW p \in Proc, NEW f \in File PROVE Unused(<<p, f>>)
    OBVIOUS
  <2>1. <<p, f>> \in Inode /\ p # Gone
    BY SemanticAssumption DEF Inode
  <2>2. <<p, f>> # Gone
    BY <2>1, SemanticAssumption
  <2>3. \A g : <<Gone, g>> # <<p, f>>
    BY <2>1
  <2>4. \A g \in File : final[g] # <<p, f>> /\ tmp[g] # <<p, f>>
    BY <1>5, <2>2, <2>3
  <2>5. \A q \in Proc : pc[q] # "write"
    BY <1>2
  <2> QED  BY <2>4, <2>5 DEF Unused
<1>8. NotYet
  BY <1>2, <1>7 DEF NotYet, QueryPlaces, File
<1> QED  BY <1>1, <1>3, <1>4, <1>6, <1>8 DEF FileInvariant

\* ... and after every step.
LEMMA FilesKept ==
  ASSUME FileInvariant, [Next]_searchVars
  PROVE  FileInvariant'
BY TypesKept, PipeTypesKept, CompanyKept, PlacedKept, LinksKept, NotYetKept, AloneAtWorkKept
   DEF FileInvariant, Types

\* LEFT WHOLE: in a cache directory that holds no torn file to begin with, and however
\* many processes download at once, each file is whole or does not stand under its name
\* when nobody is at work, unless somebody that was killed, or met a disk that refuses,
\* had been at work beside another (writeExtractedFile, ensureCanonicalSemanticFile).
THEOREM FilesStayWhole ==
  SearchSpec /\ (\A f \in File : Stands(final[f]) => Whole(final[f])) => []FilesLeftWhole
<1>1. Beginning /\ (\A f \in File : Stands(final[f]) => Whole(final[f])) => FileInvariant /\ InWriting
  <2> SUFFICES ASSUME Beginning, \A f \in File : Stands(final[f]) => Whole(final[f])
               PROVE  FileInvariant /\ InWriting
    OBVIOUS
  <2>1. \A f \in File : /\ final[f] = Gone \/ bytes[final[f]] = {} \/ bytes[final[f]] = Chunks
                        /\ final[f] \in {Gone, <<Gone, f>>} /\ tmp[f] = Gone
    BY DEF Beginning, SemanticInit, Stands, Whole
  <2> QED  BY <2>1, FilesAtFirst DEF InWriting, Written
<1>2. FileInvariant /\ InWriting /\ [Next]_searchVars => FileInvariant' /\ InWriting'
  BY FilesKept, InWritingKept DEF FileInvariant
<1>3. InWriting => FilesLeftWhole
  <2> SUFFICES ASSUME InWriting, \A p \in Proc : ~Running(p),
                      ~(\E p \in Proc : CutShort(p) /\ "company" \in saw[p]),
                      NEW f \in File, Stands(final[f])
               PROVE  Whole(final[f])
    BY DEF FilesLeftWhole
  <2>1. \A p \in Proc : pc[p] # "write"
    BY DEF Running
  <2>2. final[f] # Gone /\ bytes[final[f]] # {}
    BY DEF Stands
  <2>3. bytes[final[f]] = Chunks
    BY <2>1, <2>2 DEF InWriting, NoneLost, Written
  <2> QED  BY <2>2, <2>3 DEF Whole
<1> QED  BY <1>1, <1>2, <1>3, PTL DEF SearchSpec

-----------------------------------------------------------------------------
(* A quiet run.                                                              *)

\* While a process is at work in quiet, a step is its own or changes nothing.
LEMMA QuietSteps ==
  ASSUME Types, Company, [Next]_searchVars, NEW p \in Proc, Running(p), Quiet(p)'
  PROVE  /\ Quiet(p)
         /\ \/ SemanticStep(p) /\ UNCHANGED <<corpus, pipe>>
            \/ QueryStep(p) /\ QueryMove(p)
            \/ UNCHANGED searchVars
<1>1. Quiet(p) /\ Alone(p)'
  BY SawGrows DEF Quiet, Alone
<1>2. ASSUME NEW e \in Entity, Edit(e)
      PROVE  FALSE
  <2>1. "edit" \in saw'[p]
    BY <1>2 DEF Edit
  <2> QED  BY <2>1 DEF Quiet
<1>3. ASSUME NEW q \in Proc, SemanticStep(q) \/ QueryMove(q)
      PROVE  q = p
  BY <1>1, <1>3, AloneSteps
<1> QED  BY <1>1, <1>2, <1>3, Moves DEF Move

\* A process that begins finds its own part of the pipe as it was.
LEMMA Beginner ==
  ASSUME Types, Placed, [Next]_searchVars, NEW p \in Proc, Begin(p)
  PROVE  /\ pc'[p] \in {"list", "probe"} /\ stage'[p] = "ensure"
         /\ rows'[p] = <<>> /\ hits'[p] = <<>> /\ inbound'[p] = <<>>
         /\ job[p] # "keyword" => pc'[p] = "list"
<1> USE DEF Types, SemanticTypes, ControlTypes
<1>1. /\ pc[p] = "idle" /\ pc'[p] = IF job[p] = "keyword" THEN "probe" ELSE "list"
      /\ stage' = stage
  <2>1. /\ pc[p] = "idle" /\ Goto(p, IF job[p] = "keyword" THEN "probe" ELSE "list")
        /\ UNCHANGED <<build, job, stage, index, pass, loaded, writing, disk>>
    BY Zenon DEF Begin
  <2> QED  BY <2>1 DEF Goto
<1>2. stage[p] = "ensure" /\ rows[p] = <<>> /\ hits[p] = <<>> /\ inbound[p] = <<>>
  BY <1>1 DEF Placed
<1>3. rows'[p] = rows[p] /\ hits'[p] = hits[p] /\ inbound'[p] = inbound[p]
  <2>1. ASSUME NEW q \in Proc, QueryStep(q), QueryMove(q)
        PROVE  rows'[p] = rows[p] /\ hits'[p] = hits[p] /\ inbound'[p] = inbound[p]
    <3>1. q # p
      BY <1>1, <2>1 DEF QueryMove, QueryPlaces
    <3> QED  BY <2>1, <3>1, OwnRows
  <2>2. CASE UNCHANGED pipe
    BY <2>2 DEF pipe
  <2> QED  BY <2>1, <2>2, Moves DEF Move, searchVars
<1> QED  BY <1>1, <1>2, <1>3

\* A row is there only for an entity.
LEMMA RowsHaveEntitiesKept ==
  ASSUME Types, RowsHaveEntities, [Next]_searchVars
  PROVE  RowsHaveEntities'
<1> USE DEF Types, SemanticTypes
<1>1. ASSUME NEW p \in Proc, SemanticStep(p)
      PROVE  RowsHaveEntities'
  <2>1. store' = store
    BY <1>1, WhereTo
  <2>2. CASE Commit(p)
    BY <2>1, <2>2 DEF Commit, RowsHaveEntities
  <2>3. CASE UNCHANGED row
    BY <2>1, <2>3 DEF RowsHaveEntities
  <2> QED  BY <1>1, <2>2, <2>3, WhoChanges
<1>2. ASSUME NEW e \in Entity, Edit(e)
      PROVE  RowsHaveEntities'
  BY <1>2 DEF Edit, RowsHaveEntities, IndexTypes
<1>3. ASSUME NEW p \in Proc, QueryMove(p)
      PROVE  RowsHaveEntities'
  BY <1>3 DEF QueryMove, index, RowsHaveEntities
<1>4. CASE UNCHANGED searchVars
  BY <1>4 DEF searchVars, semanticVars, index, RowsHaveEntities
<1> QED  BY <1>1, <1>2, <1>3, <1>4, Moves DEF Move

\* What a process in quiet is to write is what is due.
LEMMA QuietPassKept ==
  ASSUME Types, Company, Placed, QuietPass, [Next]_searchVars
  PROVE  QuietPass'
<1> USE DEF Types, SemanticTypes
<1> DEFINE Writing(p) == pc[p] \in {"embed", "commit"} \/ (pc[p] \in FilePlaces /\ stage[p] = "ensure")
           Right(p) == /\ pc[p] \in {"rows", "texts"} => seen[p] = store
                       /\ Writing(p) => todo[p] = Due(p) /\ drop[p] \intersect Standing = {}
                       /\ stage[p] = "query" => \E e \in Entity : Current(row[e])
<1>1. /\ QuietPass <=> \A p \in Proc : Running(p) /\ Quiet(p) => Right(p)
      /\ QuietPass' <=> \A p \in Proc : Running(p)' /\ Quiet(p)' => Right(p)'
  BY DEF QuietPass
<1> SUFFICES ASSUME NEW p \in Proc, Running(p)', Quiet(p)' PROVE Right(p)'
  <2> HIDE DEF Right
  <2> QED  BY <1>1
<1>2. CASE Begin(p)
  BY <1>2, Beginner DEF FilePlaces
<1>3. CASE Running(p) /\ SemanticStep(p)
  <2>1. Right(p) /\ p \in DOMAIN pc /\ p \in DOMAIN stage
    BY <1>1, <1>3, QuietSteps DEF ControlTypes
  <2>2. UNCHANGED <<store, job>>
    BY <1>3, WhereTo
  <2>3. stage'[p] = "query" => \E e \in Entity : Current(row'[e])
    <3>1. CASE Count(p)
      <4>1. UNCHANGED row /\ (stage'[p] = "query" => stage[p] = "query" \/ \E e \in Entity : Current(row[e]))
        BY <2>1, <3>1 DEF Count, index
      <4> QED  BY <2>1, <4>1
    <3>2. CASE Commit(p)
      <4>1. stage'[p] = "ensure"
        BY <3>2 DEF Commit, Placed
      <4> QED  BY <4>1
    <3>3. CASE ~Count(p) /\ ~Commit(p)
      <4>1. UNCHANGED <<row, stage>>
        BY <1>3, <3>3, WhoChanges
      <4> QED  BY <2>1, <4>1
    <3> QED  BY <3>1, <3>2, <3>3
  <2>4. pc'[p] \in {"rows", "texts"} => seen'[p] = store'
    <3> SUFFICES ASSUME pc'[p] \in {"rows", "texts"} PROVE seen'[p] = store
      BY <2>2
    <3>1. ListEntities(p)
      BY <1>3, <2>1, Refusals DEF Goto, Finish, Unavailable, After, Running, SemanticStep, Begin, Kill, Compare,
         ReadTexts, Embed, Commit, CheckFile, Fetch, OpenTmp, Write, VerifyTmp, RenameTmp, Load, Count,
         EmbedQuery
    <3> QED  BY <3>1 DEF ListEntities, PassTypes
  <2>5. Writing(p)' => \/ Compare(p) \/ ReadTexts(p)
                       \/ Writing(p) /\ ~Commit(p)
    BY <1>3, <2>1, Refusals DEF Goto, Finish, Unavailable, After, Running, FilePlaces, SemanticStep, Begin, Kill,
       ListEntities, Embed, Commit, CheckFile, Fetch, OpenTmp, Write, VerifyTmp, RenameTmp, Load, Count,
       EmbedQuery
  <2>6. CASE Compare(p)
    <3>1. /\ seen[p] = store /\ UNCHANGED <<row, stage>> /\ pc[p] = "rows" /\ job[p] # "index"
          /\ todo'[p] = [e \in Entity |-> IF e \in Listed(p) /\ row[e] # TextOf(p, e)
                                          THEN TextOf(p, e) ELSE Gone]
          /\ drop'[p] = {e \in Entity \ Listed(p) : row[e] # Gone}
      BY <2>1, <2>6 DEF Compare, index, Placed, PassTypes
    <3>2. Listed(p) = Standing /\ \A e \in Entity : TextOf(p, e) = store[e]
      BY <3>1 DEF Listed, Standing, Exists, TextOf
    <3>3. todo'[p] = Due(p)
      BY <3>1, <3>2 DEF Due, Standing, Exists
    <3>4. Due(p)' = Due(p) /\ Standing' = Standing
      BY <2>2, <3>1 DEF Due, Standing, Exists
    <3> QED  BY <2>3, <2>4, <3>1, <3>2, <3>3, <3>4
  <2>7. CASE ReadTexts(p)
    <3>1. /\ seen[p] = store /\ UNCHANGED <<row, stage, drop>> /\ pc[p] = "texts" /\ job[p] = "index"
          /\ todo'[p] = [e \in Entity |-> IF e \in Listed(p) THEN TextOf(p, e) ELSE Gone]
          /\ drop[p] = {}
      BY <2>1, <2>7 DEF ReadTexts, index, Placed, PassTypes
    <3>2. \A e \in Entity : TextOf(p, e) = store[e] /\ (e \notin Listed(p) <=> store[e] = Gone)
      BY <3>1 DEF Listed, TextOf
    <3>3. todo'[p] = store
      <4>1. todo'[p] = [e \in Entity |-> store[e]]
        BY <3>1, <3>2
      <4> QED  BY <4>1 DEF IndexTypes
    <3>4. Due(p)' = store
      BY <2>2, <3>1 DEF Due
    <3> QED  BY <2>3, <2>4, <3>1, <3>3, <3>4
  <2>8. CASE ~Compare(p) /\ ~ReadTexts(p)
    <3>1. UNCHANGED <<todo, drop>> /\ (Writing(p)' => Writing(p) /\ UNCHANGED row)
      BY <1>3, <2>5, <2>8, WhoChanges
    <3>2. UNCHANGED row => Due(p)' = Due(p) /\ Standing' = Standing
      BY <2>2 DEF Due, Standing, Exists
    <3> HIDE DEF Writing
    <3> QED  BY <2>1, <2>3, <2>4, <3>1, <3>2
  <2> HIDE DEF Right
  <2> QED  BY <2>6, <2>7, <2>8
<1>4. CASE Running(p) /\ QueryMove(p)
  <2>1. Right(p) /\ p \in DOMAIN pc
    BY <1>1, <1>4, QuietSteps DEF ControlTypes
  <2>2. pc'[p] \in QueryPlaces \union {"semantic", "done"} /\ UNCHANGED <<stage, row>>
    BY <1>4, <2>1 DEF QueryMove, index, QueryPlaces
  <2> QED  BY <2>1, <2>2 DEF QueryPlaces, FilePlaces
<1>5. CASE Running(p) /\ UNCHANGED searchVars
  <2>1. Right(p)
    BY <1>1, <1>5, QuietSteps
  <2> QED  BY <1>5, <2>1 DEF searchVars, semanticVars, index, pass, Due, Standing, Exists
<1> HIDE DEF Right
<1> QED  BY <1>2, <1>3, <1>4, <1>5, SawGrows, QuietSteps

\* Where only a comparison or a commit is over, the rows are as the texts.
LEMMA FreshStep ==
  ASSUME Types, Company, Placed, RowsHaveEntities, QuietPass, [Next]_searchVars,
         NEW p \in Proc, Quiet(p), pc[p] \in {"rows", "commit"},
         pc'[p] = "count" \/ outcome'[p] = "indexed"
  PROVE  row' = store
<1> USE DEF Types, SemanticTypes
<1>1. Running(p) /\ outcome[p] = "none" /\ p \in DOMAIN pc /\ p \in DOMAIN outcome
  BY DEF Running, Placed, ControlTypes
<1>2. Compare(p) \/ Commit(p)
  <2>1. ASSUME NEW q \in Proc, SemanticStep(q)
        PROVE  Compare(p) \/ Commit(p)
    <3>1. q = p
      BY <1>1, <2>1, OthersKeep
    <3>2. ~DiskRefuses(p)
      BY Refusals
    <3> QED  BY <1>1, <2>1, <3>1, <3>2 DEF SemanticStep, Begin, Kill, ListEntities, ReadTexts, Embed,
             CheckFile, Fetch, OpenTmp, Write, VerifyTmp, RenameTmp, Load, Count, EmbedQuery
  <2>2. CASE \A q \in Proc : ~SemanticStep(q)
    <3>1. ~QueryMove(p)
      BY DEF QueryMove, QueryPlaces
    <3> QED  BY <1>1, <2>2, <3>1, OtherSteps
  <2> QED  BY <2>1, <2>2
<1>3. /\ pc[p] = "rows" => seen[p] = store
      /\ pc[p] = "commit" => todo[p] = Due(p) /\ drop[p] \intersect Standing = {}
  BY <1>1 DEF QuietPass
<1>4. \A e \in Entity : store[e] = Gone => row[e] = Gone
  BY DEF RowsHaveEntities
<1>5. \A e \in Entity : row'[e] = store[e]
  <2> SUFFICES ASSUME NEW e \in Entity PROVE row'[e] = store[e]
    OBVIOUS
  <2>1. CASE Compare(p)
    <3>1. /\ pc[p] = "rows" /\ row' = row /\ seen[p] = store /\ pc'[p] = "count"
          /\ pc'[p] = IF todo'[p] = [x \in Entity |-> Gone] /\ drop'[p] = {} THEN "count" ELSE "embed"
          /\ outcome' = outcome
      BY <1>1, <1>3, <2>1 DEF Compare, Goto, index
    <3>2. /\ todo'[p] = [x \in Entity |-> IF x \in Listed(p) /\ row[x] # TextOf(p, x)
                                          THEN TextOf(p, x) ELSE Gone]
          /\ drop'[p] = {x \in Entity \ Listed(p) : row[x] # Gone}
      BY <2>1 DEF Compare, PassTypes
    <3>3. todo'[p][e] = Gone /\ e \notin drop'[p]
      BY <3>1
    <3>4. TextOf(p, e) = store[e] /\ (e \in Listed(p) <=> store[e] # Gone)
      BY <3>1 DEF TextOf, Listed
    <3> QED  BY <3>1, <3>2, <3>3, <3>4
  <2>2. CASE Commit(p)
    <3>1. todo[p] = Due(p) /\ e \notin drop[p] \intersect Standing
      BY <1>3, <2>2 DEF Commit
    <3>2. ~ (\E x \in Entity : todo[p][x] # Gone /\ store[x] = Gone)
      <4> SUFFICES ASSUME \E x \in Entity : todo[p][x] # Gone /\ store[x] = Gone PROVE FALSE
        OBVIOUS
      <4>1. Finish(p, "failed")
        BY <2>2 DEF Commit
      <4> QED  BY <1>1, <4>1 DEF Finish
    <3>3. row'[e] = IF todo[p][e] # Gone THEN todo[p][e]
                    ELSE IF e \in drop[p] \/ (job[p] = "index" /\ row[e] # Old) THEN Gone
                    ELSE row[e]
      BY <2>2, <3>2 DEF Commit
    <3>4. CASE todo[p][e] # Gone
      <4>1. todo[p][e] = store[e]
        BY <3>1, <3>4 DEF Due
      <4> QED  BY <3>3, <3>4, <4>1
    <3>5. CASE todo[p][e] = Gone /\ store[e] = Gone
      BY <1>4, <3>3, <3>5
    <3>6. CASE todo[p][e] = Gone /\ store[e] # Gone
      <4>1. job[p] # "index" /\ row[e] = store[e] /\ e \notin drop[p]
        BY <3>1, <3>6 DEF Due, Standing, Exists
      <4> QED  BY <3>3, <3>6, <4>1
    <3> QED  BY <3>4, <3>5, <3>6
  <2> QED  BY <1>2, <2>1, <2>2
<1>6. DOMAIN row' = Entity /\ row' = [e \in Entity |-> row'[e]]
  BY TypesKept DEF IndexTypes
<1>7. store = [e \in Entity |-> store[e]]
  BY DEF IndexTypes
<1> QED  BY <1>5, <1>6, <1>7

\* FRESH WHEN ALONE: whatever edits, races and kills came before, and however many
\* processes and entities there are, a search or an index that runs in quiet leaves one
\* row for each entity, made from the text that the entity has
\* (EnsureSemanticIndexWithOptions, IndexSemanticEntitiesWithOptions).
THEOREM FreshHolds == SearchSpec => FreshWhenAlone
<1> DEFINE Inv == FileInvariant /\ RowsHaveEntities /\ QuietPass
<1>1. Beginning => Inv
  <2> SUFFICES ASSUME Beginning PROVE RowsHaveEntities /\ QuietPass
    BY FilesAtFirst
  <2>1. \A p \in Proc : ~Running(p)
    BY DEF Beginning, Running
  <2> QED  BY <2>1 DEF Beginning, RowsHaveEntities, QuietPass, Exists
<1>2. Inv /\ [Next]_searchVars => Inv'
  BY FilesKept, RowsHaveEntitiesKept, QuietPassKept DEF FileInvariant
<1>3. Inv /\ [Next]_searchVars
      => [\A p \in Proc :
            Quiet(p) /\ pc[p] \in {"rows", "commit"} /\ (pc'[p] = "count" \/ outcome'[p] = "indexed")
            => row' = store]_searchVars
  BY FreshStep DEF FileInvariant
<1> QED  BY <1>1, <1>2, <1>3, PTL DEF SearchSpec, FreshWhenAlone

\* What a quiet query has found is still there.
LEMMA QuietQueryKept ==
  ASSUME Types, Company, Placed, QuietQuery, [Next]_searchVars
  PROVE  QuietQuery'
<1> USE DEF Types, SemanticTypes
<1> DEFINE Found(p) == Ids(rows[p]) \union ToSet(hits[p]) \subseteq Standing
           Sources(p) == \A i \in DOMAIN inbound[p] : Exists(inbound[p][i][1])
           Same(p) == pc[p] = "enrich" => snapshot[p] = RouteView(rows[p][routed[p] + 1].id)
           Right(p) == Found(p) /\ Sources(p) /\ Same(p)
<1>1. /\ QuietQuery <=> \A p \in Proc : Running(p) /\ Quiet(p) => Right(p)
      /\ QuietQuery' <=> \A p \in Proc : Running(p)' /\ Quiet(p)' => Right(p)'
  BY DEF QuietQuery
<1> SUFFICES ASSUME NEW p \in Proc, Running(p)', Quiet(p)' PROVE Right(p)'
  <2> HIDE DEF Right
  <2> QED  BY <1>1
<1>2. CASE Begin(p)
  <2>1. pc'[p] # "enrich" /\ rows'[p] = <<>> /\ hits'[p] = <<>> /\ inbound'[p] = <<>>
    BY <1>2, Beginner
  <2> QED  BY <2>1 DEF Ids, ToSet
<1>3. ASSUME UNCHANGED <<store, corpus>>
      PROVE  /\ Standing' = Standing /\ \A e : Exists(e)' = Exists(e)
             /\ \A e : RouteView(e)' = RouteView(e)
  BY <1>3 DEF Standing, Exists, RouteView, About, Around, Ahead
<1>4. CASE Running(p) /\ SemanticStep(p) /\ UNCHANGED <<corpus, pipe>>
  <2>1. Right(p) /\ p \in DOMAIN pc
    BY <1>1, <1>4, QuietSteps DEF ControlTypes
  <2>2. UNCHANGED <<store, corpus, rows, hits, inbound, routed, snapshot>>
    BY <1>4, WhereTo DEF pipe
  <2>3. pc'[p] # "enrich"
    BY <1>4, <2>1, Refusals DEF Goto, Finish, Unavailable, After, SemanticStep, Begin, Kill, ListEntities, Compare,
       ReadTexts, Embed, Commit, CheckFile, Fetch, OpenTmp, Write, VerifyTmp, RenameTmp, Load, Count,
       EmbedQuery
  <2> QED  BY <1>3, <2>1, <2>2, <2>3
<1>5. CASE Running(p) /\ UNCHANGED searchVars
  <2>1. Right(p)
    BY <1>1, <1>5, QuietSteps
  <2>2. UNCHANGED <<store, corpus, pc, rows, hits, inbound, routed, snapshot>>
    BY <1>5 DEF searchVars, semanticVars, index, pipe
  <2> QED  BY <1>3, <2>1, <2>2
<1>6. CASE Running(p) /\ QueryStep(p) /\ QueryMove(p)
  <2>1. Right(p) /\ p \in DOMAIN pc
    BY <1>1, <1>6, QuietSteps DEF ControlTypes
  <2>2. UNCHANGED <<store, corpus>> /\ pc[p] # "done" /\ pc'[p] # "done"
    BY <1>6 DEF QueryMove, QueryPlaces, index, Running
  <2>3. /\ Standing' = Standing /\ \A e : Exists(e)' = Exists(e)
        /\ \A e : RouteView(e)' = RouteView(e)
    BY <1>3, <2>2
  <2>4. /\ corpus \in Corpora /\ rows[p] \in RowList /\ hits[p] \in Listing
        /\ inbound[p] \in Seq(Entity \X Entity)
        /\ p \in DOMAIN rows /\ p \in DOMAIN hits /\ p \in DOMAIN inbound
        /\ p \in DOMAIN snapshot /\ p \in DOMAIN routed
    BY <2>2 DEF PipeTypes
  <2>5. Ids(rows[p]) \subseteq Standing /\ ToSet(hits[p]) \subseteq Standing
    BY <2>1
  <2>6. Ids(rows'[p]) \subseteq Standing
    <3>1. CASE UNCHANGED rows
      BY <2>5, <3>1
    <3>2. CASE CollectFields(p)
      <4>1. rows'[p] = Collected(hits[p], MetaHits)
        BY <2>4, <3>2 DEF CollectFields
      <4>2. MetaHits \in Listing /\ ToSet(MetaHits) \subseteq Standing
        BY <2>4, HitsFacts
      <4> QED  BY <2>4, <2>5, <4>1, <4>2, CollectedRows
    <3>3. CASE Expand(p)
      <4>1. rows'[p] = Expanded(rows[p], inbound[p])
        BY <2>4, <3>3 DEF Expand
      <4>2. Ids(rows'[p]) \subseteq Ids(rows[p]) \union {inbound[p][i][1] : i \in DOMAIN inbound[p]}
        BY <2>4, <4>1, ExpandedRows
      <4>3. \A i \in DOMAIN inbound[p] : inbound[p][i][1] \in Entity
        BY <2>4, LenProperties
      <4> QED  BY <2>1, <2>5, <4>2, <4>3 DEF Standing
    <3>4. CASE Fuse(p)
      <4> DEFINE rs == rows[p]
                 found == hits[p]
                 fused == Fused(rs, found)
      <4>1. rows'[p] = WithSources(rs, found, fused)
        BY <2>4, <3>4 DEF Fuse
      <4> HIDE DEF rs, found
      <4>2. rs \in RowList /\ found \in Listing
        BY <2>4 DEF rs, found
      <4>3. fused \in Listing /\ ToSet(fused) \subseteq Ids(rs) \union ToSet(found)
        BY <2>4, <4>2, FusedOrder
      <4> HIDE DEF fused
      <4>4. Ids(rows'[p]) = ToSet(fused)
        BY <4>1, <4>2, <4>3, RowsWithSources
      <4> QED  BY <2>5, <4>3, <4>4 DEF rs, found
    <3>5. CASE Project(p)
      <4> DEFINE rs == rows[p]
                 found == own[p] \intersect Ids(rs)
                 brought == witness[p]
                 owner == [e \in Entity |-> OwnerOf(e)]
                 out == Projected(rs, found, brought, owner)
      <4>1. owner \in [Entity -> Entity \union {Gone}] /\ found \in SUBSET Ids(rs) /\ rs \in RowList
        BY <2>4 DEF OwnerOf, Sought
      <4>2. rows'[p] = out
        BY <2>4, <3>5 DEF Project
      <4>3. \A e \in Entity : owner[e] = Gone \/ owner[e] \in Standing
        BY DEF OwnerOf, Standing, Sought
      <4>4. Ids(rs) \subseteq Entity
        BY <4>1, RowListFacts
      <4> HIDE DEF rs, found, brought, owner
      <4>5. LET parents == {owner[e] : e \in found} \ {Gone}
            IN  /\ out \in RowList
                /\ Ids(out) \subseteq Ids(rs) \union {owner[e] : e \in found \ parents}
                /\ \A e \in found : IF e \in parents THEN e \in Ids(out)
                                    ELSE e \in Ids(out) \/ owner[e] \in Ids(out)
        BY <4>1, ProjectedRows
      <4> HIDE DEF out
      <4>6. Ids(out) \subseteq Entity /\ Gone \notin Entity
        BY <4>5, RowListFacts, SemanticAssumption
      <4>7. \A e \in Ids(out) : e \in Ids(rs) \/ \E x \in found : e = owner[x]
        BY <4>5
      <4> QED  BY <2>5, <4>1, <4>2, <4>3, <4>4, <4>6, <4>7 DEF rs
    <3>6. CASE Answer(p)
      BY <2>1, <2>2, <3>6 DEF Answer, Finish
    <3>7. \/ UNCHANGED rows \/ CollectFields(p) \/ Expand(p) \/ Fuse(p) \/ Project(p) \/ Answer(p)
      BY <1>6 DEF QueryStep, Probe, CollectBody, ReadInbound, JoinIndex, SnapshotRoute, Enrich
    <3> QED  BY <3>1, <3>2, <3>3, <3>4, <3>5, <3>6, <3>7
  <2>7. ToSet(hits'[p]) \subseteq Standing
    <3>1. CASE CollectBody(p)
      BY <2>4, <3>1, HitsFacts DEF CollectBody
    <3>2. CASE CollectFields(p)
      <4>1. hits'[p] = <<>>
        BY <2>4, <3>2 DEF CollectFields
      <4> QED  BY <4>1 DEF ToSet
    <3>3. CASE JoinIndex(p)
      <4> DEFINE S == {e \in Standing \intersect Sought : Current(row[e])}
                 s == Filter(corpus.near, S)
      <4>1. hits'[p] = Cut(s, Pool)
        BY <2>4, <3>3 DEF JoinIndex
      <4>2. S \subseteq Standing
        OBVIOUS
      <4> HIDE DEF S
      <4>3. corpus.near \in Listing /\ Pool \in Nat
        BY <2>4, CorpusFacts
      <4>4. s \in Listing /\ ToSet(s) \subseteq S
        BY <4>3, ListingParts
      <4> HIDE DEF s
      <4>5. ToSet(Cut(s, Pool)) \subseteq ToSet(s)
        BY <4>3, <4>4, ListingParts
      <4> QED  BY <4>1, <4>2, <4>4, <4>5
    <3>4. \/ UNCHANGED hits \/ CollectBody(p) \/ CollectFields(p) \/ JoinIndex(p)
      BY <1>6 DEF QueryStep, Probe, ReadInbound, Expand, Fuse, Project, SnapshotRoute, Enrich, Answer
    <3> QED  BY <2>5, <3>1, <3>2, <3>3, <3>4
  <2>8. \A i \in DOMAIN inbound'[p] : Exists(inbound'[p][i][1])
    <3>1. CASE ReadInbound(p)
      <4>1. inbound'[p] = EdgesInto(rows[p])
        BY <2>4, <3>1 DEF ReadInbound
      <4> QED  BY <2>4, <4>1, EdgesFound
    <3>2. UNCHANGED inbound \/ ReadInbound(p)
      BY <1>6 DEF QueryStep, Probe, CollectBody, CollectFields, Expand, JoinIndex, Fuse, Project,
         SnapshotRoute, Enrich, Answer
    <3> QED  BY <2>1, <3>1, <3>2
  <2>9. pc'[p] = "enrich" => snapshot'[p] = RouteView(rows'[p][routed'[p] + 1].id)
    <3> SUFFICES ASSUME pc'[p] = "enrich" PROVE snapshot'[p] = RouteView(rows'[p][routed'[p] + 1].id)
      OBVIOUS
    <3>1. SnapshotRoute(p)
      BY <1>6, <2>1 DEF QueryStep, Probe, CollectBody, CollectFields, ReadInbound, Expand, JoinIndex,
         Fuse, Project, Enrich, Answer, Step, StepOrFail, Goto, Finish
    <3> QED  BY <2>4, <3>1 DEF SnapshotRoute
  <2>10. Found(p)' /\ Sources(p)' /\ Same(p)'
    BY <2>3, <2>6, <2>7, <2>8, <2>9
  <2> QED  BY <2>10
<1> HIDE DEF Right
<1> QED  BY <1>2, <1>4, <1>5, <1>6, SawGrows, QuietSteps

\* A torn file that is taken for good stays so: nobody makes it anew.
LEMMA StuckKept ==
  ASSUME Types, Links, [Next]_searchVars, NEW f \in File, Stuck(f)
  PROVE  Stuck(f)'
<1> USE DEF Types, SemanticTypes
<1> DEFINE Makes == {"fetch", "open", "write", "verify", "rename"}
<1>1. /\ build = "fat" \/ f = "lib"
      /\ Stands(final[f]) /\ ~Whole(final[f])
      /\ \A q \in Proc : pc[q] \in Makes => file[q] # f
  BY DEF Stuck
<1>2. final[f] \in Inode /\ \E o \in Proc \union {Gone} : final[f] = <<o, f>>
  BY <1>1 DEF FileTypes, Links, Stands
<1>3. SUFFICES /\ build' = build /\ final'[f] = final[f] /\ bytes'[final[f]] = bytes[final[f]]
               /\ \A q \in Proc : pc'[q] \in Makes => file'[q] # f
  BY <1>1, <1>3 DEF Stuck, Stands, Whole
<1>4. ASSUME NEW p \in Proc, SemanticStep(p)
      PROVE  /\ build' = build /\ final'[f] = final[f] /\ bytes'[final[f]] = bytes[final[f]]
             /\ \A q \in Proc : pc'[q] \in Makes => file'[q] # f
  <2>1. build' = build
    BY <1>4, WhereTo
  <2>2. final'[f] = final[f]
    <3>1. CASE RenameTmp(p)
      <4>1. file[p] # f /\ final' \in {final, [final EXCEPT ![file[p]] = tmp[file[p]]]}
        BY <1>1, <3>1 DEF RenameTmp
      <4> QED  BY <4>1 DEF FileTypes
    <3> QED  BY <1>4, <3>1, WhoChanges
  <2>3. bytes'[final[f]] = bytes[final[f]]
    <3>1. CASE OpenTmp(p)
      <4>1. PICK i : /\ i = IF tmp[file[p]] = Gone THEN <<p, file[p]>> ELSE tmp[file[p]]
                     /\ bytes' = [bytes EXCEPT ![i] = {}]
        BY <3>1 DEF OpenTmp
      <4>2. file[p] # f /\ file[p] \in File
        BY <1>1, <3>1 DEF OpenTmp, FileTypes
      <4>3. \E o \in Proc : i = <<o, file[p]>>
        BY <4>1, <4>2 DEF Links
      <4>4. i # final[f]
        BY <1>2, <4>2, <4>3
      <4> QED  BY <1>2, <4>1, <4>4 DEF FileTypes
    <3>2. CASE Write(p)
      <4>1. \E x : bytes' = [bytes EXCEPT ![open[p]] = x]
        BY <3>2 DEF Write
      <4>2. file[p] # f /\ file[p] \in File /\ \E o \in Proc : open[p] = <<o, file[p]>>
        BY <1>1, <3>2 DEF Write, FileTypes, Links
      <4>3. open[p] # final[f]
        BY <1>2, <4>2
      <4> QED  BY <1>2, <4>1, <4>3 DEF FileTypes
    <3> QED  BY <1>4, <3>1, <3>2, WhoChanges
  <2>4. pc'[p] \in Makes => file'[p] # f
    <3> SUFFICES ASSUME pc'[p] \in Makes PROVE file'[p] # f
      OBVIOUS
    <3>0. p \in DOMAIN pc
      BY DEF ControlTypes
    <3>1. CASE CheckFile(p)
      <4>1. ~InPlace(file[p]) /\ file' = file
        BY <3>0, <3>1 DEF CheckFile, After, Goto
      <4>2. InPlace(f)
        BY <1>1, SemanticAssumption DEF InPlace, Stands
      <4> QED  BY <4>1, <4>2
    <3>2. CASE ~CheckFile(p)
      <4>1. pc[p] \in Makes /\ ~RenameTmp(p) /\ ~Embed(p) /\ ~EmbedQuery(p)
        BY <1>4, <3>0, <3>2, Refusals DEF Goto, Finish, Unavailable, After, SemanticStep, Begin, Kill, ListEntities,
           Compare, ReadTexts, Embed, Commit, Fetch, OpenTmp, Write, VerifyTmp, RenameTmp, Load, Count,
           EmbedQuery
      <4>2. file' = file
        BY <1>4, <3>2, <4>1, WhoChanges
      <4> QED  BY <1>1, <4>1, <4>2
    <3> QED  BY <3>1, <3>2
  <2>5. \A q \in Proc \ {p} : pc'[q] = pc[q] /\ file'[q] = file[q]
    BY <1>4, OthersKeep
  <2> QED  BY <1>1, <2>1, <2>2, <2>3, <2>4, <2>5
<1>5. CASE \A p \in Proc : ~SemanticStep(p)
  <2>1. UNCHANGED <<build, file, final, bytes>>
    BY <1>5, OtherSteps
  <2>2. \A q \in Proc : pc'[q] \in Makes => pc'[q] = pc[q]
    BY <1>5, NoWriters DEF FilePlaces
  <2> QED  BY <1>1, <2>1, <2>2
<1> QED  BY <1>4, <1>5

\* One who is alone and cannot load the model is before such a file.
LEMMA LoadFindsTorn ==
  ASSUME FileInvariant, NEW p \in Proc, pc[p] = "load", Alone(p), ~(\A f \in File : Whole(final[f]))
  PROVE  \E f \in File : Stuck(f)
<1>1. PICK f \in File : ~Whole(final[f])
  OBVIOUS
<1>2. Running(p)
  BY DEF Running
<1>3. InPlace(f)
  BY <1>2 DEF FileInvariant, AloneAtWork, File
<1>4. (build = "fat" \/ f = "lib") /\ Stands(final[f])
  BY <1>1, <1>3 DEF InPlace, FileInvariant, Types, SemanticTypes, ControlTypes, File
<1>5. \A q \in Proc : pc[q] \in {"fetch", "open", "write", "verify", "rename"} => q # p /\ Running(q)
  BY DEF Running
<1>6. \A q \in Proc : pc[q] \notin {"fetch", "open", "write", "verify", "rename"}
  BY <1>2, <1>5 DEF FileInvariant, Company
<1> QED  BY <1>1, <1>4, <1>6 DEF Stuck

\* A quiet search comes to its query with the model, unless it could not download it,
\* there was nothing to compare with, or a torn file is in the way; it does not fail
\* before, but by the disk.
LEMMA QuietSemanticWays ==
  ASSUME FileInvariant, QuietPass, QuietWays, [Next]_searchVars,
         NEW p \in Proc, job[p] \in {"search", "pack"}, SemanticStep(p), Running(p), Quiet(p)'
  PROVE  /\ pc'[p] = "done" => outcome'[p] = "failed" /\ "disk" \in saw'[p]
         /\ saw'[p] = {} =>
               /\ pc'[p] \in QueryPlaces \union {"semantic"}
                  => stage'[p] = "query" \/ (\E f \in File : Stuck(f))'
               /\ pc'[p] = "join" => p \in loaded'
               /\ pc'[p] \in {"fuse", "project", "route", "enrich"}
                  => (p \in loaded' /\ stage'[p] = "query") \/ (\E f \in File : Stuck(f))'
<1> USE DEF Goto, Finish
<1>1. p \in DOMAIN pc /\ stage[p] \in {"ensure", "query"} /\ file[p] \in File /\ p \in DOMAIN stage
  BY DEF FileInvariant, Types, SemanticTypes, ControlTypes, FileTypes
<1>2. Quiet(p) /\ Alone(p)
  BY QuietSteps DEF FileInvariant, Quiet, Alone
<1>3. (\E f \in File : Stuck(f)) => (\E f \in File : Stuck(f))'
  BY StuckKept DEF FileInvariant
<1>4. /\ pc[p] \in {"verify", "rename"} => Whole(tmp[file[p]])
      /\ pc[p] = "verify" => file[p] = "model"
  BY <1>2 DEF FileInvariant, AloneAtWork, Placed
<1>5. ~(RenameTmp(p) /\ tmp[file[p]] = Gone) /\ ~(VerifyTmp(p) /\ ~Whole(tmp["model"]))
  BY <1>4 DEF RenameTmp, VerifyTmp, Whole
<1>6. ~(Commit(p) /\ \E e \in Entity : todo[p][e] # Gone /\ store[e] = Gone)
  <2> SUFFICES ASSUME Commit(p), NEW e \in Entity, todo[p][e] # Gone, store[e] = Gone PROVE FALSE
    OBVIOUS
  <2>1. todo[p] = Due(p)
    BY <1>2 DEF Commit, QuietPass
  <2> QED  BY <2>1 DEF Due
<1>9. p \in DOMAIN saw /\ p \in DOMAIN outcome
  BY DEF FileInvariant, Types, SemanticTypes, ControlTypes
<1>15. CASE DiskRefuses(p)
  <2>1. "disk" \in saw'[p] /\ (pc'[p] = "done" => outcome'[p] = "failed")
    BY <1>1, <1>9, <1>15, Refusals DEF Note
  <2> QED  BY <2>1
<1> SUFFICES ASSUME ~DiskRefuses(p)
             PROVE  /\ pc'[p] # "done"
                    /\ saw'[p] = {} =>
                          /\ pc'[p] \in QueryPlaces \union {"semantic"}
                             => stage'[p] = "query" \/ (\E f \in File : Stuck(f))'
                          /\ pc'[p] = "join" => p \in loaded'
                          /\ pc'[p] \in {"fuse", "project", "route", "enrich"}
                             => (p \in loaded' /\ stage'[p] = "query") \/ (\E f \in File : Stuck(f))'
  BY <1>15
<1>7. pc'[p] # "done"
  BY <1>1, <1>5, <1>6 DEF Unavailable, After, SemanticStep, Begin, Kill, ListEntities, Compare,
     ReadTexts, Embed, Commit, CheckFile, Fetch, OpenTmp, Write, VerifyTmp, RenameTmp, Load, Count,
     EmbedQuery, Running
<1>8. pc'[p] \in QueryPlaces \union {"semantic"}
      => Count(p) \/ (Fetch(p) /\ Note(p, "cut off")) \/ Load(p) \/ EmbedQuery(p)
  <2> USE DEF QueryPlaces
  <2>1. ~Begin(p)
    BY DEF Begin, Running
  <2>2. Kill(p) => pc'[p] = "dead"
    BY <1>1 DEF Kill
  <2>3. Fetch(p) => pc'[p] = "open" \/ Note(p, "cut off")
    <3>1. Fetch(p) => Goto(p, "open") \/ Note(p, "cut off")
      <4> HIDE DEF Goto
      <4> QED  BY Zenon DEF Fetch
    <3> QED  BY <1>1, <3>1
  <2>4. VerifyTmp(p) => pc'[p] = "rename"
    BY <1>1, <1>5 DEF VerifyTmp
  <2>5. RenameTmp(p) => pc'[p] \in {"check", "load"}
    BY <1>1, <1>5 DEF RenameTmp, After
  <2>6. CheckFile(p) => pc'[p] \in {"check", "load", "fetch", "open"}
    BY <1>1 DEF CheckFile, After
  <2>7. ListEntities(p) \/ Compare(p) \/ ReadTexts(p) \/ Embed(p)
        => pc'[p] \in {"texts", "rows", "count", "embed", "commit", "check"}
    BY <1>1 DEF ListEntities, Compare, ReadTexts, Embed
  <2>8. Commit(p) \/ OpenTmp(p) \/ Write(p)
        => pc'[p] \in {"done", "count", "write", "verify", "rename"}
    BY <1>1 DEF Commit, OpenTmp, Write
  <2> QED  BY <2>1, <2>2, <2>3, <2>4, <2>5, <2>6, <2>7, <2>8 DEF SemanticStep
<1>10. CASE Count(p)
  BY <1>1, <1>9, <1>10 DEF Count, Note
<1>11. CASE Fetch(p) /\ Note(p, "cut off")
  BY <1>7, <1>9, <1>11 DEF Note
<1>12. CASE Load(p)
  <2>1. CASE \A f \in File : Whole(final[f])
    BY <1>1, <1>7, <1>12, <2>1 DEF Load, QueryPlaces
  <2>2. CASE ~(\A f \in File : Whole(final[f]))
    <3>1. \E f \in File : Stuck(f)
      BY <1>2, <1>12, <2>2, LoadFindsTorn DEF Load
    <3>2. pc'[p] # "join"
      BY <1>1, <1>12, <2>2 DEF Load, Unavailable
    <3> QED  BY <1>3, <1>7, <3>1, <3>2
  <2> QED  BY <2>1, <2>2
<1>13. CASE EmbedQuery(p)
  <2> SUFFICES ASSUME saw'[p] = {}
               PROVE  /\ pc'[p] \in QueryPlaces \union {"semantic"}
                         => stage'[p] = "query" \/ (\E f \in File : Stuck(f))'
                      /\ pc'[p] = "join" => p \in loaded'
                      /\ pc'[p] \in {"fuse", "project", "route", "enrich"}
                         => (p \in loaded' /\ stage'[p] = "query") \/ (\E f \in File : Stuck(f))'
    BY <1>7
  <2>1. pc[p] = "semantic" /\ UNCHANGED <<saw, stage, loaded>>
    BY <1>13 DEF EmbedQuery
  <2>2. stage[p] = "query" \/ (\E f \in File : Stuck(f))'
    BY <1>3, <2>1 DEF QuietWays
  <2>3. stage[p] = "query" => \E e \in Entity : Current(row[e])
    BY <1>2 DEF QuietPass
  <2>4. /\ pc'[p] = "join" => p \in loaded
        /\ pc'[p] \in {"join", "check"} \/ (pc'[p] = "fuse" /\ stage[p] # "query")
    BY <1>1, <1>13, <2>3 DEF EmbedQuery
  <2> QED  BY <2>1, <2>2, <2>4
<1>14. CASE pc'[p] \notin QueryPlaces \union {"semantic"}
  BY <1>7, <1>14 DEF QueryPlaces
<1> QED  BY <1>8, <1>10, <1>11, <1>12, <1>13, <1>14

\* A quiet query fails only if it found no owner, and has the model if it came with it.
LEMMA QuietQueryWays ==
  ASSUME FileInvariant, QuietQuery, QuietWays, [Next]_searchVars,
         NEW p \in Proc, job[p] \in {"search", "pack"}, QueryStep(p), QueryMove(p), Quiet(p)'
  PROVE  /\ saw'[p] = {} =>
               /\ pc'[p] \in QueryPlaces \union {"semantic"}
                  => stage'[p] = "query" \/ (\E f \in File : Stuck(f))'
               /\ pc'[p] = "join" => p \in loaded'
               /\ pc'[p] \in {"fuse", "project", "route", "enrich"}
                  => (p \in loaded' /\ stage'[p] = "query") \/ (\E f \in File : Stuck(f))'
         /\ pc'[p] = "done" /\ outcome'[p] = "failed" => corpus'.project
         /\ pc'[p] = "done" /\ outcome'[p] = "lexical" /\ saw'[p] = {}
            => (\E f \in File : Stuck(f))'
<1>1. p \in DOMAIN pc /\ p \in DOMAIN outcome /\ outcome[p] = "none" /\ pc[p] \in QueryPlaces
  BY DEF FileInvariant, Types, SemanticTypes, ControlTypes, Placed, QueryMove, QueryPlaces
<1>2. Running(p)
  BY <1>1 DEF QueryPlaces, Running
<1>3. UNCHANGED <<saw, stage, loaded, corpus>> /\ Quiet(p)
  BY DEF QueryMove, Quiet
<1>4. (\E f \in File : Stuck(f)) => (\E f \in File : Stuck(f))'
  BY StuckKept DEF FileInvariant
<1>5. pc'[p] # "join" /\ pc'[p] # "probe"
  BY <1>1 DEF QueryMove, QueryPlaces
<1>6. saw[p] = {} => /\ stage[p] = "query" \/ \E f \in File : Stuck(f)
                     /\ pc[p] = "join" => p \in loaded
                     /\ pc[p] \in {"fuse", "project", "route", "enrich"}
                        => (p \in loaded /\ stage[p] = "query") \/ \E f \in File : Stuck(f)
  BY <1>1, <1>2 DEF QuietWays
<1>7. pc'[p] \in {"fuse", "project", "route", "enrich"}
      => pc[p] \in {"join", "fuse", "project", "route", "enrich"}
  BY QueryOrder DEF FileInvariant
<1>8. ASSUME pc'[p] = "done", outcome'[p] = "failed"
      PROVE  corpus.project
  <2> USE DEF Goto, Finish, Step, StepOrFail
  <2>1. /\ Ids(rows[p]) \subseteq Standing
        /\ \A i \in DOMAIN inbound[p] : Exists(inbound[p][i][1])
        /\ pc[p] = "enrich" => snapshot[p] = RouteView(rows[p][routed[p] + 1].id)
    BY <1>2, <1>3 DEF QuietQuery
  <2>2. ~Expand(p) /\ ~Enrich(p)
    BY <1>1, <1>8, <2>1 DEF Expand, Enrich
  <2>3. ~Answer(p)
    <3> SUFFICES ASSUME Answer(p) PROVE FALSE
      OBVIOUS
    <3>1. ~ \E e \in Ids(rows[p]) : ~Exists(e)
      BY <2>1 DEF Standing
    <3>2. outcome'[p] \in {"hybrid", "lexical"}
      BY <1>1, <3>1 DEF Answer
    <3> QED  BY <1>8, <3>2
  <2>4. Project(p)
    BY <1>1, <1>8, <2>2, <2>3 DEF QueryStep, Probe, CollectBody, CollectFields, ReadInbound, JoinIndex,
       Fuse, SnapshotRoute
  <2> QED  BY <2>4 DEF Project, FileInvariant, Placed
<1>9. ASSUME pc'[p] = "done", outcome'[p] = "lexical", saw[p] = {}
      PROVE  \E f \in File : Stuck(f)
  <2> USE DEF Goto, Finish, Step, StepOrFail
  <2>1. Answer(p)
    BY <1>1, <1>9 DEF QueryStep, Probe, CollectBody, CollectFields, ReadInbound, Expand, JoinIndex,
       Fuse, Project, SnapshotRoute, Enrich
  <2>2. pc[p] = "route" /\ ~(p \in loaded /\ stage[p] = "query")
    BY <1>1, <1>9, <2>1 DEF Answer
  <2> QED  BY <1>6, <1>9, <2>2
<1> QED  BY <1>3, <1>4, <1>5, <1>6, <1>7, <1>8, <1>9

\* What a quiet search has come to, and how it ended.
LEMMA QuietWaysKept ==
  ASSUME FileInvariant, QuietPass, QuietQuery, QuietWays, [Next]_searchVars
  PROVE  QuietWays'
<1> DEFINE Way(p) == /\ pc[p] \in QueryPlaces \union {"semantic"}
                        => stage[p] = "query" \/ \E f \in File : Stuck(f)
                     /\ pc[p] = "join" => p \in loaded
                     /\ pc[p] \in {"fuse", "project", "route", "enrich"}
                        => (p \in loaded /\ stage[p] = "query") \/ \E f \in File : Stuck(f)
           End(p) == /\ pc[p] = "done" /\ outcome[p] = "failed" /\ Quiet(p) => corpus.project \/ "disk" \in saw[p]
                     /\ pc[p] = "done" /\ outcome[p] = "lexical" /\ saw[p] = {}
                        => \E f \in File : Stuck(f)
           Right(p) == (Running(p) /\ saw[p] = {} => Way(p)) /\ End(p)
<1>1. /\ QuietWays <=> \A p \in Proc : job[p] \in {"search", "pack"} => Right(p)
      /\ QuietWays' <=> \A p \in Proc : job'[p] \in {"search", "pack"} => Right(p)'
  BY DEF QuietWays
<1>2. job' = job /\ corpus' = corpus
  <2>1. ASSUME NEW p \in Proc, SemanticStep(p)
        PROVE  job' = job
    BY <2>1, WhereTo
  <2>2. ASSUME NEW e \in Entity, Edit(e)
        PROVE  job' = job
    BY <2>2 DEF Edit
  <2>3. ASSUME NEW p \in Proc, QueryMove(p)
        PROVE  job' = job /\ corpus' = corpus
    BY <2>3 DEF QueryMove
  <2> QED  BY <2>1, <2>2, <2>3, Moves DEF Move, searchVars, semanticVars
<1> SUFFICES ASSUME NEW p \in Proc, job[p] \in {"search", "pack"} PROVE Right(p)'
  <2> HIDE DEF Right
  <2> QED  BY <1>1, <1>2
<1>3. Right(p)
  BY <1>1
<1>4. saw'[p] = {} => Quiet(p)'
  BY DEF Quiet
<1>5. CASE ~Quiet(p)'
  BY <1>4, <1>5
<1>6. (\E f \in File : Stuck(f)) => (\E f \in File : Stuck(f))'
  BY StuckKept DEF FileInvariant
<1>7. CASE Begin(p)
  <2>1. pc'[p] = "list"
    BY <1>7, Beginner DEF FileInvariant
  <2> QED  BY <2>1 DEF QueryPlaces
<1>8. CASE Quiet(p)' /\ Running(p) /\ SemanticStep(p)
  BY <1>8, QuietSemanticWays
<1>9. CASE Quiet(p)' /\ Running(p) /\ QueryStep(p) /\ QueryMove(p)
  BY <1>9, QuietQueryWays
<1>10. CASE UNCHANGED searchVars
  <2>1. UNCHANGED <<pc, stage, loaded, saw, outcome, corpus>>
    BY <1>10 DEF searchVars, semanticVars
  <2> QED  BY <1>3, <1>6, <2>1 DEF Running, Quiet
<1>11. CASE ~Running(p) /\ ~Begin(p)
  <2>1. saw'[p] = saw[p] /\ ~Running(p)'
    BY <1>11, SawGrows DEF FileInvariant
  <2>2. pc'[p] = pc[p] /\ outcome'[p] = outcome[p]
    <3>1. ASSUME NEW q \in Proc, SemanticStep(q)
          PROVE  pc'[p] = pc[p] /\ outcome'[p] = outcome[p]
      <4>1. q # p
        BY <1>11, <3>1, WhereTo, IdleBegins DEF Running
      <4> QED  BY <3>1, <4>1, OthersKeep DEF FileInvariant
    <3>2. ~QueryMove(p)
      BY <1>11 DEF QueryMove, QueryPlaces, Running
    <3> QED  BY <3>1, <3>2, OtherSteps DEF FileInvariant
  <2> QED  BY <1>2, <1>3, <1>6, <2>1, <2>2 DEF Quiet
<1> HIDE DEF Right
<1> QED  BY <1>5, <1>7, <1>8, <1>9, <1>10, <1>11, QuietSteps DEF FileInvariant

\* A QUIET SEARCH ANSWERS: however many processes download, edit and die around it, a
\* search in quiet fails only if it is a structural one that found no owner or the disk
\* refused it the model's files, and does without the model only if it could not
\* download it, if there was nothing to compare with, or if a torn file is taken for
\* the library
\* (help.go: "If the semantic model is unavailable, search falls back to keyword plus
\* graph without failing").
THEOREM QuietSearchesAnswer == SearchSpec => []QuietSearchAnswers
<1> DEFINE Inv == FileInvariant /\ RowsHaveEntities /\ QuietPass /\ QuietQuery /\ QuietWays
<1>1. Beginning => Inv
  <2> SUFFICES ASSUME Beginning PROVE RowsHaveEntities /\ QuietPass /\ QuietQuery /\ QuietWays
    BY FilesAtFirst
  <2>1. \A p \in Proc : ~Running(p) /\ outcome[p] = "none"
    BY DEF Beginning, SemanticInit, Running
  <2> QED  BY <2>1 DEF Beginning, RowsHaveEntities, QuietPass, QuietQuery, QuietWays, Exists
<1>2. Inv /\ [Next]_searchVars => Inv'
  BY FilesKept, RowsHaveEntitiesKept, QuietPassKept, QuietQueryKept, QuietWaysKept DEF FileInvariant
<1>3. Inv => QuietSearchAnswers
  <2> SUFFICES ASSUME Inv, NEW p \in Proc, Quiet(p), job[p] \in {"search", "pack"}
               PROVE  /\ outcome[p] = "failed" => corpus.project \/ "disk" \in saw[p]
                      /\ outcome[p] = "lexical" => saw[p] # {} \/ TornForGood
    BY DEF QuietSearchAnswers
  <2>1. outcome[p] # "none" => pc[p] = "done"
    BY DEF FileInvariant, Placed
  <2>2. (\E f \in File : Stuck(f)) => TornForGood
    BY DEF Stuck, TornForGood
  <2> QED  BY <2>1, <2>2 DEF QuietWays
<1> QED  BY <1>1, <1>2, <1>3, PTL DEF SearchSpec
=============================================================================
