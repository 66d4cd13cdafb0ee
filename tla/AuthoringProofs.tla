--------------------------- MODULE AuthoringProofs ---------------------------
(***************************************************************************)
(* Proofs about what the authoring commands leave: Lifecycle and Check.    *)
(*                                                                         *)
(* Lifecycle, for any decisions, facts and texts, and any number of        *)
(* commands: the five properties its run checks, from one inductive        *)
(* invariant.  It relates the three copies there are: the documents, the   *)
(* cache a command works on or was killed with, and what a command saved   *)
(* to roll back to.                                                        *)
(*                                                                         *)
(* Check, for any documents, canvases and edits: the four properties its   *)
(* run checks.  Two rest on what reconciling a table does to it, shown     *)
(* row by row, and on an invariant that ties a report to the project it    *)
(* was made of; one on what an issue can be about; and one is a fact about *)
(* the readers of a body, whatever the body says.                          *)
(***************************************************************************)
EXTENDS Lifecycle, Check, FunctionTheorems, FiniteSetTheorems, WellFoundedInduction, TLAPS

\* Where a command can be.
Phase == {"idle", "run", "export", "link", "sweep"}

\* Every variable has its type.
LifecycleTypeOK ==
    /\ docs \in Documents
    /\ cache \in Cache \union {NoStore}
    /\ saved \in [docs : Documents, cache : Cache] \union {NoStore}
    /\ at \in Phase
    /\ job \in Seq(ChangeDoc \union Fact)
    /\ runs \in Nat
    /\ released \subseteq ChangeDoc
    /\ granted \in [Fact -> SUBSET Text]

\* A command works on a cache, and what it found is kept; nobody else touches the
\* documents before it exports.
SavedForRollback ==
    /\ at = "idle" <=> saved = NoStore
    /\ at # "idle" => cache # NoStore /\ saved.docs = docs

\* It begins with a cache that says of facts what the documents say.
BeginsInStep ==
    at = "run" => cache = saved.cache /\ Rendered(cache).text = docs.text

\* From decisions u to decisions v, nothing finished is reopened and nothing is
\* lost, but for what r releases.
Settles(u, v, r) ==
    \A d \in ChangeDoc \ r : u[d] # NoDoc =>
        /\ v[d] # NoDoc
        /\ u[d].status \in Terminal =>
             v[d].status \in {u[d].status, "superseded", Folded(u[d].status)}

\* The caches have only gone on from the documents.
CachesGoOn ==
    /\ cache # NoStore => Settles(docs.decision, cache.decision, released)
    /\ saved # NoStore => Settles(docs.decision, saved.cache.decision, released)

\* The facts of a cache say what g allows.
SaysOnly(c, g) ==
    \A f \in Fact : c.fact[f] # NoFact => c.fact[f].text \in g[f] \union {Unwritten}

OnlyGranted ==
    /\ \A f \in Fact : docs.text[f] \in granted[f] \union {Unwritten, NoFact}
    /\ cache # NoStore => SaysOnly(cache, granted)
    /\ saved # NoStore => SaysOnly(saved.cache, granted)

\* A sweep on the way from c to k, with the ids of todo before it: every decision is
\* as it was or folded, and canonical once it has been met.
SweptSoFar(c, k, todo) ==
    \A d \in ChangeDoc :
        /\ k[d] = NoDoc <=> c[d] = NoDoc
        /\ k[d] # NoDoc =>
             /\ k[d].status \in {c[d].status, Folded(c[d].status)}
             /\ d \notin Range(todo) => k[d].status \in Canonical

Sweeping == at = "sweep" => SweptSoFar(saved.cache.decision, cache.decision, job)

\* Between the two halves of a supersede, the links do not lead from the old
\* decision to the new one: some set that they do not leave holds one and not the
\* other.
KeepsTo(c, R) == \A d \in R : Links(c, d) \subseteq R

Linking ==
    at = "link" =>
        \E new, old \in ChangeDoc :
            /\ job = <<new, old>>
            /\ cache.decision[new] # NoDoc
            /\ \E R \in SUBSET ChangeDoc : old \in R /\ new \notin R /\ KeepsTo(cache, R)

\* The inductive invariant.
LifecycleInv ==
    /\ LifecycleTypeOK
    /\ SavedForRollback
    /\ BeginsInStep
    /\ CachesGoOn
    /\ OnlyGranted
    /\ Sweeping
    /\ Linking

-----------------------------------------------------------------------------
(* Iteration, and what can be reached along the links.                       *)

\* A set of naturals has a least member; this is the way to an induction whose
\* hypothesis is a set.
LEMMA LeastOf ==
    ASSUME NEW T \in SUBSET Nat, T # {}
    PROVE  \E n \in T : \A m \in T : n <= m
<1> DEFINE Less == {ss \in Nat \X Nat : ss[1] < ss[2]}
<1>1. IsWellFoundedOn(Less, Nat)
  BY NatLessThanWellFounded, Zenon DEF OpToRel
<1>2. PICK x \in T : \A y \in T : ~ (<<y, x>> \in Less)
  <2> HIDE DEF Less
  <2> QED  BY <1>1, WFMin, Zenon
<1>3. \A y \in T : ~(y < x)
  BY <1>2
<1> QED  BY <1>3

\* Induction up to a bound.
LEMMA Induction ==
    ASSUME NEW N \in Nat, NEW S, 0 \in S,
           \A n \in 0..N-1 : n \in S => n + 1 \in S
    PROVE  0..N \subseteq S
<1> SUFFICES ASSUME (0..N) \ S # {} PROVE FALSE
  OBVIOUS
<1>0. (0..N) \ S \in SUBSET Nat
  OBVIOUS
<1>1. PICK n \in (0..N) \ S : \A m \in (0..N) \ S : n <= m
  BY <1>0, LeastOf
<1>2. n - 1 \in 0..N-1 /\ n - 1 \in S
  BY <1>1
<1> QED  BY <1>1, <1>2

\* f is what N turns of next make of x.
Unfolds(f, N, x, next) ==
    f = [n \in 0..N |-> IF n = 0 THEN x ELSE next[f[n-1]]]

\* So it is turn by turn.
LEMMA UnfoldsAt ==
    ASSUME NEW f, NEW N \in Nat, NEW x, NEW next, Unfolds(f, N, x, next)
    PROVE  /\ DOMAIN f = 0..N
           /\ f[0] = x
           /\ \A n \in 1..N : f[n] = next[f[n-1]]
<1> DEFINE g == [n \in 0..N |-> IF n = 0 THEN x ELSE next[f[n-1]]]
<1>1. f = g
  BY Zenon DEF Unfolds
<1>2. /\ DOMAIN g = 0..N
      /\ g[0] = x
      /\ \A n \in 1..N : g[n] = next[f[n-1]]
  OBVIOUS
<1> HIDE DEF g
<1> QED  BY <1>1, <1>2, Zenon

\* There is such a function.
LEMMA IterationExists ==
    ASSUME NEW next, NEW x, NEW N \in Nat
    PROVE  \E f : Unfolds(f, N, x, next)
<1> DEFINE S == {n \in 0..N : \E f : Unfolds(f, n, x, next)}
<1>1. 0 \in S
  <2>1. Unfolds([n \in 0..0 |-> x], 0, x, next)
    BY DEF Unfolds
  <2> QED  BY <2>1
<1>2. ASSUME NEW n \in 0..N-1, n \in S
      PROVE  n + 1 \in S
  <2>1. PICK f : Unfolds(f, n, x, next)
    BY <1>2
  <2> DEFINE g == [m \in 0..n+1 |-> IF m = 0 THEN x ELSE next[f[m-1]]]
  <2>2. \A m \in 0..n : g[m] = f[m]
    BY <2>1 DEF Unfolds
  <2>3. \A m \in 1..n+1 : m - 1 \in 0..n
    OBVIOUS
  <2>4. g = [m \in 0..n+1 |-> IF m = 0 THEN x ELSE next[g[m-1]]]
    <3>1. \A m \in 0..n+1 : (IF m = 0 THEN x ELSE next[f[m-1]])
                               = (IF m = 0 THEN x ELSE next[g[m-1]])
      <4>1. \A m \in 1..n+1 : g[m-1] = f[m-1]
        BY <2>2, <2>3
      <4> HIDE DEF g
      <4> QED  BY <4>1
    <3> QED  BY <3>1, Zenon
  <2>5. Unfolds(g, n + 1, x, next)
    BY <2>4 DEF Unfolds
  <2> QED  BY <2>5
<1>3. N \in S
  <2> HIDE DEF S
  <2> QED  BY <1>1, <1>2, Induction
<1> QED  BY <1>3

\* A turn takes no member away.
Inflates(next, U) ==
    /\ next \in [SUBSET U -> SUBSET U]
    /\ \A X \in SUBSET U : X \subseteq next[X]

\* After as many turns as there are members, there is nothing left to add.
LEMMA Saturates ==
    ASSUME NEW U, IsFiniteSet(U), NEW x \in U, NEW next, Inflates(next, U),
           NEW f, Unfolds(f, Cardinality(U), {x}, next)
    PROVE  /\ f[Cardinality(U)] \subseteq U
           /\ x \in f[Cardinality(U)]
           /\ next[f[Cardinality(U)]] = f[Cardinality(U)]
<1> DEFINE N == Cardinality(U)
<1>1. N \in Nat
  BY FS_CardinalityType
<1> HIDE DEF N
<1>2. f[0] = {x} /\ \A n \in 1..N : f[n] = next[f[n-1]]
  BY <1>1, UnfoldsAt DEF N
<1> DEFINE S == {n \in 0..N : /\ f[n] \subseteq U /\ x \in f[n]
                              /\ next[f[n]] = f[n] \/ n < Cardinality(f[n])}
<1>3. 0 \in S
  <2>1. Cardinality({x}) = 1
    BY FS_Singleton
  <2>2. f[0] \subseteq U /\ x \in f[0] /\ Cardinality(f[0]) = 1
    BY <1>2, <2>1, Zenon
  <2>3. 0 \in 0..N /\ 0 < Cardinality(f[0])
    BY <1>1, <2>2
  <2> QED  BY <2>2, <2>3
<1>4. ASSUME NEW n \in 0..N-1, n \in S
      PROVE  n + 1 \in S
  <2>1. /\ f[n] \subseteq U /\ x \in f[n]
        /\ next[f[n]] = f[n] \/ n < Cardinality(f[n])
    BY <1>4
  <2>2. f[n+1] = next[f[n]] /\ n + 1 \in 0..N
    BY <1>1, <1>2
  <2>3. f[n+1] \subseteq U /\ x \in f[n+1] /\ f[n] \subseteq f[n+1]
    BY <2>1, <2>2 DEF Inflates
  <2>4. CASE next[f[n]] = f[n]
    BY <2>2, <2>3, <2>4
  <2>5. CASE next[f[n]] # f[n]
    <3>1. IsFiniteSet(f[n+1])
      BY <2>3, FS_Subset
    <3>2. /\ Cardinality(f[n]) \in Nat /\ Cardinality(f[n+1]) \in Nat
          /\ Cardinality(f[n]) <= Cardinality(f[n+1])
          /\ Cardinality(f[n]) # Cardinality(f[n+1])
      <4>1. /\ IsFiniteSet(f[n]) /\ Cardinality(f[n]) <= Cardinality(f[n+1])
            /\ Cardinality(f[n+1]) = Cardinality(f[n]) => f[n+1] = f[n]
        BY <2>3, <3>1, FS_Subset
      <4> QED  BY <2>2, <2>5, <3>1, <4>1, FS_CardinalityType
    <3>3. n < Cardinality(f[n])
      BY <2>1, <2>5
    <3>4. n + 1 < Cardinality(f[n+1])
      BY <3>2, <3>3
    <3> QED  BY <2>2, <2>3, <3>4
  <2> QED  BY <2>4, <2>5
<1>5. N \in S
  <2> HIDE DEF S
  <2> QED  BY <1>1, <1>3, <1>4, Induction
<1>6. Cardinality(f[N]) <= N /\ Cardinality(f[N]) \in Nat
  BY <1>5, FS_Subset, FS_CardinalityType DEF N
<1>7. f[N] \subseteq U /\ x \in f[N] /\ next[f[N]] = f[N]
  BY <1>1, <1>5, <1>6
<1> QED  BY <1>7 DEF N

\* What supersede looks through holds everything that can be reached from a decision
\* (supersedeReaches).
LEMMA SupersededFromClosed ==
    ASSUME NEW c, NEW d \in ChangeDoc, IsFiniteSet(ChangeDoc),
           \A e \in ChangeDoc : Links(c, e) \subseteq ChangeDoc
    PROVE  /\ SupersededFrom(c, d) \subseteq ChangeDoc
           /\ d \in SupersededFrom(c, d)
           /\ \A e \in SupersededFrom(c, d) : Links(c, e) \subseteq SupersededFrom(c, d)
<1> DEFINE N == Cardinality(ChangeDoc)
           Step(X) == X \union UNION {Links(c, e) : e \in X}
           Grows(g) == g = [n \in 0..N |-> IF n = 0 THEN {d} ELSE Step(g[n-1])]
           grow == CHOOSE g : Grows(g)
           next == [X \in SUBSET ChangeDoc |-> Step(X)]
<1>1. SupersededFrom(c, d) = grow[N]
  BY Zenon DEF SupersededFrom
<1>2. N \in Nat
  BY FS_CardinalityType
<1>3. /\ next \in [SUBSET ChangeDoc -> SUBSET ChangeDoc]
      /\ \A X \in SUBSET ChangeDoc : next[X] = Step(X) /\ X \subseteq next[X]
  OBVIOUS
<1> HIDE DEF N, next, Step
<1>4. PICK f : Unfolds(f, N, {d}, next)
  BY <1>2, IterationExists
<1>4a. /\ DOMAIN f = 0..N /\ f[0] = {d}
       /\ \A n \in 1..N : f[n] = next[f[n-1]]
  BY <1>2, <1>4, UnfoldsAt
<1>5. f \in [0..N -> SUBSET ChangeDoc]
  <2> DEFINE S == {n \in 0..N : f[n] \in SUBSET ChangeDoc}
  <2>1. 0 \in S
    BY <1>2, <1>4a
  <2>2. \A n \in 0..N-1 : n \in S => n + 1 \in S
    BY <1>2, <1>3, <1>4a
  <2>3. 0..N \subseteq S
    <3> HIDE DEF S
    <3> QED  BY <1>2, <2>1, <2>2, Induction
  <2> QED  BY <1>4, <2>3 DEF Unfolds
<1>6. Grows(f)
  <2>1. \A n \in 0..N : (IF n = 0 THEN {d} ELSE next[f[n-1]])
                            = (IF n = 0 THEN {d} ELSE Step(f[n-1]))
    BY <1>2, <1>3, <1>5
  <2>2. f = [n \in 0..N |-> IF n = 0 THEN {d} ELSE next[f[n-1]]]
    BY <1>4 DEF Unfolds
  <2> QED  BY <2>1, <2>2, Zenon
<1>7. Grows(grow)
  <2> HIDE DEF Grows
  <2> QED  BY <1>6
<1>8. grow = f
  <2> HIDE DEF grow
  <2> DEFINE S == {n \in 0..N : grow[n] = f[n]}
  <2>0. /\ DOMAIN grow = 0..N /\ grow[0] = {d}
        /\ \A n \in 1..N : grow[n] = Step(grow[n-1])
    <3> DEFINE h == [n \in 0..N |-> IF n = 0 THEN {d} ELSE Step(grow[n-1])]
    <3>1. grow = h
      BY <1>7, Zenon
    <3>2. /\ DOMAIN h = 0..N /\ h[0] = {d}
          /\ \A n \in 1..N : h[n] = Step(grow[n-1])
      BY <1>2
    <3> HIDE DEF h
    <3> QED  BY <3>1, <3>2, Zenon
  <2>1. 0 \in S
    <3>1. grow[0] = f[0]
      BY <1>4a, <2>0, Zenon
    <3> QED  BY <1>2, <3>1
  <2>2. \A n \in 0..N-1 : n \in S => n + 1 \in S
    BY <1>2, <1>3, <1>4a, <1>5, <2>0
  <2>3. 0..N \subseteq S
    <3> HIDE DEF S
    <3> QED  BY <1>2, <2>1, <2>2, Induction
  <2> QED  BY <1>6, <1>7, <2>3
<1>9. grow[N] \subseteq ChangeDoc /\ d \in grow[N] /\ next[grow[N]] = grow[N]
  <2> HIDE DEF grow
  <2>1. f[N] \subseteq ChangeDoc /\ d \in f[N] /\ next[f[N]] = f[N]
    <3>1. Unfolds(f, Cardinality(ChangeDoc), {d}, next)
      BY <1>4 DEF N
    <3>2. Inflates(next, ChangeDoc)
      BY <1>3 DEF Inflates
    <3>3. /\ f[Cardinality(ChangeDoc)] \subseteq ChangeDoc
          /\ d \in f[Cardinality(ChangeDoc)]
          /\ next[f[Cardinality(ChangeDoc)]] = f[Cardinality(ChangeDoc)]
      BY <3>1, <3>2, Saturates
    <3> QED  BY <3>3 DEF N
  <2> QED  BY <1>8, <2>1 DEF N
<1>10. Step(grow[N]) = grow[N]
  <2> HIDE DEF grow
  <2> QED  BY <1>3, <1>9
<1> HIDE DEF grow
<1>11. \A e \in grow[N] : Links(c, e) \subseteq grow[N]
  BY <1>10 DEF Step
<1> QED  BY <1>1, <1>9, <1>11
-----------------------------------------------------------------------------
(* What folding, rendering, importing and writing a status do.               *)

\* The fold keeps what is finished finished, and folding twice is folding once
\* (mapADRStatus).
LEMMA FoldedKinds ==
    /\ \A s \in Status : Folded(s) \in Status /\ (s \in Terminal <=> Folded(s) \in Terminal)
    /\ \A s \in Canonical \union Legacy : Folded(s) \in Canonical
    /\ \A s : Folded(Folded(s)) = Folded(s)
    /\ \A s \in Terminal : s \in Status
    /\ Folded("superseded") = "superseded"
<1> QED  BY DEF Folded, Status, Terminal, Canonical, Legacy, NoStatus

\* What stays as it was is settled.
LEMMA SettlesItself ==
    ASSUME NEW u, NEW r  PROVE Settles(u, u, r)
<1> QED  BY DEF Settles

\* And so is what follows from what follows.
LEMMA SettlesOn ==
    ASSUME NEW u, NEW v, NEW w, NEW r, NEW q, r \subseteq q,
           Settles(u, v, r), Settles(v, w, q)
    PROVE  Settles(u, w, q)
<1> SUFFICES ASSUME NEW d \in ChangeDoc \ q, u[d] # NoDoc
             PROVE  /\ w[d] # NoDoc
                    /\ u[d].status \in Terminal =>
                         w[d].status \in {u[d].status, "superseded", Folded(u[d].status)}
  BY DEF Settles
<1>1. /\ v[d] # NoDoc /\ w[d] # NoDoc
      /\ u[d].status \in Terminal =>
           v[d].status \in {u[d].status, "superseded", Folded(u[d].status)}
      /\ v[d].status \in Terminal =>
           w[d].status \in {v[d].status, "superseded", Folded(v[d].status)}
  BY DEF Settles
<1>2. u[d].status \in Terminal =>
        /\ v[d].status \in Terminal
        /\ Folded(v[d].status) \in {Folded(u[d].status), "superseded"}
  BY <1>1, FoldedKinds DEF Terminal
<1> QED  BY <1>1, <1>2

\* The parts of a cache.
LEMMA CacheShape ==
    ASSUME NEW c \in Cache
    PROVE  /\ c.decision \in [ChangeDoc -> Decision \union {NoDoc}]
           /\ c.fact \in [Fact -> FactRow \union {NoFact}]
           /\ c = [decision |-> c.decision, fact |-> c.fact]
           /\ c # NoStore
           /\ \A d \in ChangeDoc : Links(c, d) \subseteq ChangeDoc
<1> QED  BY LifecycleAssumption DEF Cache, Links, Decision

\* An export writes what the cache says, status lines of active documents apart.
LEMMA RenderedKeeps ==
    ASSUME NEW c \in Cache, NEW r
    PROVE  /\ Rendered(c) \in Documents
           /\ Settles(c.decision, Rendered(c).decision, r)
           /\ Settles(Rendered(c).decision, c.decision, r)
           /\ \A f \in Fact : Rendered(c).text[f] =
                IF c.fact[f] = NoFact THEN NoFact ELSE c.fact[f].text
<1>1. \A d \in ChangeDoc :
        /\ Rendered(c).decision[d] \in Decision \union {NoDoc}
        /\ Rendered(c).decision[d] = NoDoc <=> c.decision[d] = NoDoc
        /\ c.decision[d] # NoDoc =>
             \/ Rendered(c).decision[d] = c.decision[d]
             \/ /\ c.decision[d].status = "active"
                /\ Rendered(c).decision[d].status = NoStatus
  <2> SUFFICES ASSUME NEW d \in ChangeDoc, c.decision[d] # NoDoc, c.decision[d].status = "active"
               PROVE  /\ Rendered(c).decision[d] \in Decision
                      /\ Rendered(c).decision[d].status = NoStatus
    BY CacheShape, LifecycleAssumption DEF Rendered
  <2>1. Rendered(c).decision[d] = [c.decision[d] EXCEPT !.status = NoStatus]
    BY DEF Rendered
  <2>2. c.decision[d] \in Decision /\ NoStatus \in Status
    BY CacheShape DEF Status
  <2> QED  BY <2>1, <2>2 DEF Decision
<1>2. \A f \in Fact : Rendered(c).text[f] =
        IF c.fact[f] = NoFact THEN NoFact ELSE c.fact[f].text
  BY DEF Rendered
<1>3. Rendered(c) \in Documents
  <2>1. \A f \in Fact : Rendered(c).text[f] \in Text \union {Unwritten, NoFact}
    BY <1>2, CacheShape DEF FactRow
  <2> QED  BY <1>1, <2>1 DEF Rendered, Documents
<1>4. \A d \in ChangeDoc : /\ "active" \notin Terminal /\ NoStatus \notin Terminal
  BY DEF Terminal, NoStatus
<1> QED  BY <1>1, <1>2, <1>3, <1>4 DEF Settles

\* A rebuild takes what the documents say.
LEMMA ImportedKeeps ==
    ASSUME NEW t \in Documents
    PROVE  /\ Imported(t) \in Cache
           /\ Imported(t).decision = t.decision
           /\ Rendered(Imported(t)).text = t.text
           /\ \A f \in Fact : Imported(t).fact[f] # NoFact =>
                /\ t.text[f] # NoFact
                /\ Imported(t).fact[f].text = t.text[f]
<1> DEFINE row(f) == [status |-> "active", text |-> t.text[f],
                      version |-> IF t.text[f] = Unwritten THEN 0 ELSE 1]
<1>1. \A f \in Fact : Imported(t).fact[f] = IF t.text[f] = NoFact THEN NoFact ELSE row(f)
  BY DEF Imported
<1>2. \A f \in Fact : t.text[f] # NoFact => row(f) \in FactRow
  BY LifecycleAssumption DEF Documents, FactRow
<1>3. Imported(t) \in Cache
  BY <1>1, <1>2 DEF Imported, Cache, Documents
<1>4. \A f \in Fact : t.text[f] # NoFact => row(f) # NoFact /\ row(f).text = t.text[f]
  BY <1>2, LifecycleAssumption
<1>5. \A f \in Fact : Rendered(Imported(t)).text[f] = t.text[f]
  <2> HIDE DEF row
  <2> QED  BY <1>1, <1>3, <1>4, RenderedKeeps
<1>6. Rendered(Imported(t)).text = t.text
  <2>1. Rendered(Imported(t)).text \in [Fact -> Text \union {Unwritten, NoFact}]
    BY <1>3, RenderedKeeps DEF Documents
  <2>2. t.text \in [Fact -> Text \union {Unwritten, NoFact}]
    BY DEF Documents
  <2> QED  BY <1>5, <2>1, <2>2
<1>7. Imported(t).decision = t.decision
  BY DEF Imported
<1> HIDE DEF row
<1> QED  BY <1>1, <1>3, <1>4, <1>6, <1>7

\* Writing a status changes one decision, and not its links (SetEntityStatus).
LEMMA StatusWritten ==
    ASSUME NEW c \in Cache, NEW d \in ChangeDoc, c.decision[d] # NoDoc, NEW s \in Status
    PROVE  /\ WithStatus(c, d, s) \in Cache
           /\ WithStatus(c, d, s).fact = c.fact
           /\ WithStatus(c, d, s).decision[d] # NoDoc
           /\ WithStatus(c, d, s).decision[d].status = s
           /\ \A e \in ChangeDoc \ {d} : WithStatus(c, d, s).decision[e] = c.decision[e]
           /\ \A e \in ChangeDoc : Links(WithStatus(c, d, s), e) = Links(c, e)
<1> DEFINE w == [c.decision[d] EXCEPT !.status = s]
<1>1. w \in Decision /\ w.status = s /\ w.supersedes = c.decision[d].supersedes
  BY CacheShape DEF Decision
<1>2. WithStatus(c, d, s) = [decision |-> [c.decision EXCEPT ![d] = w], fact |-> c.fact]
  BY CacheShape DEF WithStatus
<1> HIDE DEF w
<1>3. w # NoDoc
  BY <1>1, LifecycleAssumption
<1>4. [c.decision EXCEPT ![d] = w] \in [ChangeDoc -> Decision \union {NoDoc}]
  BY <1>1, CacheShape
<1> QED  BY <1>1, <1>2, <1>3, <1>4, CacheShape DEF Cache, Links

-----------------------------------------------------------------------------
(* The invariant.                                                            *)

\* The invariant holds to begin with.
LEMMA InitHolds == LifecycleInit => LifecycleInv
<1> SUFFICES ASSUME LifecycleInit PROVE LifecycleInv
  OBVIOUS
<1> USE DEF LifecycleInit
<1>1. docs \in Documents
  BY LifecycleAssumption
<1>2. cache \in Cache /\ cache # NoStore /\ cache.decision = docs.decision
  BY <1>1, ImportedKeeps, CacheShape
<1>3. /\ job \in Seq(ChangeDoc \union Fact) /\ runs \in Nat /\ released \subseteq ChangeDoc
      /\ granted \in [Fact -> SUBSET Text] /\ at \in Phase
  BY DEF Phase
<1>4. LifecycleTypeOK
  BY <1>1, <1>2, <1>3 DEF LifecycleTypeOK
<1>5. SavedForRollback /\ BeginsInStep /\ Sweeping /\ Linking
  BY DEF SavedForRollback, BeginsInStep, Sweeping, Linking
<1>6. CachesGoOn
  BY <1>2, SettlesItself DEF CachesGoOn
<1>7. \A f \in Fact : docs.text[f] \in granted[f] \union {Unwritten, NoFact}
  BY <1>1 DEF Documents
<1>8. OnlyGranted
  BY <1>1, <1>7, ImportedKeeps DEF OnlyGranted, SaysOnly
<1> QED  BY <1>4, <1>5, <1>6, <1>8 DEF LifecycleInv

\* A step of nobody keeps it.
LEMMA StutterKeeps == LifecycleInv /\ UNCHANGED lifecycleVars => LifecycleInv'
<1> USE DEF lifecycleVars
<1> SUFFICES ASSUME LifecycleInv, UNCHANGED lifecycleVars PROVE LifecycleInv'
  OBVIOUS
<1>1. LifecycleTypeOK'
  BY DEF LifecycleInv, LifecycleTypeOK
<1>2. SavedForRollback' /\ BeginsInStep'
  BY DEF LifecycleInv, SavedForRollback, BeginsInStep
<1>3. CachesGoOn'
  BY DEF LifecycleInv, CachesGoOn
<1>4. OnlyGranted'
  BY DEF LifecycleInv, OnlyGranted
<1>5. Sweeping' /\ Linking'
  BY DEF LifecycleInv, Sweeping, Linking
<1> QED  BY <1>1, <1>2, <1>3, <1>4, <1>5 DEF LifecycleInv

\* A cache that is gone says nothing wrong.
LEMMA LoseCacheKeeps == LifecycleInv /\ LoseCache => LifecycleInv'
<1> SUFFICES ASSUME LifecycleInv, LoseCache PROVE LifecycleInv'
  OBVIOUS
<1> USE DEF LoseCache
<1>1. LifecycleTypeOK'
  BY DEF LifecycleInv, LifecycleTypeOK
<1>2. SavedForRollback' /\ BeginsInStep' /\ Sweeping' /\ Linking'
  BY DEF LifecycleInv, SavedForRollback, BeginsInStep, Sweeping, Linking
<1>3. CachesGoOn'
  BY DEF LifecycleInv, CachesGoOn
<1>4. OnlyGranted'
  BY DEF LifecycleInv, OnlyGranted
<1> QED  BY <1>1, <1>2, <1>3, <1>4 DEF LifecycleInv

\* A command begins with the cache it finds, or with one made from the documents.
LEMMA BeginCommandKeeps == LifecycleInv /\ BeginCommand => LifecycleInv'
<1> SUFFICES ASSUME LifecycleInv, BeginCommand PROVE LifecycleInv'
  OBVIOUS
<1>1. /\ docs \in Documents /\ cache \in Cache \union {NoStore}
      /\ at = "idle" /\ saved = NoStore
      /\ job \in Seq(ChangeDoc \union Fact) /\ runs \in Nat /\ released \subseteq ChangeDoc
      /\ granted \in [Fact -> SUBSET Text]
  BY DEF LifecycleInv, LifecycleTypeOK, SavedForRollback, BeginCommand
<1>2. /\ cache' \in Cache /\ cache' # NoStore
      /\ Rendered(cache').text = docs.text
      /\ Settles(docs.decision, cache'.decision, released)
      /\ SaysOnly(cache', granted)
  <2>1. CASE Current(cache)
    <3>1. cache' = cache
      BY <2>1 DEF BeginCommand
    <3> QED  BY <1>1, <2>1, <3>1
             DEF Current, LifecycleInv, CachesGoOn, OnlyGranted
  <2>2. CASE ~Current(cache)
    <3>1. cache' = Imported(docs)
      BY <2>2 DEF BeginCommand
    <3>2. \A f \in Fact : docs.text[f] \in granted[f] \union {Unwritten, NoFact}
      BY DEF LifecycleInv, OnlyGranted
    <3> QED  BY <1>1, <3>1, <3>2, ImportedKeeps, SettlesItself, CacheShape DEF SaysOnly
  <2> QED  BY <2>1, <2>2
<1>3. /\ saved' = [docs |-> docs, cache |-> cache'] /\ saved' \in [docs : Documents, cache : Cache]
      /\ saved'.cache = cache' /\ saved'.docs = docs
  BY <1>1, <1>2 DEF BeginCommand
<1>4. saved' # NoStore
  BY <1>3, LifecycleAssumption
<1>5. at' = "run" /\ UNCHANGED <<docs, job, released, granted>> /\ runs' \in Nat
  BY <1>1 DEF BeginCommand
<1>6. LifecycleTypeOK'
  BY <1>1, <1>2, <1>3, <1>5 DEF LifecycleTypeOK, Phase
<1>7. SavedForRollback' /\ BeginsInStep' /\ Sweeping' /\ Linking'
  BY <1>2, <1>3, <1>4, <1>5 DEF SavedForRollback, BeginsInStep, Sweeping, Linking
<1>8. CachesGoOn'
  BY <1>2, <1>3, <1>5 DEF CachesGoOn
<1>9. OnlyGranted'
  BY <1>2, <1>3, <1>5 DEF LifecycleInv, OnlyGranted
<1> QED  BY <1>6, <1>7, <1>8, <1>9 DEF LifecycleInv

\* An export makes the documents what the cache has become.
LEMMA ExportKeeps == LifecycleInv /\ ExportStore => LifecycleInv'
<1> SUFFICES ASSUME LifecycleInv, ExportStore PROVE LifecycleInv'
  OBVIOUS
<1>1. /\ cache \in Cache /\ cache # NoStore
      /\ job \in Seq(ChangeDoc \union Fact) /\ runs \in Nat /\ released \subseteq ChangeDoc
      /\ granted \in [Fact -> SUBSET Text]
      /\ SaysOnly(cache, granted)
  BY DEF LifecycleInv, LifecycleTypeOK, SavedForRollback, OnlyGranted, ExportStore
<1>2. /\ docs' = Rendered(cache) /\ at' = "idle" /\ saved' = NoStore
      /\ UNCHANGED <<cache, job, runs, released, granted>>
  BY DEF ExportStore
<1>3. /\ docs' \in Documents
      /\ Settles(docs'.decision, cache.decision, released)
      /\ \A f \in Fact : docs'.text[f] \in granted[f] \union {Unwritten, NoFact}
  BY <1>1, <1>2, RenderedKeeps DEF SaysOnly
<1>4. LifecycleTypeOK'
  BY <1>1, <1>2, <1>3 DEF LifecycleTypeOK, Phase
<1>5. SavedForRollback' /\ BeginsInStep' /\ Sweeping' /\ Linking'
  BY <1>2 DEF SavedForRollback, BeginsInStep, Sweeping, Linking
<1>6. CachesGoOn'
  BY <1>2, <1>3 DEF CachesGoOn
<1>7. OnlyGranted'
  BY <1>1, <1>2, <1>3 DEF OnlyGranted
<1> QED  BY <1>4, <1>5, <1>6, <1>7 DEF LifecycleInv

\* A command that fails leaves both stores as it found them.
LEMMA RolledBackKeeps == LifecycleInv /\ CommandRolledBack => LifecycleInv'
<1> SUFFICES ASSUME LifecycleInv, CommandRolledBack PROVE LifecycleInv'
  OBVIOUS
<1>1. /\ saved \in [docs : Documents, cache : Cache] /\ saved # NoStore
      /\ saved.docs = docs /\ docs \in Documents
      /\ runs \in Nat /\ released \subseteq ChangeDoc
      /\ granted \in [Fact -> SUBSET Text]
      /\ SaysOnly(saved.cache, granted)
      /\ Settles(docs.decision, saved.cache.decision, released)
  BY DEF LifecycleInv, LifecycleTypeOK, SavedForRollback, OnlyGranted, CachesGoOn,
         CommandRolledBack
<1>2. /\ docs' = docs /\ cache' = saved.cache /\ at' = "idle" /\ saved' = NoStore
      /\ job' = <<>> /\ UNCHANGED <<runs, released, granted>>
  BY <1>1 DEF CommandRolledBack
<1>3. LifecycleTypeOK'
  BY <1>1, <1>2 DEF LifecycleTypeOK, Phase
<1>4. SavedForRollback' /\ BeginsInStep' /\ Sweeping' /\ Linking'
  BY <1>2 DEF SavedForRollback, BeginsInStep, Sweeping, Linking
<1>5. CachesGoOn'
  BY <1>1, <1>2 DEF CachesGoOn
<1>6. OnlyGranted'
  BY <1>1, <1>2 DEF LifecycleInv, OnlyGranted
<1> QED  BY <1>3, <1>4, <1>5, <1>6 DEF LifecycleInv

\* One that is killed leaves its cache, which has only gone on.
LEMMA KilledKeeps == LifecycleInv /\ CommandKilled => LifecycleInv'
<1> SUFFICES ASSUME LifecycleInv, CommandKilled PROVE LifecycleInv'
  OBVIOUS
<1>1. /\ at' = "idle" /\ saved' = NoStore /\ job' = <<>>
      /\ UNCHANGED <<docs, cache, runs, released, granted>>
  BY DEF CommandKilled
<1>2. LifecycleTypeOK'
  BY <1>1 DEF LifecycleInv, LifecycleTypeOK, Phase
<1>3. SavedForRollback' /\ BeginsInStep' /\ Sweeping' /\ Linking'
  BY <1>1 DEF SavedForRollback, BeginsInStep, Sweeping, Linking
<1>4. CachesGoOn'
  BY <1>1 DEF LifecycleInv, CachesGoOn
<1>5. OnlyGranted'
  BY <1>1 DEF LifecycleInv, OnlyGranted
<1> QED  BY <1>2, <1>3, <1>4, <1>5 DEF LifecycleInv

\* Work in the cache
LEMMA WorkKeeps ==
    ASSUME LifecycleInv, at # "idle", UNCHANGED <<docs, saved, runs>>,
           cache' \in Cache, at' \in {"export", "link", "sweep"},
           job' \in Seq(ChangeDoc \union Fact),
           released \subseteq released', released' \subseteq ChangeDoc,
           granted' \in [Fact -> SUBSET Text],
           \A f \in Fact : granted[f] \subseteq granted'[f],
           Settles(cache.decision, cache'.decision, released'),
           SaysOnly(cache', granted'), Sweeping', Linking'
    PROVE  LifecycleInv'
<1>1. LifecycleTypeOK'
  BY DEF LifecycleInv, LifecycleTypeOK, Phase
<1>2. /\ cache # NoStore /\ cache' # NoStore
      /\ saved # NoStore
  BY LifecycleAssumption DEF LifecycleInv, SavedForRollback
<1>3. SavedForRollback'
  BY <1>2 DEF LifecycleInv, SavedForRollback
<1>4. BeginsInStep'
  BY DEF BeginsInStep
<1>5. CachesGoOn'
  <2>1. Settles(docs.decision, cache.decision, released)
        /\ Settles(docs.decision, saved.cache.decision, released)
    BY <1>2 DEF LifecycleInv, CachesGoOn
  <2>2. Settles(docs.decision, cache'.decision, released')
    BY <2>1, SettlesOn
  <2>3. Settles(docs.decision, saved.cache.decision, released')
    BY <2>1 DEF Settles
  <2> QED  BY <2>2, <2>3 DEF CachesGoOn
<1>6. OnlyGranted'
  <2>1. \A f \in Fact : docs.text[f] \in granted'[f] \union {Unwritten, NoFact}
    BY DEF LifecycleInv, OnlyGranted
  <2>2. SaysOnly(saved.cache, granted')
    BY <1>2 DEF LifecycleInv, OnlyGranted, SaysOnly
  <2> QED  BY <2>1, <2>2 DEF OnlyGranted
<1> QED  BY <1>1, <1>3, <1>4, <1>5, <1>6 DEF LifecycleInv

-----------------------------------------------------------------------------
(* The commands on decisions.                                                *)

\* What a command on a decision leaves alone, and what it starts from.
OnlyDecisions ==
    /\ at # "idle" /\ UNCHANGED <<docs, saved, runs, granted>>
    /\ cache' \in Cache
    /\ cache'.fact = cache.fact
    /\ job' \in Seq(ChangeDoc \union Fact)
    /\ released \subseteq released' /\ released' \subseteq ChangeDoc
    /\ Settles(cache.decision, cache'.decision, released')

\* Work on decisions keeps the invariant.
LEMMA DecisionsKeep ==
    ASSUME LifecycleInv, OnlyDecisions, at' \in {"export", "link", "sweep"},
           Sweeping', Linking'
    PROVE  LifecycleInv'
<1>1. /\ cache # NoStore /\ granted \in [Fact -> SUBSET Text]
      /\ SaysOnly(cache, granted)
  BY DEF LifecycleInv, LifecycleTypeOK, SavedForRollback, OnlyGranted, OnlyDecisions
<1>2. SaysOnly(cache', granted')
  BY <1>1 DEF SaysOnly, OnlyDecisions
<1>3. \A f \in Fact : granted[f] \subseteq granted'[f]
  BY DEF OnlyDecisions
<1> QED  BY <1>1, <1>2, <1>3, WorkKeeps DEF OnlyDecisions

\* A command that runs has a cache.
LEMMA Running ==
    ASSUME LifecycleInv, at # "idle"
    PROVE  /\ cache \in Cache
           /\ job \in Seq(ChangeDoc \union Fact)
           /\ released \subseteq ChangeDoc
           /\ granted \in [Fact -> SUBSET Text]
<1> QED  BY DEF LifecycleInv, LifecycleTypeOK, SavedForRollback

\* What authors put in a row is one.
LEMMA CitableRows ==
    ASSUME NEW c \in Cache
    PROVE  Citable(c) \union Excused(c) \subseteq Row
<1>1. ASSUME NEW f \in Fact, c.fact[f] # NoFact
      PROVE  [fact |-> f, version |-> c.fact[f].version, text |-> c.fact[f].text] \in Row
  <2>1. c.fact[f] \in FactRow
    BY <1>1, CacheShape
  <2> QED  BY <2>1 DEF FactRow, Row
<1>2. \A f \in Fact : [fact |-> f, version |-> 0, text |-> Unwritten] \in Row
  BY LifecycleAssumption DEF Row
<1> QED  BY <1>1, <1>2 DEF Citable, Excused

\* A new decision was not there before (RunAdd).
LEMMA AddKeeps ==
    ASSUME LifecycleInv, NEW d \in ChangeDoc, NEW rows \in SUBSET Row, AddDecision(d, rows)
    PROVE  LifecycleInv'
<1>1. cache \in Cache /\ at = "run" /\ cache.decision[d] = NoDoc
      /\ job \in Seq(ChangeDoc \union Fact) /\ released \subseteq ChangeDoc
  BY Running DEF AddDecision, InCache
<1> DEFINE w == [status |-> IF d \in Adr THEN "proposed" ELSE "active",
                 supersedes |-> {}, rows |-> rows]
<1>2. w \in Decision
  BY DEF Decision, Status, Legacy
<1>3. /\ cache' = [decision |-> [cache.decision EXCEPT ![d] = w], fact |-> cache.fact]
      /\ at' = "export" /\ UNCHANGED <<docs, saved, runs, job, released, granted>>
  <2>1. /\ cache' = [cache EXCEPT !.decision[d] = w]
        /\ at' = "export" /\ UNCHANGED <<docs, saved, runs, job, released, granted>>
    BY DEF AddDecision, Works
  <2> HIDE DEF w
  <2> QED  BY <1>1, <2>1, CacheShape
<1> HIDE DEF w
<1>4. /\ cache' \in Cache /\ cache'.fact = cache.fact
      /\ Settles(cache.decision, cache'.decision, released)
  BY <1>1, <1>2, <1>3, CacheShape DEF Cache, Settles
<1>5. OnlyDecisions
  BY <1>1, <1>3, <1>4 DEF OnlyDecisions
<1> QED  BY <1>3, <1>5, DecisionsKeep DEF Sweeping, Linking

\* A whole document leaves the status alone (RunWrite).
LEMMA WriteKeeps ==
    ASSUME LifecycleInv, NEW d \in ChangeDoc, NEW rows \in SUBSET Row,
           NEW fm \in SUBSET ChangeDoc, WriteDecision(d, rows, fm)
    PROVE  LifecycleInv'
<1>1. cache \in Cache /\ at = "run" /\ cache.decision[d] # NoDoc
      /\ job \in Seq(ChangeDoc \union Fact) /\ released \subseteq ChangeDoc
  BY Running DEF WriteDecision, InCache
<1> DEFINE v == [cache.decision[d] EXCEPT !.rows = rows]
           w == [v EXCEPT !.supersedes = fm]
<1>2. w \in Decision /\ w.status = cache.decision[d].status
  <2>1. v \in Decision /\ v.status = cache.decision[d].status
    BY <1>1, CacheShape DEF Decision
  <2> HIDE DEF v
  <2> QED  BY <2>1 DEF Decision
<1>3. /\ cache' = [decision |-> [cache.decision EXCEPT ![d] = w], fact |-> cache.fact]
      /\ at' = "export" /\ UNCHANGED <<docs, saved, runs, job, released, granted>>
  <2> DEFINE k == [cache EXCEPT !.decision[d].rows = rows]
  <2>1. /\ cache' = [k EXCEPT !.decision[d].supersedes = fm]
        /\ at' = "export" /\ UNCHANGED <<docs, saved, runs, job, released, granted>>
    BY DEF WriteDecision, Works
  <2>2. k = [decision |-> [cache.decision EXCEPT ![d] = v], fact |-> cache.fact]
    BY <1>1, CacheShape
  <2>3. cache' = [decision |-> [cache.decision EXCEPT ![d] = w], fact |-> cache.fact]
    <3> HIDE DEF k, v
    <3> QED  BY <1>1, <2>1, <2>2, CacheShape
  <2> QED  BY <2>1, <2>3
<1> HIDE DEF w
<1>4. w # NoDoc
  BY <1>2, LifecycleAssumption
<1>5. /\ cache' \in Cache /\ cache'.fact = cache.fact
      /\ Settles(cache.decision, cache'.decision, released)
  BY <1>1, <1>2, <1>3, <1>4, CacheShape DEF Cache, Settles
<1>6. OnlyDecisions
  BY <1>1, <1>3, <1>5 DEF OnlyDecisions
<1> QED  BY <1>3, <1>6, DecisionsKeep DEF Sweeping, Linking

\* A status that is written settles what was there, if it was not a finished one or
\* moves as finished ones do.
LEMMA StatusSettles ==
    ASSUME NEW c \in Cache, NEW d \in ChangeDoc, c.decision[d] # NoDoc, NEW s \in Status,
           NEW r,
           \/ d \in r
           \/ c.decision[d].status \in Terminal =>
                s \in {c.decision[d].status, "superseded", Folded(c.decision[d].status)}
    PROVE  Settles(c.decision, WithStatus(c, d, s).decision, r)
<1> QED  BY StatusWritten DEF Settles

\* set moves a status along its transitions (statusTransitions).
LEMMA SetStatusKeeps ==
    ASSUME LifecycleInv, NEW d \in ChangeDoc, NEW s \in Status, SetStatus(d, s)
    PROVE  LifecycleInv'
<1>1. cache \in Cache /\ at = "run" /\ cache.decision[d] # NoDoc
      /\ job \in Seq(ChangeDoc \union Fact) /\ released \subseteq ChangeDoc
  BY Running DEF SetStatus, InCache
<1>2. /\ cache' = WithStatus(cache, d, s)
      /\ at' = "export" /\ UNCHANGED <<docs, saved, runs, job, released, granted>>
  BY DEF SetStatus, Works
<1>3. cache.decision[d].status \in Terminal =>
        s \in {cache.decision[d].status, "superseded"}
  BY DEF SetStatus, NextStatuses, Terminal
<1>4. Settles(cache.decision, cache'.decision, released)
  BY <1>1, <1>2, <1>3, StatusSettles
<1>5. OnlyDecisions
  BY <1>1, <1>2, <1>4, StatusWritten DEF OnlyDecisions
<1> QED  BY <1>2, <1>5, DecisionsKeep DEF Sweeping, Linking

\* change accept releases the decision it accepts.
LEMMA AcceptKeeps ==
    ASSUME LifecycleInv, NEW d \in ChangeDoc, Accept(d)
    PROVE  LifecycleInv'
<1>1. cache \in Cache /\ at = "run" /\ cache.decision[d] # NoDoc
      /\ job \in Seq(ChangeDoc \union Fact) /\ released \subseteq ChangeDoc
  BY Running DEF Accept, InCache
<1>2. /\ cache' = WithStatus(cache, d, "accepted") /\ released' = released \union {d}
      /\ at' = "export" /\ UNCHANGED <<docs, saved, runs, job, granted>>
  BY DEF Accept, Works
<1>3. "accepted" \in Status
  BY DEF Status, Canonical
<1>4. Settles(cache.decision, cache'.decision, released')
  BY <1>1, <1>2, <1>3, StatusSettles
<1>5. OnlyDecisions
  BY <1>1, <1>2, <1>3, <1>4, StatusWritten DEF OnlyDecisions
<1> QED  BY <1>2, <1>5, DecisionsKeep DEF Sweeping, Linking

\* The latch finishes only decisions that are accepted (autoDoneLatch).
LEMMA LatchKeeps ==
    ASSUME LifecycleInv, NEW inspected, Latch(inspected)
    PROVE  LifecycleInv'
<1>1. cache \in Cache /\ at = "run"
      /\ job \in Seq(ChangeDoc \union Fact) /\ released \subseteq ChangeDoc
  BY Running DEF Latch
<1> DEFINE ready == {d \in inspected : /\ InCache(d)
                                       /\ cache.decision[d].status = "accepted"
                                       /\ AllDischarged(cache, d)}
           w == [d \in ChangeDoc |->
                   IF d \in ready THEN [cache.decision[d] EXCEPT !.status = "done"]
                   ELSE cache.decision[d]]
<1>2. /\ cache' = [decision |-> w, fact |-> cache.fact]
      /\ at' = "export" /\ UNCHANGED <<docs, saved, runs, job, released, granted>>
  BY <1>1, CacheShape DEF Latch, Works
<1>3. ASSUME NEW d \in ChangeDoc
      PROVE  /\ w[d] \in Decision \union {NoDoc}
             /\ cache.decision[d] # NoDoc =>
                  /\ w[d] # NoDoc
                  /\ cache.decision[d].status \in Terminal => w[d] = cache.decision[d]
  <2>1. CASE d \in ready
    <3>1. cache.decision[d] \in Decision /\ cache.decision[d].status = "accepted"
          /\ "accepted" \notin Terminal /\ "done" \in Status
      BY <1>1, <2>1, CacheShape DEF InCache, Terminal, Status, Canonical
    <3>2. w[d] = [cache.decision[d] EXCEPT !.status = "done"]
      BY <2>1
    <3>3. w[d] \in Decision
      BY <3>1, <3>2 DEF Decision
    <3> QED  BY <3>1, <3>3, LifecycleAssumption
  <2>2. CASE d \notin ready
    <3>1. w[d] = cache.decision[d]
      BY <2>2
    <3> QED  BY <1>1, <3>1, CacheShape
  <2> QED  BY <2>1, <2>2
<1>4. /\ cache' \in Cache /\ cache'.fact = cache.fact
      /\ Settles(cache.decision, cache'.decision, released)
  <2>1. w = [d \in ChangeDoc |-> w[d]]
    OBVIOUS
  <2> HIDE DEF w
  <2> QED  BY <1>1, <1>2, <1>3, <2>1, CacheShape DEF Cache, Settles
<1>5. OnlyDecisions
  BY <1>1, <1>2, <1>4 DEF OnlyDecisions
<1> QED  BY <1>2, <1>5, DecisionsKeep DEF Sweeping, Linking

\* The flip of a supersede finds that the links do not lead back (supersedeReaches).
LEMMA FlipKeeps ==
    ASSUME LifecycleInv, NEW new \in ChangeDoc, NEW old \in ChangeDoc, SupersedeFlip(new, old)
    PROVE  LifecycleInv'
<1>1. /\ cache \in Cache /\ at = "run"
      /\ cache.decision[new] # NoDoc /\ cache.decision[old] # NoDoc /\ new # old
      /\ job \in Seq(ChangeDoc \union Fact) /\ released \subseteq ChangeDoc
  BY Running DEF SupersedeFlip, InCache
<1>2. /\ cache' = WithStatus(cache, old, "superseded") /\ job' = <<new, old>>
      /\ at' = "link" /\ UNCHANGED <<docs, saved, runs, released, granted>>
  BY DEF SupersedeFlip, Works
<1>3. "superseded" \in Status
  BY DEF Status, Canonical
<1>4. OnlyDecisions
  <2>1. Settles(cache.decision, cache'.decision, released)
    BY <1>1, <1>2, <1>3, StatusSettles
  <2>2. cache' \in Cache /\ cache'.fact = cache.fact
    BY <1>1, <1>2, <1>3, StatusWritten
  <2>3. job' \in Seq(ChangeDoc \union Fact)
    BY <1>2
  <2> QED  BY <1>1, <1>2, <2>1, <2>2, <2>3 DEF OnlyDecisions
<1> DEFINE R == SupersededFrom(cache, old)
<1>5. old \in R /\ R \subseteq ChangeDoc /\ KeepsTo(cache, R)
  BY <1>1, SupersededFromClosed, CacheShape, LifecycleAssumption DEF KeepsTo
<1>6. new \notin R
  BY DEF SupersedeFlip
<1> HIDE DEF R
<1>7. Linking'
  <2>1. cache'.decision[new] # NoDoc
    BY <1>1, <1>2, <1>3, StatusWritten
  <2>2. KeepsTo(cache', R)
    BY <1>1, <1>2, <1>3, <1>5, StatusWritten DEF KeepsTo
  <2> QED  BY <1>2, <1>5, <1>6, <2>1, <2>2 DEF Linking
<1> QED  BY <1>2, <1>4, <1>7, DecisionsKeep DEF Sweeping

\* The second half of a supersede.
LEMMA LinkStep ==
    ASSUME LifecycleInv, SupersedeLink
    PROVE  \E new, old \in ChangeDoc :
             /\ cache \in Cache
             /\ cache.decision[new] # NoDoc
             /\ \E R \in SUBSET ChangeDoc : old \in R /\ new \notin R /\ KeepsTo(cache, R)
             /\ cache' \in Cache /\ cache'.fact = cache.fact
             /\ \A d \in ChangeDoc :
                  /\ cache'.decision[d] = NoDoc <=> cache.decision[d] = NoDoc
                  /\ cache.decision[d] # NoDoc =>
                       cache'.decision[d].status = cache.decision[d].status
                  /\ Links(cache', d) =
                       IF d = new THEN Links(cache, d) \union {old} ELSE Links(cache, d)
<1>1. cache \in Cache /\ at = "link"
  BY Running DEF SupersedeLink
<1>2. PICK new, old \in ChangeDoc :
        /\ job = <<new, old>>
        /\ cache.decision[new] # NoDoc
        /\ \E R \in SUBSET ChangeDoc : old \in R /\ new \notin R /\ KeepsTo(cache, R)
  BY <1>1 DEF LifecycleInv, Linking
<1> DEFINE w == [cache.decision[new] EXCEPT !.supersedes = @ \union {old}]
<1>3. /\ w \in Decision /\ w.status = cache.decision[new].status
      /\ w.supersedes = cache.decision[new].supersedes \union {old}
  BY <1>1, <1>2, CacheShape DEF Decision
<1>4. cache' = [decision |-> [cache.decision EXCEPT ![new] = w], fact |-> cache.fact]
  <2>1. job[1] = new /\ job[2] = old
    BY <1>2
  <2>2. cache' = [cache EXCEPT !.decision[new].supersedes = @ \union {old}]
    BY <2>1 DEF SupersedeLink, Works
  <2> DEFINE links == cache.decision[new].supersedes \union {old}
  <2>3. /\ cache' = [cache EXCEPT !.decision[new].supersedes = links]
        /\ w = [cache.decision[new] EXCEPT !.supersedes = links]
    BY <2>2
  <2> HIDE DEF links, w
  <2> QED  BY <1>1, <2>3, CacheShape
<1> HIDE DEF w
<1>5. w # NoDoc
  BY <1>3, LifecycleAssumption
<1>6. /\ cache' \in Cache /\ cache'.fact = cache.fact
      /\ cache'.decision[new] = w
      /\ \A d \in ChangeDoc \ {new} : cache'.decision[d] = cache.decision[d]
  <2>1. [cache.decision EXCEPT ![new] = w] \in [ChangeDoc -> Decision \union {NoDoc}]
    BY <1>1, <1>3, CacheShape
  <2>2. /\ [cache.decision EXCEPT ![new] = w][new] = w
        /\ \A d \in ChangeDoc \ {new} : [cache.decision EXCEPT ![new] = w][d] = cache.decision[d]
    BY <1>1, CacheShape
  <2>3. [decision |-> [cache.decision EXCEPT ![new] = w], fact |-> cache.fact] \in Cache
    BY <1>1, <2>1, CacheShape DEF Cache
  <2> QED  BY <1>4, <2>2, <2>3
<1>7. \A d \in ChangeDoc :
        /\ cache'.decision[d] = NoDoc <=> cache.decision[d] = NoDoc
        /\ cache.decision[d] # NoDoc =>
             cache'.decision[d].status = cache.decision[d].status
        /\ Links(cache', d) =
             IF d = new THEN Links(cache, d) \union {old} ELSE Links(cache, d)
  BY <1>2, <1>3, <1>5, <1>6 DEF Links
<1> QED  BY <1>1, <1>2, <1>6, <1>7

\* The link changes no status.
LEMMA LinkKeeps ==
    ASSUME LifecycleInv, SupersedeLink
    PROVE  LifecycleInv'
<1>1. job \in Seq(ChangeDoc \union Fact) /\ released \subseteq ChangeDoc
  BY Running DEF SupersedeLink
<1>2. at = "link" /\ at' = "export" /\ job' = <<>>
      /\ UNCHANGED <<docs, saved, runs, released, granted>>
  BY DEF SupersedeLink, Works
<1>3. /\ cache' \in Cache /\ cache'.fact = cache.fact
      /\ \A d \in ChangeDoc :
           cache.decision[d] # NoDoc =>
             /\ cache'.decision[d] # NoDoc
             /\ cache'.decision[d].status = cache.decision[d].status
  BY LinkStep
<1>4. OnlyDecisions
  BY <1>1, <1>2, <1>3 DEF OnlyDecisions, Settles
<1> QED  BY <1>2, <1>4, DecisionsKeep DEF Sweeping, Linking

\* delete releases the decision it deletes.
LEMMA DeleteKeeps ==
    ASSUME LifecycleInv, NEW d \in ChangeDoc, DeleteDecision(d)
    PROVE  LifecycleInv'
<1>1. cache \in Cache /\ at = "run"
      /\ job \in Seq(ChangeDoc \union Fact) /\ released \subseteq ChangeDoc
  BY Running DEF DeleteDecision
<1> DEFINE w == [e \in ChangeDoc |->
                   IF e = d \/ cache.decision[e] = NoDoc THEN NoDoc
                   ELSE [cache.decision[e] EXCEPT !.supersedes = @ \ {d}]]
<1>2. /\ cache' = [decision |-> w, fact |-> cache.fact]
      /\ at' = "export" /\ UNCHANGED <<docs, saved, runs, job, granted>>
      /\ released' = released \union {d}
  <2>1. cache' = [cache EXCEPT !.decision = w]
    BY DEF DeleteDecision, Works, InCache
  <2>2. /\ at' = "export" /\ UNCHANGED <<docs, saved, runs, job, granted>>
        /\ released' = released \union {d}
    BY DEF DeleteDecision, Works, InCache
  <2> HIDE DEF w
  <2> QED  BY <1>1, <2>1, <2>2, CacheShape
<1>3. ASSUME NEW e \in ChangeDoc
      PROVE  /\ w[e] \in Decision \union {NoDoc}
             /\ e # d /\ cache.decision[e] # NoDoc =>
                  /\ w[e] # NoDoc
                  /\ w[e].status = cache.decision[e].status
  <2>1. CASE e = d \/ cache.decision[e] = NoDoc
    BY <2>1
  <2>2. CASE e # d /\ cache.decision[e] # NoDoc
    <3>1. w[e] = [cache.decision[e] EXCEPT !.supersedes = @ \ {d}]
      BY <2>2
    <3>2. cache.decision[e] \in Decision
      BY <1>1, <2>2, CacheShape
    <3>3. w[e] \in Decision /\ w[e].status = cache.decision[e].status
      BY <3>1, <3>2 DEF Decision
    <3> QED  BY <3>3, LifecycleAssumption
  <2> QED  BY <2>1, <2>2
<1>4. /\ cache' \in Cache /\ cache'.fact = cache.fact
      /\ Settles(cache.decision, cache'.decision, released')
  <2>1. w = [e \in ChangeDoc |-> w[e]]
    OBVIOUS
  <2> HIDE DEF w
  <2> QED  BY <1>1, <1>2, <1>3, <2>1, CacheShape DEF Cache, Settles
<1>5. OnlyDecisions
  BY <1>1, <1>2, <1>4 DEF OnlyDecisions
<1> QED  BY <1>2, <1>5, DecisionsKeep DEF Sweeping, Linking

-----------------------------------------------------------------------------
(* migrate.                                                                  *)

\* Where the sweep starts from.
LEMMA SweepsFrom ==
    ASSUME LifecycleInv, at = "sweep"
    PROVE  /\ cache \in Cache /\ saved.cache \in Cache
           /\ job \in Seq(ChangeDoc \union Fact) /\ released \subseteq ChangeDoc
           /\ granted \in [Fact -> SUBSET Text]
           /\ SaysOnly(cache, granted)
           /\ SweptSoFar(saved.cache.decision, cache.decision, job)
<1> QED  BY DEF LifecycleInv, LifecycleTypeOK, SavedForRollback, OnlyGranted, Sweeping

\* A sweep starts with every id before it.
LEMMA StartMigrateKeeps ==
    ASSUME LifecycleInv, StartMigrate
    PROVE  LifecycleInv'
<1>1. cache \in Cache /\ at = "run" /\ saved.cache = cache
      /\ job \in Seq(ChangeDoc \union Fact) /\ released \subseteq ChangeDoc
  BY Running DEF StartMigrate, LifecycleInv, BeginsInStep
<1>2. /\ cache' = cache /\ job' = SweepOrder
      /\ at' = "sweep" /\ UNCHANGED <<docs, saved, runs, released, granted>>
  BY DEF StartMigrate, Works
<1>3. SweptSoFar(saved.cache.decision, cache.decision, SweepOrder)
  BY <1>1, LifecycleAssumption DEF SweptSoFar
<1>4. OnlyDecisions
  BY <1>1, <1>2, SettlesItself, LifecycleAssumption DEF OnlyDecisions
<1>5. Sweeping' /\ Linking'
  BY <1>2, <1>3 DEF Sweeping, Linking
<1> QED  BY <1>2, <1>4, <1>5, DecisionsKeep

\* What is left to do loses its first id.
LEMMA OneLess ==
    ASSUME NEW S, NEW s \in Seq(S), s # <<>>
    PROVE  /\ Head(s) \in S
           /\ Tail(s) \in Seq(S)
           /\ \A x : x # Head(s) /\ x \in Range(s) => x \in Range(Tail(s))
<1>1. Head(s) \in S /\ Tail(s) \in Seq(S) /\ Head(s) = s[1]
  OBVIOUS
<1>2. ASSUME NEW i \in DOMAIN s, i # 1
      PROVE  s[i] \in Range(Tail(s))
  <2>1. i - 1 \in DOMAIN Tail(s) /\ Tail(s)[i - 1] = s[i]
    BY <1>2
  <2> QED  BY <2>1 DEF Range
<1> QED  BY <1>1, <1>2 DEF Range

\* The sweep folds the decision it meets (RunMigrate).
LEMMA SweepDecisionKeeps ==
    ASSUME LifecycleInv, SweepDecision
    PROVE  LifecycleInv'
<1> DEFINE d == Head(job)
<1>1. /\ cache \in Cache /\ at = "sweep" /\ job \in Seq(ChangeDoc \union Fact) /\ job # <<>>
      /\ released \subseteq ChangeDoc /\ d \in ChangeDoc
      /\ SweptSoFar(saved.cache.decision, cache.decision, job)
  BY SweepsFrom DEF SweepDecision
<1>2. /\ job' = Tail(job) /\ job' \in Seq(ChangeDoc \union Fact)
      /\ \A e \in ChangeDoc : e # d /\ e \in Range(job) => e \in Range(job')
      /\ at' = "sweep" /\ UNCHANGED <<docs, saved, runs, released, granted>>
  BY <1>1, OneLess DEF SweepDecision, Works
<1> HIDE DEF d
<1>3. CASE cache.decision[d] = NoDoc
  <2>1. cache' = cache
    BY <1>3 DEF SweepDecision, Works, InCache, d
  <2>2. OnlyDecisions
    BY <1>1, <1>2, <2>1, SettlesItself DEF OnlyDecisions
  <2>3. SweptSoFar(saved.cache.decision, cache.decision, job')
    BY <1>1, <1>2, <1>3 DEF SweptSoFar
  <2>4. Sweeping' /\ Linking'
    BY <1>2, <2>1, <2>3 DEF Sweeping, Linking
  <2> QED  BY <1>2, <2>2, <2>4, DecisionsKeep
<1>4. CASE cache.decision[d] # NoDoc
  <2> DEFINE s == cache.decision[d].status
  <2>1. s \in Canonical \union Legacy /\ s \in Status
    BY <1>4 DEF SweepDecision, InCache, Status, d
  <2>2. cache' = WithStatus(cache, d, Folded(s))
    BY <1>4 DEF SweepDecision, Works, InCache, WithStatus, d
  <2> HIDE DEF s
  <2>3. /\ Folded(s) \in Status /\ Folded(s) \in Canonical
        /\ Folded(Folded(s)) = Folded(s)
    BY <2>1, FoldedKinds
  <2>4. /\ cache' \in Cache /\ cache'.fact = cache.fact
        /\ cache'.decision[d] # NoDoc /\ cache'.decision[d].status = Folded(s)
        /\ \A e \in ChangeDoc \ {d} : cache'.decision[e] = cache.decision[e]
    BY <1>1, <1>4, <2>2, <2>3, StatusWritten
  <2>5. Settles(cache.decision, cache'.decision, released)
    BY <1>1, <1>4, <2>2, <2>3, StatusSettles DEF s
  <2>6. OnlyDecisions
    BY <1>1, <1>2, <2>4, <2>5 DEF OnlyDecisions
  <2>7. SweptSoFar(saved.cache.decision, cache'.decision, job')
    <3> SUFFICES ASSUME NEW e \in ChangeDoc
                 PROVE  LET c == saved.cache.decision
                        IN  /\ cache'.decision[e] = NoDoc <=> c[e] = NoDoc
                            /\ cache'.decision[e] # NoDoc =>
                                 /\ cache'.decision[e].status \in {c[e].status, Folded(c[e].status)}
                                 /\ e \notin Range(job') => cache'.decision[e].status \in Canonical
      BY DEF SweptSoFar
    <3>1. CASE e = d
      <4>1. s \in {saved.cache.decision[d].status, Folded(saved.cache.decision[d].status)}
        BY <1>1, <1>4 DEF SweptSoFar, s
      <4>2. Folded(s) = Folded(saved.cache.decision[d].status)
        BY <4>1, FoldedKinds
      <4>3. saved.cache.decision[d] # NoDoc
        BY <1>1, <1>4 DEF SweptSoFar
      <4> QED  BY <2>3, <2>4, <3>1, <4>2, <4>3
    <3>2. CASE e # d
      BY <1>1, <1>2, <2>4, <3>2 DEF SweptSoFar
    <3> QED  BY <3>1, <3>2
  <2>8. Sweeping' /\ Linking'
    BY <1>2, <2>7 DEF Sweeping, Linking
  <2> QED  BY <1>2, <2>6, <2>8, DecisionsKeep
<1> QED  BY <1>3, <1>4

\* The sweep of a fact keeps its text.
LEMMA SweepFactKeeps ==
    ASSUME LifecycleInv, SweepFact
    PROVE  LifecycleInv'
<1> DEFINE f == Head(job)
<1>1. /\ cache \in Cache /\ at = "sweep" /\ job \in Seq(ChangeDoc \union Fact) /\ job # <<>>
      /\ released \subseteq ChangeDoc /\ f \in Fact /\ f \notin ChangeDoc
      /\ granted \in [Fact -> SUBSET Text] /\ SaysOnly(cache, granted)
      /\ SweptSoFar(saved.cache.decision, cache.decision, job)
  BY SweepsFrom, LifecycleAssumption DEF SweepFact
<1>2. /\ job' = Tail(job) /\ job' \in Seq(ChangeDoc \union Fact)
      /\ \A e \in ChangeDoc : e \in Range(job) => e \in Range(job')
      /\ at' = "sweep" /\ UNCHANGED <<docs, saved, runs, released, granted>>
  BY <1>1, OneLess DEF SweepFact, Works
<1> HIDE DEF f
<1>3. /\ cache' \in Cache /\ cache'.decision = cache.decision
      /\ SaysOnly(cache', granted)
  <2>1. CASE cache.fact[f] = NoFact
    <3>1. cache' = cache
      BY <2>1 DEF SweepFact, Works, f
    <3> QED  BY <1>1, <3>1
  <2>2. CASE cache.fact[f] # NoFact
    <3> DEFINE v == [cache.fact[f] EXCEPT !.status = NoStatus]
               w == [v EXCEPT !.version = @ + 1]
    <3>1. cache.fact[f] \in FactRow /\ cache.fact[f].version < MaxVersion
      BY <1>1, <2>2, CacheShape DEF SweepFact, f
    <3>2. v \in FactRow /\ v.version < MaxVersion /\ v.text = cache.fact[f].text
      BY <3>1 DEF FactRow
    <3>3. w \in FactRow /\ w.text = cache.fact[f].text
      <4> HIDE DEF v
      <4> QED  BY <3>2, LifecycleAssumption DEF FactRow
    <3>4. cache' = [decision |-> cache.decision, fact |-> [cache.fact EXCEPT ![f] = w]]
      <4> DEFINE k == [cache EXCEPT !.fact[f].status = NoStatus]
      <4>1. cache' = [k EXCEPT !.fact[f].version = @ + 1]
        BY <2>2 DEF SweepFact, Works, f
      <4>2. k = [decision |-> cache.decision, fact |-> [cache.fact EXCEPT ![f] = v]]
        BY <1>1, CacheShape
      <4> HIDE DEF k, v
      <4> QED  BY <1>1, <4>1, <4>2, CacheShape
    <3> HIDE DEF v, w
    <3>5. [cache.fact EXCEPT ![f] = w] \in [Fact -> FactRow \union {NoFact}]
      BY <1>1, <3>3, CacheShape
    <3>6. cache' \in Cache /\ cache'.decision = cache.decision
      BY <1>1, <3>4, <3>5, CacheShape DEF Cache
    <3>7. SaysOnly(cache', granted)
      BY <1>1, <2>2, <3>3, <3>4, CacheShape DEF SaysOnly
    <3> QED  BY <3>6, <3>7
  <2> QED  BY <2>1, <2>2
<1>4. Settles(cache.decision, cache'.decision, released)
  BY <1>3, SettlesItself
<1>5. SweptSoFar(saved.cache.decision, cache'.decision, job')
  BY <1>1, <1>2, <1>3 DEF SweptSoFar
<1>6. Sweeping' /\ Linking'
  BY <1>2, <1>5 DEF Sweeping, Linking
<1> QED  BY <1>1, <1>2, <1>3, <1>4, <1>6, WorkKeeps

\* The end of a sweep changes nothing.
LEMMA FinishMigrateKeeps ==
    ASSUME LifecycleInv, FinishMigrate
    PROVE  LifecycleInv'
<1>1. cache \in Cache /\ at = "sweep"
      /\ job \in Seq(ChangeDoc \union Fact) /\ released \subseteq ChangeDoc
  BY SweepsFrom DEF FinishMigrate
<1>2. /\ cache' = cache /\ at' = "export"
      /\ UNCHANGED <<docs, saved, runs, job, released, granted>>
  BY DEF FinishMigrate, Works
<1>3. OnlyDecisions
  BY <1>1, <1>2, SettlesItself DEF OnlyDecisions
<1> QED  BY <1>2, <1>3, DecisionsKeep DEF Sweeping, Linking

-----------------------------------------------------------------------------
(* The commands on facts.                                                    *)

\* Their work in a cache that is one.
LEMMA FactsKeep ==
    ASSUME LifecycleInv, at = "run", NEW c \in Cache, c.decision = cache.decision,
           WorksOnFacts(c)
    PROVE  LifecycleInv'
<1>1. /\ job \in Seq(ChangeDoc \union Fact) /\ released \subseteq ChangeDoc
      /\ granted \in [Fact -> SUBSET Text]
  BY Running
<1>2. /\ cache' = c /\ at' = "export" /\ UNCHANGED <<docs, saved, runs, job, released>>
      /\ granted' = [f \in Fact |-> granted[f] \union
                       IF c.fact[f] = NoFact THEN {} ELSE {c.fact[f].text} \intersect Text]
  BY DEF WorksOnFacts, Works
<1>3. granted' \in [Fact -> SUBSET Text] /\ \A f \in Fact : granted[f] \subseteq granted'[f]
  BY <1>1, <1>2
<1>4. SaysOnly(c, granted')
  <2> SUFFICES ASSUME NEW f \in Fact, c.fact[f] # NoFact
               PROVE  c.fact[f].text \in granted'[f] \union {Unwritten}
    BY DEF SaysOnly
  <2>1. c.fact[f].text \in Text \union {Unwritten}
    BY CacheShape DEF FactRow
  <2> QED  BY <1>2, <2>1
<1>5. Settles(cache.decision, cache'.decision, released)
  BY <1>2, SettlesItself
<1>6. Sweeping' /\ Linking'
  BY <1>2 DEF Sweeping, Linking
<1> QED  BY <1>1, <1>2, <1>3, <1>4, <1>5, <1>6, WorkKeeps

\* A cache with another row for one fact.
LEMMA RowPut ==
    ASSUME NEW c \in Cache, NEW f \in Fact, NEW w \in FactRow \union {NoFact}
    PROVE  /\ [c EXCEPT !.fact[f] = w] \in Cache
           /\ [c EXCEPT !.fact[f] = w].decision = c.decision
<1>1. [c EXCEPT !.fact[f] = w]
        = [decision |-> c.decision, fact |-> [c.fact EXCEPT ![f] = w]]
  BY CacheShape
<1>2. [c.fact EXCEPT ![f] = w] \in [Fact -> FactRow \union {NoFact}]
  BY CacheShape
<1> QED  BY <1>1, <1>2, CacheShape DEF Cache

\* A parent that is listed again has another row.
LEMMA ListedAgainKeeps ==
    ASSUME NEW c \in Cache, NEW f \in Fact, NEW k \in ListedAgain(c, f)
    PROVE  k \in Cache /\ k.decision = c.decision
<1> DEFINE p == ParentOf[f]
<1>1. CASE p = NoFact \/ c.fact[p] = NoFact \/ c.fact[p].text = Unwritten
  BY <1>1 DEF ListedAgain
<1>2. CASE ~(p = NoFact \/ c.fact[p] = NoFact \/ c.fact[p].text = Unwritten)
  <2>1. p \in Fact /\ c.fact[p] \in FactRow
    BY <1>2, CacheShape, LifecycleAssumption
  <2>2. PICK t \in Text :
          /\ c.fact[p].version < MaxVersion
          /\ k = [c EXCEPT !.fact[p].version = @ + 1, !.fact[p].text = t]
    BY <1>2 DEF ListedAgain
  <2> DEFINE v == [c.fact[p] EXCEPT !.version = @ + 1]
             w == [v EXCEPT !.text = t]
             m == [c EXCEPT !.fact[p].version = @ + 1]
  <2>3. v \in FactRow
    BY <2>1, <2>2, LifecycleAssumption DEF FactRow
  <2>4. w \in FactRow
    <3> HIDE DEF v
    <3> QED  BY <2>3 DEF FactRow
  <2>5. k = [c EXCEPT !.fact[p] = w]
    <3>1. k = [m EXCEPT !.fact[p].text = t]
      BY <2>2
    <3>2. m = [decision |-> c.decision, fact |-> [c.fact EXCEPT ![p] = v]]
      BY <2>1, CacheShape
    <3> HIDE DEF m, v, p
    <3> QED  BY <2>1, <3>1, <3>2, CacheShape
  <2> HIDE DEF w, p
  <2> QED  BY <2>1, <2>4, <2>5, RowPut
<1> QED  BY <1>1, <1>2

\* A new fact says what it was given to say (RunAdd).
LEMMA CreateKeeps ==
    ASSUME LifecycleInv, NEW f \in Fact, NEW t \in Text, CreateFact(f, t)
    PROVE  LifecycleInv'
<1> DEFINE w == [status |-> "active", version |-> 1, text |-> t]
           k == [cache EXCEPT !.fact[f] = w]
<1>1. cache \in Cache /\ at = "run"
  BY Running DEF CreateFact
<1>2. w \in FactRow
  BY LifecycleAssumption DEF FactRow
<1>3. \E c \in ListedAgain(k, f) : WorksOnFacts(c)
  BY DEF CreateFact
<1> HIDE DEF w
<1>4. k \in Cache /\ k.decision = cache.decision
  BY <1>1, <1>2, RowPut
<1> HIDE DEF k
<1> QED  BY <1>1, <1>3, <1>4, ListedAgainKeeps, FactsKeep

\* So does one that is written for the first time.
LEMMA WriteFactKeeps ==
    ASSUME LifecycleInv, NEW f \in Fact, NEW t \in Text, WriteFact(f, t)
    PROVE  LifecycleInv'
<1>1. cache \in Cache /\ at = "run" /\ cache.fact[f] # NoFact /\ cache.fact[f] \in FactRow
  BY Running, CacheShape DEF WriteFact
<1> DEFINE v == [cache.fact[f] EXCEPT !.text = t]
           w == [v EXCEPT !.version = 1]
           k == [cache EXCEPT !.fact[f].text = t]
           c == [k EXCEPT !.fact[f].version = 1]
<1>2. w \in FactRow
  <2>1. v \in FactRow
    BY <1>1 DEF FactRow
  <2> HIDE DEF v
  <2> QED  BY <2>1, LifecycleAssumption DEF FactRow
<1>3. c = [cache EXCEPT !.fact[f] = w]
  <2>1. k = [decision |-> cache.decision, fact |-> [cache.fact EXCEPT ![f] = v]]
    BY <1>1, CacheShape
  <2> HIDE DEF k, v
  <2> QED  BY <1>1, <2>1, CacheShape
<1>4. /\ cache' = c /\ at' = "export" /\ UNCHANGED <<docs, saved, runs, job, released>>
      /\ granted' = IF docs.text[f] = Unwritten
                    THEN [granted EXCEPT ![f] = @ \union {t}] ELSE granted
      /\ cache.fact[f].text = Unwritten
  BY DEF WriteFact, Works, InCreationWindow
<1>5. docs.text[f] = Unwritten
  <2>1. Rendered(cache).text = docs.text
    BY <1>1 DEF LifecycleInv, BeginsInStep
  <2>2. Rendered(cache).text[f] = cache.fact[f].text
    BY <1>1 DEF Rendered
  <2> QED  BY <1>4, <2>1, <2>2
<1>6. w.text = t /\ w # NoFact
  BY <1>1, <1>2, LifecycleAssumption DEF FactRow
<1> HIDE DEF w, c, k, v
<1>7. /\ job \in Seq(ChangeDoc \union Fact) /\ released \subseteq ChangeDoc
      /\ granted \in [Fact -> SUBSET Text]
  BY <1>1, Running
<1>8. granted' \in [Fact -> SUBSET Text] /\ \A g \in Fact : granted[g] \subseteq granted'[g]
  BY <1>4, <1>5, <1>7
<1>9. c \in Cache /\ c.decision = cache.decision
  BY <1>1, <1>2, <1>3, RowPut
<1>10. \A g \in Fact : c.fact[g] = IF g = f THEN w ELSE cache.fact[g]
  BY <1>1, <1>3, CacheShape
<1>11. SaysOnly(c, granted')
  <2> SUFFICES ASSUME NEW g \in Fact, c.fact[g] # NoFact
               PROVE  c.fact[g].text \in granted'[g] \union {Unwritten}
    BY DEF SaysOnly
  <2>1. CASE g = f
    BY <1>4, <1>5, <1>6, <1>7, <1>10, <2>1
  <2>2. CASE g # f
    <3>1. cache # NoStore /\ SaysOnly(cache, granted)
      BY <1>1, LifecycleAssumption DEF LifecycleInv, OnlyGranted
    <3> QED  BY <1>8, <1>10, <2>2, <3>1 DEF SaysOnly
  <2> QED  BY <2>1, <2>2
<1>12. Settles(cache.decision, cache'.decision, released')
  BY <1>4, <1>9, SettlesItself
<1>13. Sweeping' /\ Linking'
  BY <1>4 DEF Sweeping, Linking
<1> QED  BY <1>1, <1>4, <1>7, <1>8, <1>9, <1>11, <1>12, <1>13, WorkKeeps

\* And one that an apply edits.
LEMMA ApplyBlockKeeps ==
    ASSUME LifecycleInv, NEW f \in Fact, NEW t \in Text, ApplyBlock(f, t)
    PROVE  LifecycleInv'
<1>1. cache \in Cache /\ at = "run" /\ cache.fact[f] # NoFact /\ cache.fact[f] \in FactRow
  BY Running, CacheShape DEF ApplyBlock
<1> DEFINE w == [cache.fact[f] EXCEPT !.text = t]
           c == [cache EXCEPT !.fact[f].text = t]
<1>2. w \in FactRow
  BY <1>1 DEF FactRow
<1>3. c = [cache EXCEPT !.fact[f] = w]
  BY <1>1, CacheShape
<1>4. WorksOnFacts(c)
  BY DEF ApplyBlock
<1> HIDE DEF w, c
<1> QED  BY <1>1, <1>2, <1>3, <1>4, RowPut, FactsKeep

\* A fact that is retired says nothing.
LEMMA RetireKeeps ==
    ASSUME LifecycleInv, NEW d \in ChangeDoc, NEW f \in Fact, ApplyRetire(d, f)
    PROVE  LifecycleInv'
<1> DEFINE k == [cache EXCEPT !.fact[f] = NoFact]
<1>1. cache \in Cache /\ at = "run"
  BY Running DEF ApplyRetire
<1>2. \E c \in ListedAgain(k, f) : WorksOnFacts(c)
  BY DEF ApplyRetire
<1>3. k \in Cache /\ k.decision = cache.decision
  BY <1>1, RowPut
<1> HIDE DEF k
<1> QED  BY <1>1, <1>2, <1>3, ListedAgainKeeps, FactsKeep

-----------------------------------------------------------------------------
(* Every step, and the theorems.                                             *)

\* Every command on decisions keeps the invariant.
LEMMA OnDecisionsKeeps == LifecycleInv /\ OnDecisions => LifecycleInv'
<1> SUFFICES ASSUME LifecycleInv, OnDecisions PROVE LifecycleInv'
  OBVIOUS
<1>1. ASSUME at = "run", NEW rows \in RowsToWrite
      PROVE  rows \in SUBSET Row
  BY <1>1, Running, CitableRows DEF RowsToWrite
<1>2. ASSUME at = "run", NEW d \in ChangeDoc, InCache(d)
      PROVE  cache.decision[d].rows \in SUBSET Row
  <2>1. cache.decision[d] \in Decision
    BY <1>2, Running, CacheShape DEF InCache
  <2> QED  BY <2>1 DEF Decision
<1>3. ASSUME NEW d \in ChangeDoc, NEW s \in Status, SetStatus(d, s)
      PROVE  LifecycleInv'
  BY <1>3, SetStatusKeeps
<1>4. ASSUME NEW d \in ChangeDoc, Accept(d) \/ DeleteDecision(d)
      PROVE  LifecycleInv'
  BY <1>4, AcceptKeeps, DeleteKeeps
<1>5. ASSUME NEW d \in ChangeDoc, NEW e \in ChangeDoc, SupersedeFlip(d, e)
      PROVE  LifecycleInv'
  BY <1>5, FlipKeeps
<1>6. ASSUME at = "run", NEW d \in ChangeDoc, NEW rows \in RowsToWrite,
             AddDecision(d, rows) \/ WriteDecision(d, rows, Links(cache, d))
      PROVE  LifecycleInv'
  <2>1. rows \in SUBSET Row /\ Links(cache, d) \in SUBSET ChangeDoc
    BY <1>1, <1>6, Running, CacheShape
  <2> QED  BY <1>6, <2>1, AddKeeps, WriteKeeps
<1>7. ASSUME at = "run", NEW d \in ChangeDoc, InCache(d),
             NEW fm \in {{}} \union {{e} : e \in ChangeDoc},
             WriteDecision(d, cache.decision[d].rows, fm)
      PROVE  LifecycleInv'
  <2>1. cache.decision[d].rows \in SUBSET Row /\ fm \in SUBSET ChangeDoc
    BY <1>2, <1>7
  <2> QED  BY <1>7, <2>1, WriteKeeps
<1>8. ASSUME Latch(ChangeDoc) \/ Latch(Memo)
      PROVE  LifecycleInv'
  BY <1>8, LatchKeeps
<1>9. ASSUME SupersedeLink \/ StartMigrate \/ SweepDecision \/ SweepFact \/ FinishMigrate
      PROVE  LifecycleInv'
  BY <1>9, LinkKeeps, StartMigrateKeeps, SweepDecisionKeeps, SweepFactKeeps, FinishMigrateKeeps
<1> QED  BY <1>3, <1>4, <1>5, <1>6, <1>7, <1>8, <1>9 DEF OnDecisions

\* Every command on facts keeps it.
LEMMA OnFactsKeeps == LifecycleInv /\ OnFacts => LifecycleInv'
<1> QED  BY CreateKeeps, WriteFactKeeps, ApplyBlockKeeps, RetireKeeps DEF OnFacts

\* Every step keeps it.
LEMMA StepKeeps == LifecycleInv /\ [LifecycleNext]_lifecycleVars => LifecycleInv'
<1> QED  BY StutterKeeps, LoseCacheKeeps, BeginCommandKeeps, ExportKeeps, RolledBackKeeps,
            KilledKeeps, OnDecisionsKeeps, OnFactsKeeps DEF LifecycleNext

\* What holds of a command, its store and the documents at every step, whatever
\* commands run, fail or are killed.
THEOREM LifecycleInvariant == LifecycleSpec => []LifecycleInv
<1> QED  BY InitHolds, StepKeeps, PTL DEF LifecycleSpec

\* migrate leaves every decision with a canonical status, and as finished as it was.
THEOREM Migrated == LifecycleSpec => []MigrationFolds
<1>1. LifecycleInv => MigrationFolds
  <2> SUFFICES ASSUME LifecycleInv, at = "sweep", job = <<>>,
                      NEW d \in ChangeDoc, cache.decision[d] # NoDoc
               PROVE  /\ cache.decision[d].status \in Canonical
                      /\ cache.decision[d].status \in Terminal
                           <=> saved.cache.decision[d].status \in Terminal
    BY DEF MigrationFolds
  <2>1. SweptSoFar(saved.cache.decision, cache.decision, job) /\ saved.cache \in Cache
    BY SweepsFrom
  <2>2. /\ saved.cache.decision[d] \in Decision
        /\ cache.decision[d].status \in
             {saved.cache.decision[d].status, Folded(saved.cache.decision[d].status)}
    BY <2>1, CacheShape DEF SweptSoFar
  <2>3. saved.cache.decision[d].status \in Status
    BY <2>2 DEF Decision
  <2>4. d \notin Range(job)
    BY DEF Range
  <2> QED  BY <2>1, <2>2, <2>3, <2>4, FoldedKinds DEF SweptSoFar
<1> QED  BY <1>1, LifecycleInvariant, PTL

\* The documents change only when a command exports its cache.
LEMMA DocumentsMove ==
    ASSUME LifecycleInv, [LifecycleNext]_lifecycleVars
    PROVE  \/ docs' = docs
           \/ ExportStore
<1>1. ASSUME OnDecisions PROVE docs' = docs
  BY <1>1 DEF OnDecisions, SetStatus, Accept, DeleteDecision, SupersedeFlip, AddDecision,
              WriteDecision, Latch, SupersedeLink, StartMigrate, SweepDecision, SweepFact,
              FinishMigrate, Works
<1>2. ASSUME OnFacts PROVE docs' = docs
  <2>1. \A c : WorksOnFacts(c) => docs' = docs
    BY DEF WorksOnFacts, Works
  <2> QED  BY <1>2, <2>1 DEF OnFacts, CreateFact, WriteFact, ApplyBlock, ApplyRetire, Works
<1>3. ASSUME CommandRolledBack PROVE docs' = docs
  BY <1>3 DEF CommandRolledBack, LifecycleInv, SavedForRollback
<1> QED  BY <1>1, <1>2, <1>3
         DEF LifecycleNext, lifecycleVars, LoseCache, BeginCommand, CommandKilled

\* What is settled in the documents stays so until somebody accepts or deletes it,
\* and a fact says only what an apply or an add gave it to say, or a first write.
THEOREM Settled == LifecycleSpec => SettledHolds
<1> DEFINE Held ==
        /\ \A d \in ChangeDoc :
             LET old == docs.decision[d]
                 new == docs'.decision[d]
             IN  (old # NoDoc /\ new # NoDoc /\ d \notin released) =>
                   (old.status \in Terminal =>
                      new.status \in {old.status, "superseded", Folded(old.status)})
        /\ \A f \in Fact : docs'.text[f] \in granted'[f] \union {Unwritten, NoFact}
<1>1. LifecycleInv /\ LifecycleInv' /\ [LifecycleNext]_lifecycleVars => Held
  <2> SUFFICES ASSUME LifecycleInv, LifecycleInv', [LifecycleNext]_lifecycleVars
               PROVE  Held
    OBVIOUS
  <2>1. Settles(docs.decision, docs'.decision, released)
    <3>1. CASE docs' = docs
      BY <3>1, SettlesItself
    <3>2. CASE ExportStore
      <4>1. cache \in Cache /\ docs' = Rendered(cache)
        BY <3>2, Running DEF ExportStore
      <4>2. Settles(docs.decision, cache.decision, released)
        BY <3>2 DEF ExportStore, LifecycleInv, CachesGoOn, SavedForRollback
      <4>3. Settles(cache.decision, docs'.decision, released)
        BY <4>1, RenderedKeeps
      <4> QED  BY <4>2, <4>3, SettlesOn
    <3> QED  BY <3>1, <3>2, DocumentsMove
  <2>2. \A f \in Fact : docs'.text[f] \in granted'[f] \union {Unwritten, NoFact}
    BY DEF LifecycleInv, OnlyGranted
  <2> QED  BY <2>1, <2>2 DEF Settles
<1>2. LifecycleInv /\ LifecycleInv' /\ [LifecycleNext]_lifecycleVars => [Held]_lifecycleVars
  BY <1>1
<1> QED  BY <1>2, LifecycleInvariant, PTL DEF LifecycleSpec, SettledHolds

\* What a latch takes for proof is in the documents.
THEOREM LatchProved == LifecycleSpec => LatchProvedByDocuments
<1> DEFINE Proved ==
        \A d \in ChangeDoc :
          (Latch(ChangeDoc) \/ Latch(Memo)) /\ cache'.decision[d] # cache.decision[d] =>
            LET rows == cache.decision[d].rows IN
            /\ \A r \in rows : IsCite(r) =>
                 \/ docs.text[r.fact] = r.text
                 \/ docs.text[r.fact] = NoFact /\ r.fact \in Retires[d]
            /\ \E r \in rows : IsCite(r) \/ docs.text[r.fact] = NoFact
<1>1. LifecycleInv => Proved
  <2> SUFFICES ASSUME LifecycleInv, NEW d \in ChangeDoc, NEW inspected, Latch(inspected),
                      cache'.decision[d] # cache.decision[d]
               PROVE  LET rows == cache.decision[d].rows IN
                      /\ \A r \in rows : IsCite(r) =>
                           \/ docs.text[r.fact] = r.text
                           \/ docs.text[r.fact] = NoFact /\ r.fact \in Retires[d]
                      /\ \E r \in rows : IsCite(r) \/ docs.text[r.fact] = NoFact
    OBVIOUS
  <2>1. at = "run" /\ cache \in Cache
    BY Running DEF Latch
  <2>2. \A f \in Fact :
          docs.text[f] = IF cache.fact[f] = NoFact THEN NoFact ELSE cache.fact[f].text
    BY <2>1, RenderedKeeps DEF LifecycleInv, BeginsInStep
  <2>3. cache.decision[d] # NoDoc /\ AllDischarged(cache, d)
    BY <2>1, CacheShape DEF Latch, Works, InCache
  <2>4. cache.decision[d].rows \subseteq Row
    BY <2>1, <2>3, CacheShape DEF Decision
  <2> DEFINE rows  == cache.decision[d].rows
             owed  == {r \in rows : r.fact \notin RetiredBy(cache, d)}
             cites == {r \in owed : IsCite(r)}
  <2>5. (\A r \in cites : Resolves(cache, r)) /\ (cites # {} \/ owed # rows)
    BY <2>3 DEF AllDischarged
  <2>6. \A r \in rows : r.fact \in Fact
    BY <2>4 DEF Row
  <2>7. ASSUME NEW r \in rows, r.fact \in RetiredBy(cache, d)
        PROVE  docs.text[r.fact] = NoFact /\ r.fact \in Retires[d]
    BY <2>2, <2>6, <2>7 DEF RetiredBy
  <2>8. ASSUME NEW r \in rows, IsCite(r), r.fact \notin RetiredBy(cache, d)
        PROVE  docs.text[r.fact] = r.text
    BY <2>2, <2>5, <2>6, <2>8 DEF Resolves
  <2>9. \E r \in rows : IsCite(r) \/ docs.text[r.fact] = NoFact
    BY <2>5, <2>7
  <2> QED  BY <2>7, <2>8, <2>9
<1>2. LifecycleInv => [Proved]_lifecycleVars
  BY <1>1
<1> QED  BY <1>2, LifecycleInvariant, PTL DEF LatchProvedByDocuments

\* A link that leaves a set which does not lead back closes no cycle.
LEMMA NoCycleClosed ==
    ASSUME NEW c, NEW k, NEW new \in ChangeDoc, NEW old \in ChangeDoc,
           NEW R \in SUBSET ChangeDoc, old \in R, new \notin R, KeepsTo(c, R),
           \A d \in ChangeDoc : Links(k, d) =
              IF d = new THEN Links(c, d) \union {old} ELSE Links(c, d),
           Acyclic(c)
    PROVE  Acyclic(k)
<1> SUFFICES ASSUME NEW S \in SUBSET ChangeDoc, S # {},
                    \A d \in S : Links(k, d) \intersect S # {}
             PROVE  FALSE
  BY DEF Acyclic
<1>1. \A T \in SUBSET ChangeDoc : T # {} => \E d \in T : Links(c, d) \intersect T = {}
  BY DEF Acyclic
<1>2. CASE new \in S /\ old \in S
  <2>1. PICK d \in S \intersect R : Links(c, d) \intersect (S \intersect R) = {}
    BY <1>1, <1>2
  <2>2. Links(k, d) = Links(c, d) /\ Links(c, d) \subseteq R
    BY <2>1 DEF KeepsTo
  <2> QED  BY <2>1, <2>2
<1>3. CASE new \notin S \/ old \notin S
  <2>1. PICK d \in S : Links(c, d) \intersect S = {}
    BY <1>1
  <2>2. Links(k, d) \intersect S = {}
    BY <1>3, <2>1
  <2> QED  BY <2>2
<1> QED  BY <1>2, <1>3

\* supersede closes no cycle.
THEOREM NoCycle == LifecycleSpec => SupersedeKeepsAcyclic
<1> DEFINE Kept == at = "link" /\ at' = "export" /\ Acyclic(cache) => Acyclic(cache')
<1>1. LifecycleInv /\ [LifecycleNext]_lifecycleVars => Kept
  <2> SUFFICES ASSUME LifecycleInv, [LifecycleNext]_lifecycleVars,
                      at = "link", at' = "export", Acyclic(cache)
               PROVE  Acyclic(cache')
    OBVIOUS
  <2>1. ~OnFacts
    BY DEF OnFacts, CreateFact, WriteFact, ApplyBlock, ApplyRetire
  <2>2. OnDecisions => SupersedeLink
    BY DEF OnDecisions, SetStatus, Accept, DeleteDecision, SupersedeFlip, Latch,
           StartMigrate, SweepDecision, SweepFact, FinishMigrate
  <2>3. SupersedeLink
    BY <2>1, <2>2 DEF LifecycleNext, lifecycleVars, LoseCache, BeginCommand, ExportStore,
                      CommandRolledBack, CommandKilled
  <2> QED  BY <2>3, LinkStep, NoCycleClosed
<1>2. LifecycleInv /\ [LifecycleNext]_lifecycleVars => [Kept]_lifecycleVars
  BY <1>1
<1> QED  BY <1>2, LifecycleInvariant, PTL DEF LifecycleSpec, SupersedeKeepsAcyclic

-----------------------------------------------------------------------------
(* Check: what an issue is about.                                            *)

\* What is said of a document is about that document.
LEMMA AboutItself ==
    ASSUME NEW p, NEW e
    PROVE  \A i \in DocumentIssues(p, e) : i.about = e
<1>1. \A x, w : Issue(e, x, w).about = e /\ Error(e, x, w).about = e
  BY DEF Issue, Error
<1>2. \A i \in ShapeIssues(p, e) : i.about = e
  BY <1>1 DEF ShapeIssues
<1>3. \A i \in StrictIssues(p, e) : i.about = e
  BY <1>1 DEF StrictIssues
<1>4. \A i \in OriginIssues(p, e) : i.about = e
  BY <1>1 DEF OriginIssues
<1>5. \A d : \A i \in ColumnIssues(p, e, d) : i.about = e
  BY <1>1 DEF ColumnIssues
<1>6. ReadyNote(e).about = e
  BY <1>1 DEF ReadyNote
<1> QED  BY <1>2, <1>3, <1>4, <1>5, <1>6 DEF DocumentIssues

\* What the issues of a check of T are about.
LEMMA AboutTargets ==
    ASSUME NEW p, NEW T
    PROVE  \A i \in Issues(p, T) : Matches(T, i.about) \/ i.about = "canvas"
<1>1. \A e, x, w : Issue(e, x, w).about = e /\ Error(e, x, w).about = e
  BY DEF Issue, Error
<1>2. \A e \in Inspected(p, T) : \A i \in DocumentIssues(p, e) : Matches(T, i.about)
  BY AboutItself DEF Inspected
<1>3. \A i \in CodeMapIssues(p) : T = {} => Matches(T, i.about)
  BY DEF Matches
<1>4. \A i \in AnchorIssues(p, T) : Matches(T, i.about)
  BY <1>1 DEF AnchorIssues
<1>5. \A i \in CanvasIssues(p, T) : i.about = "canvas"
  BY <1>1 DEF CanvasIssues
<1>6. \A i \in UnknownTargets(p, T) : Matches(T, i.about)
  BY <1>1 DEF UnknownTargets, Matches
<1>7. \A i \in ScopeIssues(p, T) : Matches(T, i.about)
  BY <1>1 DEF ScopeIssues
<1> QED  BY <1>2, <1>3, <1>4, <1>5, <1>6, <1>7 DEF Issues

\* What a check of T says of a document that it looks at is what a check of everything does.
LEMMA SaysTheSame ==
    ASSUME NEW p, NEW T, p.live \subseteq Id, NEW e \in p.live, Matches(T, e),
           ~(IsStrictChange(KindOf[e]) /\ p.status[e] \in Finished)
    PROVE  {i \in Issues(p, T) : i.about = e} = {i \in Issues(p, {}) : i.about = e}
<1> DEFINE Of(U) ==
             (IF HasCanvas(p, KindOf[e]) THEN DocumentIssues(p, e) ELSE {})
             \union {i \in LayerIssues(p) : i.about = e}
             \union (IF e \in p.adrift THEN {Issue(e, "whole", "anchor")} ELSE {})
             \union {i \in ScopeIssues(p, {}) : i.about = e}
<1>1. \A x, y, w : /\ Issue(x, y, w).about = x /\ Error(x, y, w).about = x
  BY DEF Issue, Error
<1>2. e \in Id /\ e # "canvas"
  BY CheckAssumption
<1>3. ASSUME NEW U, Matches(U, e)
      PROVE  {i \in Issues(p, U) : i.about = e} = Of(U)
  <2>1. e \in Inspected(p, U) <=> HasCanvas(p, KindOf[e])
    BY <1>3 DEF Inspected
  <2>2. {i \in UNION {DocumentIssues(p, x) : x \in Inspected(p, U)} : i.about = e}
          = IF HasCanvas(p, KindOf[e]) THEN DocumentIssues(p, e) ELSE {}
    BY <2>1, AboutItself
  <2>3. {i \in {j \in LayerIssues(p) : Matches(U, j.about)} : i.about = e}
          = {i \in LayerIssues(p) : i.about = e}
    BY <1>3
  <2>4. {i \in CodeMapIssues(p) : i.about = e} = {}
    BY <1>1 DEF CodeMapIssues
  <2>5. {i \in AnchorIssues(p, U) : i.about = e}
          = IF e \in p.adrift THEN {Issue(e, "whole", "anchor")} ELSE {}
    BY <1>1, <1>3 DEF AnchorIssues
  <2>6. {i \in CanvasIssues(p, U) : i.about = e} = {}
    BY <1>1, <1>2 DEF CanvasIssues
  <2>7. {i \in UnknownTargets(p, U) : i.about = e} = {}
    BY <1>1 DEF UnknownTargets
  <2>8. {i \in ScopeIssues(p, U) : i.about = e} = {i \in ScopeIssues(p, {}) : i.about = e}
    <3>1. Matches({}, e)
      BY DEF Matches
    <3> QED  BY <1>1, <1>3, <3>1 DEF ScopeIssues
  <2> DEFINE A == UNION {DocumentIssues(p, x) : x \in Inspected(p, U)}
             B == {j \in LayerIssues(p) : Matches(U, j.about)}
  <2>9. Issues(p, U) = A \union B \union (IF U = {} THEN CodeMapIssues(p) ELSE {})
                         \union AnchorIssues(p, U) \union CanvasIssues(p, U)
                         \union UnknownTargets(p, U) \union ScopeIssues(p, U)
    BY DEF Issues
  <2>10. {i \in A : i.about = e} = IF HasCanvas(p, KindOf[e]) THEN DocumentIssues(p, e) ELSE {}
    BY <2>2
  <2>11. {i \in B : i.about = e} = {i \in LayerIssues(p) : i.about = e}
    BY <2>3
  <2> HIDE DEF A, B
  <2> QED  BY <2>4, <2>5, <2>6, <2>7, <2>8, <2>9, <2>10, <2>11
<1>4. Matches({}, e)
  BY DEF Matches
<1>5. Of(T) = Of({})
  OBVIOUS
<1> HIDE DEF Of
<1> QED  BY <1>3, <1>4, <1>5

-----------------------------------------------------------------------------
(* Lists.                                                                    *)

\* A sequence is one of the things in it.
LEMMA ListOfItsOwn ==
    ASSUME NEW S, NEW s \in Seq(S)
    PROVE  IsList(s)
<1>1. Len(s) \in Nat /\ DOMAIN s = 1..Len(s) /\ s = [i \in 1..Len(s) |-> s[i]]
  OBVIOUS
<1>2. \A i \in 1..Len(s) : s[i] \in ToSet(s)
  BY <1>1 DEF ToSet
<1> HIDE DEF ToSet
<1> QED  BY <1>1, <1>2 DEF IsList

\* A list has the numbers up to its length for its places.
LEMMA PlacesOfList ==
    ASSUME NEW s, IsList(s)
    PROVE  Len(s) \in Nat /\ DOMAIN s = 1..Len(s) /\ s = [i \in 1..Len(s) |-> s[i]]
BY DEF IsList

\* Ascending goes through a finite set of naturals, each member at a place of its own.
LEMMA AscendingGoesThrough ==
    ASSUME NEW S \in SUBSET Nat, IsFiniteSet(S)
    PROVE  /\ Cardinality(S) \in Nat /\ DOMAIN Ascending(S) = 1..Cardinality(S)
           /\ \A k \in DOMAIN Ascending(S) : Ascending(S)[k] \in S
           /\ \A j, k \in DOMAIN Ascending(S) : Ascending(S)[j] = Ascending(S)[k] => j = k
           /\ \A x \in S : \E k \in DOMAIN Ascending(S) : Ascending(S)[k] = x
<1> DEFINE n == Cardinality(S)
           Below(x) == {m \in S : m < x}
           rank(x) == Cardinality(Below(x))
           A == Ascending(S)
<1>1. n \in Nat /\ DOMAIN A = 1..n
  BY FS_CardinalityType DEF Ascending
<1>2. ASSUME NEW x \in S
      PROVE  IsFiniteSet(Below(x)) /\ rank(x) \in 0..(n - 1)
  <2>1. Below(x) \in SUBSET (S \ {x})
    OBVIOUS
  <2>2. IsFiniteSet(S \ {x}) /\ Cardinality(S \ {x}) = n - 1
    BY FS_RemoveElement
  <2> HIDE DEF Below, n
  <2>3. Cardinality(Below(x)) <= n - 1 /\ IsFiniteSet(Below(x))
    BY <2>1, <2>2, FS_Subset, ZenonT(60)
  <2>4. Cardinality(Below(x)) \in Nat
    BY <2>3, FS_CardinalityType
  <2> QED  BY <1>1, <2>3, <2>4
<1>3. ASSUME NEW x \in S, NEW y \in S, x < y
      PROVE  rank(x) < rank(y)
  <2>1. Below(x) \in SUBSET Below(y) /\ x \in Below(y) /\ x \notin Below(x)
    <3>1. \A m \in S : m \in Nat
      OBVIOUS
    <3>2. (\A m \in Nat : m < x => m < y) /\ ~(x < x)
      BY <1>3, <3>1
    <3> QED  BY <1>3, <3>1, <3>2, Zenon
  <2>2. IsFiniteSet(Below(y)) /\ rank(x) \in Nat /\ rank(y) \in Nat
    <3>1. rank(x) \in 0..(n - 1) /\ rank(y) \in 0..(n - 1) /\ IsFiniteSet(Below(y))
      BY <1>2
    <3> HIDE DEF rank, n, Below
    <3> QED  BY <1>1, <3>1
  <2> HIDE DEF Below
  <2>3. /\ Cardinality(Below(x)) <= Cardinality(Below(y))
        /\ Cardinality(Below(y)) = Cardinality(Below(x)) => Below(y) = Below(x)
    BY <2>1, <2>2, FS_Subset, Zenon
  <2> QED  BY <2>1, <2>2, <2>3
<1> HIDE DEF rank, n
<1>4. \A x, y \in S : rank(x) = rank(y) => x = y
  <2> SUFFICES ASSUME NEW x \in S, NEW y \in S, rank(x) = rank(y)
               PROVE  x = y
    OBVIOUS
  <2>1. rank(x) \in 0..(n - 1)
    BY <1>2
  <2>2. rank(x) \in Int
    BY <2>1
  <2>3. ~(x < y) /\ ~(y < x)
    BY <1>3, <2>2
  <2>4. x \in Nat /\ y \in Nat
    OBVIOUS
  <2> QED  BY <2>3, <2>4
<1>5. \A k \in 0..(n - 1) : \E x \in S : rank(x) = k
  <2> DEFINE f == [x \in S |-> rank(x)]
  <2>1. f \in [S -> 0..(n - 1)]
    BY <1>2
  <2>2. \A x, y \in S : f[x] = f[y] => x = y
    BY <1>4
  <2>3. f \in Injection(S, 0..(n - 1))
    <3> HIDE DEF f
    <3> QED  BY <2>1, <2>2, Fun_IsInj, Zenon
  <2>4. IsFiniteSet(0..(n - 1)) /\ Cardinality(0..(n - 1)) = n
    BY <1>1, FS_Interval
  <2>5. f \in Surjection(S, 0..(n - 1))
    <3> HIDE DEF f
    <3> QED  BY <2>3, <2>4, FS_Injection, Zenon DEF n
  <2>6. \A k \in 0..(n - 1) : \E x \in S : f[x] = k
    <3> HIDE DEF f
    <3> QED  BY <2>5 DEF Surjection
  <2> QED  BY <2>6
<1>6. \A k \in 1..n : A[k] \in S /\ rank(A[k]) = k - 1
  <2> TAKE k \in 1..n
  <2>1. A[k] = CHOOSE x \in S : rank(x) = k - 1
    BY DEF Ascending, n, rank
  <2>2. k - 1 \in 0..(n - 1)
    BY <1>1
  <2>3. \E x \in S : rank(x) = k - 1
    BY <1>5, <2>2
  <2> HIDE DEF A
  <2> QED  BY <2>1, <2>3
<1> HIDE DEF A
<1>7. \A j, k \in 1..n : A[j] = A[k] => j = k
  <2> TAKE j, k \in 1..n
  <2>1. A[j] = A[k] => j - 1 = k - 1
    BY <1>6
  <2> QED  BY <1>1, <2>1
<1>8. \A x \in S : \E k \in 1..n : A[k] = x
  <2> TAKE x \in S
  <2>1. rank(x) \in 0..(n - 1)
    BY <1>2
  <2>2. rank(x) + 1 \in 1..n /\ (rank(x) + 1) - 1 = rank(x)
    BY <1>1, <2>1
  <2>3. A[rank(x) + 1] \in S /\ rank(A[rank(x) + 1]) = rank(x)
    BY <1>6, <2>2
  <2> QED  BY <1>4, <2>2, <2>3
<1> QED  BY <1>1, <1>6, <1>7, <1>8 DEF A, n

\* All the places of a list in order are the places as they are.
LEMMA AscendingPlaces ==
    ASSUME NEW n \in Nat
    PROVE  DOMAIN Ascending(1..n) = 1..n /\ \A k \in 1..n : Ascending(1..n)[k] = k
<1>1. Cardinality(1..n) = n
  BY FS_Interval
<1>2. \A x \in 1..n : Cardinality({m \in 1..n : m < x}) = x - 1
  <2> TAKE x \in 1..n
  <2>1. {m \in 1..n : m < x} = 1..(x - 1)
    OBVIOUS
  <2>2. Cardinality(1..(x - 1)) = x - 1
    BY FS_Interval
  <2> QED  BY <2>1, <2>2
<1>3. ASSUME NEW k \in 1..n
      PROVE  Ascending(1..n)[k] = k
  <2>1. Ascending(1..n)[k] = CHOOSE x \in 1..n : Cardinality({m \in 1..n : m < x}) = k - 1
    BY <1>1 DEF Ascending
  <2> DEFINE c == CHOOSE x \in 1..n : Cardinality({m \in 1..n : m < x}) = k - 1
  <2>2. c \in 1..n /\ Cardinality({m \in 1..n : m < c}) = k - 1
    <3>1. \E x \in 1..n : Cardinality({m \in 1..n : m < x}) = k - 1
      BY <1>2
    <3> QED  BY <3>1, Zenon
  <2> HIDE DEF c
  <2>3. Cardinality({m \in 1..n : m < c}) = c - 1
    BY <1>2, <2>2, Zenon
  <2>4. c = k
    <3>1. c \in Nat /\ k \in Nat /\ c - 1 = k - 1
      BY <2>2, <2>3
    <3> QED  BY <3>1
  <2> QED  BY <2>1, <2>4 DEF c
<1> QED  BY <1>1, <1>3 DEF Ascending

\* A function on the first few numbers is a list.
LEMMA ListByPlaces ==
    ASSUME NEW s, NEW n \in Nat, s = [i \in 1..n |-> s[i]]
    PROVE  IsList(s) /\ Len(s) = n /\ DOMAIN s = 1..n
<1>1. DOMAIN s = 1..n /\ \A i \in 1..n : s[i] \in ToSet(s)
  BY DEF ToSet
<1> HIDE DEF ToSet
<1>2. s \in Seq(ToSet(s)) /\ DOMAIN s = 1..n
  BY <1>1
<1>3. Len(s) = n
  BY <1>2
<1> QED  BY <1>2, <1>3 DEF IsList

\* One list after another.
LEMMA ListsJoined ==
    ASSUME NEW a, NEW b, IsList(a), IsList(b)
    PROVE  /\ IsList(a \o b) /\ DOMAIN (a \o b) = 1..(Len(a) + Len(b))
           /\ \A k \in DOMAIN a : (a \o b)[k] = a[k]
           /\ \A k \in DOMAIN b : (a \o b)[Len(a) + k] = b[k]
           /\ b = <<>> => a \o b = a
<1> DEFINE S == ToSet(a) \union ToSet(b)
<1>1. a \in Seq(ToSet(a)) /\ b \in Seq(ToSet(b))
  BY DEF IsList
<1> HIDE DEF ToSet
<1>2. a \in Seq(S) /\ b \in Seq(S)
  BY <1>1
<1> HIDE DEF S
<1>3. a \o b \in Seq(S) /\ Len(a \o b) = Len(a) + Len(b)
  BY <1>2
<1>4. IsList(a \o b)
  BY <1>3, ListOfItsOwn
<1>5. /\ DOMAIN (a \o b) = 1..(Len(a) + Len(b))
      /\ \A k \in DOMAIN a : (a \o b)[k] = a[k]
      /\ \A k \in DOMAIN b : (a \o b)[Len(a) + k] = b[k]
  BY <1>2, <1>3
<1>6. b = <<>> => a \o b = a
  BY <1>2
<1> QED  BY <1>4, <1>5, <1>6

-----------------------------------------------------------------------------
(* Membership tables.                                                        *)

\* The id that a cell with one id says.
LEMMA IdSaid ==
    ASSUME NEW c
    PROVE  IdIn(Ids({c})) = c
<1>1. Cardinality({c}) = 1
  BY FS_Singleton
<1> QED  BY <1>1 DEF IdIn, Ids

\* The rows are of the children, one of each, and say what reconciliation writes.
SettledRows(kids, heads, rows) ==
    LET key == heads[1]
        of(i) == IdIn(rows[i][key])
    IN  /\ IsList(rows)
        /\ \A i \in DOMAIN rows :
              /\ of(i) \in kids
              /\ DOMAIN rows[i] = ToSet(heads) /\ rows[i] = [h \in ToSet(heads) |-> rows[i][h]]
              /\ rows[i][key] = Ids({of(i)})
              /\ \A h \in ToSet(heads) \ {key} : h \in Derived => rows[i][h] = Word(Title[of(i)])
        /\ \A i, j \in DOMAIN rows : of(i) = of(j) => i = j
        /\ \A c \in kids : \E i \in DOMAIN rows : of(i) = c

\* What reconciliation makes of a table is settled.
LEMMA NewRowsSettle ==
    ASSUME NEW p, NEW e, p.live \subseteq Id, NEW heads, IsList(heads), heads # <<>>,
           NEW rows, IsList(rows)
    PROVE  SettledRows(Children(p, e), heads, NewRows(p, e, heads, rows))
<1> DEFINE key   == heads[1]
           kids  == Children(p, e)
           keeps == Survivors(rows, key, kids)
           news  == {i \in DOMAIN IdOrder : /\ IdOrder[i] \in kids
                              /\ \A j \in DOMAIN rows : IdIn(rows[j][key]) # IdOrder[i]}
           kept  == Ascending(keeps)
           fresh == Ascending(news)
           cell(c, h, said) == IF h = key THEN Ids({c})
                               ELSE IF h \in Derived THEN Word(Title[c]) ELSE said
           row(old)  == [h \in ToSet(heads) |-> cell(IdIn(old[key]), h, old[h])]
           fresh1(c) == [h \in ToSet(heads) |-> cell(c, h, Goal)]
           a == [k \in DOMAIN kept |-> row(rows[kept[k]])]
           b == [k \in DOMAIN fresh |-> fresh1(IdOrder[fresh[k]])]
           of(r) == IdIn(r[key])
           \* What a single row is to be.
           fine(r, c) == /\ DOMAIN r = ToSet(heads) /\ r = [h \in ToSet(heads) |-> r[h]]
                         /\ r[key] = Ids({c})
                         /\ \A h \in ToSet(heads) \ {key} : h \in Derived => r[h] = Word(Title[c])
<1>1. NewRows(p, e, heads, rows) = a \o b
  BY DEF NewRows
<1>2. key \in ToSet(heads)
  <2>1. Len(heads) \in Nat /\ DOMAIN heads = 1..Len(heads) /\ Len(heads) # 0
    BY DEF IsList
  <2>2. 1 \in DOMAIN heads
    BY <2>1
  <2> QED  BY <2>2 DEF ToSet
<1>3. /\ DOMAIN rows = 1..Len(rows) /\ Len(rows) \in Nat
      /\ DOMAIN IdOrder = 1..Len(IdOrder) /\ Len(IdOrder) \in Nat
  <2>1. IdOrder \in Seq(Id)
    BY CheckAssumption
  <2> QED  BY <2>1, PlacesOfList
<1>4. keeps \in SUBSET (1..Len(rows)) /\ news \in SUBSET (1..Len(IdOrder))
  BY <1>3 DEF Survivors
<1>5. /\ keeps \in SUBSET Nat /\ IsFiniteSet(keeps)
      /\ news \in SUBSET Nat /\ IsFiniteSet(news)
  <2>1. IsFiniteSet(1..Len(rows)) /\ IsFiniteSet(1..Len(IdOrder))
    BY <1>3, FS_Interval
  <2>2. 1..Len(rows) \in SUBSET Nat /\ 1..Len(IdOrder) \in SUBSET Nat
    BY <1>3
  <2> HIDE DEF keeps, news
  <2>3. IsFiniteSet(keeps)
    BY <1>4, <2>1, FS_Subset, Zenon
  <2>4. IsFiniteSet(news)
    BY <1>4, <2>1, FS_Subset, Zenon
  <2> QED  BY <1>4, <2>2, <2>3, <2>4
<1>6. /\ Cardinality(keeps) \in Nat /\ DOMAIN kept = 1..Cardinality(keeps)
      /\ \A k \in DOMAIN kept : kept[k] \in keeps
      /\ \A j, k \in DOMAIN kept : kept[j] = kept[k] => j = k
      /\ \A x \in keeps : \E k \in DOMAIN kept : kept[k] = x
  <2> HIDE DEF keeps
  <2> QED  BY <1>5, AscendingGoesThrough
<1>7. /\ Cardinality(news) \in Nat /\ DOMAIN fresh = 1..Cardinality(news)
      /\ \A k \in DOMAIN fresh : fresh[k] \in news
      /\ \A j, k \in DOMAIN fresh : fresh[j] = fresh[k] => j = k
      /\ \A x \in news : \E k \in DOMAIN fresh : fresh[k] = x
  <2> HIDE DEF news
  <2> QED  BY <1>5, AscendingGoesThrough
<1>8. \A r : of(row(r)) = of(r) /\ fine(row(r), of(r))
  BY <1>2, IdSaid
<1>9. \A c : of(fresh1(c)) = c /\ fine(fresh1(c), c)
  BY <1>2, IdSaid
<1>10. /\ \A i \in keeps : i \in DOMAIN rows /\ of(rows[i]) \in kids
       /\ \A i, j \in keeps : of(rows[i]) = of(rows[j]) => i = j
       /\ \A i \in news : i \in DOMAIN IdOrder /\ IdOrder[i] \in kids
                            /\ \A j \in DOMAIN rows : of(rows[j]) # IdOrder[i]
  <2>1. \A i \in keeps : /\ i \in DOMAIN rows /\ of(rows[i]) \in kids
                         /\ \A j \in 1..(i - 1) : of(rows[j]) # of(rows[i])
    BY DEF Survivors
  <2>2. \A i, j \in keeps : of(rows[i]) = of(rows[j]) => i = j
    <3> HIDE DEF keeps, of
    <3> TAKE i, j \in keeps
    <3>1. i \in Nat /\ j \in Nat /\ i >= 1 /\ j >= 1
      BY <1>4, <1>3
    <3>2. i < j => i \in 1..(j - 1)
      BY <3>1
    <3>3. j < i => j \in 1..(i - 1)
      BY <3>1
    <3> QED  BY <2>1, <3>1, <3>2, <3>3
  <2>3. \A i \in news : i \in DOMAIN IdOrder /\ IdOrder[i] \in kids
                            /\ \A j \in DOMAIN rows : of(rows[j]) # IdOrder[i]
    OBVIOUS
  <2> QED  BY <2>1, <2>2, <2>3
<1>11. \A i, j \in news : IdOrder[i] = IdOrder[j] => i = j
  BY CheckAssumption
<1>12. \A c \in kids : \/ \E i \in keeps : of(rows[i]) = c
                       \/ \E i \in news : IdOrder[i] = c
  <2> TAKE c \in kids
  <2>1. CASE \E i \in DOMAIN rows : of(rows[i]) = c
    <3> DEFINE F == {i \in 1..Len(rows) : of(rows[i]) = c}
    <3>2. \E i \in F : \A j \in F : i <= j
      <4>1. F \in SUBSET Nat /\ F # {}
        BY <1>3, <2>1
      <4> HIDE DEF F
      <4> QED  BY <4>1, LeastOf
    <3>3. PICK i \in F : \A j \in F : i <= j
      BY <3>2
    <3>4. \A j \in 1..(i - 1) : of(rows[j]) # of(rows[i])
      <4> TAKE j \in 1..(i - 1)
      <4>1. j \in 1..Len(rows) /\ ~(i <= j)
        BY <1>3, <3>3
      <4> QED  BY <3>3, <4>1
    <3>5. i \in keeps
      BY <1>3, <3>3, <3>4 DEF Survivors
    <3> QED  BY <3>3, <3>5
  <2>2. CASE \A i \in DOMAIN rows : of(rows[i]) # c
    <3>1. c \in Id
      BY DEF Children
    <3>2. c \in ToSet(IdOrder)
      BY <3>1, CheckAssumption
    <3>3. PICK i \in DOMAIN IdOrder : IdOrder[i] = c
      BY <3>2 DEF ToSet
    <3> QED  BY <2>2, <3>3
  <2> QED  BY <2>1, <2>2
<1> HIDE DEF kept, fresh, keeps, news, row, fresh1, of, fine, kids, key
<1>13. IsList(a) /\ Len(a) = Cardinality(keeps) /\ DOMAIN a = 1..Cardinality(keeps)
  BY <1>6, ListByPlaces
<1>14. IsList(b) /\ Len(b) = Cardinality(news) /\ DOMAIN b = 1..Cardinality(news)
  BY <1>7, ListByPlaces
<1> DEFINE m == Cardinality(keeps)
           n == Cardinality(news)
           s == a \o b
<1>15. \A k \in 1..m : a[k] = row(rows[kept[k]])
  BY <1>6
<1>16. \A k \in 1..n : b[k] = fresh1(IdOrder[fresh[k]])
  BY <1>7
<1> HIDE DEF a, b
<1>17. /\ IsList(s) /\ DOMAIN s = 1..(m + n)
       /\ \A k \in 1..m : s[k] = a[k]
       /\ \A k \in 1..n : s[m + k] = b[k]
  BY <1>13, <1>14, ListsJoined
<1> HIDE DEF s, m, n
<1>18. /\ m \in Nat /\ n \in Nat
       /\ \A k \in 1..m : k \in DOMAIN s
       /\ \A k \in 1..n : m + k \in DOMAIN s
       /\ \A i \in DOMAIN s : i \in 1..m \/ \E k \in 1..n : i = m + k
  <2>1. m \in Nat /\ n \in Nat
    BY <1>6, <1>7 DEF m, n
  <2>2. \A i \in 1..(m + n) : i \in 1..m \/ (i - m \in 1..n /\ i = m + (i - m))
    BY <2>1
  <2> QED  BY <1>17, <2>1, <2>2
<1>19. \A k \in 1..m : /\ kept[k] \in keeps /\ of(s[k]) = of(rows[kept[k]])
                       /\ fine(s[k], of(s[k])) /\ of(s[k]) \in kids
  BY <1>6, <1>8, <1>10, <1>15, <1>17 DEF m
<1>20. \A k \in 1..n : /\ fresh[k] \in news /\ of(s[m + k]) = IdOrder[fresh[k]]
                       /\ fine(s[m + k], of(s[m + k])) /\ of(s[m + k]) \in kids
  BY <1>7, <1>9, <1>10, <1>16, <1>17 DEF n
<1>21. \A i \in DOMAIN s : fine(s[i], of(s[i])) /\ of(s[i]) \in kids
  BY <1>18, <1>19, <1>20
<1>22. \A i, j \in DOMAIN s : of(s[i]) = of(s[j]) => i = j
  <2>1. \A i, j \in 1..m : of(s[i]) = of(s[j]) => i = j
    BY <1>6, <1>10, <1>19 DEF m
  <2>2. \A i, j \in 1..n : of(s[m + i]) = of(s[m + j]) => i = j
    BY <1>7, <1>11, <1>20 DEF n
  <2>3. \A i \in 1..m : \A j \in 1..n : of(s[i]) # of(s[m + j])
    BY <1>10, <1>19, <1>20
  <2> QED  BY <1>18, <2>1, <2>2, <2>3
<1>23. \A c \in kids : \E i \in DOMAIN s : of(s[i]) = c
  <2>1. \A i \in keeps : \E k \in 1..m : kept[k] = i
    BY <1>6 DEF m
  <2>2. \A i \in news : \E k \in 1..n : fresh[k] = i
    BY <1>7 DEF n
  <2>3. \A i \in keeps : \E k \in DOMAIN s : of(s[k]) = of(rows[i])
    BY <1>18, <1>19, <2>1
  <2>4. \A i \in news : \E k \in DOMAIN s : of(s[k]) = IdOrder[i]
    BY <1>18, <1>20, <2>2
  <2> QED  BY <1>12, <2>3, <2>4
<1>24. SettledRows(kids, heads, s)
  BY <1>17, <1>21, <1>22, <1>23 DEF SettledRows, fine, of, key
<1> QED  BY <1>1, <1>24 DEF s, kids

\* A settled table stays as it is.
LEMMA SettledStay ==
    ASSUME NEW p, NEW e, NEW heads, NEW rows,
           SettledRows(Children(p, e), heads, rows)
    PROVE  NewRows(p, e, heads, rows) = rows
<1> DEFINE key   == heads[1]
           kids  == Children(p, e)
           keeps == Survivors(rows, key, kids)
           news  == {i \in DOMAIN IdOrder : /\ IdOrder[i] \in kids
                              /\ \A j \in DOMAIN rows : IdIn(rows[j][key]) # IdOrder[i]}
           kept  == Ascending(keeps)
           fresh == Ascending(news)
           cell(c, h, said) == IF h = key THEN Ids({c})
                               ELSE IF h \in Derived THEN Word(Title[c]) ELSE said
           row(old)  == [h \in ToSet(heads) |-> cell(IdIn(old[key]), h, old[h])]
           fresh1(c) == [h \in ToSet(heads) |-> cell(c, h, Goal)]
           a == [k \in DOMAIN kept |-> row(rows[kept[k]])]
           b == [k \in DOMAIN fresh |-> fresh1(IdOrder[fresh[k]])]
<1>1. NewRows(p, e, heads, rows) = a \o b
  BY DEF NewRows
<1>2. IsList(rows)
  BY DEF SettledRows
<1>3. /\ Len(rows) \in Nat /\ DOMAIN rows = 1..Len(rows)
      /\ rows = [i \in 1..Len(rows) |-> rows[i]]
  BY <1>2, PlacesOfList
<1>4. keeps = 1..Len(rows)
  <2>1. ASSUME NEW i \in 1..Len(rows), NEW j \in 1..(i - 1)
        PROVE  IdIn(rows[j][key]) # IdIn(rows[i][key])
    <3>1. j \in DOMAIN rows /\ i \in DOMAIN rows /\ i # j
      BY <1>3
    <3> QED  BY <3>1 DEF SettledRows
  <2>2. \A i \in DOMAIN rows : IdIn(rows[i][key]) \in kids
    BY DEF SettledRows
  <2> QED  BY <1>3, <2>1, <2>2 DEF Survivors
<1>5. news = {}
  BY DEF SettledRows
<1>6. DOMAIN kept = 1..Len(rows) /\ \A k \in 1..Len(rows) : kept[k] = k
  <2> HIDE DEF keeps
  <2> QED  BY <1>3, <1>4, AscendingPlaces
<1>7. DOMAIN fresh = {}
  <2> HIDE DEF news
  <2> QED  BY <1>5, FS_EmptySet DEF Ascending
<1>8. \A i \in DOMAIN rows : row(rows[i]) = rows[i]
  <2> TAKE i \in DOMAIN rows
  <2> DEFINE r == rows[i]
             c == IdIn(r[key])
  <2>1. /\ DOMAIN r = ToSet(heads) /\ r = [h \in ToSet(heads) |-> r[h]]
        /\ r[key] = Ids({c})
        /\ \A h \in ToSet(heads) \ {key} : h \in Derived => r[h] = Word(Title[c])
    BY DEF SettledRows
  <2> HIDE DEF r
  <2>2. \A h \in ToSet(heads) : cell(c, h, r[h]) = r[h]
    BY <2>1
  <2> HIDE DEF c, cell
  <2>3. [h \in ToSet(heads) |-> cell(c, h, r[h])] = [h \in ToSet(heads) |-> r[h]]
    BY <2>2
  <2>4. [h \in ToSet(heads) |-> cell(c, h, r[h])] = r
    BY <2>1, <2>3
  <2> QED  BY <2>4 DEF r, c, cell
<1> HIDE DEF kept, fresh, row, fresh1
<1>9. a = [k \in 1..Len(rows) |-> rows[k]]
  BY <1>3, <1>6, <1>8
<1>10. b = <<>>
  BY <1>7
<1> HIDE DEF a, b
<1>11. a = rows
  BY <1>3, <1>9
<1>12. IsList(b)
  <2>1. <<>> \in Seq({})
    OBVIOUS
  <2>2. IsList(<<>>)
    BY <2>1, ListOfItsOwn
  <2> QED  BY <1>10, <2>2
<1>13. a \o b = a
  BY <1>2, <1>10, <1>11, <1>12, ListsJoined
<1> QED  BY <1>1, <1>11, <1>13

-----------------------------------------------------------------------------
(* Bodies.                                                                   *)

\* The first place of a name that is there.
LEMMA FirstPlace ==
    ASSUME NEW body, IsList(body), NEW x, Present(body, x)
    PROVE  Min(Places(body, x)) \in Places(body, x)
<1>1. Places(body, x) \in SUBSET Nat /\ Places(body, x) # {}
  BY PlacesOfList DEF Places, Present
<1>2. \E n \in Places(body, x) : \A m \in Places(body, x) : n <= m
  BY <1>1, LeastOf
<1> QED  BY <1>2 DEF Min

\* What one section says may change, and nothing else does.
LEMMA OneSection ==
    ASSUME NEW body, IsBody(body), NEW x, Present(body, x), NEW said,
           Holds(said) => IsList(said.heads) /\ said.heads # <<>> /\ IsList(said.rows)
    PROVE  /\ IsBody(WithSaid(body, x, said))
           /\ \A y : Present(WithSaid(body, x, said), y) = Present(body, y)
           /\ First(WithSaid(body, x, said), x) = said
           /\ WithSaid(WithSaid(body, x, said), x, said) = WithSaid(body, x, said)
<1> DEFINE i == Min(Places(body, x))
           new == WithSaid(body, x, said)
<1>1. i \in DOMAIN body /\ body[i].name = x
  BY FirstPlace DEF IsBody, Places
<1>2. /\ Len(body) \in Nat /\ DOMAIN body = 1..Len(body)
      /\ body = [j \in 1..Len(body) |-> body[j]]
  BY PlacesOfList DEF IsBody
<1>3. \A j \in DOMAIN body : body[j] = Section(body[j].name, body[j].said)
  BY DEF IsBody
<1>4. new = [j \in DOMAIN body |-> IF j = i THEN [body[j] EXCEPT !.said = said] ELSE body[j]]
  BY <1>2 DEF WithSaid
<1> HIDE DEF new, i
<1>5. DOMAIN new = DOMAIN body /\ \A j \in DOMAIN new : new[j].name = body[j].name
  BY <1>3, <1>4 DEF Section
<1>6. new[i] = Section(x, said) /\ new[i].said = said
  BY <1>1, <1>3, <1>4 DEF Section
<1>7. \A j \in DOMAIN body \ {i} : new[j] = body[j]
  BY <1>4
<1>8. IsList(new)
  <2>1. new = [j \in 1..Len(body) |-> new[j]]
    BY <1>2, <1>4
  <2> QED  BY <1>2, <2>1, ListByPlaces
<1>9. \A y : Places(new, y) = Places(body, y)
  BY <1>5 DEF Places
<1>10. IsBody(new)
  <2>1. ASSUME NEW j \in DOMAIN new
        PROVE  /\ new[j] = Section(new[j].name, new[j].said)
               /\ Holds(new[j].said) => /\ IsList(new[j].said.heads) /\ new[j].said.heads # <<>>
                                        /\ IsList(new[j].said.rows)
    <3>1. CASE j = i
      BY <1>6, <3>1 DEF Section
    <3>2. CASE j # i
      BY <1>5, <1>7, <3>2 DEF IsBody
    <3> QED  BY <3>1, <3>2
  <2> QED  BY <1>8, <2>1 DEF IsBody
<1>11. First(new, x) = said
  BY <1>6, <1>9 DEF First, i
<1>12. WithSaid(new, x, said) = new
  <2>1. WithSaid(new, x, said)
          = [j \in DOMAIN new |-> IF j = i THEN [new[j] EXCEPT !.said = said] ELSE new[j]]
    <3>1. new = [j \in 1..Len(body) |-> new[j]]
      BY <1>2, <1>4
    <3> QED  BY <1>9, <3>1, <1>2, <1>5 DEF WithSaid, i
  <2>2. [new[i] EXCEPT !.said = said] = new[i]
    BY <1>6 DEF Section
  <2>3. \A j \in DOMAIN new : (IF j = i THEN [new[j] EXCEPT !.said = said] ELSE new[j]) = new[j]
    BY <2>2
  <2>4. new = [j \in DOMAIN new |-> new[j]]
    BY <1>4, <1>5
  <2>5. WithSaid(new, x, said) = [j \in DOMAIN new |-> new[j]]
    BY <2>1, <2>3
  <2> QED  BY <2>4, <2>5
<1> QED  BY <1>9, <1>10, <1>11, <1>12 DEF new, Present

\* A type that lists its children has columns to list them in.
LEMMA CanvasHasHeads ==
    ASSUME NEW k \in Kind, ChildKind[k] # None
    PROVE  LET heads == Heads(CHOOSE d \in ToSet(Sections(k)) : d.name = Members[k])
           IN  IsList(heads) /\ heads # <<>>
<1> DEFINE s == Sections(k)
           c == CHOOSE d \in ToSet(s) : d.name = Members[k]
<1>1. /\ \A i \in DOMAIN s : IsList(s[i].columns)
      /\ \A i, j \in DOMAIN s : i # j => s[i].name # s[j].name
  BY CheckAssumption DEF Sections
<1>2. PICK d \in ToSet(s) : d.name = Members[k] /\ d.columns # <<>>
  BY CheckAssumption DEF Sections
<1>3. c \in ToSet(s) /\ c.name = Members[k]
  BY <1>2
<1>4. c = d
  BY <1>1, <1>2, <1>3 DEF ToSet
<1>5. IsList(c.columns) /\ c.columns # <<>>
  BY <1>1, <1>2, <1>4 DEF ToSet
<1> HIDE DEF c
<1>6. Len(c.columns) \in Nat /\ DOMAIN c.columns = 1..Len(c.columns) /\ Len(c.columns) # 0
  BY <1>5 DEF IsList
<1>7. Heads(c) = [i \in 1..Len(c.columns) |-> Heads(c)[i]]
  BY <1>6 DEF Heads
<1>8. IsList(Heads(c)) /\ Len(Heads(c)) = Len(c.columns)
  BY <1>6, <1>7, ListByPlaces
<1>9. Heads(c) # <<>>
  BY <1>6, <1>8
<1> QED  BY <1>8, <1>9 DEF c

\* The membership table of a body, if it has one that is read, lists the children.
IsSettled(p, e, body) ==
    LET m == Members[KindOf[e]]
        said == First(body, m)
    IN  \/ ChildKind[KindOf[e]] = None \/ ~Present(body, m) \/ said.kind = "broken"
        \/ /\ Holds(said) /\ IsList(said.heads) /\ said.heads # <<>>
           /\ SettledRows(Children(p, e), said.heads, said.rows)

\* Reconciliation settles a body.
LEMMA ReconciliationSettles ==
    ASSUME NEW p, p.live \subseteq Id, NEW e \in Id, IsBody(p.body[e])
    PROVE  IsBody(Reconciled(p, e)) /\ IsSettled(p, e, Reconciled(p, e))
<1> DEFINE k == KindOf[e]
           m == Members[k]
           body == p.body[e]
           said == First(body, m)
           canvasHeads == Heads(CHOOSE d \in ToSet(Sections(k)) : d.name = m)
           heads == IF Holds(said) THEN said.heads ELSE canvasHeads
           rows  == IF Holds(said) THEN said.rows ELSE <<>>
           new   == NewRows(p, e, heads, rows)
           left  == ChildKind[k] = None \/ ~Present(body, m) \/ said.kind = "broken"
<1>1. Reconciled(p, e) = IF left \/ (Holds(said) /\ new = rows) THEN body
                         ELSE WithSaid(body, m, Table(heads, new))
  BY DEF Reconciled
<1>2. CASE left
  BY <1>1, <1>2 DEF IsSettled
<1>3. CASE ~left
  <2>1. ChildKind[k] # None /\ Present(body, m) /\ k \in Kind
    BY <1>3, CanvasAssumption
  <2>2. Min(Places(body, m)) \in DOMAIN body
    BY <2>1, FirstPlace DEF IsBody, Places
  <2>3. Holds(said) => IsList(said.heads) /\ said.heads # <<>> /\ IsList(said.rows)
    BY <2>2 DEF IsBody, First
  <2>4. IsList(canvasHeads) /\ canvasHeads # <<>>
    BY <2>1, CanvasHasHeads
  <2>5. IsList(<<>>)
    <3>1. <<>> \in Seq({})
      OBVIOUS
    <3> QED  BY <3>1, ListOfItsOwn
  <2> HIDE DEF canvasHeads, said
  <2>6. IsList(heads) /\ heads # <<>> /\ IsList(rows)
    BY <2>3, <2>4, <2>5
  <2> HIDE DEF heads, rows
  <2>7. SettledRows(Children(p, e), heads, new)
    BY <2>6, NewRowsSettle
  <2>8. CASE Holds(said) /\ new = rows
    <3>1. heads = said.heads /\ rows = said.rows
      BY <2>8 DEF heads, rows
    <3>2. Reconciled(p, e) = body
      BY <1>1, <2>8
    <3>3. SettledRows(Children(p, e), said.heads, said.rows)
      BY <2>7, <2>8, <3>1
    <3> QED  BY <2>6, <2>8, <3>1, <3>2, <3>3 DEF IsSettled, said
  <2>9. CASE ~(Holds(said) /\ new = rows)
    <3> DEFINE t == Table(heads, new)
               after == WithSaid(body, m, t)
    <3>1. Reconciled(p, e) = after
      BY <1>1, <1>3, <2>9
    <3>2. Holds(t) /\ t.heads = heads /\ t.rows = new
      BY DEF Table, Holds
    <3>3. IsList(new)
      BY <2>7 DEF SettledRows
    <3> HIDE DEF t, new
    <3>4. IsBody(after) /\ Present(after, m) /\ First(after, m) = t
      BY <2>1, <2>6, <3>2, <3>3, OneSection
    <3> QED  BY <2>6, <2>7, <3>1, <3>2, <3>4 DEF IsSettled
  <2> QED  BY <2>8, <2>9
<1> QED  BY <1>2, <1>3

\* A body that is settled is left alone.
LEMMA SettledIsLeftAlone ==
    ASSUME NEW p, NEW e, IsSettled(p, e, p.body[e])
    PROVE  Reconciled(p, e) = p.body[e]
<1> DEFINE m == Members[KindOf[e]]
           said == First(p.body[e], m)
<1>1. CASE ChildKind[KindOf[e]] = None \/ ~Present(p.body[e], m) \/ said.kind = "broken"
  BY <1>1 DEF Reconciled
<1>2. CASE Holds(said) /\ SettledRows(Children(p, e), said.heads, said.rows)
  <2>1. NewRows(p, e, said.heads, said.rows) = said.rows
    BY <1>2, SettledStay
  <2> QED  BY <1>2, <2>1 DEF Reconciled
<1> QED  BY <1>1, <1>2 DEF IsSettled

\* What tables are to say depends on who is there and under which parent.
LEMMA SettledByParents ==
    ASSUME NEW p, NEW q, q.live = p.live, q.parent = p.parent, NEW e, NEW body
    PROVE  IsSettled(q, e, body) = IsSettled(p, e, body)
<1>1. Children(q, e) = Children(p, e)
  BY DEF Children
<1> QED  BY <1>1 DEF IsSettled

-----------------------------------------------------------------------------
(* Projects.                                                                 *)

\* A project whose parts are of their kinds, when some of the parts are new.
LEMMA PartsOfProject ==
    ASSUME NEW p, IsProject(p), NEW live \in SUBSET Id, NEW parent \in [Id -> Id \union {None}],
           NEW body, body = [e \in Id |-> body[e]], \A e \in Id : IsBody(body[e]),
           NEW version \in [Id -> Nat], NEW status, status = [e \in Id |-> status[e]]
    PROVE  IsProject([p EXCEPT !.live = live, !.parent = parent, !.body = body,
                               !.version = version, !.status = status])
<1> DEFINE q == [p EXCEPT !.live = live, !.parent = parent, !.body = body,
                          !.version = version, !.status = status]
<1>1. p = [live |-> p.live, parent |-> p.parent, body |-> p.body, version |-> p.version,
           status |-> p.status, broken |-> p.broken, mapped |-> p.mapped,
           adrift |-> p.adrift, files |-> p.files]
  BY DEF IsProject
<1>2. q = [live |-> live, parent |-> parent, body |-> body, version |-> version,
           status |-> status, broken |-> p.broken, mapped |-> p.mapped,
           adrift |-> p.adrift, files |-> p.files]
  <2>1. PICK a1, a2, a3, a4, a5, a6, a7, a8, a9 :
           p = [live |-> a1, parent |-> a2, body |-> a3, version |-> a4, status |-> a5,
                broken |-> a6, mapped |-> a7, adrift |-> a8, files |-> a9]
    BY <1>1
  <2> DEFINE q1 == [p EXCEPT !.live = live]
             q2 == [q1 EXCEPT !.parent = parent]
             q3 == [q2 EXCEPT !.body = body]
             q4 == [q3 EXCEPT !.version = version]
  <2>2. q1 = [live |-> live, parent |-> a2, body |-> a3, version |-> a4, status |-> a5,
              broken |-> a6, mapped |-> a7, adrift |-> a8, files |-> a9]
    BY <2>1
  <2> HIDE DEF q1
  <2>3. q2 = [live |-> live, parent |-> parent, body |-> a3, version |-> a4, status |-> a5,
              broken |-> a6, mapped |-> a7, adrift |-> a8, files |-> a9]
    BY <2>2
  <2> HIDE DEF q2
  <2>4. q3 = [live |-> live, parent |-> parent, body |-> body, version |-> a4, status |-> a5,
              broken |-> a6, mapped |-> a7, adrift |-> a8, files |-> a9]
    BY <2>3
  <2> HIDE DEF q3
  <2>5. q4 = [live |-> live, parent |-> parent, body |-> body, version |-> version, status |-> a5,
              broken |-> a6, mapped |-> a7, adrift |-> a8, files |-> a9]
    BY <2>4
  <2> HIDE DEF q4
  <2>6. [q4 EXCEPT !.status = status]
          = [live |-> live, parent |-> parent, body |-> body, version |-> version,
             status |-> status, broken |-> a6, mapped |-> a7, adrift |-> a8, files |-> a9]
    BY <2>5
  <2>7. p.broken = a6 /\ p.mapped = a7 /\ p.adrift = a8 /\ p.files = a9
    BY <2>1
  <2> QED  BY <2>6, <2>7 DEF q1, q2, q3, q4
<1> HIDE DEF q
<1>3. /\ q.live = live /\ q.parent = parent /\ q.body = body /\ q.version = version
      /\ q.status = status /\ q.broken = p.broken /\ q.mapped = p.mapped
      /\ q.adrift = p.adrift /\ q.files = p.files
  BY <1>2
<1>4. IsProject(q)
  BY <1>2, <1>3 DEF IsProject
<1> QED  BY <1>4 DEF q

\* Healing changes bodies and versions.
LEMMA HealedProject ==
    ASSUME NEW p, IsProject(p), NEW S
    PROVE  /\ IsProject(Healed(p, S))
           /\ Healed(p, S).live = p.live /\ Healed(p, S).parent = p.parent
           /\ Healed(p, S).status = p.status
           /\ \A e \in Id : Healed(p, S).body[e] = IF e \in S THEN Reconciled(p, e) ELSE p.body[e]
           /\ \A q : q = Healed(p, S) => \A e \in S : Reconciled(q, e) = q.body[e] \/ e \notin Id
<1> DEFINE body == [e \in Id |-> IF e \in S THEN Reconciled(p, e) ELSE p.body[e]]
           version == [e \in Id |-> IF body[e] # p.body[e] THEN p.version[e] + 1 ELSE p.version[e]]
           q == [p EXCEPT !.body = body, !.version = version]
<1>1. Healed(p, S) = q
  BY DEF Healed
<1>2. p.live \in SUBSET Id /\ \A e \in Id : IsBody(p.body[e])
  BY DEF IsProject
<1>3. \A e \in Id : IsBody(body[e])
  BY <1>2, ReconciliationSettles
<1>4. version \in [Id -> Nat]
  BY DEF IsProject
<1>5. q = [p EXCEPT !.live = p.live, !.parent = p.parent, !.body = body, !.version = version,
                    !.status = p.status]
  <2> HIDE DEF body, version
  <2> QED  BY DEF IsProject
<1>6. body = [e \in Id |-> body[e]]
  OBVIOUS
<1>7. IsProject(q)
  <2>1. p.parent \in [Id -> Id \union {None}] /\ p.status = [e \in Id |-> p.status[e]]
    BY DEF IsProject
  <2> HIDE DEF body, version, q
  <2> QED  BY <1>2, <1>3, <1>4, <1>5, <1>6, <2>1, PartsOfProject
<1>8. q.live = p.live /\ q.parent = p.parent /\ q.status = p.status /\ q.body = body
  <2> HIDE DEF body, version
  <2> QED  BY DEF IsProject
<1>9. \A e \in Id : q.body[e] = IF e \in S THEN Reconciled(p, e) ELSE p.body[e]
  BY <1>8
<1> HIDE DEF q, body
<1>10. ASSUME NEW e \in S, e \in Id
       PROVE  Reconciled(q, e) = q.body[e]
  <2>1. IsSettled(p, e, Reconciled(p, e))
    BY <1>2, <1>10, ReconciliationSettles
  <2>2. IsSettled(q, e, q.body[e])
    BY <1>8, <1>9, <1>10, <2>1, SettledByParents
  <2> QED  BY <2>2, SettledIsLeftAlone
<1> QED  BY <1>1, <1>7, <1>8, <1>9, <1>10

\* Where nothing needs to be reconciled, healing changes nothing, and only there.
LEMMA NothingToHeal ==
    ASSUME NEW p, IsProject(p), NEW S
    PROVE  Healed(p, S) = p <=> \A e \in Id \intersect S : Reconciled(p, e) = p.body[e]
<1>1. ASSUME \A e \in Id \intersect S : Reconciled(p, e) = p.body[e]
      PROVE  Healed(p, S) = p
  <2> DEFINE body == [e \in Id |-> IF e \in S THEN Reconciled(p, e) ELSE p.body[e]]
             version == [e \in Id |->
                           IF body[e] # p.body[e] THEN p.version[e] + 1 ELSE p.version[e]]
  <2>1. body = p.body
    <3>1. body = [e \in Id |-> p.body[e]]
      BY <1>1
    <3> QED  BY <3>1 DEF IsProject
  <2>2. version = p.version
    <3>1. version = [e \in Id |-> p.version[e]]
      BY <2>1
    <3> QED  BY <3>1 DEF IsProject
  <2>3. Healed(p, S) = [p EXCEPT !.body = body, !.version = version]
    BY DEF Healed
  <2> HIDE DEF body, version
  <2> QED  BY <2>1, <2>2, <2>3 DEF IsProject
<1>2. ASSUME Healed(p, S) = p
      PROVE  \A e \in Id \intersect S : Reconciled(p, e) = p.body[e]
  BY <1>2, HealedProject
<1> QED  BY <1>1, <1>2

\* In tables that are settled no parent is disconnected from its children, if the column
\* of the ids comes first.
LEMMA SettledIsConnected ==
    ASSUME NEW p, IsProject(p), Healed(p, p.live) = p
    PROVE  \A i \in LayerIssues(p) : ~KeyComesFirst(p, i.about)
<1> SUFFICES ASSUME NEW e \in p.live, KeepsTable(p, e), KeyComesFirst(p, e)
             PROVE  Listed(p, e) = Children(p, e)
  BY DEF LayerIssues, Issue
<1>1. e \in Id /\ IsBody(p.body[e]) /\ p.live \subseteq Id
  BY DEF IsProject
<1> DEFINE m == Members[KindOf[e]]
           said == First(p.body[e], m)
<1>2. IsSettled(p, e, p.body[e])
  BY <1>1, NothingToHeal, ReconciliationSettles
<1>3. /\ ChildKind[KindOf[e]] # None /\ Present(p.body[e], m)
      /\ said.kind = "table" /\ said.heads[1] = Key
  BY DEF KeepsTable, KeyComesFirst, Parses
<1>4. SettledRows(Children(p, e), said.heads, said.rows) /\ IsList(said.heads) /\ said.heads # <<>>
  BY <1>2, <1>3 DEF IsSettled
<1>5. Listed(p, e) = {IF Key \in DOMAIN r THEN IdIn(r[Key]) ELSE None : r \in ToSet(said.rows)}
  BY DEF Listed
<1> HIDE DEF said
<1>6. Key \in ToSet(said.heads)
  <2>1. Len(said.heads) \in Nat /\ DOMAIN said.heads = 1..Len(said.heads) /\ Len(said.heads) # 0
    BY <1>4 DEF IsList
  <2>2. 1 \in DOMAIN said.heads
    BY <2>1
  <2> QED  BY <1>3, <2>2 DEF ToSet
<1>7. Listed(p, e) = {IdIn(said.rows[i][Key]) : i \in DOMAIN said.rows}
  <2>1. ToSet(said.rows) = {said.rows[i] : i \in DOMAIN said.rows}
    BY DEF ToSet
  <2>2. \A i \in DOMAIN said.rows : Key \in DOMAIN said.rows[i]
    BY <1>4, <1>6 DEF SettledRows
  <2> DEFINE id(r) == IF Key \in DOMAIN r THEN IdIn(r[Key]) ELSE None
  <2>3. \A i \in DOMAIN said.rows : id(said.rows[i]) = IdIn(said.rows[i][Key])
    BY <2>2
  <2>4. Listed(p, e) = {id(said.rows[i]) : i \in DOMAIN said.rows}
    BY <1>5, <2>1
  <2> HIDE DEF id
  <2>5. \A x : x \in {id(said.rows[i]) : i \in DOMAIN said.rows}
                <=> x \in {IdIn(said.rows[i][Key]) : i \in DOMAIN said.rows}
    BY <2>3
  <2> QED  BY <2>4, <2>5
<1>8. /\ \A i \in DOMAIN said.rows : IdIn(said.rows[i][Key]) \in Children(p, e)
      /\ \A c \in Children(p, e) : \E i \in DOMAIN said.rows : IdIn(said.rows[i][Key]) = c
  BY <1>3, <1>4 DEF SettledRows
<1> QED  BY <1>7, <1>8

\* Any edit leaves a project.
LEMMA EditsKeepProjects ==
    ASSUME IsProject(project), Edits
    PROVE  IsProject(project') /\ report' = NoReport
<1> DEFINE p == project
<1>1. /\ p.live \in SUBSET Id /\ p.parent \in [Id -> Id \union {None}]
      /\ p.body = [e \in Id |-> p.body[e]] /\ \A e \in Id : IsBody(p.body[e])
      /\ p.version \in [Id -> Nat] /\ p.status = [e \in Id |-> p.status[e]]
  BY DEF IsProject
<1>2. \A k \in Kind : \A body \in Drafts[k] : IsBody(body)
  BY CheckAssumption
<1>3. \A e \in Id : KindOf[e] \in Kind
  BY CanvasAssumption
<1>4. \A q : Edit(q) => project' = q /\ report' = NoReport
  BY DEF Edit
<1>5. ASSUME NEW e \in Id, NEW pa \in Id \union {None}, NEW body \in Drafts[KindOf[e]],
             Add(e, pa, body)
      PROVE  IsProject(project') /\ report' = NoReport
  <2> DEFINE live == p.live \union {e}
             parent == [p.parent EXCEPT ![e] = pa]
             bodies == [p.body EXCEPT ![e] = body]
             version == [p.version EXCEPT ![e] = 1]
             status == [p.status EXCEPT ![e] = "active"]
             q == [p EXCEPT !.live = live, !.parent = parent, !.body = bodies,
                            !.version = version, !.status = status]
  <2>1. live \in SUBSET Id /\ parent \in [Id -> Id \union {None}] /\ version \in [Id -> Nat]
    BY <1>1
  <2>7. status = [f \in Id |-> status[f]]
    BY <1>1
  <2>2. bodies = [f \in Id |-> IF f = e THEN body ELSE p.body[f]]
    BY <1>1
  <2>3. bodies = [f \in Id |-> bodies[f]] /\ \A f \in Id : IsBody(bodies[f])
    BY <1>1, <1>2, <1>3, <2>2
  <2>4. IsProject(q)
    <3> HIDE DEF live, parent, bodies, version, status
    <3> QED  BY <2>1, <2>3, <2>7, PartsOfProject, Zenon
  <2>5. Edit(Healed(q, {pa}))
    BY <1>5, Zenon DEF Add
  <2> HIDE DEF q
  <2> QED  BY <1>4, <2>4, <2>5, HealedProject
<1>6. ASSUME NEW e \in Id, NEW body, IsBody(body), Rewrite(e, body)
      PROVE  IsProject(project') /\ report' = NoReport
  <2> DEFINE bodies == [p.body EXCEPT ![e] = body]
             version == [p.version EXCEPT ![e] = @ + 1]
             q == [p EXCEPT !.body = bodies, !.version = version]
  <2>1. version \in [Id -> Nat]
    BY <1>1
  <2>2. bodies = [f \in Id |-> IF f = e THEN body ELSE p.body[f]]
    BY <1>1
  <2>3. bodies = [f \in Id |-> bodies[f]] /\ \A f \in Id : IsBody(bodies[f])
    BY <1>1, <1>6, <2>2
  <2>4. IsProject(q)
    <3> HIDE DEF bodies, version, q
    <3>1. q = [p EXCEPT !.live = p.live, !.parent = p.parent, !.body = bodies,
                        !.version = version, !.status = p.status]
      BY DEF IsProject, q
    <3> QED  BY <1>1, <2>1, <2>3, <3>1, PartsOfProject, Zenon
  <2>5. Edit(q)
    BY <1>6, Zenon DEF Rewrite
  <2> HIDE DEF q
  <2> QED  BY <1>4, <2>4, <2>5
<1>7. ASSUME NEW e \in Id, NEW pa \in Id \union {None}, NEW body, IsBody(body),
             HandEdit(e, pa, body)
      PROVE  IsProject(project') /\ report' = NoReport
  <2> DEFINE parent == [p.parent EXCEPT ![e] = pa]
             bodies == [p.body EXCEPT ![e] = body]
             version == [f \in Id |-> IF f \in p.live THEN 1 ELSE 0]
             q == [p EXCEPT !.parent = parent, !.body = bodies, !.version = version]
  <2>1. version \in [Id -> Nat] /\ parent \in [Id -> Id \union {None}]
    BY <1>1
  <2>2. bodies = [f \in Id |-> IF f = e THEN body ELSE p.body[f]]
    BY <1>1
  <2>3. bodies = [f \in Id |-> bodies[f]] /\ \A f \in Id : IsBody(bodies[f])
    BY <1>1, <1>7, <2>2
  <2>4. IsProject(q)
    <3> HIDE DEF parent, bodies, version, q
    <3>1. q = [p EXCEPT !.live = p.live, !.parent = parent, !.body = bodies,
                        !.version = version, !.status = p.status]
      BY DEF IsProject, q
    <3> QED  BY <1>1, <2>1, <2>3, <3>1, PartsOfProject, Zenon
  <2>5. Edit(q)
    BY <1>7, Zenon DEF HandEdit
  <2> HIDE DEF q
  <2> QED  BY <1>4, <2>4, <2>5
<1>8. ASSUME NEW e \in Id, NEW body \in Drafts[KindOf[e]], NEW i \in DOMAIN body,
             WriteSection(e, body[i].name, body[i].said)
      PROVE  IsProject(project') /\ report' = NoReport
  <2>1. IsBody(body)
    BY <1>2, <1>3
  <2>2. IsBody(WithSaid(p.body[e], body[i].name, body[i].said))
    <3>1. Present(p.body[e], body[i].name)
      BY <1>8 DEF WriteSection
    <3>2. Holds(body[i].said) => /\ IsList(body[i].said.heads) /\ body[i].said.heads # <<>>
                                 /\ IsList(body[i].said.rows)
      BY <2>1 DEF IsBody
    <3> QED  BY <1>1, <3>1, <3>2, OneSection
  <2> QED  BY <1>6, <1>8, <2>2 DEF WriteSection
<1>9. ASSUME NEW e \in Id, AcceptDocument(e)
      PROVE  IsProject(project') /\ report' = NoReport
  <2> DEFINE status == [p.status EXCEPT ![e] = "accepted"]
             q == [p EXCEPT !.status = status]
  <2>1. status = [f \in Id |-> status[f]]
    BY <1>1
  <2>2. IsProject(q)
    <3> HIDE DEF status
    <3> QED  BY <1>1, <2>1 DEF IsProject
  <2>3. Edit(q)
    BY <1>9, Zenon DEF AcceptDocument
  <2> HIDE DEF q
  <2> QED  BY <1>4, <2>2, <2>3
<1>10. \A e \in Id : p.parent[e] \in Id \union {None} /\ p.live \subseteq Id
  BY <1>1
<1>11. CASE \E e \in Id : \E body \in Drafts[KindOf[e]] :
              \/ \E pa \in Id \union {None} : Add(e, pa, body)
              \/ Rewrite(e, body)
              \/ HandEdit(e, project.parent[e], body)
              \/ \E i \in DOMAIN body : WriteSection(e, body[i].name, body[i].said)
  <2>1. PICK e \in Id : \E body \in Drafts[KindOf[e]] :
              \/ \E pa \in Id \union {None} : Add(e, pa, body)
              \/ Rewrite(e, body)
              \/ HandEdit(e, project.parent[e], body)
              \/ \E i \in DOMAIN body : WriteSection(e, body[i].name, body[i].said)
    BY <1>11
  <2>2. PICK body \in Drafts[KindOf[e]] :
              \/ \E pa \in Id \union {None} : Add(e, pa, body)
              \/ Rewrite(e, body)
              \/ HandEdit(e, project.parent[e], body)
              \/ \E i \in DOMAIN body : WriteSection(e, body[i].name, body[i].said)
    BY <2>1
  <2>3. IsBody(body)
    BY <1>2, <1>3
  <2> QED  BY <1>5, <1>6, <1>7, <1>8, <1>10, <2>2, <2>3
<1>12. CASE \E e \in Id : AcceptDocument(e)
  BY <1>9, <1>12
<1>13. CASE \E e \in Id : \E pa \in project.live :
              ChildKind[KindOf[pa]] = KindOf[e] /\ HandEdit(e, pa, project.body[e])
  BY <1>1, <1>7, <1>13
<1> QED  BY <1>11, <1>12, <1>13 DEF Edits

-----------------------------------------------------------------------------
(* Checks.                                                                   *)

\* A check that repairs nothing tells what it finds, and changes nothing.
LEMMA PlainCheck ==
    ASSUME IsProject(project), NEW T, NEW R, RunCheck(T, R, FALSE)
    PROVE  /\ project' = project
           /\ report'.kind = "report" /\ report'.targets = T /\ report'.rules = R
           /\ report'.fix = FALSE
           /\ report'.issues \in {Issues(project, T), Issues(project, T \union Citers(project, R))}
           /\ report'.ok => /\ report'.issues = Issues(project, T \union Citers(project, R))
                            /\ ~HasErrors(report'.issues)
<1> DEFINE all    == T \union Citers(project, R)
           issues == {i \in Issues(project, all) : ~(i.about \in {}) \/ i = ReadyNote(i.about)
                                                      \/ i.what \in {"disconnect", "anchor"}}
           starts == /\ ~HasErrors(Issues(project, T)) /\ RulesResolve(project, R)
           ok     == starts /\ ~HasErrors(issues)
           q      == [project EXCEPT !.status = [e \in Id |-> IF e \in {} THEN "done" ELSE @[e]]]
<1>1. /\ report' = [kind |-> "report", targets |-> T, rules |-> R, fix |-> FALSE, ok |-> ok,
                    issues |-> IF starts THEN issues ELSE Issues(project, T)]
      /\ project' = IF ok THEN q ELSE project
  BY DEF RunCheck
<1>2. issues = Issues(project, all)
  OBVIOUS
<1>3. q = project
  BY DEF IsProject
<1> HIDE DEF issues, q
<1> QED  BY <1>1, <1>2, <1>3

\* What a repair makes of the project before it finishes what is ready, what it finds ready
\* then, and what it leaves.
Repaired == Healed(project, project.live)
ReadyThen(T, R) ==
    {e \in Inspected(Repaired, T \union Citers(Repaired, R)) : IsReady(Repaired, e)}
Left(T, R) ==
    [Repaired EXCEPT !.status =
        [e \in Id |-> IF e \in ReadyThen(T, R) THEN "done" ELSE Repaired.status[e]]]

\* A check that repairs heals what there is, if it succeeds.
LEMMA RepairingCheck ==
    ASSUME IsProject(project), NEW T, NEW R, RunCheck(T, R, TRUE)
    PROVE  /\ report'.kind = "report" /\ report'.targets = T /\ report'.rules = R
           /\ report'.fix = TRUE
           /\ report'.ok => project' = Left(T, R)
           /\ ~report'.ok => project' = project
           /\ (/\ ~HasErrors(Issues(project, T))
               /\ \A e \in project.live : ~Refuses(project, e)
               /\ RulesResolve(Repaired, R)
               /\ ~HasErrors(Issues(Repaired, T \union Citers(Repaired, R)))) => report'.ok
<1> DEFINE p      == Healed(project, project.live)
           ready  == {e \in Inspected(p, T \union Citers(p, R)) : IsReady(p, e)}
           all    == T \union Citers(p, R)
           issues == {i \in Issues(p, all) : ~(i.about \in ready) \/ i = ReadyNote(i.about)
                                                \/ i.what \in {"disconnect", "anchor"}}
           starts == /\ ~HasErrors(Issues(project, T))
                     /\ \A e \in project.live : ~Refuses(project, e)
                     /\ RulesResolve(p, R)
           ok     == starts /\ ~HasErrors(issues)
           q      == [p EXCEPT !.status =
                        [e \in Id |-> IF e \in ready THEN "done" ELSE p.status[e]]]
<1>1. /\ report' = [kind |-> "report", targets |-> T, rules |-> R, fix |-> TRUE, ok |-> ok,
                    issues |-> IF starts THEN issues ELSE Issues(project, T)]
      /\ project' = IF ok THEN q ELSE project
  BY DEF RunCheck
<1>2. issues \subseteq Issues(p, all)
  OBVIOUS
<1>3. ~HasErrors(Issues(p, all)) => ~HasErrors(issues)
  BY <1>2 DEF HasErrors
<1>4. /\ report'.kind = "report" /\ report'.targets = T /\ report'.rules = R /\ report'.fix = TRUE
      /\ report'.ok = ok
  <2> HIDE DEF ok, starts, issues, p
  <2> QED  BY <1>1
<1>5. ok \in BOOLEAN
  OBVIOUS
<1>6. starts /\ ~HasErrors(Issues(p, all)) => ok
  BY <1>3
<1>7. (report'.ok => project' = q) /\ (~report'.ok => project' = project)
  <2> HIDE DEF ok, q
  <2> QED  BY <1>1, <1>4, <1>5
<1>8. starts /\ ~HasErrors(Issues(p, all)) => report'.ok
  <2> HIDE DEF ok, starts
  <2> QED  BY <1>4, <1>6
<1>9. Repaired = p /\ Left(T, R) = q
  BY DEF Repaired, ReadyThen, Left
<1> QED  BY <1>4, <1>7, <1>8, <1>9

-----------------------------------------------------------------------------
(* The inductive invariant.                                                  *)

\* A report that repaired nothing and has no error is that of the project as it is.
ReportTells ==
    report.kind = "report" /\ ~report.fix /\ report.ok =>
        /\ report.issues = Issues(project, report.targets \union Citers(project, report.rules))
        /\ ~HasErrors(report.issues)

CheckInv == IsProject(project) /\ ReportTells /\ FocusedSaysTheSame /\ FixSettles

\* A repair that succeeds settles the tables.
LEMMA RepairSettles ==
    ASSUME IsProject(project), NEW T, NEW R, RunCheck(T, R, TRUE)
    PROVE  IsProject(project') /\ FixSettles'
<1> DEFINE p     == Healed(project, project.live)
           ready == {e \in Inspected(p, T \union Citers(p, R)) : IsReady(p, e)}
           status == [e \in Id |-> IF e \in ready THEN "done" ELSE p.status[e]]
           q     == [p EXCEPT !.status = status]
<1>1. /\ IsProject(p) /\ p.live = project.live /\ p.parent = project.parent
      /\ \A e \in p.live : Reconciled(p, e) = p.body[e] \/ e \notin Id
  BY HealedProject
<1>2. report'.ok => project' = q
  BY RepairingCheck DEF Repaired, ReadyThen, Left
<1>3. ~report'.ok => project' = project
  BY RepairingCheck
<1> HIDE DEF p, ready
<1>4. /\ IsProject(q) /\ q.live = p.live /\ q.parent = p.parent /\ q.body = p.body
  <2>1. status = [e \in Id |-> status[e]]
    OBVIOUS
  <2> HIDE DEF status
  <2> QED  BY <1>1, <2>1 DEF IsProject
<1> HIDE DEF q
<1>5. \A e \in Id \intersect q.live : Reconciled(q, e) = q.body[e]
  <2> TAKE e \in Id \intersect q.live
  <2>1. Reconciled(q, e) = Reconciled(p, e)
    <3>1. Children(q, e) = Children(p, e)
      BY <1>4 DEF Children
    <3>2. \A heads, rows : NewRows(q, e, heads, rows) = NewRows(p, e, heads, rows)
      BY <3>1 DEF NewRows
    <3> QED  BY <1>4, <3>2 DEF Reconciled
  <2> QED  BY <1>1, <1>4, <2>1
<1>6. Healed(q, q.live) = q
  BY <1>4, <1>5, NothingToHeal
<1>7. \A i \in LayerIssues(q) : ~KeyComesFirst(q, i.about)
  BY <1>4, <1>6, SettledIsConnected
<1>8. IsProject(project')
  BY <1>2, <1>3, <1>4
<1>9. FixSettles'
  <2>1. report'.ok => /\ \A i \in LayerIssues(project') : ~KeyComesFirst(project', i.about)
                      /\ Healed(project', project'.live) = project'
    BY <1>2, <1>6, <1>7
  <2> QED  BY <2>1 DEF FixSettles
<1> QED  BY <1>8, <1>9

\* No document cites none of the rules.
LEMMA NoRulesNoCiters ==
    ASSUME NEW p
    PROVE  Citers(p, {}) = {}
BY DEF Citers

\* What a check without repair tells is true of the project afterwards.
LEMMA PlainCheckTells ==
    ASSUME IsProject(project), NEW T, NEW R, RunCheck(T, R, FALSE)
    PROVE  ReportTells' /\ FocusedSaysTheSame' /\ FixSettles'
<1>1. /\ project' = project
      /\ report'.kind = "report" /\ report'.targets = T /\ report'.rules = R /\ report'.fix = FALSE
      /\ report'.issues \in {Issues(project, T), Issues(project, T \union Citers(project, R))}
      /\ report'.ok => /\ report'.issues = Issues(project, T \union Citers(project, R))
                       /\ ~HasErrors(report'.issues)
  BY PlainCheck
<1>2. ReportTells'
  BY <1>1 DEF ReportTells
<1>3. FixSettles'
  BY <1>1 DEF FixSettles
<1>4. FocusedSaysTheSame'
  <2> SUFFICES ASSUME R = {}
               PROVE  /\ \A i \in Issues(project, T) : Matches(T, i.about) \/ i.about = "canvas"
                      /\ \A e \in project.live : Matches(T, e) =>
                           \/ IsStrictChange(KindOf[e]) /\ project.status[e] \in Finished
                           \/ {i \in Issues(project, T) : i.about = e}
                                = {i \in Issues(project, {}) : i.about = e}
    <3>1. R = {} => report'.issues = Issues(project, T)
      <4>1. R = {} => T \union Citers(project, R) = T
        BY NoRulesNoCiters
      <4> QED  BY <1>1, <4>1
    <3> QED  BY <1>1, <3>1 DEF FocusedSaysTheSame
  <2>1. project.live \subseteq Id
    BY DEF IsProject
  <2> QED  BY <2>1, AboutTargets, SaysTheSame
<1> QED  BY <1>2, <1>3, <1>4

\* After an edit there is no report.
LEMMA NothingReported ==
    ASSUME report' = NoReport
    PROVE  ReportTells' /\ FocusedSaysTheSame' /\ FixSettles'
BY DEF NoReport, ReportTells, FocusedSaysTheSame, FixSettles

\* The invariant of checks and edits (CheckInv): projects stay projects, and a report that
\* repaired nothing and succeeded tells what is true of the project as it is.
THEOREM CheckInvariant == CheckSpec => []CheckInv
<1>1. CheckInit => CheckInv
  <2> SUFFICES ASSUME CheckInit PROVE CheckInv
    OBVIOUS
  <2>1. IsProject(project)
    BY CheckAssumption DEF CheckInit
  <2> QED  BY <2>1 DEF CheckInit, NoReport, CheckInv, ReportTells, FocusedSaysTheSame, FixSettles
<1>2. CheckInv /\ [CheckNext]_checkVars => CheckInv'
  <2> SUFFICES ASSUME CheckInv, [CheckNext]_checkVars PROVE CheckInv'
    OBVIOUS
  <2>1. IsProject(project)
    BY DEF CheckInv
  <2>2. CASE Edits
    BY <2>1, <2>2, EditsKeepProjects, NothingReported DEF CheckInv
  <2>3. ASSUME NEW a \in Asked, RunCheck(a.targets, a.rules, TRUE)
        PROVE  CheckInv'
    <3>1. IsProject(project') /\ FixSettles'
      BY <2>1, <2>3, RepairSettles
    <3>2. report'.fix = TRUE
      BY <2>1, <2>3, RepairingCheck
    <3> QED  BY <3>1, <3>2 DEF CheckInv, ReportTells, FocusedSaysTheSame
  <2>4. ASSUME NEW a \in Asked, RunCheck(a.targets, a.rules, FALSE)
        PROVE  CheckInv'
    <3>1. project' = project
      BY <2>1, <2>4, PlainCheck
    <3>2. ReportTells' /\ FocusedSaysTheSame' /\ FixSettles'
      BY <2>1, <2>4, PlainCheckTells
    <3> QED  BY <2>1, <3>1, <3>2 DEF CheckInv
  <2>5. CASE UNCHANGED checkVars
    BY <2>5 DEF checkVars, CheckInv, ReportTells, FocusedSaysTheSame, FixSettles
  <2> QED  BY <2>2, <2>3, <2>4, <2>5 DEF CheckNext
<1> QED  BY <1>1, <1>2, PTL DEF CheckSpec

\* FocusedSaysTheSame: a check of some documents neither hides what a check of everything
\* finds of them nor speaks of others (checkTargetMatcher, filterIssuesByTargets).
THEOREM FocusedChecksAgree == CheckSpec => []FocusedSaysTheSame
<1>1. CheckInv => FocusedSaysTheSame
  BY DEF CheckInv
<1> QED  BY CheckInvariant, <1>1, PTL

\* FixSettles: after a check --fix that succeeded, no table that keeps the ids in its first
\* column disagrees with the parents, and another one would change nothing
\* (healMembership, checkLayerDisconnectsStore).
THEOREM RepairIsComplete == CheckSpec => []FixSettles
<1>1. CheckInv => FixSettles
  BY DEF CheckInv
<1> QED  BY CheckInvariant, <1>1, PTL

\* Which issues are errors, and what those say that are found by looking at the project.
LEMMA WhichAreErrors ==
    ASSUME NEW p, NEW T
    PROVE  /\ \A e : \A i \in StrictIssues(p, e) \union OriginIssues(p, e) : i.error
           /\ \A i \in LayerIssues(p) : ~i.error /\ i.what = "disconnect"
           /\ \A i \in CodeMapIssues(p) : ~i.error /\ i.what = "codeMap"
           /\ \A i \in AnchorIssues(p, T) : ~i.error /\ i.what = "anchor"
           /\ \A i \in ScopeIssues(p, T) : ~i.error /\ i.what = "scope"
           /\ \A i \in CanvasIssues(p, T) \union UnknownTargets(p, T) : i.error
<1>1. \A e, x, w : Error(e, x, w).error
  BY DEF Error
<1>2. \A e, x, w : ~Issue(e, x, w).error
  BY DEF Issue
<1>3. \A e, x, w : Issue(e, x, w).what = w
  BY DEF Issue
<1>4. ASSUME NEW e
      PROVE  \A i \in StrictIssues(p, e) \union OriginIssues(p, e) : i.error
  <2>1. \A i \in StrictIssues(p, e) : i.error
    BY <1>1 DEF StrictIssues
  <2>2. \A i \in OriginIssues(p, e) : i.error
    BY <1>1 DEF OriginIssues
  <2> QED  BY <2>1, <2>2
<1>5. ASSUME NEW i \in LayerIssues(p)
      PROVE  ~i.error /\ i.what = "disconnect"
  <2>1. \E e, x : i = Issue(e, x, "disconnect")
    BY DEF LayerIssues
  <2> QED  BY <1>2, <1>3, <2>1
<1>6. ASSUME NEW i \in CodeMapIssues(p)
      PROVE  ~i.error /\ i.what = "codeMap"
  <2>1. \E e, x : i = Issue(e, x, "codeMap")
    BY DEF CodeMapIssues
  <2> QED  BY <1>2, <1>3, <2>1
<1>7. ASSUME NEW i \in AnchorIssues(p, T)
      PROVE  ~i.error /\ i.what = "anchor"
  <2>1. \E e, x : i = Issue(e, x, "anchor")
    BY DEF AnchorIssues
  <2> QED  BY <1>2, <1>3, <2>1
<1>8. ASSUME NEW i \in ScopeIssues(p, T)
      PROVE  ~i.error /\ i.what = "scope"
  <2>1. \E e, x : i = Issue(e, x, "scope")
    BY DEF ScopeIssues
  <2> QED  BY <1>2, <1>3, <2>1
<1>13. \A i \in CanvasIssues(p, T) : i.error
  BY <1>1, Zenon DEF CanvasIssues
<1>14. \A i \in UnknownTargets(p, T) : i.error
  BY <1>1, Zenon DEF UnknownTargets
<1> QED
  BY <1>4, <1>5, <1>6, <1>7, <1>8, <1>13, <1>14

\* No issue but the note itself says that a document is ready.
LEMMA OnlyNotesSayReady ==
    ASSUME NEW p, NEW T, NEW e, ReadyNote(e) \in Issues(p, T)
    PROVE  e \in Inspected(p, T) /\ IsReady(p, e)
<1> DEFINE n == ReadyNote(e)
<1>1. n.what = "ready" /\ n.about = e
  BY DEF ReadyNote, Issue
<1>11. ~n.error
  BY DEF ReadyNote, Issue
<1> HIDE DEF n
<1>2. \A x, y, w : Issue(x, y, w).what = w
  BY DEF Issue
<1>3. \A x : n \notin ShapeIssues(p, x)
  <2>1. \A k, d, b : "ready" \notin ShapeFaults(k, d, b)
    BY DEF ShapeFaults
  <2> QED  BY <1>1, <1>2, <2>1 DEF ShapeIssues
<1>4. \A x : n \notin StrictIssues(p, x) /\ n \notin OriginIssues(p, x)
  BY <1>11, WhichAreErrors, Zenon
<1>6. \A x, d : n \notin ColumnIssues(p, x, d)
  <2>1. \A col, c : col.type = "ready" => ~IsFaulty(p, col, c)
    BY DEF IsFaulty
  <2> QED  BY <1>1, <1>2, <2>1 DEF ColumnIssues
<1>7. \A x : n \in DocumentIssues(p, x) => IsReady(p, x) /\ x = e
  <2> TAKE x
  <2> HAVE n \in DocumentIssues(p, x)
  <2>1. n.about = x
    BY AboutItself
  <2> QED  BY <1>1, <1>3, <1>4, <1>6, <2>1 DEF DocumentIssues
<1>8. /\ n \notin LayerIssues(p) /\ n \notin CodeMapIssues(p) /\ n \notin AnchorIssues(p, T)
      /\ n \notin ScopeIssues(p, T)
  BY <1>1, WhichAreErrors
<1>9. n \notin CanvasIssues(p, T) /\ n \notin UnknownTargets(p, T)
  BY <1>11, WhichAreErrors, Zenon
<1>10. n \in UNION {DocumentIssues(p, x) : x \in Inspected(p, T)}
  <2>1. n \in Issues(p, T)
    BY DEF n
  <2> DEFINE D == UNION {DocumentIssues(p, x) : x \in Inspected(p, T)}
             L == {j \in LayerIssues(p) : Matches(T, j.about)}
  <2>2. Issues(p, T) = D \union L \union (IF T = {} THEN CodeMapIssues(p) ELSE {})
                         \union AnchorIssues(p, T) \union CanvasIssues(p, T)
                         \union UnknownTargets(p, T) \union ScopeIssues(p, T)
    BY Zenon DEF Issues
  <2>3. n \notin L
    BY <1>8
  <2> HIDE DEF D, L
  <2>4. n \in D
    BY <1>8, <1>9, <2>1, <2>2, <2>3
  <2> QED  BY <2>4 DEF D
<1> QED  BY <1>7, <1>10

\* A check of one document finds no error that a check has not found which looked at it.
LEMMA NarrowerFindsLess ==
    ASSUME NEW p, IsProject(p), NamesAreApart, NEW T, NEW e \in Inspected(p, T),
           p.status[e] \notin Finished, ~HasErrors(Issues(p, T))
    PROVE  ~HasErrors(Issues(p, {e})) /\ e \in Inspected(p, {e})
<1>1. /\ e \in p.live /\ p.live \subseteq Id /\ HasCanvas(p, KindOf[e]) /\ Matches(T, e)
      /\ p.broken \subseteq Kind
  BY DEF Inspected, IsProject
<1>2. Matches({e}, e)
  BY DEF Matches
<1>3. \A x \in p.live : Matches({e}, x) => x = e \/ x \in Longer[e]
  BY DEF Matches
<1>4. \A x \in p.live : Matches({e}, x) => Matches(T, x)
  <2>1. \A x \in Longer[e] : \A t \in Id : e \in Longer[t] => x \in Longer[t]
    BY <1>1, CheckAssumption DEF NamesAreApart
  <2> QED  BY <1>1, <1>3, <2>1 DEF Matches
<1>5. Inspected(p, {e}) \subseteq Inspected(p, T)
  <2> SUFFICES ASSUME NEW x \in Inspected(p, {e}) PROVE x \in Inspected(p, T)
    OBVIOUS
  <2>1. x \in p.live /\ Matches(T, x) /\ HasCanvas(p, KindOf[x])
    BY <1>4 DEF Inspected
  <2>2. IsStrictChange(KindOf[x]) /\ p.status[x] \in Finished => x = e
    BY DEF Inspected
  <2> QED  BY <2>1, <2>2 DEF Inspected
<1>8. CanvasIssues(p, {e}) = {}
  <2>1. DOMAIN Canvases \subseteq Kind
    BY CanvasAssumption
  <2> QED  BY <1>1, <2>1 DEF CanvasIssues, NamesAreApart
<1>9. UnknownTargets(p, {e}) = {}
  BY <1>1 DEF UnknownTargets
<1>10. ASSUME NEW i \in Issues(p, {e}), i.error
       PROVE  i \in Issues(p, T)
  <2>3. i \notin LayerIssues(p) \union AnchorIssues(p, {e}) \union ScopeIssues(p, {e})
    BY <1>10, WhichAreErrors, Zenon
  <2>1. i \in UNION {DocumentIssues(p, x) : x \in Inspected(p, {e})}
    <3> DEFINE D == UNION {DocumentIssues(p, x) : x \in Inspected(p, {e})}
               L == {j \in LayerIssues(p) : Matches({e}, j.about)}
    <3>1. Issues(p, {e}) = D \union L \union (IF {e} = {} THEN CodeMapIssues(p) ELSE {})
                             \union AnchorIssues(p, {e}) \union CanvasIssues(p, {e})
                             \union UnknownTargets(p, {e}) \union ScopeIssues(p, {e})
      BY Zenon DEF Issues
    <3>2. i \notin L /\ {e} # {}
      BY <2>3
    <3> HIDE DEF D, L
    <3>3. i \in D
      BY <1>8, <1>9, <2>3, <3>1, <3>2
    <3> QED  BY <3>3 DEF D
  <2>2. i \in UNION {DocumentIssues(p, x) : x \in Inspected(p, T)}
    BY <1>5, <2>1
  <2> QED  BY <2>2 DEF Issues
<1>11. e \in Inspected(p, {e})
  BY <1>1, <1>2 DEF Inspected
<1> QED  BY <1>10, <1>11 DEF HasErrors

\* ReadyIsFinished: what a report without an error calls ready, the check --fix it asks for
\* finishes, if no table is to be repaired (autoDoneLatch) - for ids that are apart.
THEOREM ReadyThenFinished ==
    ASSUME NamesAreApart
    PROVE  CheckSpec => ReadyIsFinished
<1>1. CheckInv /\ [CheckNext]_checkVars =>
        [\A e \in project.live :
         /\ report.kind = "report" /\ report.ok /\ ~report.fix
         /\ ReadyNote(e) \in report.issues
         /\ Healed(project, project.live) = project
         /\ report'.kind = "report" /\ report'.fix /\ report'.targets = {e} /\ report'.rules = {}
         => project'.status[e] = "done"]_checkVars
  <2> SUFFICES ASSUME CheckInv, [CheckNext]_checkVars, NEW e \in project.live,
                      report.kind = "report", report.ok, ~report.fix,
                      ReadyNote(e) \in report.issues, Healed(project, project.live) = project,
                      report'.kind = "report", report'.fix,
                      report'.targets = {e}, report'.rules = {}
               PROVE  project'.status[e] = "done"
    OBVIOUS
  <2> DEFINE p == project
             T == report.targets \union Citers(p, report.rules)
  <2>1. IsProject(p) /\ report.issues = Issues(p, T) /\ ~HasErrors(Issues(p, T))
    BY DEF CheckInv, ReportTells
  <2>2. e \in Inspected(p, T) /\ IsReady(p, e) /\ p.status[e] = "accepted"
    <3>1. ReadyNote(e) \in Issues(p, T)
      BY <2>1
    <3>2. e \in Inspected(p, T) /\ IsReady(p, e)
      BY <3>1, OnlyNotesSayReady, Zenon
    <3> QED  BY <3>2 DEF IsReady
  <2>3. ~HasErrors(Issues(p, {e})) /\ e \in Inspected(p, {e})
    BY <2>1, <2>2, NarrowerFindsLess DEF Finished
  <2>4. RunCheck({e}, {}, TRUE)
    <3>1. ~UNCHANGED report /\ ~Edits
      BY <2>1, EditsKeepProjects DEF NoReport
    <3>2. PICK a \in Asked : \E fix \in BOOLEAN : RunCheck(a.targets, a.rules, fix)
      BY <3>1 DEF CheckNext, checkVars
    <3>3. PICK fix \in BOOLEAN : RunCheck(a.targets, a.rules, fix)
      BY <3>2
    <3>4. fix = TRUE
      BY <2>1, <3>3, PlainCheck
    <3>5. a.targets = {e} /\ a.rules = {}
      BY <2>1, <3>3, <3>4, RepairingCheck
    <3> QED  BY <3>3, <3>4, <3>5
  <2>5. {e} \union Citers(p, {}) = {e} /\ RulesResolve(p, {})
    BY NoRulesNoCiters DEF RulesResolve
  <2>6. \A x \in p.live : ~Refuses(p, x)
    <3>1. \A x \in p.live : Reconciled(p, x) = p.body[x]
      BY <2>1, NothingToHeal DEF IsProject
    <3> QED  BY <3>1 DEF Refuses
  <2>7. /\ report'.ok
        /\ project' = [p EXCEPT !.status =
             [x \in Id |-> IF x \in {y \in Inspected(p, {e}) : IsReady(p, y)}
                          THEN "done" ELSE p.status[x]]]
    <3>1. Repaired = p /\ RulesResolve(Repaired, {}) /\ {e} \union Citers(Repaired, {}) = {e}
      BY <2>5 DEF Repaired
    <3>2. report'.ok
      BY <2>1, <2>3, <2>4, <2>6, <3>1, RepairingCheck
    <3>3. project' = Left({e}, {})
      BY <2>1, <2>4, <3>2, RepairingCheck
    <3> QED  BY <3>1, <3>2, <3>3 DEF Left, ReadyThen
  <2>8. e \in Id
    BY <2>1 DEF IsProject
  <2> QED  BY <2>1, <2>2, <2>3, <2>7, <2>8 DEF IsProject
<1> QED  BY CheckInvariant, <1>1, PTL DEF CheckSpec, ReadyIsFinished

-----------------------------------------------------------------------------
(* The readers of a body.                                                    *)

\* The section of a canvas that an issue or a fault of a section names is that section.
LEMMA OneSectionOfAName ==
    ASSUME NEW k \in DOMAIN Canvases, NEW c \in ToSet(Sections(k)), NEW d \in ToSet(Sections(k)),
           c.name = d.name
    PROVE  c = d
<1> DEFINE s == Sections(k)
<1>1. \A i, j \in DOMAIN s : i # j => s[i].name # s[j].name
  BY CheckAssumption DEF Sections
<1>2. (\E i \in DOMAIN s : c = s[i]) /\ (\E j \in DOMAIN s : d = s[j])
  BY DEF ToSet
<1> QED  BY <1>1, <1>2

\* What the gate finds wrong with a required section, if the type is not component.
LEMMA GateOfSection ==
    ASSUME NEW k \in DOMAIN Canvases, k # "component", NEW body,
           NEW d \in Required(Sections(k))
    PROVE  ({x \in Refused(k, Sections(k), body) : x[1] = d.name} = {})
             <=> (GateFaults(k, d, body) = {})
<1> DEFINE F == UNION {{<<c.name, w>> : w \in GateFaults(k, c, body)} : c \in Required(Sections(k))}
<1>1. d \in ToSet(Sections(k)) /\ Required(Sections(k)) \subseteq ToSet(Sections(k))
  BY DEF Required
<1>2. \A x \in Unknown(Sections(k), body) : x[1] # d.name
  BY <1>1 DEF Unknown
<1>3. Refused(k, Sections(k), body) = Unknown(Sections(k), body) \union F
  BY DEF Refused
<1>4. ASSUME NEW w \in GateFaults(k, d, body)
      PROVE  <<d.name, w>> \in F
  OBVIOUS
<1>5. ASSUME NEW x \in F, x[1] = d.name
      PROVE  GateFaults(k, d, body) # {}
  <2>1. PICK c \in Required(Sections(k)) : \E w \in GateFaults(k, c, body) : x = <<c.name, w>>
    BY <1>5
  <2>2. c.name = d.name
    BY <1>5, <2>1
  <2>3. c = d
    BY <1>1, <2>2, OneSectionOfAName
  <2> QED  BY <2>1, <2>3
<1>6. \A w : <<d.name, w>>[1] = d.name
  OBVIOUS
<1> HIDE DEF F
<1> QED  BY <1>2, <1>3, <1>4, <1>5, <1>6

\* What check finds wrong with the shape of a required section.
LEMMA ShapeOfSection ==
    ASSUME NEW p, NEW e, KindOf[e] \in DOMAIN Canvases,
           NEW d \in Required(Sections(KindOf[e]))
    PROVE  ({i \in ShapeIssues(p, e) : i.where = d.name} = {})
             <=> (ShapeFaults(KindOf[e], d, p.body[e]) = {})
<1> DEFINE k == KindOf[e]
           faults(c) == ShapeFaults(k, c, p.body[e])
<1>1. d \in ToSet(Sections(k)) /\ Required(Sections(k)) \subseteq ToSet(Sections(k))
  BY DEF Required
<1>2. \A x, w : Issue(e, x, w).where = x
  BY DEF Issue
<1>3. ASSUME NEW w \in faults(d)
      PROVE  Issue(e, d.name, w) \in ShapeIssues(p, e)
  BY DEF ShapeIssues
<1>4. ASSUME NEW i \in ShapeIssues(p, e), i.where = d.name
      PROVE  faults(d) # {}
  <2>1. PICK c \in Required(Sections(k)) : \E w \in faults(c) : i = Issue(e, c.name, w)
    BY DEF ShapeIssues
  <2>2. c.name = d.name
    BY <1>2, <1>4, <2>1
  <2>3. c = d
    BY <1>1, <2>2, OneSectionOfAName
  <2> QED  BY <2>1, <2>3
<1> HIDE DEF faults
<1>5. ({i \in ShapeIssues(p, e) : i.where = d.name} = {}) <=> (faults(d) = {})
  BY <1>2, <1>3, <1>4
<1> QED  BY <1>5 DEF faults

\* The gate and the shape check differ in two things.
LEMMA GateAndShape ==
    ASSUME NEW k, NEW d, NEW body
    PROVE  \/ GateFaults(k, d, body) = ShapeFaults(k, d, body)
           \/ /\ GateFaults(k, d, body) = {} /\ ShapeFaults(k, d, body) # {}
              /\ IsMembers(k, d) /\ Said(body, d.name) = Nothing
           \/ /\ GateFaults(k, d, body) # {} /\ ShapeFaults(k, d, body) = {}
              /\ d.table /\ ~Parses(Said(body, d.name))
<1> DEFINE said == Said(body, d.name)
<1>1. CASE ~Present(body, d.name)
  BY <1>1 DEF GateFaults, ShapeFaults
<1>2. CASE Present(body, d.name) /\ said = Nothing
  <2>1. ~Parses(said)
    BY <1>2 DEF Parses, Nothing
  <2>2. ShapeFaults(k, d, body) = {"empty"}
    BY <1>2, <2>1 DEF ShapeFaults
  <2>3. GateFaults(k, d, body) = IF d.table /\ IsMembers(k, d) THEN {} ELSE {"empty"}
    BY <1>2, <2>1 DEF GateFaults
  <2> QED  BY <1>2, <2>2, <2>3
<1>3. CASE Present(body, d.name) /\ said # Nothing /\ ~d.table
  BY <1>3 DEF GateFaults, ShapeFaults
<1>4. CASE Present(body, d.name) /\ said # Nothing /\ d.table /\ ~Parses(said)
  <2>1. ShapeFaults(k, d, body) = {}
    BY <1>4 DEF ShapeFaults
  <2>2. GateFaults(k, d, body) = {"invalidTable"}
    BY <1>4 DEF GateFaults
  <2> QED  BY <1>4, <2>1, <2>2
<1>5. CASE Present(body, d.name) /\ said # Nothing /\ d.table /\ Parses(said)
  BY <1>5 DEF GateFaults, ShapeFaults
<1> QED  BY <1>1, <1>2, <1>3, <1>4, <1>5

\* What the strict rules find wrong with a section is an error of check, if they apply.
LEMMA StrictIsTold ==
    ASSUME NEW p, NEW e, IsStrict(KindOf[e]), NEW d,
           NEW x \in StrictFaults(Sections(KindOf[e]), p.body[e]), x[1] = d.name
    PROVE  \E i \in StrictIssues(p, e) : i.where = d.name
<1>1. Error(e, x[1], x[2]) \in StrictIssues(p, e)
  BY DEF StrictIssues
<1>2. \A y, w : Error(e, y, w).where = y
  BY DEF Error
<1> QED  BY <1>1, <1>2

\* A component section that the strict rules pass has nothing amiss in its shape.
LEMMA StrictCoversShape ==
    ASSUME NEW k \in DOMAIN Canvases, NEW body, NEW d \in Required(Sections(k)),
           ~d.free, d.table => d.minRows \in Nat \ {0},
           \A x \in StrictFaults(Sections(k), body) : x[1] # d.name
    PROVE  ShapeFaults(k, d, body) = {}
<1> DEFINE said  == Said(body, d.name)
           of(c) ==
               IF ~Present(body, c.name) THEN {"missing"}
               ELSE LET says == Said(body, c.name)
                    IN  (IF Cardinality(Places(body, c.name)) > 1 THEN {"duplicate"} ELSE {})
                        \union (IF says = Nothing THEN {"empty"} ELSE {})
                        \union (IF c.table THEN TableFaults(c, says) ELSE TextFaults(c, says))
<1>1. d \in Strict(Sections(k)) /\ d \in ToSet(Sections(k))
  BY DEF Strict, IsStrictSection, Required
<1>2. \A w \in of(d) : <<d.name, w>> \in StrictFaults(Sections(k), body)
  BY <1>1 DEF StrictFaults
<1>3. of(d) = {}
  <2> HIDE DEF of
  <2>1. \A w : <<d.name, w>>[1] = d.name
    OBVIOUS
  <2> QED  BY <1>2, <2>1
<1>4. Present(body, d.name)
  BY <1>3
<1>5. said # Nothing /\ (d.table => TableFaults(d, said) = {})
  BY <1>3, <1>4
<1> HIDE DEF of, said
<1>6. CASE ~d.table
  BY <1>4, <1>5, <1>6 DEF ShapeFaults, said
<1>7. CASE d.table
  <2>1. Parses(said) /\ said.heads = Heads(d) /\ ~(Len(said.rows) < d.minRows)
    BY <1>5, <1>7 DEF TableFaults
  <2>2. said.rows # <<>>
    BY <1>7, <2>1
  <2>3. MissingColumns(d, said) = {}
    BY <2>1 DEF MissingColumns, Columns, Heads, ToSet
  <2> QED  BY <1>4, <1>5, <1>7, <2>1, <2>2, <2>3 DEF ShapeFaults, said
<1> QED  BY <1>6, <1>7

\* The gate and check read a required section alike, but for the differences it names.
LEMMA ReadersOfSection ==
    ASSUME ComponentCanvasIsStrict, NEW p, NEW e, KindOf[e] \in DOMAIN Canvases,
           NEW d \in Required(Sections(KindOf[e])),
           NEW gate,
           gate = {x \in Refused(KindOf[e], Sections(KindOf[e]), p.body[e]) : x[1] = d.name},
           NEW seen, seen = {i \in ShapeIssues(p, e) \union StrictIssues(p, e) : i.where = d.name}
    PROVE  \/ (gate = {}) = (seen = {})
           \/ gate = {} /\ IsStrictChange(KindOf[e])
           \/ gate = {} /\ IsMembers(KindOf[e], d) /\ Said(p.body[e], d.name) = Nothing
           \/ seen = {} /\ d.table /\ ~Parses(Said(p.body[e], d.name))
<1> DEFINE k == KindOf[e]
           body == p.body[e]
           shape == ShapeFaults(k, d, body)
<1>1. {i \in ShapeIssues(p, e) : i.where = d.name} = {} <=> shape = {}
  BY ShapeOfSection
<1>2. seen = {} => shape = {}
  BY <1>1
<1>3. CASE k = "component" /\ ~IsStrictChange(k)
  <2>1. IsStrict(k) /\ ~d.free /\ (d.table => d.minRows \in Nat \ {0})
    BY <1>3 DEF IsStrict, ComponentCanvasIsStrict
  <2>2. d \in ToSet(Sections(k))
    BY DEF Required
  <2>3. Refused(k, Sections(k), body)
          = Unknown(Sections(k), body) \union StrictFaults(Sections(k), body)
    BY <1>3 DEF Refused
  <2>4. \A x \in Unknown(Sections(k), body) : x[1] # d.name
    BY <2>2 DEF Unknown
  <2>5. gate # {} => seen # {}
    <3>1. ASSUME gate # {}
          PROVE  \E x \in StrictFaults(Sections(k), body) : x[1] = d.name
      BY <2>3, <2>4, <3>1
    <3>2. ASSUME NEW x \in StrictFaults(Sections(k), body), x[1] = d.name
          PROVE  \E i \in StrictIssues(p, e) : i.where = d.name
      BY <2>1, <3>2, StrictIsTold
    <3> QED  BY <3>1, <3>2
  <2>6. gate = {} => seen = {}
    <3> SUFFICES ASSUME gate = {}
                 PROVE  seen = {}
      OBVIOUS
    <3>1. \A x \in StrictFaults(Sections(k), body) : x[1] # d.name
      BY <2>3
    <3>2. shape = {}
      BY <2>1, <3>1, StrictCoversShape
    <3>3. \A i \in StrictIssues(p, e) : i.where # d.name
      <4>1. StrictIssues(p, e) = {Error(e, x[1], x[2]) : x \in StrictFaults(Sections(k), body)}
        BY <1>3, <2>1 DEF StrictIssues
      <4>2. \A y, w : Error(e, y, w).where = y
        BY DEF Error
      <4> QED  BY <3>1, <4>1, <4>2
    <3> QED  BY <1>1, <3>2, <3>3
  <2> QED  BY <2>5, <2>6
<1>4. CASE k # "component"
  <2>1. gate = {} <=> GateFaults(k, d, body) = {}
    BY <1>4, GateOfSection
  <2>2. CASE IsStrictChange(k)
    BY <1>2, <2>1, <2>2, GateAndShape
  <2>3. CASE ~IsStrictChange(k)
    <3>1. StrictIssues(p, e) = {}
      BY <1>4, <2>3 DEF StrictIssues, IsStrict
    <3>2. seen = {} <=> shape = {}
      BY <1>1, <3>1
    <3> QED  BY <2>1, <3>2, GateAndShape
  <2> QED  BY <2>2, <2>3
<1>5. CASE k = "component" /\ IsStrictChange(k)
  <2>1. IsStrict(k) /\ d \in ToSet(Sections(k))
    BY <1>5 DEF IsStrict, Required
  <2>2. Refused(k, Sections(k), body)
          = Unknown(Sections(k), body) \union StrictFaults(Sections(k), body)
    BY <1>5 DEF Refused
  <2>3. \A x \in Unknown(Sections(k), body) : x[1] # d.name
    BY <2>1 DEF Unknown
  <2>4. gate # {} => seen # {}
    <3>1. ASSUME gate # {}
          PROVE  \E x \in StrictFaults(Sections(k), body) : x[1] = d.name
      BY <2>2, <2>3, <3>1
    <3>2. ASSUME NEW x \in StrictFaults(Sections(k), body), x[1] = d.name
          PROVE  \E i \in StrictIssues(p, e) : i.where = d.name
      BY <2>1, <3>2, StrictIsTold
    <3> QED  BY <3>1, <3>2
  <2> QED  BY <1>5, <2>4
<1> QED  BY <1>3, <1>4, <1>5

\* ReadersAgree: the gate and check let the same required sections pass, but for the
\* differences it names, under a canvas of components as strict as the one c3x brings along
\* (validateBodyContentWithDefinition, validateStrictDoc, RunCheckV2).  It holds of any
\* project: it is a fact about the readers.
THEOREM ReadersDiffer ==
    ASSUME ComponentCanvasIsStrict
    PROVE  CheckSpec => []ReadersAgree
<1>1. ReadersAgree
  <2> SUFFICES ASSUME NEW e \in project.live, HasCanvas(project, KindOf[e]),
                      NEW d \in Required(Sections(KindOf[e]))
               PROVE  LET k == KindOf[e]
                          body == project.body[e]
                          gate == {x \in Refused(k, Sections(k), body) : x[1] = d.name}
                          cells == IF d \in Tables(project, e)
                                   THEN ColumnIssues(project, e, d) ELSE {}
                          seen == {i \in ShapeIssues(project, e) \union StrictIssues(project, e) :
                                     i.where = d.name} \union cells
                      IN  \/ (gate = {}) = (seen = {})
                          \/ gate = {} /\ cells # {}
                          \/ gate = {} /\ IsStrictChange(k)
                          \/ gate = {} /\ IsMembers(k, d) /\ Said(body, d.name) = Nothing
                          \/ seen = {} /\ d.table /\ ~Parses(Said(body, d.name))
    BY DEF ReadersAgree
  <2> DEFINE gate == {x \in Refused(KindOf[e], Sections(KindOf[e]), project.body[e]) :
                        x[1] = d.name}
             cells == IF d \in Tables(project, e) THEN ColumnIssues(project, e, d) ELSE {}
             shape == {i \in ShapeIssues(project, e) \union StrictIssues(project, e) :
                         i.where = d.name}
  <2>1. KindOf[e] \in DOMAIN Canvases
    BY DEF HasCanvas
  <2>2. \A G, I : G = gate /\ I = shape =>
          \/ (G = {}) = (I = {})
          \/ G = {} /\ IsStrictChange(KindOf[e])
          \/ G = {} /\ IsMembers(KindOf[e], d) /\ Said(project.body[e], d.name) = Nothing
          \/ I = {} /\ d.table /\ ~Parses(Said(project.body[e], d.name))
    BY <2>1, ReadersOfSection
  <2> HIDE DEF gate, cells, shape
  <2>3. shape \union cells = {} <=> shape = {} /\ cells = {}
    OBVIOUS
  <2>4. \/ (gate = {}) = (shape \union cells = {})
        \/ gate = {} /\ cells # {}
        \/ gate = {} /\ IsStrictChange(KindOf[e])
        \/ gate = {} /\ IsMembers(KindOf[e], d) /\ Said(project.body[e], d.name) = Nothing
        \/ shape \union cells = {} /\ d.table /\ ~Parses(Said(project.body[e], d.name))
    BY <2>2, <2>3
  <2> QED  BY <2>4 DEF gate, cells, shape
<1> QED  BY <1>1, PTL
=============================================================================
