------------------------- MODULE ChangeApplyProofs -------------------------
(***************************************************************************)
(* Proofs about ChangeApply, for any facts, types, canvases, units and     *)
(* number of runs.  For every plan: the types, that the membership tables  *)
(* are exact, and that a run which does not say it applied its unit has    *)
(* changed nothing.  For plans without what the code is known to let       *)
(* through: that citations, edges and parents hold together, and that      *)
(* every fact fits its canvas.  For plans whose patches do not contradict  *)
(* one another: that all of a unit lands, and that a table rewritten keeps *)
(* what its author wrote.                                                  *)
(***************************************************************************)
EXTENDS ChangeApply, WellFoundedInduction, FiniteSetTheorems, TLAPS

InTransaction == phase \in {"patching", "syncing", "reconciling"}

\* Every variable has its type; a run is about a unit and skips patches of it.
ChangeTypeOK ==
    /\ facts \in Store /\ work \in Store
    /\ canvas \in [Type -> Shape] /\ backup \in [Type -> Shape]
    /\ seen \in [Unit -> [Fact -> Body]]
    /\ phase \in {"idle", "gated", "patching", "syncing", "reconciling", "restoring"}
    /\ phase # "idle" => unit \in Unit
    /\ preview \in BOOLEAN
    /\ next \in Nat
    /\ touched \subseteq Fact /\ affected \subseteq Fact /\ todo \subseteq Fact
    /\ verdict \in {"none", "rejected", "dry", "failed", "applied"}
    /\ runs \in Nat

-----------------------------------------------------------------------------
(* The canvas files.                                                         *)

\* The unit's canvases are on disk from before the transaction until it is over;
\* what was there before is in the backup.
CanvasesOnDisk ==
    canvas = IF (InTransaction /\ ~preview) \/ phase = "restoring"
             THEN Reshaped(backup, unit) ELSE backup

\* A run that does not say it applied its unit changed nothing; one that does has
\* the unit's canvases in place (RunChangeApply, applyCanvasMorphs, Store.WithTx).
NothingElse ==
    [][phase # "idle" /\ phase' = "idle" =>
         /\ verdict' = "applied" => canvas' = Reshaped(backup, unit)
         /\ verdict' # "applied" => facts' = facts /\ canvas' = backup]_vars

-----------------------------------------------------------------------------
(* The membership tables.                                                    *)

\* The parents whose tables the transaction has to look at, as far as it knows: to
\* those it noted come the facts it touched and the parents they have now.
ListedIn(w, noted, changed) ==
    noted \union changed \union {w.parent[f] : f \in changed \intersect w.live}
Listed == ListedIn(work, affected, touched)

\* What the table of a fact depends on is as it was before the run.
Undisturbed(s, w, f) ==
    f \in w.live =>
        /\ f \in s.live
        /\ w.body[f] = s.body[f]
        /\ Children(w, f) = Children(s, f)
        /\ \A c \in Children(w, f) : w.title[c] = s.title[c]

Exact(s, f) == KeepsMembers(s, f) => RowsMatchChildren(s, f)

UnlistedStay == InTransaction => \A f \in Fact \ Listed : Undisturbed(facts, work, f)

AllNoted == phase \in {"syncing", "reconciling"} => Listed \intersect Fact \subseteq affected

VisitedExact ==
    phase = "reconciling" =>
        /\ todo \subseteq affected
        /\ \A f \in affected \ todo : Exact(work, f)

TableInv == ChangeTypeOK /\ UnlistedStay /\ AllNoted /\ VisitedExact /\ MembershipExact

-----------------------------------------------------------------------------
(* Links, in plans that only add.                                            *)

Child(f) == \E t \in Type : ChildType[t] = TypeOf[f]
Fits(f, p) == ChildType[TypeOf[p]] = TypeOf[f]

\* No unit retires a fact, and a parent that a patch names is of the right type; a
\* child is created with one.
OnlyAdds ==
    \A u \in Unit : \A i \in FactIndices(u) :
        LET p == Plan[u][i] IN
        /\ p.scope # "retire"
        /\ p.scope \in {"whole", "frontmatter"} /\ Child(p.target) =>
             /\ p.parent # NoFact => Fits(p.target, p.parent)
             /\ p.scope = "whole" => p.parent # NoFact

Linked(s, f) ==
    /\ Cites(s.body[f]) \subseteq s.live
    /\ s.edges[f] = Cites(s.body[f]) \ {f}

Placed(s) ==
    \A f \in s.live : Child(f) => s.parent[f] \in s.live /\ Fits(f, s.parent[f])

\* What a transaction has still to link is what it touched.
LinksInv ==
    /\ GraphNeverStrands
    /\ InTransaction => /\ facts.live \subseteq work.live
                        /\ Placed(work)
    /\ phase = "patching" =>
         \A f \in work.live \ touched :
            /\ f \in facts.live
            /\ work.body[f] = facts.body[f] /\ work.edges[f] = facts.edges[f]
    /\ phase = "syncing" => \A f \in work.live \ todo : Linked(work, f)
    /\ phase = "reconciling" => \A f \in work.live : Linked(work, f)

-----------------------------------------------------------------------------
(* Fitting the canvas.                                                       *)

\* No two patches of a unit are about one fact, but for those of its frontmatter.
OneEach ==
    \A u \in Unit : \A i, j \in FactIndices(u) :
        Plan[u][i].target = Plan[u][j].target =>
            i = j \/ "frontmatter" \in {Plan[u][i].scope, Plan[u][j].scope}

\* No unit reshapes a canvas.
NoMorphs == \A u \in Unit : MorphIndices(u) = {}

AllFit(s, cs) == \A f \in s.live : ValidBody(s.body[f], cs[TypeOf[f]])

\* The canvas gate has passed every patch the run does not skip.
GatePassed == \A i \in FactIndices(unit) \ skip : FitsCanvas(unit, Plan[unit][i])

\* The bodies which the patches still to come are about are as the gate saw them.
NotYetReached ==
    \A i \in FactIndices(unit) : i >= next /\ Plan[unit][i].scope # "frontmatter" =>
        work.body[Plan[unit][i].target] = facts.body[Plan[unit][i].target]

\* What the canvas gate saw is what lands.
FitInv ==
    /\ canvas = backup
    /\ AllFit(facts, canvas)
    /\ phase # "idle" => GatePassed
    /\ InTransaction => AllFit(work, canvas)
    /\ phase = "patching" => NotYetReached

-----------------------------------------------------------------------------
(* Landing.                                                                  *)

\* A unit that retires a fact says nothing else of it, and says of no fact twice
\* what its frontmatter is.
Agreeing ==
    \A u \in Unit : \A i, j \in FactIndices(u) :
        i # j /\ Plan[u][i].target = Plan[u][j].target =>
            /\ "retire" \notin {Plan[u][i].scope, Plan[u][j].scope}
            /\ {Plan[u][i].scope, Plan[u][j].scope} # {"frontmatter"}

\* No unit puts a fact under one that it retires.
NoneMovesUnderRetired ==
    \A u \in Unit : \A i \in FactIndices(u) :
        Plan[u][i].scope \in {"frontmatter", "whole"} => Plan[u][i].parent \notin Retired(u)

\* A fact that is gone leaves nothing behind in the store.
NothingLeft(s) == \A f \in Fact \ s.live : s.body[f] = Empty

\* What a patch promises is so in a store.
Done(s, p) ==
    /\ p.scope = "retire" <=> p.target \notin s.live
    /\ p.scope = "frontmatter" =>
         /\ p.parent # NoFact => s.parent[p.target] = p.parent
         /\ p.title # NoTitle => s.title[p.target] = p.title

\* A run skips only what is done already.
SkipsDone ==
    \A i \in skip : i \in FactIndices(unit) /\ Done(facts, Plan[unit][i])

\* What the transaction skips or has come past is done.
DoneSoFar ==
    \A i \in FactIndices(unit) : i < next \/ i \in skip => Done(work, Plan[unit][i])

AllPassed == \A i \in FactIndices(unit) : i < next

LandsInv ==
    /\ next >= 1
    /\ NothingLeft(facts)
    /\ phase # "idle" => SkipsDone
    /\ InTransaction => NothingLeft(work) /\ DoneSoFar
    /\ phase \in {"syncing", "reconciling"} => AllPassed

-----------------------------------------------------------------------------
(* Text.                                                                     *)

\* The patches before the nth.
Upto(set, n) == {i \in set : i < n}

\* TextAsWritten of one block, as far as the patches before the nth go.
Balanced(was, now, u, applied, n, f, b) ==
    LET by    == Upto(Creates(u, f) \ applied, n)
        start == IF by = {} THEN was.body[f] ELSE Plan[u][CHOOSE i \in by : TRUE].body
    IN  now.body[f][b] + Cardinality(Upto(Takes(u, f, b) \ applied, n))
          = start[b] + Cardinality(Upto(Writes(u, f, b) \ applied, n))

\* What the transaction has made of the text so far is what its patches say.
TextSoFar ==
    \A f \in Fact \ Retired(unit) : \A b \in Block \ MemberRow :
        Balanced(facts, work, unit, skip, next, f, b)

\* Nothing later is about the same fact.
LastWord(u, i) ==
    \A j \in FactIndices(u) : j > i => Plan[u][j].target # Plan[u][i].target

\* What it has created is where and what the patch says.
CreatedSoFar ==
    \A i \in FactIndices(unit) \ skip :
        i < next /\ Plan[unit][i].scope = "whole" /\ LastWord(unit, i) =>
            /\ work.parent[Plan[unit][i].target] = Plan[unit][i].parent
            /\ work.title[Plan[unit][i].target] = Plan[unit][i].title

\* Skipped are the creates of what was there, and blocks that were there.
SkipsThere ==
    \A i \in FactIndices(unit) :
        /\ Plan[unit][i].scope = "whole" /\ Plan[unit][i].target \in facts.live => i \in skip
        /\ i \in skip /\ Plan[unit][i].scope \in {"block", "insert", "append"} =>
             Plan[unit][i].scope = "block" /\ Has(facts.body[Plan[unit][i].target], Plan[unit][i].to)

TextInv ==
    /\ phase # "idle" => SkipsThere
    /\ InTransaction => TextSoFar /\ CreatedSoFar

-----------------------------------------------------------------------------
(* What an author wrote about a child.                                       *)

\* A table has at most one row about a fact.
OneRowEach(body) ==
    \A m, n \in Rows(body) : body[m] = 1 /\ (m.id = n.id => m = n)

BlockPatches(u, f) ==
    {i \in FactIndices(u) : Plan[u][i].scope = "block" /\ Plan[u][i].target = f}

\* A unit writes a row only in the place of the row of the same child, and leaves
\* alone what it wrote; the bodies it brings have one row for each, and none is
\* that of a fact it retires.
RowForRow ==
    \A u \in Unit :
        /\ \A f \in Fact : \A i \in BlockPatches(u, f) :
             Plan[u][i].to \in MemberRow =>
                /\ Plan[u][i].base \in MemberRow /\ Plan[u][i].base.id = Plan[u][i].to.id
                /\ \A j \in BlockPatches(u, f) \ {i} : Plan[u][j].base # Plan[u][i].to
        /\ \A i \in FactIndices(u) :
             /\ Plan[u][i].scope = "insert" => Plan[u][i].to \notin MemberRow
             /\ Plan[u][i].scope = "whole" =>
                  OneRowEach(Plan[u][i].body) /\ Plan[u][i].target \notin Retired(u)

\* The facts that are there before the unit and still there.
Staying == facts.live \intersect work.live

\* The rows no patch of the unit takes away are still there, and so are those
\* written by the patches that are skipped or come past.
RowsSoFar ==
    \A f \in Staying :
        /\ \A m \in Rows(facts.body[f]) \ {Plan[unit][i].base : i \in BlockPatches(unit, f)} :
             m \in Rows(work.body[f])
        /\ \A i \in BlockPatches(unit, f) :
             (i < next \/ i \in skip) /\ Plan[unit][i].to \in MemberRow =>
                Plan[unit][i].to \in Rows(work.body[f])

\* What the author has to say about a child is said in a row of it.
StillSaid ==
    \A f \in Staying : \A m \in Authored(unit, f) :
        m.id \in Children(work, f) =>
            \E n \in Rows(work.body[f]) : n.id = m.id /\ n.note = m.note

\* A skipped patch wrote its row before.
SkippedWritten ==
    \A f \in Fact : \A i \in BlockPatches(unit, f) \intersect skip :
        Has(facts.body[f], Plan[unit][i].to)

AuthorInv ==
    /\ \A f \in Fact : OneRowEach(facts.body[f])
    /\ phase # "idle" => SkippedWritten
    /\ InTransaction =>
         /\ \A f \in Fact : OneRowEach(work.body[f])
         /\ facts.live \ work.live \subseteq Retired(unit)
    /\ phase = "patching" => RowsSoFar
    /\ phase \in {"syncing", "reconciling"} => StillSaid

-----------------------------------------------------------------------------
(* Stores and patches.                                                       *)

\* The fields of a store.
LEMMA StoreShape ==
    ASSUME NEW s \in Store
    PROVE  /\ s.live \subseteq Fact
           /\ s.parent \in [Fact -> Fact \union {NoFact}]
           /\ s.title \in [Fact -> Title]
           /\ s.body \in [Fact -> Body]
           /\ s.edges \in [Fact -> SUBSET Fact]
           /\ s = [live |-> s.live, parent |-> s.parent, title |-> s.title,
                   body |-> s.body, edges |-> s.edges]
<1> QED  BY DEF Store

\* The patches of a unit, and their places.
LEMMA PatchOf ==
    ASSUME NEW u \in Unit, NEW i \in Patches(u)
    PROVE  /\ Plan[u][i] \in Patch
           /\ i \in Nat /\ i + 1 \in Nat
           /\ i \in FactIndices(u) => Plan[u][i].scope # "canvas"
<1> QED  BY PlanAssumption DEF Patches, FactIndices, MorphIndices

\* What a patch on a fact says.
LEMMA PatchShape ==
    ASSUME NEW p \in Patch, p.scope # "canvas"
    PROVE  /\ p.target \in Fact
           /\ p.scope \in {"block", "insert", "append", "whole", "frontmatter", "retire"}
           /\ p.scope = "block" => /\ p.base \in Block
                                   /\ p.to \in Block \union {NoBlock}
           /\ p.scope \in {"insert", "append"} => p.to \in Block
           /\ p.scope = "whole" => /\ p.parent \in Fact \union {NoFact}
                                   /\ p.title \in Title /\ p.body \in Body
           /\ p.scope = "frontmatter" => /\ p.parent \in Fact \union {NoFact}
                                         /\ p.title \in Title \union {NoTitle}
<1> QED  BY DEF Patch, Block

\* A body with one block more, or one it has less, is a body.
LEMMA BodyChanged ==
    ASSUME NEW body \in Body, NEW b \in Block
    PROVE  /\ Added(body, b) \in Body
           /\ Has(body, b) => Removed(body, b) \in Body
<1>1. body[b] \in Nat /\ body[b] + 1 \in Nat
  BY DEF Body
<1>2. Has(body, b) => body[b] - 1 \in Nat
  BY <1>1 DEF Has
<1> QED  BY <1>1, <1>2 DEF Body, Added, Removed

\* A body that a block patch lands in is a body.
LEMMA PatchedBody ==
    ASSUME NEW body \in Body, NEW p \in Patch,
           p.scope \in {"block", "insert", "append"},
           p.scope = "block" => Has(body, p.base)
    PROVE  Patched(body, p) \in Body
<1>1. /\ p.scope = "block" => /\ p.base \in Block
                              /\ p.to \in Block \union {NoBlock}
      /\ p.scope \in {"insert", "append"} => p.to \in Block
  BY PatchShape
<1>2. CASE p.scope = "block" /\ p.to = NoBlock
  BY <1>1, <1>2, BodyChanged DEF Patched
<1>3. CASE p.scope = "block" /\ p.to # NoBlock
  <2>1. Removed(body, p.base) \in Body
    BY <1>1, <1>3, BodyChanged
  <2> QED  BY <1>1, <1>3, <2>1, BodyChanged DEF Patched
<1>4. CASE p.scope \in {"insert", "append"}
  BY <1>1, <1>4, BodyChanged DEF Patched
<1> QED  BY <1>2, <1>3, <1>4

\* What a patch on t does to a store, when what t leaves is noted in left.
Effect(s, w, t, left) ==
    /\ w \in Store
    /\ \A f \in Fact \ {t} :
         /\ f \in w.live <=> f \in s.live
         /\ w.body[f] = s.body[f] /\ w.title[f] = s.title[f]
         /\ \/ w.parent[f] = s.parent[f]
            \/ t \notin w.live /\ s.parent[f] = t /\ w.parent[f] = NoFact
    /\ t \in s.live =>
         \/ s.parent[t] \in left \union {NoFact}
         \/ t \in w.live /\ w.parent[t] = s.parent[t]

\* A store with another body for a fact.
LEMMA WithBodyShape ==
    ASSUME NEW s \in Store, NEW f \in Fact, NEW body \in Body
    PROVE  /\ WithBody(s, f, body) \in Store
           /\ WithBody(s, f, body).live = s.live
           /\ WithBody(s, f, body).parent = s.parent
           /\ WithBody(s, f, body).title = s.title
           /\ WithBody(s, f, body).edges = s.edges
           /\ WithBody(s, f, body).body[f] = body
           /\ \A g \in Fact \ {f} : WithBody(s, f, body).body[g] = s.body[g]
<1>1. WithBody(s, f, body) =
        [live |-> s.live, parent |-> s.parent, title |-> s.title,
         body |-> [s.body EXCEPT ![f] = body], edges |-> s.edges]
  BY StoreShape DEF WithBody
<1>2. [s.body EXCEPT ![f] = body] \in [Fact -> Body]
  BY StoreShape
<1> QED  BY <1>1, <1>2, StoreShape DEF Store

\* A store with the edges a body declares.
LEMMA WithEdgesShape ==
    ASSUME NEW s \in Store, NEW f \in Fact
    PROVE  /\ WithEdges(s, f) \in Store
           /\ WithEdges(s, f).live = s.live
           /\ WithEdges(s, f).parent = s.parent
           /\ WithEdges(s, f).title = s.title
           /\ WithEdges(s, f).body = s.body
           /\ WithEdges(s, f).edges[f] = Cites(s.body[f]) \ {f}
           /\ \A g \in Fact \ {f} : WithEdges(s, f).edges[g] = s.edges[g]
<1> DEFINE e == Cites(s.body[f]) \ {f}
<1>1. e \in SUBSET Fact
  BY DEF Cites
<1>0. WithEdges(s, f) = [s EXCEPT !.edges[f] = e]
  BY DEF WithEdges
<1> HIDE DEF e
<1>2. WithEdges(s, f) =
        [live |-> s.live, parent |-> s.parent, title |-> s.title,
         body |-> s.body, edges |-> [s.edges EXCEPT ![f] = e]]
  BY <1>0, StoreShape
<1>3. [s.edges EXCEPT ![f] = e] \in [Fact -> SUBSET Fact]
  BY <1>1, StoreShape
<1>4. WithEdges(s, f) \in Store
  BY <1>2, <1>3, StoreShape DEF Store
<1>5. WithEdges(s, f).edges[f] = e /\ \A g \in Fact \ {f} : WithEdges(s, f).edges[g] = s.edges[g]
  BY <1>2, StoreShape
<1> QED  BY <1>2, <1>4, <1>5 DEF e

\* What a patch that lands leaves of a store, field by field.
Fields(s, w, p) ==
    LET t == p.target IN
    /\ w \in Store
    /\ p.scope \in {"block", "insert", "append"} =>
         /\ w.live = s.live /\ w.parent = s.parent /\ w.title = s.title /\ w.edges = s.edges
         /\ w.body[t] = Patched(s.body[t], p)
         /\ \A f \in Fact \ {t} : w.body[f] = s.body[f]
    /\ p.scope = "whole" =>
         /\ w.live = s.live \union {t} /\ w.edges = s.edges
         /\ w.parent[t] = p.parent /\ w.title[t] = p.title /\ w.body[t] = p.body
         /\ \A f \in Fact \ {t} : /\ w.parent[f] = s.parent[f] /\ w.title[f] = s.title[f]
                                  /\ w.body[f] = s.body[f]
    /\ p.scope = "frontmatter" =>
         /\ w.live = s.live /\ w.body = s.body /\ w.edges = s.edges
         /\ w.parent[t] = IF p.parent = NoFact THEN s.parent[t] ELSE p.parent
         /\ w.title[t] = IF p.title = NoTitle THEN s.title[t] ELSE p.title
         /\ \A f \in Fact \ {t} : w.parent[f] = s.parent[f] /\ w.title[f] = s.title[f]
    /\ p.scope = "retire" =>
         /\ w.live = s.live \ {t} /\ w.title = s.title /\ w.body[t] = Empty
         /\ \A f \in Fact \ {t} :
              /\ w.body[f] = s.body[f]
              /\ w.parent[f] = IF s.parent[f] = t THEN NoFact ELSE s.parent[f]

\* A store without a fact.
LEMMA DeletedFields ==
    ASSUME NEW s \in Store, NEW f \in Fact
    PROVE  /\ Deleted(s, f) \in Store
           /\ Deleted(s, f).live = s.live \ {f} /\ Deleted(s, f).title = s.title
           /\ Deleted(s, f).body[f] = Empty
           /\ \A g \in Fact \ {f} :
                /\ Deleted(s, f).body[g] = s.body[g]
                /\ Deleted(s, f).parent[g] = IF s.parent[g] = f THEN NoFact ELSE s.parent[g]
<1>1. Empty \in Body
  BY DEF Empty, Body
<1>2. /\ s.live \ {f} \subseteq Fact
      /\ [s.body EXCEPT ![f] = Empty] \in [Fact -> Body]
  BY <1>1, StoreShape
<1>3. [c \in Fact |-> IF c = f \/ s.parent[c] = f THEN NoFact ELSE s.parent[c]]
        \in [Fact -> Fact \union {NoFact}]
  BY StoreShape
<1>4. [c \in Fact |-> IF c = f THEN {} ELSE s.edges[c] \ {f}] \in [Fact -> SUBSET Fact]
  BY StoreShape
<1>5. Deleted(s, f) \in Store
  BY <1>2, <1>3, <1>4, StoreShape DEF Deleted, Store
<1> QED  BY <1>5, StoreShape DEF Deleted

\* A patch that can land leaves those fields.
LEMMA LandedFields ==
    ASSUME NEW s \in Store, NEW u \in Unit, NEW p \in Patch, p.scope # "canvas",
           CanLand(s, u, p)
    PROVE  Fields(s, Landed(s, p), p)
<1> DEFINE t == p.target
<1>1. t \in Fact
  BY PatchShape
<1>2. CASE p.scope \in {"block", "insert", "append"}
  <2>1. p.scope = "block" => Has(s.body[t], p.base)
    BY <1>2 DEF CanLand, Fresh
  <2>2. Patched(s.body[t], p) \in Body
    BY <1>1, <1>2, <2>1, StoreShape, PatchedBody
  <2>3. Landed(s, p) = WithBody(s, t, Patched(s.body[t], p))
    BY <1>2 DEF Landed
  <2> DEFINE b == Patched(s.body[t], p)
             w == WithBody(s, t, b)
  <2>4. /\ w \in Store
        /\ w.live = s.live /\ w.parent = s.parent /\ w.title = s.title /\ w.edges = s.edges
        /\ w.body[t] = b
        /\ \A f \in Fact \ {t} : w.body[f] = s.body[f]
    <3> HIDE DEF b, t
    <3> QED  BY <1>1, <2>2, WithBodyShape DEF b
  <2> HIDE DEF w
  <2>5. Fields(s, w, p)
    BY <1>2, <2>4 DEF Fields
  <2> QED  BY <2>3, <2>5 DEF w
<1>3. CASE p.scope = "whole"
  <2>1. /\ p.parent \in Fact \union {NoFact} /\ p.title \in Title /\ p.body \in Body
        /\ t \notin s.live
    BY <1>3, PatchShape DEF CanLand
  <2>2. Landed(s, p) = [s EXCEPT !.live = @ \union {t}, !.parent[t] = p.parent,
                                 !.title[t] = p.title, !.body[t] = p.body]
    BY <1>3 DEF Landed
  <2> DEFINE L  == s.live \union {t}
             P  == [s.parent EXCEPT ![t] = p.parent]
             T  == [s.title EXCEPT ![t] = p.title]
             B  == [s.body EXCEPT ![t] = p.body]
             w1 == [live |-> L, parent |-> s.parent, title |-> s.title,
                    body |-> s.body, edges |-> s.edges]
             w2 == [live |-> L, parent |-> P, title |-> s.title,
                    body |-> s.body, edges |-> s.edges]
             w3 == [live |-> L, parent |-> P, title |-> T, body |-> s.body, edges |-> s.edges]
             w4 == [live |-> L, parent |-> P, title |-> T, body |-> B, edges |-> s.edges]
  <2>a. Landed(s, p) = [[[[s EXCEPT !.live = L] EXCEPT !.parent = P] EXCEPT !.title = T]
                           EXCEPT !.body = B]
    BY <2>2
  <2> HIDE DEF L, P, T, B
  <2>b. [s EXCEPT !.live = L] = w1
    BY StoreShape
  <2>c. [w1 EXCEPT !.parent = P] = w2
    OBVIOUS
  <2>d. [w2 EXCEPT !.title = T] = w3
    OBVIOUS
  <2>e. [w3 EXCEPT !.body = B] = w4
    OBVIOUS
  <2>f. Landed(s, p) = w4
    <3> HIDE DEF w1, w2, w3, w4
    <3> QED  BY <2>a, <2>b, <2>c, <2>d, <2>e
  <2>3. Landed(s, p) =
          [live |-> s.live \union {t}, parent |-> [s.parent EXCEPT ![t] = p.parent],
           title |-> [s.title EXCEPT ![t] = p.title], body |-> [s.body EXCEPT ![t] = p.body],
           edges |-> s.edges]
    BY <2>f DEF L, P, T, B
  <2>4. /\ s.live \union {t} \subseteq Fact
        /\ [s.parent EXCEPT ![t] = p.parent] \in [Fact -> Fact \union {NoFact}]
        /\ [s.title EXCEPT ![t] = p.title] \in [Fact -> Title]
        /\ [s.body EXCEPT ![t] = p.body] \in [Fact -> Body]
    BY <1>1, <2>1, StoreShape
  <2>5. Landed(s, p) \in Store
    BY <2>3, <2>4, StoreShape DEF Store
  <2> HIDE DEF t
  <2> QED  BY <1>1, <1>3, <2>1, <2>3, <2>5, StoreShape DEF Fields, t
<1>4. CASE p.scope = "frontmatter"
  <2> DEFINE q == IF p.parent = NoFact THEN s.parent[t] ELSE p.parent
             n == IF p.title = NoTitle THEN s.title[t] ELSE p.title
  <2>1. q \in Fact \union {NoFact} /\ n \in Title /\ t \in s.live
    BY <1>1, <1>4, PatchShape, StoreShape DEF CanLand
  <2>2. Landed(s, p) = [s EXCEPT !.parent[t] = IF p.parent = NoFact THEN @ ELSE p.parent,
                                 !.title[t] = IF p.title = NoTitle THEN @ ELSE p.title]
    BY <1>4 DEF Landed
  <2>3. Landed(s, p) =
          [live |-> s.live, parent |-> [s.parent EXCEPT ![t] = q],
           title |-> [s.title EXCEPT ![t] = n], body |-> s.body, edges |-> s.edges]
    BY <1>1, <2>2, StoreShape
  <2> HIDE DEF q, n
  <2>5. /\ [s.parent EXCEPT ![t] = q] \in [Fact -> Fact \union {NoFact}]
        /\ [s.title EXCEPT ![t] = n] \in [Fact -> Title]
    BY <1>1, <2>1, StoreShape
  <2>6. Landed(s, p) \in Store
    BY <2>3, <2>5, StoreShape DEF Store
  <2> HIDE DEF t
  <2>7. Fields(s, Landed(s, p), p)
    BY <1>1, <1>4, <2>1, <2>3, <2>6, StoreShape DEF Fields, t, q, n
  <2> QED  BY <2>7
<1>5. CASE p.scope = "retire"
  <2>1. Landed(s, p) = Deleted(s, t)
    BY <1>5 DEF Landed
  <2> QED  BY <1>1, <1>5, <2>1, DeletedFields DEF Fields
<1> QED  BY <1>2, <1>3, <1>4, <1>5, PatchShape

\* For the tables it is enough to know whose parent, title, body or life it changes.
LEMMA LandedEffect ==
    ASSUME NEW s \in Store, NEW u \in Unit, NEW p \in Patch, p.scope # "canvas",
           CanLand(s, u, p)
    PROVE  Effect(s, Landed(s, p), p.target, ParentLeft(s, p))
<1> DEFINE t == p.target
           w == Landed(s, p)
<1>1. t \in Fact /\ s.parent[t] \in Fact \union {NoFact}
  BY PatchShape, StoreShape
<1>2. Fields(s, w, p)
  BY LandedFields
<1>3. p.scope = "whole" => t \notin s.live
  BY DEF CanLand
<1>4. CASE p.scope \in {"block", "insert", "append"}
  BY <1>1, <1>2, <1>4 DEF Fields, Effect
<1>5. CASE p.scope = "whole"
  BY <1>1, <1>2, <1>3, <1>5 DEF Fields, Effect
<1>6. CASE p.scope = "frontmatter"
  BY <1>1, <1>2, <1>6 DEF Fields, Effect, ParentLeft
<1>7. CASE p.scope = "retire"
  BY <1>1, <1>2, <1>7 DEF Fields, Effect, ParentLeft
<1> QED  BY <1>4, <1>5, <1>6, <1>7, PatchShape


-----------------------------------------------------------------------------
(* Membership tables.                                                        *)

\* What the tool makes of a table has the headings, citations and texts of the
\* body it was made of.
LEMMA RowsOnly ==
    ASSUME NEW s \in Store, NEW f \in Fact, NEW body \in ReconciledBodies(s, f)
    PROVE  /\ body \in Body
           /\ \A b \in Block \ MemberRow : body[b] = s.body[f][b]
<1>1. PICK note : body = WithRows(s, f, note)
  BY DEF ReconciledBodies
<1> DEFINE rows == {Row(s, c, note[c]) : c \in Children(s, f)}
<1>2. body = [b \in Block |-> IF b \in MemberRow THEN IF b \in rows THEN 1 ELSE 0
                              ELSE s.body[f][b]]
  BY <1>1 DEF WithRows
<1> HIDE DEF rows
<1>3. s.body[f] \in [Block -> Nat]
  BY StoreShape DEF Body
<1> QED  BY <1>2, <1>3 DEF Body

\* The table it makes has one row for each child, under the child's title.
LEMMA RowsExact ==
    ASSUME NEW s \in Store, NEW f \in Fact, NEW body \in ReconciledBodies(s, f)
    PROVE  RowsMatchChildren(WithBody(s, f, body), f)
<1> DEFINE C == Children(s, f)
           w == WithBody(s, f, body)
<1>1. PICK note \in [C -> Text] : body = WithRows(s, f, note)
  BY DEF ReconciledBodies
<1> DEFINE rows == {Row(s, c, note[c]) : c \in C}
<1>2. body = [b \in Block |-> IF b \in MemberRow THEN IF b \in rows THEN 1 ELSE 0
                              ELSE s.body[f][b]]
  BY <1>1 DEF WithRows
<1>3. C \subseteq Fact
  BY StoreShape DEF Children
<1>4. \A c \in C : /\ Row(s, c, note[c]) \in MemberRow
                   /\ Row(s, c, note[c]).id = c
                   /\ Row(s, c, note[c]).name = s.title[c]
  BY <1>3, StoreShape DEF Row, MemberRow
<1>5. MemberRow \subseteq Block
  BY DEF Block
<1>6. body \in Body
  BY RowsOnly
<1>7. /\ w.title = s.title /\ w.body[f] = body
      /\ Children(w, f) = C
  BY <1>6, WithBodyShape DEF Children
<1>8. Rows(body) = rows
  <2>1. rows \subseteq MemberRow
    BY <1>4
  <2> HIDE DEF rows
  <2> QED  BY <1>2, <1>5, <2>1 DEF Rows, Has
<1>9. \A m \in rows : body[m] = 1
  <2>1. rows \subseteq MemberRow
    BY <1>4
  <2> HIDE DEF rows
  <2> QED  BY <1>2, <1>5, <2>1
<1>10. \A m \in rows : m.id \in C /\ m.name = s.title[m.id]
  BY <1>4
<1>11. \A c \in C : \E m \in rows : m.id = c
  BY <1>4
<1>12. \A m, n \in rows : m.id = n.id => m = n
  BY <1>4
<1> HIDE DEF rows, w, C
<1>13. RowsMatchChildren(w, f)
  BY <1>7, <1>8, <1>9, <1>10, <1>11, <1>12 DEF RowsMatchChildren
<1> QED  BY <1>13 DEF w

\* Whether a table is exact hangs on nothing else than Undisturbed says.
LEMMA ExactKept ==
    ASSUME NEW s, NEW w, NEW f \in Fact, Undisturbed(s, w, f), Exact(s, f)
    PROVE  Exact(w, f)
<1> SUFFICES ASSUME KeepsMembers(w, f)
             PROVE  RowsMatchChildren(w, f)
  BY DEF Exact
<1>1. /\ f \in s.live /\ w.body[f] = s.body[f]
      /\ Children(w, f) = Children(s, f)
      /\ \A c \in Children(w, f) : w.title[c] = s.title[c]
  BY DEF Undisturbed, KeepsMembers
<1>2. RowsMatchChildren(s, f)
  BY <1>1 DEF Exact, KeepsMembers
<1> QED  BY <1>1, <1>2 DEF RowsMatchChildren

\* What a patch disturbs is listed.
LEMMA PatchLists ==
    ASSUME NEW s0 \in Store, NEW s \in Store, NEW w, NEW t \in Fact, NEW left,
           Effect(s, w, t, left),
           NEW noted \in SUBSET Fact, NEW changed \in SUBSET Fact,
           NEW f \in Fact \ ListedIn(w, noted \union left, changed \union {t}),
           f \notin ListedIn(s, noted, changed) => Undisturbed(s0, s, f)
    PROVE  Undisturbed(s0, w, f)
<1>0. NoFact \notin Fact
  BY NamesAssumption
<1>1. /\ f # t /\ f \notin left /\ f \notin noted /\ f \notin changed
      /\ \A g \in (changed \union {t}) \intersect w.live : w.parent[g] # f
  BY DEF ListedIn
<1>2. w \in Store
  BY DEF Effect
<1>3. \A g \in Fact \ {t} :
        /\ g \in w.live <=> g \in s.live
        /\ w.body[g] = s.body[g] /\ w.title[g] = s.title[g]
        /\ w.parent[g] = f <=> s.parent[g] = f
  BY <1>0, <1>1 DEF Effect
<1>4. /\ t \in s.live => s.parent[t] # f
      /\ t \in w.live => w.parent[t] # f
  BY <1>0, <1>1 DEF Effect
<1>5. f \notin ListedIn(s, noted, changed)
  BY <1>1, <1>3, <1>4 DEF ListedIn
<1>6. w.live \subseteq Fact /\ s.live \subseteq Fact
  BY <1>2, StoreShape
<1>7. Children(w, f) = Children(s, f) /\ t \notin Children(w, f)
  BY <1>3, <1>4, <1>6 DEF Children
<1>8. \A c \in Children(w, f) : w.title[c] = s.title[c]
  BY <1>3, <1>6, <1>7 DEF Children
<1> QED  BY <1>1, <1>3, <1>5, <1>7, <1>8 DEF Undisturbed

\* Reconciling a table changes no citation and no heading.
LEMMA SameCites ==
    ASSUME work \in Store, NEW g \in Fact, ReconcileOne(g)
    PROVE  /\ work'.live = work.live /\ work'.parent = work.parent /\ work'.edges = work.edges
           /\ work'.title = work.title
           /\ \A f \in Fact \ {g} : work'.body[f] = work.body[f]
           /\ \A f \in Fact : Cites(work'.body[f]) = Cites(work.body[f])
<1>1. CASE ~KeepsMembers(work, g) /\ work' = work
  BY <1>1
<1>2. CASE \E body \in ReconciledBodies(work, g) : work' = WithBody(work, g, body)
  <2>1. PICK body \in ReconciledBodies(work, g) : work' = WithBody(work, g, body)
    BY <1>2
  <2>2. /\ body \in Body
        /\ \A b \in Block \ MemberRow : body[b] = work.body[g][b]
    BY <2>1, RowsOnly
  <2>3. /\ work'.live = work.live /\ work'.parent = work.parent /\ work'.edges = work.edges
        /\ work'.title = work.title /\ work'.body[g] = body
        /\ \A f \in Fact \ {g} : work'.body[f] = work.body[f]
    BY <2>1, <2>2, WithBodyShape
  <2>4. \A r \in Fact : [kind |-> "cite", ref |-> r] \in Block \ MemberRow
    BY DEF Block, CiteRow, MemberRow
  <2>5. Cites(body) = Cites(work.body[g])
    BY <2>2, <2>4 DEF Cites, Has
  <2> QED  BY <2>3, <2>5
<1> QED  BY <1>1, <1>2 DEF ReconcileOne

-----------------------------------------------------------------------------
(* The types and the canvas files.                                           *)

\* Among finitely many places there is a last one.
LEMMA LastOne ==
    ASSUME NEW n \in Nat, NEW T \in SUBSET (1..n), T # {}
    PROVE  \E i \in T : \A j \in T : j <= i
<1> DEFINE Less == {ss \in Nat \X Nat : ss[1] < ss[2]}
           U == {n - i : i \in T}
<1>1. IsWellFoundedOn(Less, Nat)
  BY NatLessThanWellFounded, Zenon DEF OpToRel
<1>2. U \in SUBSET Nat /\ U # {}
  <2>1. \A i \in T : n - i \in Nat
    OBVIOUS
  <2> QED  BY <2>1
<1>3. PICK x \in U : \A y \in U : ~ (<<y, x>> \in Less)
  <2> HIDE DEF Less, U
  <2> QED  BY <1>1, <1>2, WFMin, Zenon
<1>4. PICK i \in T : x = n - i
  OBVIOUS
<1>5. ASSUME NEW j \in T
      PROVE  j <= i
  <2>1. n - j \in U /\ n - j \in Nat
    OBVIOUS
  <2>2. ~(n - j < x)
    BY <1>2, <1>3, <2>1
  <2> QED  BY <1>4, <2>2
<1> QED  BY <1>5

\* Reshaped canvases are canvases.
LEMMA ReshapedShape ==
    ASSUME NEW cs \in [Type -> Shape], NEW u \in Unit
    PROVE  Reshaped(cs, u) \in [Type -> Shape]
<1> DEFINE of(t) == {i \in MorphIndices(u) : Plan[u][i].type = t}
           last(t) == CHOOSE i \in of(t) : \A j \in of(t) : j <= i
<1>1. ASSUME NEW t \in Type, of(t) # {}
      PROVE  Plan[u][last(t)].shape \in Shape
  <2>1. /\ Plan[u] \in Seq(Patch) /\ Len(Plan[u]) \in Nat
        /\ of(t) \in SUBSET (1..Len(Plan[u]))
    BY PlanAssumption DEF MorphIndices, Patches
  <2>2. \E i \in of(t) : \A j \in of(t) : j <= i
    <3> HIDE DEF of
    <3> QED  BY <1>1, <2>1, LastOne
  <2>3. last(t) \in of(t)
    BY <2>2
  <2> HIDE DEF last
  <2>4. /\ last(t) \in DOMAIN Plan[u] /\ Plan[u][last(t)].scope = "canvas"
    BY <2>3 DEF MorphIndices, Patches
  <2>5. Plan[u][last(t)] \in Patch
    <3> HIDE DEF of
    <3> QED  BY <2>1, <2>4
  <2> QED  BY <2>4, <2>5 DEF Patch
<1>2. Reshaped(cs, u) = [t \in Type |-> IF of(t) = {} THEN cs[t] ELSE Plan[u][last(t)].shape]
  BY DEF Reshaped
<1> HIDE DEF of, last
<1> QED  BY <1>1, <1>2

\* It all begins with its types.
LEMMA TypesBegin == Init => ChangeTypeOK
<1> SUFFICES ASSUME Init PROVE ChangeTypeOK
  OBVIOUS
<1>1. Genesis \in Store /\ Genesis.body \in [Fact -> Body]
  BY GenesisAssumption, StoreShape
<1> QED  BY <1>1, GenesisAssumption DEF Init, ChangeTypeOK

\* What every patch of a unit that lands does, noted as changeset.Apply notes it.
LEMMA ApplyOneLands ==
    ASSUME ChangeTypeOK, ApplyOne
    PROVE  LET p == Plan[unit][next]
           IN  /\ unit \in Unit /\ next \in FactIndices(unit) \ skip
               /\ p \in Patch /\ p.scope # "canvas" /\ p.target \in Fact
               /\ CanLand(work, unit, p)
               /\ work' = Landed(work, p)
               /\ Effect(work, work', p.target, ParentLeft(work, p))
               /\ affected' = affected \union ParentLeft(work, p)
               /\ ParentLeft(work, p) \subseteq Fact
               /\ touched' = touched \union {p.target}
               /\ next' = next + 1
<1> DEFINE p == Plan[unit][next]
<1>1. unit \in Unit /\ next \in FactIndices(unit) \ skip /\ work \in Store
  BY DEF ApplyOne, ChangeTypeOK
<1>2. next \in Patches(unit)
  BY <1>1 DEF FactIndices
<1>3. p \in Patch /\ p.scope # "canvas"
  BY <1>1, <1>2, PatchOf
<1>4. p.target \in Fact
  BY <1>3, PatchShape
<1>5. /\ CanLand(work, unit, p)
      /\ work' = Landed(work, p)
      /\ affected' = affected \union ParentLeft(work, p)
      /\ touched' = touched \union {p.target}
      /\ next' = next + 1
  BY DEF ApplyOne
<1> HIDE DEF p
<1>6. Effect(work, Landed(work, p), p.target, ParentLeft(work, p))
  BY <1>1, <1>3, <1>5, LandedEffect
<1>7. ParentLeft(work, p) \subseteq Fact
  BY <1>1, <1>4, StoreShape DEF ParentLeft
<1>8. /\ p \in Patch /\ p.scope # "canvas" /\ p.target \in Fact
      /\ CanLand(work, unit, p)
      /\ work' = Landed(work, p)
      /\ Effect(work, work', p.target, ParentLeft(work, p))
      /\ affected' = affected \union ParentLeft(work, p)
      /\ ParentLeft(work, p) \subseteq Fact
      /\ touched' = touched \union {p.target}
      /\ next' = next + 1
  BY <1>3, <1>4, <1>5, <1>6, <1>7
<1> QED  BY <1>1, <1>8 DEF p

\* How a run ends.
LEMMA EndKeepsTypes ==
    ASSUME ChangeTypeOK, NEW why \in {"rejected", "dry", "failed", "applied"}, EndRun(why),
           facts' \in Store, canvas' \in [Type -> Shape],
           seen' = seen, runs' \in Nat
    PROVE  ChangeTypeOK'
<1>1. /\ phase' = "idle" /\ verdict' = why /\ preview' = FALSE /\ work' = facts'
      /\ backup' = canvas' /\ next' = 1 /\ touched' = {} /\ affected' = {} /\ todo' = {}
  BY DEF EndRun
<1> QED  BY <1>1 DEF ChangeTypeOK

\* Every step keeps the types.
LEMMA TypesKept == ChangeTypeOK /\ [Next]_vars => ChangeTypeOK'
<1> SUFFICES ASSUME ChangeTypeOK, [Next]_vars
             PROVE  ChangeTypeOK'
  OBVIOUS
<1>1. ASSUME NEW u \in Unit, Draft(u) PROVE ChangeTypeOK'
  <2>1. facts.body \in [Fact -> Body]
    BY StoreShape DEF ChangeTypeOK
  <2> DEFINE cited == [f \in Fact |-> IF f \in Anchored(u) THEN facts.body[f] ELSE seen[u][f]]
  <2>2. cited \in [Fact -> Body]
    BY <2>1 DEF ChangeTypeOK
  <2>3. seen' = [seen EXCEPT ![u] = cited]
    BY <1>1 DEF Draft
  <2> HIDE DEF cited
  <2>4. seen' \in [Unit -> [Fact -> Body]]
    BY <2>2, <2>3 DEF ChangeTypeOK
  <2> QED  BY <1>1, <2>4 DEF Draft, ChangeTypeOK, txVars
<1>2. ASSUME NEW u \in Unit, Reject(u) PROVE ChangeTypeOK'
  <2>1. EndRun("rejected") /\ facts' \in Store /\ canvas' \in [Type -> Shape]
        /\ seen' = seen /\ runs' \in Nat
    BY <1>2 DEF Reject, ChangeTypeOK
  <2> QED  BY <2>1, EndKeepsTypes
<1>3. ASSUME NEW u \in Unit, Begin(u) PROVE ChangeTypeOK'
  BY <1>3 DEF Begin, OpenTransaction, NeedsPreview, ChangeTypeOK
<1>4. CASE SkipPatch
  BY <1>4, PatchOf DEF SkipPatch, ChangeTypeOK
<1>5. CASE ApplyOne
  <2> DEFINE p == Plan[unit][next]
  <2>1. /\ p.target \in Fact /\ ParentLeft(work, p) \subseteq Fact
        /\ affected' = affected \union ParentLeft(work, p)
        /\ touched' = touched \union {p.target}
        /\ next' = next + 1
        /\ Effect(work, work', p.target, ParentLeft(work, p))
    BY <1>5, ApplyOneLands
  <2> HIDE DEF p
  <2>2. work' \in Store
    BY <2>1 DEF Effect
  <2> QED  BY <1>5, <2>1, <2>2 DEF ApplyOne, ChangeTypeOK
<1>6. CASE StartSync
  <2>1. \A f \in touched \intersect work.live : work.parent[f] \in Fact \union {NoFact}
    BY StoreShape DEF ChangeTypeOK
  <2> QED  BY <1>6, <2>1 DEF StartSync, ChangeTypeOK
<1>7. ASSUME NEW f \in Fact, SyncOne(f) PROVE ChangeTypeOK'
  <2>1. work' \in Store
    BY <1>7, WithEdgesShape DEF SyncOne, ChangeTypeOK
  <2> QED  BY <1>7, <2>1 DEF SyncOne, ChangeTypeOK
<1>8. CASE StartReconcile
  BY <1>8 DEF StartReconcile, ChangeTypeOK
<1>9. ASSUME NEW f \in Fact, ReconcileOne(f) PROVE ChangeTypeOK'
  <2>1. work' \in Store
    <3>1. CASE work' = work
      BY <3>1 DEF ChangeTypeOK
    <3>2. CASE \E body \in ReconciledBodies(work, f) : work' = WithBody(work, f, body)
      BY <3>2, RowsOnly, WithBodyShape DEF ChangeTypeOK
    <3> QED  BY <1>9, <3>1, <3>2 DEF ReconcileOne
  <2> QED  BY <1>9, <2>1 DEF ReconcileOne, ChangeTypeOK
<1>10. CASE GatesReject \/ DryRun \/ CanvasWriteFails
  <2>1. EndRun("rejected") \/ EndRun("dry") \/ EndRun("failed")
    BY <1>10 DEF GatesReject, DryRun, CanvasWriteFails
  <2>2. /\ facts' \in Store /\ canvas' \in [Type -> Shape]
        /\ seen' = seen /\ runs' \in Nat
    BY <1>10 DEF GatesReject, DryRun, CanvasWriteFails, ChangeTypeOK
  <2> QED  BY <2>1, <2>2, EndKeepsTypes
<1>11. CASE GatesPass \/ PreviewFails \/ RollBack
  <2>1. phase # "idle" /\ phase' \in {"gated", "restoring"}
    BY <1>11 DEF GatesPass, PreviewDone, PreviewFails, ApplyFails, RollBack
  <2>2. UNCHANGED <<facts, canvas, seen, unit, preview, work, next, touched, affected,
                    todo, backup, verdict, runs>>
    BY <1>11 DEF GatesPass, PreviewFails, RollBack, txVars
  <2> QED  BY <2>1, <2>2 DEF ChangeTypeOK
<1>12. CASE WriteCanvases
  <2>1. unit \in Unit
    BY <1>12 DEF WriteCanvases, ChangeTypeOK
  <2>2. Reshaped(canvas, unit) \in [Type -> Shape]
    BY <2>1, ReshapedShape DEF ChangeTypeOK
  <2> QED  BY <1>12, <2>2 DEF WriteCanvases, OpenTransaction, ChangeTypeOK
<1>13. CASE Commit
  <2>1. EndRun("applied") /\ facts' \in Store /\ canvas' \in [Type -> Shape]
        /\ seen' = seen /\ runs' \in Nat
    BY <1>13 DEF Commit, ChangeTypeOK
  <2> QED  BY <2>1, EndKeepsTypes
<1>14. CASE Restore
  <2>1. EndRun("failed") /\ facts' \in Store /\ canvas' \in [Type -> Shape]
        /\ seen' = seen /\ runs' \in Nat
    BY <1>14 DEF Restore, ChangeTypeOK
  <2> QED  BY <2>1, EndKeepsTypes
<1>15. CASE UNCHANGED vars
  BY <1>15 DEF vars, txVars, ChangeTypeOK
<1> QED
  BY <1>1, <1>2, <1>3, <1>4, <1>5, <1>6, <1>7, <1>8, <1>9, <1>10, <1>11, <1>12, <1>13, <1>14,
     <1>15 DEF Next, RunStep, Finished

\* Every step keeps the unit's canvases on disk while they belong there.
LEMMA CanvasesKept ==
    ASSUME ChangeTypeOK, CanvasesOnDisk, [Next]_vars
    PROVE  CanvasesOnDisk'
<1> USE DEF InTransaction
<1>1. CASE \E u \in Unit : Draft(u)
  BY <1>1 DEF Draft, CanvasesOnDisk
<1>2. CASE \/ \E u \in Unit : Reject(u)
           \/ GatesReject \/ DryRun \/ CanvasWriteFails \/ Commit \/ Restore
  <2>1. \E why : EndRun(why)
    BY <1>2 DEF Reject, GatesReject, DryRun, CanvasWriteFails, Commit, Restore
  <2>2. phase' = "idle" /\ backup' = canvas'
    BY <2>1 DEF EndRun
  <2> QED  BY <2>2 DEF CanvasesOnDisk
<1>3. CASE \E u \in Unit : Begin(u)
  BY <1>3 DEF Begin, CanvasesOnDisk, ChangeTypeOK
<1>4. CASE SkipPatch \/ ApplyOne
  BY <1>4 DEF SkipPatch, ApplyOne, CanvasesOnDisk
<1>5. CASE StartSync \/ StartReconcile \/ \E f \in Fact : SyncOne(f) \/ ReconcileOne(f)
  BY <1>5 DEF StartSync, StartReconcile, SyncOne, ReconcileOne, CanvasesOnDisk
<1>6. CASE GatesPass \/ PreviewFails
  BY <1>6 DEF GatesPass, PreviewFails, PreviewDone, ApplyFails, CanvasesOnDisk
<1>7. CASE WriteCanvases
  BY <1>7 DEF WriteCanvases, CanvasesOnDisk
<1>8. CASE RollBack
  BY <1>8 DEF RollBack, CanvasesOnDisk
<1>9. CASE UNCHANGED vars
  BY <1>9 DEF vars, CanvasesOnDisk
<1> QED
  BY <1>1, <1>2, <1>3, <1>4, <1>5, <1>6, <1>7, <1>8, <1>9 DEF Next, RunStep, Finished

\* Only a commit ends a run as applied; it puts the transaction's store in the
\* place of the facts, and every other end leaves facts and canvases as they were.
LEMMA HowARunEnds ==
    ASSUME ChangeTypeOK, CanvasesOnDisk, Next, phase # "idle", phase' = "idle"
    PROVE  \/ Commit /\ verdict' = "applied" /\ canvas' = Reshaped(backup, unit)
           \/ verdict' # "applied" /\ facts' = facts /\ canvas' = backup
<1> USE DEF InTransaction
<1>1. \/ GatesReject \/ DryRun \/ CanvasWriteFails \/ Commit \/ Restore
  BY DEF Next, RunStep, Finished, Draft, Reject, Begin, SkipPatch, ApplyOne, StartSync,
         StartReconcile, SyncOne, ReconcileOne, GatesPass, PreviewFails, WriteCanvases,
         RollBack, vars
<1>2. CASE GatesReject
  BY <1>2 DEF GatesReject, PreviewDone, EndRun, CanvasesOnDisk
<1>3. CASE DryRun \/ CanvasWriteFails
  BY <1>3 DEF DryRun, CanvasWriteFails, EndRun, CanvasesOnDisk
<1>4. CASE Commit
  BY <1>4 DEF Commit, EndRun, CanvasesOnDisk
<1>5. CASE Restore
  BY <1>5 DEF Restore, EndRun
<1> QED  BY <1>1, <1>2, <1>3, <1>4, <1>5

\* Every variable keeps its type, and the canvas files on disk are those of the
\* unit exactly while its transaction runs or is being undone.
THEOREM ChangeTypes == Spec => [](ChangeTypeOK /\ CanvasesOnDisk)
<1>1. Init => CanvasesOnDisk
  BY DEF Init, CanvasesOnDisk, InTransaction
<1>2. ChangeTypeOK /\ CanvasesOnDisk /\ [Next]_vars => (ChangeTypeOK /\ CanvasesOnDisk)'
  BY TypesKept, CanvasesKept
<1> QED  BY <1>1, <1>2, TypesBegin, PTL DEF Spec

\* A run that does not say it applied its unit changed nothing, in the store or
\* in the canvas files; one that does has the unit's canvases in place (applyCanvas-
\* Morphs, restoreCanvases, Store.WithTx): the half of AllOrNothing that holds of
\* every plan.
THEOREM NothingByHalves == Spec => NothingElse
<1>1. ChangeTypeOK /\ CanvasesOnDisk /\ [Next]_vars =>
        (phase # "idle" /\ phase' = "idle" =>
           /\ verdict' = "applied" => canvas' = Reshaped(backup, unit)
           /\ verdict' # "applied" => facts' = facts /\ canvas' = backup)
  <2> SUFFICES ASSUME ChangeTypeOK, CanvasesOnDisk, [Next]_vars, phase # "idle", phase' = "idle"
               PROVE  /\ verdict' = "applied" => canvas' = Reshaped(backup, unit)
                      /\ verdict' # "applied" => facts' = facts /\ canvas' = backup
    OBVIOUS
  <2>1. Next
    BY DEF vars
  <2> QED  BY <2>1, HowARunEnds
<1> QED  BY <1>1, ChangeTypes, PTL DEF Spec, NothingElse

-----------------------------------------------------------------------------
(* Membership writes itself.                                                 *)

\* When the transaction opens there is nothing it has disturbed.
LEMMA TablesUndisturbed ==
    ASSUME ChangeTypeOK, OpenTransaction, facts' = facts
    PROVE  \A f \in Fact : Undisturbed(facts', work', f)
BY DEF OpenTransaction, Undisturbed

\* Outside of a transaction only the facts matter.
LEMMA TablesAtRest ==
    ASSUME phase' \notin {"patching", "syncing", "reconciling"},
           facts' = facts, MembershipExact
    PROVE  /\ UnlistedStay' /\ AllNoted' /\ VisitedExact' /\ MembershipExact'
BY DEF UnlistedStay, InTransaction, AllNoted, VisitedExact, MembershipExact

\* Every patch notes the parents whose tables it disturbs.
LEMMA ApplyOneTables ==
    ASSUME TableInv, ApplyOne
    PROVE  /\ UnlistedStay' /\ AllNoted' /\ VisitedExact' /\ MembershipExact'
<1> DEFINE p == Plan[unit][next]
<1>1. /\ p.target \in Fact /\ ParentLeft(work, p) \subseteq Fact
      /\ affected' = affected \union ParentLeft(work, p)
      /\ touched' = touched \union {p.target}
      /\ Effect(work, work', p.target, ParentLeft(work, p))
  BY ApplyOneLands DEF TableInv
<1> HIDE DEF p
<1>2. phase = "patching" /\ phase' = "patching" /\ facts' = facts
  BY DEF ApplyOne
<1>3. ASSUME NEW f \in Fact \ Listed'
      PROVE  Undisturbed(facts, work', f)
  <2>1. f \notin ListedIn(work, affected, touched) => Undisturbed(facts, work, f)
    BY <1>2 DEF TableInv, UnlistedStay, InTransaction, Listed
  <2>2. f \in Fact \ ListedIn(work', affected \union ParentLeft(work, p), touched \union {p.target})
    BY <1>1, <1>3 DEF Listed
  <2>3. /\ facts \in Store /\ work \in Store
        /\ affected \in SUBSET Fact /\ touched \in SUBSET Fact
    BY DEF TableInv, ChangeTypeOK
  <2> QED  BY <1>1, <2>1, <2>2, <2>3, PatchLists
<1> QED
  BY <1>2, <1>3 DEF UnlistedStay, AllNoted, VisitedExact, MembershipExact, TableInv

\* The parents the touched facts have now are noted last.
LEMMA StartSyncTables ==
    ASSUME TableInv, StartSync
    PROVE  /\ UnlistedStay' /\ AllNoted' /\ VisitedExact' /\ MembershipExact'
<1>1. /\ phase = "patching" /\ phase' = "syncing" /\ facts' = facts /\ work' = work
      /\ touched' = touched
      /\ affected' = affected \union touched
                      \union ({work.parent[f] : f \in touched \intersect work.live} \ {NoFact})
  BY DEF StartSync
<1>2. Listed \ {NoFact} \subseteq affected'
  BY <1>1 DEF Listed, ListedIn
<1>3. Listed \subseteq Listed'
  BY <1>1 DEF Listed, ListedIn
<1>4. Listed' \ {NoFact} \subseteq affected'
  BY <1>1 DEF Listed, ListedIn
<1>5. UnlistedStay'
  BY <1>1, <1>3 DEF TableInv, UnlistedStay, InTransaction
<1>6. AllNoted'
  BY <1>4, NamesAssumption DEF AllNoted
<1> QED  BY <1>1, <1>5, <1>6 DEF TableInv, VisitedExact, MembershipExact

\* Edges are nothing to a table.
LEMMA SyncOneTables ==
    ASSUME TableInv, NEW g \in Fact, SyncOne(g)
    PROVE  /\ UnlistedStay' /\ AllNoted' /\ VisitedExact' /\ MembershipExact'
<1>1. /\ phase = "syncing" /\ phase' = "syncing" /\ facts' = facts
      /\ touched' = touched /\ affected' = affected
  BY DEF SyncOne
<1>2. work'.live = work.live /\ work'.parent = work.parent /\ work'.title = work.title
      /\ work'.body = work.body
  BY WithEdgesShape DEF SyncOne, TableInv, ChangeTypeOK
<1>3. Listed' = Listed
  BY <1>1, <1>2 DEF Listed, ListedIn
<1>4. \A f \in Fact : Undisturbed(facts, work, f) => Undisturbed(facts, work', f)
  BY <1>2 DEF Undisturbed, Children
<1> QED
  BY <1>1, <1>3, <1>4 DEF TableInv, UnlistedStay, InTransaction, AllNoted, VisitedExact,
     MembershipExact

\* Reconciling starts with every noted table still to visit.
LEMMA StartReconcileTables ==
    ASSUME TableInv, StartReconcile
    PROVE  /\ UnlistedStay' /\ AllNoted' /\ VisitedExact' /\ MembershipExact'
<1>1. /\ phase = "syncing" /\ phase' = "reconciling" /\ facts' = facts /\ work' = work
      /\ touched' = touched /\ affected' = affected /\ todo' = affected
  BY DEF StartReconcile
<1>2. Listed' = Listed
  BY <1>1 DEF Listed, ListedIn
<1> QED
  BY <1>1, <1>2 DEF TableInv, UnlistedStay, InTransaction, AllNoted, VisitedExact,
     MembershipExact

\* A visited table is exact and stays so while the others are visited.
LEMMA ReconcileOneTables ==
    ASSUME TableInv, NEW g \in Fact, ReconcileOne(g)
    PROVE  /\ UnlistedStay' /\ AllNoted' /\ VisitedExact' /\ MembershipExact'
<1>1. /\ phase = "reconciling" /\ phase' = "reconciling" /\ facts' = facts
      /\ touched' = touched /\ affected' = affected /\ todo' = todo \ {g} /\ g \in todo
      /\ todo \subseteq affected
  BY DEF ReconcileOne, TableInv, VisitedExact
<1>2. work \in Store
  BY DEF TableInv, ChangeTypeOK
<1>3. /\ work'.live = work.live /\ work'.parent = work.parent /\ work'.title = work.title
      /\ \A f \in Fact \ {g} : work'.body[f] = work.body[f]
  BY <1>2, RowsOnly, WithBodyShape DEF ReconcileOne
<1>4. Exact(work', g)
  <2>1. CASE ~KeepsMembers(work, g) /\ work' = work
    BY <2>1 DEF Exact
  <2>2. CASE \E body \in ReconciledBodies(work, g) : work' = WithBody(work, g, body)
    BY <1>2, <2>2, RowsExact DEF Exact
  <2> QED  BY <2>1, <2>2 DEF ReconcileOne
<1>5. \A f \in Fact \ {g} : Undisturbed(work, work', f)
  BY <1>3 DEF Undisturbed, Children
<1>6. \A f \in affected \ todo : Exact(work', f)
  <2>1. \A f \in affected \ todo : f \in Fact \ {g} /\ Exact(work, f)
    BY <1>1 DEF TableInv, VisitedExact, ChangeTypeOK
  <2> QED  BY <1>5, <2>1, ExactKept
<1>7. VisitedExact'
  BY <1>1, <1>4, <1>6 DEF VisitedExact
<1>8. Listed' = Listed /\ g \in Listed
  BY <1>1, <1>3 DEF Listed, ListedIn
<1>9. \A f \in Fact \ {g} : Undisturbed(facts, work, f) => Undisturbed(facts, work', f)
  BY <1>3 DEF Undisturbed, Children
<1>10. UnlistedStay'
  BY <1>1, <1>8, <1>9 DEF TableInv, UnlistedStay, InTransaction
<1> QED
  BY <1>1, <1>7, <1>8, <1>10 DEF TableInv, AllNoted, MembershipExact

\* What is committed has every table exact: those visited because they were, the
\* others because nothing disturbed them.
LEMMA CommitTables ==
    ASSUME TableInv, Commit
    PROVE  MembershipExact'
<1>1. phase = "reconciling" /\ todo = {} /\ facts' = work
  BY DEF Commit
<1>2. ASSUME NEW f \in Fact
      PROVE  Exact(work, f)
  <2>1. CASE f \in affected
    BY <1>1, <2>1 DEF TableInv, VisitedExact
  <2>2. CASE f \notin affected
    <3>1. Undisturbed(facts, work, f)
      BY <1>1, <2>2 DEF TableInv, AllNoted, UnlistedStay, InTransaction
    <3>2. Exact(facts, f)
      BY DEF TableInv, MembershipExact, Exact
    <3> QED  BY <3>1, <3>2, ExactKept
  <2> QED  BY <2>1, <2>2
<1> QED  BY <1>1, <1>2 DEF MembershipExact, Exact

\* Every step keeps the tables exact.
LEMMA TablesKept == TableInv /\ [Next]_vars => TableInv'
<1> SUFFICES ASSUME TableInv, [Next]_vars
             PROVE  UnlistedStay' /\ AllNoted' /\ VisitedExact' /\ MembershipExact'
  BY TypesKept DEF TableInv
<1>0. ChangeTypeOK /\ MembershipExact
  BY DEF TableInv
<1>1. CASE \/ \E u \in Unit : Draft(u) \/ Reject(u)
           \/ GatesReject \/ GatesPass \/ PreviewFails \/ DryRun \/ CanvasWriteFails
           \/ RollBack \/ Restore
  <2>1. facts' = facts
    BY <1>1 DEF Draft, Reject, GatesReject, GatesPass, PreviewFails, DryRun,
       CanvasWriteFails, RollBack, Restore
  <2>2. phase' \notin {"patching", "syncing", "reconciling"}
    BY <1>1 DEF Draft, Reject, GatesReject, GatesPass, PreviewFails, DryRun,
       CanvasWriteFails, RollBack, Restore, EndRun
  <2> QED  BY <1>0, <2>1, <2>2, TablesAtRest
<1>2. CASE WriteCanvases \/ \E u \in Unit : Begin(u)
  <2>1. OpenTransaction /\ facts' = facts /\ phase' \in {"patching", "gated"}
    BY <1>2 DEF WriteCanvases, Begin
  <2>2. \A f \in Fact : Undisturbed(facts', work', f)
    BY <1>0, <2>1, TablesUndisturbed
  <2> QED  BY <1>0, <2>1, <2>2 DEF UnlistedStay, AllNoted, VisitedExact, MembershipExact
<1>3. CASE SkipPatch
  <2>1. UNCHANGED <<facts, phase, work, touched, affected, todo>>
    BY <1>3 DEF SkipPatch
  <2>2. Listed' = Listed
    BY <2>1 DEF Listed, ListedIn
  <2> QED
    BY <2>1, <2>2 DEF TableInv, UnlistedStay, InTransaction, AllNoted, VisitedExact, MembershipExact
<1>4. CASE ApplyOne
  BY <1>4, ApplyOneTables
<1>5. CASE StartSync
  BY <1>5, StartSyncTables
<1>6. CASE StartReconcile
  BY <1>6, StartReconcileTables
<1>7. CASE \E f \in Fact : SyncOne(f)
  BY <1>7, SyncOneTables
<1>8. CASE \E f \in Fact : ReconcileOne(f)
  BY <1>8, ReconcileOneTables
<1>9. CASE Commit
  <2>1. phase' = "idle"
    BY <1>9 DEF Commit, EndRun
  <2>2. MembershipExact'
    BY <1>9, CommitTables
  <2> QED  BY <2>1, <2>2 DEF UnlistedStay, InTransaction, AllNoted, VisitedExact
<1>10. CASE UNCHANGED vars
  <2>1. UNCHANGED <<facts, phase, work, touched, affected, todo>>
    BY <1>10 DEF vars, txVars
  <2>2. Listed' = Listed
    BY <2>1 DEF Listed, ListedIn
  <2> QED
    BY <2>1, <2>2 DEF TableInv, UnlistedStay, InTransaction, AllNoted, VisitedExact, MembershipExact
<1> QED
  BY <1>1, <1>2, <1>3, <1>4, <1>5, <1>6, <1>7, <1>8, <1>9, <1>10 DEF Next, RunStep, Finished

\* Where the facts to begin with have exact tables, every table is exact outside a
\* run, whatever the units say and wherever their runs end (MembershipExact: the
\* membership hook of changeset.Apply).
THEOREM TablesExact ==
    ASSUME \A f \in Fact : Exact(Genesis, f)
    PROVE  Spec => []MembershipExact
<1>1. Init => TableInv
  BY TypesBegin DEF Init, TableInv, UnlistedStay, InTransaction, AllNoted, VisitedExact,
     MembershipExact, Exact
<1>2. TableInv => MembershipExact
  BY DEF TableInv
<1> QED  BY <1>1, <1>2, TablesKept, PTL DEF Spec

-----------------------------------------------------------------------------
(* The graph never strands, in plans that retire nothing.                    *)

\* A patch of such a plan only adds to the store.
LEMMA PatchAdds ==
    ASSUME OnlyAdds, ChangeTypeOK, ApplyOne
    PROVE  LET t == Plan[unit][next].target
           IN  /\ work.live \subseteq work'.live /\ work'.live \subseteq work.live \union {t}
               /\ work'.edges = work.edges
               /\ \A f \in Fact \ {t} : /\ work'.parent[f] = work.parent[f]
                                        /\ work'.body[f] = work.body[f]
               /\ t \in work'.live /\ Child(t) =>
                    \/ t \in work.live /\ work'.parent[t] = work.parent[t]
                    \/ work'.parent[t] \in work.live /\ Fits(t, work'.parent[t])
<1> DEFINE p == Plan[unit][next]
<1>1. /\ unit \in Unit /\ next \in FactIndices(unit)
      /\ p \in Patch /\ p.scope # "canvas" /\ p.target \in Fact
      /\ CanLand(work, unit, p)
      /\ work' = Landed(work, p)
      /\ work \in Store
  BY ApplyOneLands DEF ChangeTypeOK
<1>2. /\ p.scope # "retire"
      /\ p.scope \in {"whole", "frontmatter"} /\ Child(p.target) =>
           /\ p.parent # NoFact => Fits(p.target, p.parent)
           /\ p.scope = "whole" => p.parent # NoFact
  BY <1>1 DEF OnlyAdds
<1> HIDE DEF p
<1>3. Fields(work, work', p)
  BY <1>1, LandedFields
<1>4. p.scope \in {"whole", "frontmatter"} => p.parent \in work.live \union {NoFact}
  BY <1>1 DEF CanLand
<1>5. p.scope = "frontmatter" => p.target \in work.live
  BY <1>1 DEF CanLand
<1>6. CASE p.scope \in {"block", "insert", "append"}
  BY <1>3, <1>6 DEF Fields, p
<1>7. CASE p.scope = "whole"
  BY <1>1, <1>2, <1>3, <1>4, <1>7 DEF Fields, p
<1>8. CASE p.scope = "frontmatter"
  BY <1>1, <1>2, <1>3, <1>4, <1>5, <1>8 DEF Fields, p
<1> QED  BY <1>1, <1>2, <1>6, <1>7, <1>8, PatchShape

\* What has been linked stays so while nothing it depends on changes.
LEMMA LinkedStays ==
    ASSUME NEW s, NEW w, NEW f, s.live \subseteq w.live, Linked(s, f),
           Cites(w.body[f]) = Cites(s.body[f]), w.edges[f] = s.edges[f]
    PROVE  Linked(w, f)
BY DEF Linked

\* Every step keeps the links.
LEMMA LinksKept ==
    ASSUME OnlyAdds, ChangeTypeOK, LinksInv, [Next]_vars
    PROVE  LinksInv'
<1> USE DEF InTransaction
<1>0. facts \in Store /\ work \in Store
  BY DEF ChangeTypeOK
<1>1. CASE \/ \E u \in Unit : Draft(u) \/ Reject(u)
           \/ GatesReject \/ GatesPass \/ PreviewFails \/ DryRun \/ CanvasWriteFails
           \/ RollBack \/ Restore
  <2>1. facts' = facts
    BY <1>1 DEF Draft, Reject, GatesReject, GatesPass, PreviewFails, DryRun,
       CanvasWriteFails, RollBack, Restore
  <2>2. phase' \notin {"patching", "syncing", "reconciling"}
    BY <1>1 DEF Draft, Reject, GatesReject, GatesPass, PreviewFails, DryRun,
       CanvasWriteFails, RollBack, Restore, EndRun
  <2> QED  BY <2>1, <2>2 DEF LinksInv, GraphNeverStrands
<1>2. CASE WriteCanvases \/ \E u \in Unit : Begin(u)
  <2>1. /\ facts' = facts /\ work' = facts /\ touched' = {} /\ phase' \in {"patching", "gated"}
    BY <1>2 DEF WriteCanvases, Begin, OpenTransaction
  <2>2. Placed(facts)
    BY DEF LinksInv, GraphNeverStrands, Placed, Child, Fits
  <2> QED  BY <2>1, <2>2 DEF LinksInv, GraphNeverStrands
<1>3. CASE SkipPatch
  <2>1. UNCHANGED <<facts, phase, work, touched, todo>>
    BY <1>3 DEF SkipPatch
  <2> QED  BY <2>1 DEF LinksInv, GraphNeverStrands
<1>4. CASE ApplyOne
  <2> DEFINE t == Plan[unit][next].target
  <2>1. /\ work.live \subseteq work'.live /\ work'.live \subseteq work.live \union {t}
        /\ work'.edges = work.edges
        /\ \A f \in Fact \ {t} : /\ work'.parent[f] = work.parent[f]
                                 /\ work'.body[f] = work.body[f]
        /\ t \in work'.live /\ Child(t) =>
             \/ t \in work.live /\ work'.parent[t] = work.parent[t]
             \/ work'.parent[t] \in work.live /\ Fits(t, work'.parent[t])
    BY <1>4, PatchAdds
  <2>2. touched' = touched \union {t} /\ facts' = facts /\ phase = "patching"
        /\ phase' = "patching"
    BY <1>4 DEF ApplyOne
  <2> HIDE DEF t
  <2>3. work.live \subseteq Fact
    BY <1>0, StoreShape
  <2>4. Placed(work')
    BY <2>1, <2>2, <2>3 DEF LinksInv, Placed, Fits
  <2>5. facts.live \subseteq work'.live
    BY <2>1, <2>2 DEF LinksInv
  <2>6. \A f \in work'.live \ touched' :
          /\ f \in facts.live
          /\ work'.body[f] = facts.body[f] /\ work'.edges[f] = facts.edges[f]
    BY <2>1, <2>2, <2>3 DEF LinksInv
  <2> QED  BY <2>2, <2>4, <2>5, <2>6 DEF LinksInv, GraphNeverStrands
<1>5. CASE StartSync
  <2>1. /\ facts' = facts /\ work' = work /\ touched' = touched /\ todo' = touched
        /\ phase = "patching" /\ phase' = "syncing"
    BY <1>5 DEF StartSync
  <2>2. \A f \in work.live \ touched : Linked(work, f)
    <3> SUFFICES ASSUME NEW f \in work.live \ touched PROVE Linked(work, f)
      OBVIOUS
    <3>1. /\ f \in facts.live /\ facts.live \subseteq work.live
          /\ work.body[f] = facts.body[f] /\ work.edges[f] = facts.edges[f]
      BY <2>1 DEF LinksInv
    <3>2. Linked(facts, f)
      BY <3>1 DEF LinksInv, GraphNeverStrands, Linked
    <3> QED  BY <3>1, <3>2, LinkedStays
  <2> QED  BY <2>1, <2>2 DEF LinksInv, GraphNeverStrands
<1>6. ASSUME NEW g \in Fact, SyncOne(g)
      PROVE  LinksInv'
  <2>1. /\ facts' = facts /\ todo' = todo \ {g}
        /\ phase = "syncing" /\ phase' = "syncing"
        /\ g \in work.live => EdgesResolve(work, g)
        /\ work' = IF g \in work.live THEN WithEdges(work, g) ELSE work
    BY <1>6 DEF SyncOne
  <2>2. /\ work'.live = work.live /\ work'.parent = work.parent /\ work'.body = work.body
        /\ \A f \in Fact \ {g} : work'.edges[f] = work.edges[f]
        /\ g \in work.live => work'.edges[g] = Cites(work.body[g]) \ {g}
    BY <1>0, <2>1, WithEdgesShape
  <2>3. g \in work.live => Linked(work', g)
    BY <2>1, <2>2 DEF EdgesResolve, Linked
  <2>4. \A f \in work.live \ todo : Linked(work, f)
    BY <2>1 DEF LinksInv
  <2>5. \A f \in work'.live \ todo' : Linked(work', f)
    <3> SUFFICES ASSUME NEW f \in work.live, f \notin todo, f # g PROVE Linked(work', f)
      BY <2>1, <2>2, <2>3
    <3>1. f \in Fact /\ Linked(work, f)
      BY <1>0, <2>4, StoreShape
    <3> QED  BY <2>2, <3>1 DEF Linked
  <2> QED  BY <2>1, <2>2, <2>5 DEF LinksInv, GraphNeverStrands, Placed
<1>7. CASE StartReconcile
  <2>1. UNCHANGED <<facts, work>> /\ phase = "syncing" /\ phase' = "reconciling" /\ todo = {}
    BY <1>7 DEF StartReconcile
  <2> QED  BY <2>1 DEF LinksInv, GraphNeverStrands
<1>8. ASSUME NEW g \in Fact, ReconcileOne(g)
      PROVE  LinksInv'
  <2>1. facts' = facts /\ phase = "reconciling" /\ phase' = "reconciling"
    BY <1>8 DEF ReconcileOne
  <2>2. /\ work'.live = work.live /\ work'.parent = work.parent /\ work'.edges = work.edges
        /\ \A f \in Fact : Cites(work'.body[f]) = Cites(work.body[f])
    BY <1>0, <1>8, SameCites
  <2>3. \A f \in work.live : Linked(work, f)
    BY <2>1 DEF LinksInv
  <2>4. \A f \in work'.live : Linked(work', f)
    <3> SUFFICES ASSUME NEW f \in work.live PROVE Linked(work', f)
      BY <2>2
    <3>1. f \in Fact /\ Linked(work, f)
      BY <1>0, <2>3, StoreShape
    <3> QED  BY <2>2, <3>1 DEF Linked
  <2> QED  BY <2>1, <2>2, <2>4 DEF LinksInv, GraphNeverStrands, Placed
<1>9. CASE Commit
  <2>1. phase = "reconciling" /\ facts' = work /\ phase' = "idle"
    BY <1>9 DEF Commit, EndRun
  <2>2. Placed(work) /\ \A f \in work.live : Linked(work, f)
    BY <2>1 DEF LinksInv
  <2>3. GraphNeverStrands'
    BY <2>1, <2>2 DEF GraphNeverStrands, Placed, Linked, Child, Fits
  <2> QED  BY <2>1, <2>3 DEF LinksInv
<1>10. CASE UNCHANGED vars
  <2>1. UNCHANGED <<facts, phase, work, touched, todo>>
    BY <1>10 DEF vars, txVars
  <2> QED  BY <2>1 DEF LinksInv, GraphNeverStrands
<1> QED
  BY <1>1, <1>2, <1>3, <1>4, <1>5, <1>6, <1>7, <1>8, <1>9, <1>10 DEF Next, RunStep, Finished

\* Where the graph holds together to begin with and no unit retires a fact, it holds
\* together outside every run, whatever the units create, move and rewrite: what a
\* table cites exists and is an edge, and a child has a live parent of its type
\* (GraphNeverStrands: SyncEdges and the parent checks of applyOne).
THEOREM GraphHolds ==
    ASSUME OnlyAdds, Placed(Genesis), \A f \in Genesis.live : Linked(Genesis, f)
    PROVE  Spec => []GraphNeverStrands
<1>1. Init => LinksInv
  BY DEF Init, LinksInv, InTransaction, GraphNeverStrands, Placed, Linked, Child, Fits
<1>2. ChangeTypeOK /\ LinksInv /\ [Next]_vars => LinksInv'
  BY LinksKept
<1>3. LinksInv => GraphNeverStrands
  BY DEF LinksInv
<1> QED  BY <1>1, <1>2, <1>3, ChangeTypes, PTL DEF Spec

-----------------------------------------------------------------------------
(* Every fact fits its canvas, in plans that touch a fact once.              *)

\* A unit that reshapes no canvas leaves the canvases as they are.
LEMMA NothingReshaped ==
    ASSUME NoMorphs, NEW u \in Unit, NEW cs \in [Type -> Shape]
    PROVE  Reshaped(cs, u) = cs
<1>1. \A t \in Type : {i \in MorphIndices(u) : Plan[u][i].type = t} = {}
  BY DEF NoMorphs
<1>2. Reshaped(cs, u) = [t \in Type |-> cs[t]]
  BY <1>1 DEF Reshaped
<1> QED  BY <1>2

\* While a run is on, what its gates saw is still what there is.
LEMMA GatesStillHold ==
    ASSUME GatePassed, UNCHANGED <<facts, canvas, unit, skip>>
    PROVE  GatePassed'
<1>1. FactIndices(unit)' = FactIndices(unit) /\ skip' = skip
  BY DEF FactIndices, MorphIndices, Patches
<1>2. \A i : FitsCanvas(unit, Plan[unit][i])' <=> FitsCanvas(unit, Plan[unit][i])
  BY DEF FitsCanvas, Reshaped, MorphIndices, Patches
<1> QED  BY <1>1, <1>2 DEF GatePassed

\* A patch lands in the body its gate saw, so its target fits the canvas.
LEMMA ApplyOneFits ==
    ASSUME OneEach, NoMorphs, ChangeTypeOK, FitInv, ApplyOne
    PROVE  FitInv'
<1> DEFINE p == Plan[unit][next]
           t == p.target
<1>1. /\ unit \in Unit /\ next \in FactIndices(unit) \ skip
      /\ p \in Patch /\ p.scope # "canvas" /\ t \in Fact
      /\ CanLand(work, unit, p)
      /\ work' = Landed(work, p) /\ next' = next + 1
      /\ work \in Store /\ facts \in Store /\ next \in Nat
  BY ApplyOneLands DEF ChangeTypeOK
<1>2. /\ UNCHANGED <<facts, canvas, backup, unit, skip>>
      /\ phase = "patching" /\ phase' = "patching"
  BY DEF ApplyOne
<1>3. p.scope # "frontmatter" => work.body[t] = facts.body[t]
  BY <1>1, <1>2 DEF FitInv, NotYetReached
<1>4. FitsCanvas(unit, p)
  BY <1>1, <1>2 DEF FitInv, GatePassed
<1>5. Reshaped(canvas, unit) = canvas
  BY <1>1, NothingReshaped DEF ChangeTypeOK
<1>6. ASSUME NEW i \in FactIndices(unit), i >= next', Plan[unit][i].scope # "frontmatter",
             Plan[unit][i].target = t
      PROVE  p.scope = "frontmatter"
  <2>1. i \in Nat
    BY <1>1, PatchOf DEF FactIndices
  <2>2. i # next
    BY <1>1, <1>6, <2>1
  <2> QED  BY <1>1, <1>6, <2>2 DEF OneEach
<1> HIDE DEF p, t
<1>7. Fields(work, work', p)
  BY <1>1, LandedFields
<1>8. work.live \subseteq Fact /\ AllFit(work, canvas)
  BY <1>1, <1>2, StoreShape DEF FitInv, InTransaction
<1>9. /\ \A f \in Fact \ {t} : work'.body[f] = work.body[f]
      /\ \A f \in Fact \ {t} : f \in work'.live <=> f \in work.live
  BY <1>1, <1>7, PatchShape DEF Fields, t
<1>10. t \in work'.live => ValidBody(work'.body[t], canvas[TypeOf[t]])
  <2>1. CASE p.scope \in {"block", "insert", "append", "whole"}
    <3>1. work'.body[t] = Patched(facts.body[t], p)
      BY <1>3, <1>7, <2>1 DEF Fields, Patched, t
    <3> QED  BY <1>4, <1>5, <2>1, <3>1 DEF FitsCanvas, t
  <2>2. CASE p.scope = "frontmatter"
    BY <1>7, <1>8, <2>2 DEF Fields, AllFit, t
  <2>3. CASE p.scope = "retire"
    BY <1>7, <2>3 DEF Fields, t
  <2> QED  BY <1>1, <2>1, <2>2, <2>3, PatchShape
<1>11. work'.live \subseteq Fact
  BY <1>7, StoreShape DEF Fields
<1>12. AllFit(work', canvas')
  BY <1>2, <1>8, <1>9, <1>10, <1>11 DEF AllFit
<1>13. NotYetReached'
  <2> SUFFICES ASSUME NEW i \in FactIndices(unit), i >= next',
                      Plan[unit][i].scope # "frontmatter"
               PROVE  work'.body[Plan[unit][i].target] = facts.body[Plan[unit][i].target]
    BY <1>2 DEF NotYetReached
  <2>1. /\ Plan[unit][i].target \in Fact /\ i \in Nat
        /\ Plan[unit][i].target # t \/ p.scope = "frontmatter"
    <3>1. i \in Patches(unit)
      BY DEF FactIndices
    <3>2. Plan[unit][i] \in Patch /\ Plan[unit][i].scope # "canvas" /\ i \in Nat
      BY <1>1, <3>1, PatchOf
    <3> QED  BY <1>6, <3>2, PatchShape
  <2>2. i >= next
    BY <1>1, <2>1
  <2>3. p.scope = "frontmatter" => work'.body = work.body
    BY <1>7 DEF Fields
  <2>4. work'.body[Plan[unit][i].target] = work.body[Plan[unit][i].target]
    BY <1>9, <2>1, <2>3
  <2> QED  BY <1>2, <2>2, <2>4 DEF FitInv, NotYetReached
<1>14. GatePassed'
  BY <1>2, GatesStillHold DEF FitInv
<1> QED
  BY <1>2, <1>8, <1>12, <1>13, <1>14 DEF FitInv, InTransaction

\* Every step keeps the facts fit.
LEMMA FitsKept ==
    ASSUME OneEach, NoMorphs, ChangeTypeOK, FitInv, [Next]_vars
    PROVE  FitInv'
<1> USE DEF InTransaction
<1>0. facts \in Store /\ work \in Store
  BY DEF ChangeTypeOK
<1>1. CASE \/ \E u \in Unit : Draft(u)
           \/ GatesPass \/ PreviewFails \/ RollBack
  <2>1. UNCHANGED <<facts, canvas, backup, unit, skip>>
    BY <1>1 DEF Draft, GatesPass, PreviewFails, RollBack
  <2>2. \/ phase = "idle" /\ phase' = "idle"
        \/ phase # "idle" /\ phase' \in {"gated", "restoring"}
    BY <1>1 DEF Draft, GatesPass, PreviewFails, RollBack, PreviewDone, ApplyFails
  <2>3. phase # "idle" => GatePassed'
    BY <2>1, GatesStillHold DEF FitInv
  <2> QED  BY <2>1, <2>2, <2>3 DEF FitInv
<1>2. CASE \/ \E u \in Unit : Reject(u)
           \/ GatesReject \/ DryRun \/ CanvasWriteFails \/ Restore
  <2>1. /\ facts' = facts /\ canvas' = canvas
        /\ \E why : EndRun(why)
    BY <1>2 DEF Reject, GatesReject, DryRun, CanvasWriteFails, Restore, FitInv
  <2>2. phase' = "idle" /\ backup' = canvas'
    BY <2>1 DEF EndRun
  <2> QED  BY <2>1, <2>2 DEF FitInv
<1>3. ASSUME NEW u \in Unit, Begin(u)
      PROVE  FitInv'
  <2>1. /\ facts' = facts /\ canvas' = canvas /\ backup' = backup /\ work' = facts
        /\ unit' = u /\ PassesPatchGate(u, skip')
        /\ phase' \in {"patching", "gated"}
    BY <1>3 DEF Begin, OpenTransaction
  <2>2. \A i : FitsCanvas(u, Plan[u][i])' <=> FitsCanvas(u, Plan[u][i])
    BY <2>1 DEF FitsCanvas, Reshaped, MorphIndices, Patches
  <2>3. \A i \in FactIndices(u) \ skip' : FitsCanvas(u, Plan[u][i])'
    BY <2>1, <2>2 DEF PassesPatchGate
  <2>4. GatePassed'
    BY <2>1, <2>3 DEF GatePassed, FitsCanvas
  <2>5. NotYetReached'
    BY <2>1 DEF NotYetReached
  <2> QED  BY <2>1, <2>4, <2>5 DEF FitInv
<1>4. CASE SkipPatch
  <2>1. /\ UNCHANGED <<facts, canvas, backup, unit, skip, phase, work>>
        /\ phase = "patching" /\ next' = next + 1 /\ unit \in Unit /\ next \in Nat
    BY <1>4 DEF SkipPatch, ChangeTypeOK
  <2>2. GatePassed'
    BY <2>1, GatesStillHold DEF FitInv
  <2>3. \A i \in FactIndices(unit) : i \in Nat
    BY <2>1, PatchOf DEF FactIndices
  <2>4. \A i \in FactIndices(unit) : i >= next' => i >= next
    BY <2>1, <2>3
  <2>5. NotYetReached'
    BY <2>1, <2>4 DEF FitInv, NotYetReached
  <2> QED  BY <2>1, <2>2, <2>5 DEF FitInv
<1>5. CASE ApplyOne
  BY <1>5, ApplyOneFits
<1>6. CASE StartSync \/ StartReconcile \/ \E g \in Fact : SyncOne(g)
  <2>1. /\ UNCHANGED <<facts, canvas, backup, unit, skip>>
        /\ phase \in {"patching", "syncing"} /\ phase' \in {"syncing", "reconciling"}
    BY <1>6 DEF StartSync, StartReconcile, SyncOne
  <2>2. GatePassed'
    BY <2>1, GatesStillHold DEF FitInv
  <2>3. work'.live = work.live /\ work'.body = work.body
    BY <1>0, <1>6, WithEdgesShape DEF StartSync, StartReconcile, SyncOne
  <2>4. AllFit(work', canvas')
    BY <2>1, <2>3 DEF FitInv, AllFit
  <2> QED  BY <2>1, <2>2, <2>4 DEF FitInv
<1>7. ASSUME NEW g \in Fact, ReconcileOne(g)
      PROVE  FitInv'
  <2>1. /\ UNCHANGED <<facts, canvas, backup, unit, skip>>
        /\ phase = "reconciling" /\ phase' = "reconciling"
    BY <1>7 DEF ReconcileOne
  <2>2. GatePassed'
    BY <2>1, GatesStillHold DEF FitInv
  <2>3. work'.live = work.live /\ work.live \subseteq Fact
        /\ \A f \in Fact \ {g} : work'.body[f] = work.body[f]
    BY <1>0, <1>7, SameCites, StoreShape
  <2>4. AllFit(work, canvas)
    BY <2>1 DEF FitInv
  <2>5. g \in work.live => ValidBody(work'.body[g], canvas[TypeOf[g]])
    <3>1. CASE work' = work
      BY <2>4, <3>1 DEF AllFit
    <3>2. CASE \E body \in ReconciledBodies(work, g) :
                 /\ body # work.body[g] => ValidBody(body, canvas[TypeOf[g]])
                 /\ work' = WithBody(work, g, body)
      <4>1. PICK body \in ReconciledBodies(work, g) :
                 /\ body # work.body[g] => ValidBody(body, canvas[TypeOf[g]])
                 /\ work' = WithBody(work, g, body)
        BY <3>2
      <4>2. work'.body[g] = body
        BY <1>0, <4>1, RowsOnly, WithBodyShape
      <4> QED  BY <2>4, <4>1, <4>2 DEF AllFit
    <3> QED  BY <1>7, <3>1, <3>2 DEF ReconcileOne
  <2>6. AllFit(work', canvas')
    BY <2>1, <2>3, <2>4, <2>5 DEF AllFit
  <2> QED  BY <2>1, <2>2, <2>6 DEF FitInv
<1>8. CASE WriteCanvases
  <2>1. /\ facts' = facts /\ backup' = backup /\ work' = facts /\ unit' = unit /\ skip' = skip
        /\ canvas' = Reshaped(canvas, unit) /\ phase = "gated" /\ phase' = "patching"
    BY <1>8 DEF WriteCanvases, OpenTransaction
  <2>2. canvas' = canvas
    BY <2>1, NothingReshaped DEF ChangeTypeOK
  <2>3. GatePassed'
    BY <2>1, <2>2, GatesStillHold DEF FitInv
  <2>4. NotYetReached'
    BY <2>1 DEF NotYetReached
  <2> QED  BY <2>1, <2>2, <2>3, <2>4 DEF FitInv
<1>9. CASE Commit
  <2>1. /\ facts' = work /\ canvas' = canvas /\ backup' = canvas' /\ phase' = "idle"
        /\ phase = "reconciling"
    BY <1>9 DEF Commit, EndRun
  <2> QED  BY <2>1 DEF FitInv
<1>10. CASE UNCHANGED vars
  <2>1. UNCHANGED <<facts, canvas, backup, unit, skip, phase, work, next>>
    BY <1>10 DEF vars, txVars
  <2>2. phase # "idle" => GatePassed'
    BY <2>1, GatesStillHold DEF FitInv
  <2>3. phase = "patching" => NotYetReached'
    BY <2>1 DEF FitInv, NotYetReached
  <2> QED  BY <2>1, <2>2, <2>3 DEF FitInv
<1> QED
  BY <1>1, <1>2, <1>3, <1>4, <1>5, <1>6, <1>7, <1>8, <1>9, <1>10 DEF Next, RunStep, Finished

\* Where every fact fits to begin with, no unit reshapes a canvas and no two patches
\* of a unit are about one fact (but for its frontmatter), every fact fits its canvas
\* outside a run, although the canvas gate looks at each patch before any has landed
\* and at no table the tool rewrites (InstancesValid: canvasGate,
\* validateBodyContentWithDefinition).
THEOREM FactsFit ==
    ASSUME OneEach, NoMorphs, AllFit(Genesis, Canvases)
    PROVE  Spec => []InstancesValid
<1>1. Init => FitInv
  BY DEF Init, FitInv, InTransaction
<1>2. ChangeTypeOK /\ FitInv /\ [Next]_vars => FitInv'
  BY FitsKept
<1>3. FitInv => InstancesValid
  BY DEF FitInv, InstancesValid, AllFit
<1> QED  BY <1>1, <1>2, <1>3, ChangeTypes, PTL DEF Spec

-----------------------------------------------------------------------------
(* What a run that ends as applied has landed, in plans that touch a fact once. *)

\* A block is in the body of a fact that exists only.
LEMMA HasLives ==
    ASSUME NEW s \in Store, NothingLeft(s), NEW f \in Fact, NEW b \in Block, Has(s.body[f], b)
    PROVE  f \in s.live
<1>1. Empty[b] = 0
  BY DEF Empty
<1> QED  BY <1>1 DEF NothingLeft, Has

\* A patch that can land is done when it has, and leaves nothing behind where it
\* retires.
LEMMA LandedDone ==
    ASSUME NEW s \in Store, NothingLeft(s), NEW u \in Unit, NEW p \in Patch,
           p.scope # "canvas", CanLand(s, u, p)
    PROVE  Done(Landed(s, p), p) /\ NothingLeft(Landed(s, p))
<1> DEFINE t == p.target
           w == Landed(s, p)
<1>1. t \in Fact /\ s.live \subseteq Fact
  BY PatchShape, StoreShape
<1>2. Fields(s, w, p)
  BY LandedFields
<1>3. CASE p.scope \in {"block", "insert", "append"}
  <2>1. t \in s.live
    <3>1. CASE p.scope \in {"block", "insert"}
      <4>1. Has(s.body[t], p.base)
        BY <3>1 DEF CanLand, Fresh
      <4>2. p.base \in Block
        BY <3>1 DEF Patch, Block
      <4> QED  BY <1>1, <4>1, <4>2, HasLives
    <3>2. CASE p.scope = "append"
      BY <3>2 DEF CanLand, Fresh
    <3> QED  BY <1>3, <3>1, <3>2
  <2> QED  BY <1>1, <1>2, <1>3, <2>1 DEF Fields, Done, NothingLeft
<1>4. CASE p.scope = "whole"
  BY <1>1, <1>2, <1>4 DEF Fields, Done, NothingLeft
<1>5. CASE p.scope = "frontmatter"
  <2>1. t \in s.live
    BY <1>5 DEF CanLand
  <2> QED  BY <1>1, <1>2, <1>5, <2>1 DEF Fields, Done, NothingLeft
<1>6. CASE p.scope = "retire"
  BY <1>1, <1>2, <1>6 DEF Fields, Done, NothingLeft
<1> QED  BY <1>3, <1>4, <1>5, <1>6, PatchShape

\* A patch that is done stays so while one that agrees with it lands.
LEMMA DoneStays ==
    ASSUME NEW s \in Store, NEW u \in Unit, NEW p \in Patch, p.scope # "canvas",
           CanLand(s, u, p), NEW q \in Patch, q.scope # "canvas", Done(s, q),
           q.target = p.target =>
             "retire" \notin {q.scope, p.scope} /\ {q.scope, p.scope} # {"frontmatter"},
           q.scope = "frontmatter" /\ p.scope = "retire" => q.parent # p.target
    PROVE  Done(Landed(s, p), q)
<1> DEFINE w == Landed(s, p)
<1>1. p.target \in Fact /\ q.target \in Fact
  BY PatchShape
<1>2. Fields(s, w, p)
  BY LandedFields
<1>3. CASE p.scope \in {"block", "insert", "append"}
  BY <1>1, <1>2, <1>3 DEF Fields, Done
<1>4. CASE p.scope = "whole"
  <2>1. p.target \notin s.live
    BY <1>4 DEF CanLand
  <2> QED  BY <1>1, <1>2, <1>4, <2>1 DEF Fields, Done
<1>5. CASE p.scope = "frontmatter"
  BY <1>1, <1>2, <1>5 DEF Fields, Done
<1>6. CASE p.scope = "retire"
  BY <1>1, <1>2, <1>6 DEF Fields, Done
<1> QED  BY <1>3, <1>4, <1>5, <1>6, PatchShape

\* While a run is on, what it skips is still done.
LEMMA SkipsStillDone ==
    ASSUME SkipsDone, UNCHANGED <<facts, unit, skip>>
    PROVE  SkipsDone'
<1>1. FactIndices(unit)' = FactIndices(unit) /\ skip' = skip
  BY DEF FactIndices, MorphIndices, Patches
<1>2. \A i : Done(facts, Plan[unit][i])' <=> Done(facts, Plan[unit][i])
  BY DEF Done
<1> QED  BY <1>1, <1>2 DEF SkipsDone

\* What can be taken for applied is done.
LEMMA AppliedIsDone ==
    ASSUME NEW s \in Store, NothingLeft(s), NEW p \in Patch, p.scope # "canvas",
           IsApplied(s, p) \/ MayBeApplied(s, p)
    PROVE  Done(s, p)
<1>1. CASE IsApplied(s, p)
  BY <1>1 DEF IsApplied, Done
<1>2. CASE MayBeApplied(s, p)
  <2>1. p.scope = "block" /\ p.to # NoBlock /\ Has(s.body[p.target], p.to)
    BY <1>2 DEF MayBeApplied
  <2>2. p.to \in Block /\ p.target \in Fact
    BY <2>1, PatchShape
  <2>3. p.target \in s.live
    BY <2>1, <2>2, HasLives
  <2> QED  BY <2>1, <2>3 DEF Done
<1> QED  BY <1>1, <1>2

\* Edges and tables are nothing to what the patches promise.
LEMMA DoneSoFarStays ==
    ASSUME DoneSoFar, UNCHANGED <<facts, unit, skip, next>>,
           work'.live = work.live, work'.parent = work.parent, work'.title = work.title
    PROVE  DoneSoFar'
<1>1. FactIndices(unit)' = FactIndices(unit) /\ skip' = skip /\ next' = next
  BY DEF FactIndices, MorphIndices, Patches
<1>2. \A i : Done(work, Plan[unit][i])' <=> Done(work, Plan[unit][i])
  BY DEF Done
<1> QED  BY <1>1, <1>2 DEF DoneSoFar

\* A patch that lands is done, and undoes none that landed before.
LEMMA ApplyOneLandsIt ==
    ASSUME Agreeing, NoneMovesUnderRetired, ChangeTypeOK, LandsInv, ApplyOne
    PROVE  LandsInv'
<1> DEFINE p == Plan[unit][next]
<1>1. /\ unit \in Unit /\ next \in FactIndices(unit) \ skip
      /\ p \in Patch /\ p.scope # "canvas"
      /\ CanLand(work, unit, p)
      /\ work' = Landed(work, p) /\ next' = next + 1
      /\ work \in Store /\ next \in Nat
  BY ApplyOneLands DEF ChangeTypeOK
<1>2. /\ UNCHANGED <<facts, unit, skip>>
      /\ phase = "patching" /\ phase' = "patching"
  BY DEF ApplyOne
<1>3. NothingLeft(work) /\ DoneSoFar /\ SkipsDone
  BY <1>2 DEF LandsInv, InTransaction
<1> HIDE DEF p
<1>4. Done(work', p) /\ NothingLeft(work')
  BY <1>1, <1>3, LandedDone
<1>5. ASSUME NEW i \in FactIndices(unit), i # next, Done(work, Plan[unit][i])
      PROVE  Done(work', Plan[unit][i])
  <2> DEFINE q == Plan[unit][i]
  <2>1. q \in Patch /\ q.scope # "canvas"
    <3>1. i \in Patches(unit)
      BY DEF FactIndices
    <3> QED  BY <1>1, <3>1, PatchOf
  <2>2. q.target = p.target =>
          "retire" \notin {q.scope, p.scope} /\ {q.scope, p.scope} # {"frontmatter"}
    BY <1>1, <1>5 DEF Agreeing, p
  <2>3. q.scope = "frontmatter" /\ p.scope = "retire" => q.parent # p.target
    <3>1. p.scope = "retire" => p.target \in Retired(unit)
      BY <1>1 DEF Retired, FactIndices, p
    <3> QED  BY <1>1, <3>1 DEF NoneMovesUnderRetired
  <2>4. Done(work, q)
    BY <1>5
  <2> HIDE DEF q
  <2>5. Done(work', q)
    BY <1>1, <2>1, <2>2, <2>3, <2>4, DoneStays
  <2> QED  BY <2>5 DEF q
<1>6. ASSUME NEW i \in FactIndices(unit), i < next' \/ i \in skip
      PROVE  Done(work', Plan[unit][i])
  <2>1. CASE i = next
    BY <1>4, <2>1 DEF p
  <2>2. CASE i # next
    <3>1. i \in Nat
      BY <1>1, PatchOf DEF FactIndices
    <3>2. i < next \/ i \in skip
      BY <1>1, <1>6, <2>2, <3>1
    <3> QED  BY <1>3, <1>5, <2>2, <3>2 DEF DoneSoFar
  <2> QED  BY <2>1, <2>2
<1>7. DoneSoFar'
  BY <1>2, <1>6 DEF DoneSoFar
<1>8. SkipsDone'
  BY <1>2, <1>3, SkipsStillDone
<1>9. next' >= 1
  BY <1>1 DEF LandsInv
<1> QED  BY <1>2, <1>4, <1>7, <1>8, <1>9 DEF LandsInv

\* Every step keeps what has landed.
LEMMA LandsKept ==
    ASSUME Agreeing, NoneMovesUnderRetired, ChangeTypeOK, LandsInv, [Next]_vars
    PROVE  LandsInv'
<1> USE DEF InTransaction
<1>0. /\ facts \in Store /\ work \in Store /\ next \in Nat /\ next >= 1
      /\ phase # "idle" => unit \in Unit
  BY DEF ChangeTypeOK, LandsInv
<1>1. CASE \/ \E u \in Unit : Draft(u)
           \/ GatesPass \/ PreviewFails \/ RollBack
  <2>1. UNCHANGED <<facts, unit, skip, next>>
    BY <1>1 DEF Draft, GatesPass, PreviewFails, RollBack, txVars
  <2>2. \/ phase = "idle" /\ phase' = "idle"
        \/ phase # "idle" /\ phase' \in {"gated", "restoring"}
    BY <1>1 DEF Draft, GatesPass, PreviewFails, RollBack, PreviewDone, ApplyFails
  <2>3. phase # "idle" => SkipsDone'
    BY <2>1, SkipsStillDone DEF LandsInv
  <2> QED  BY <2>1, <2>2, <2>3 DEF LandsInv
<1>2. CASE \/ \E u \in Unit : Reject(u)
           \/ GatesReject \/ DryRun \/ CanvasWriteFails \/ Restore
  <2>1. facts' = facts /\ \E why : EndRun(why)
    BY <1>2 DEF Reject, GatesReject, DryRun, CanvasWriteFails, Restore
  <2>2. phase' = "idle" /\ next' = 1
    BY <2>1 DEF EndRun
  <2> QED  BY <2>1, <2>2 DEF LandsInv
<1>3. ASSUME NEW u \in Unit, Begin(u)
      PROVE  LandsInv'
  <2>1. /\ facts' = facts /\ work' = facts /\ unit' = u /\ next' = 1
        /\ skip' \in Skips(u) /\ phase' \in {"patching", "gated"}
    BY <1>3 DEF Begin, OpenTransaction
  <2>2. ASSUME NEW i \in skip'
        PROVE  i \in FactIndices(u) /\ Done(facts, Plan[u][i])
    <3>1. /\ i \in FactIndices(u)
          /\ IsApplied(facts, Plan[u][i]) \/ MayBeApplied(facts, Plan[u][i])
      BY <2>1, <2>2 DEF Skips
    <3>2. i \in Patches(u)
      BY <3>1 DEF FactIndices
    <3>3. Plan[u][i] \in Patch /\ Plan[u][i].scope # "canvas"
      BY <3>1, <3>2, PatchOf
    <3> QED  BY <1>0, <3>1, <3>3, AppliedIsDone DEF LandsInv
  <2>3. SkipsDone'
    BY <2>1, <2>2 DEF SkipsDone
  <2>4. \A i \in FactIndices(u) : ~(i < 1)
    <3>1. \A i \in FactIndices(u) : i \in 1..Len(Plan[u]) /\ Len(Plan[u]) \in Nat
      BY PlanAssumption DEF FactIndices, Patches
    <3> QED  BY <3>1
  <2>5. DoneSoFar'
    BY <2>1, <2>2, <2>4 DEF DoneSoFar
  <2> QED  BY <2>1, <2>3, <2>5 DEF LandsInv
<1>4. CASE SkipPatch
  <2>1. /\ UNCHANGED <<facts, unit, skip, phase, work>>
        /\ phase = "patching" /\ next' = next + 1 /\ unit \in Unit
        /\ next \in skip \union MorphIndices(unit)
    BY <1>4 DEF SkipPatch, ChangeTypeOK
  <2>2. SkipsDone'
    BY <2>1, SkipsStillDone DEF LandsInv
  <2>3. \A i \in FactIndices(unit) : i \in Nat
    BY <2>1, PatchOf DEF FactIndices
  <2>4. \A i \in FactIndices(unit) : i < next' /\ i \notin skip => i < next
    <3>1. \A i \in FactIndices(unit) : i \notin MorphIndices(unit)
      BY DEF FactIndices
    <3> QED  BY <1>0, <2>1, <2>3, <3>1
  <2>5. DoneSoFar'
    BY <2>1, <2>4 DEF LandsInv, DoneSoFar
  <2> QED  BY <1>0, <2>1, <2>2, <2>5 DEF LandsInv
<1>5. CASE ApplyOne
  BY <1>5, ApplyOneLandsIt
<1>6. CASE StartSync
  <2>1. /\ UNCHANGED <<facts, unit, skip, work, next>>
        /\ phase = "patching" /\ phase' = "syncing" /\ next \notin Patches(unit) /\ unit \in Unit
    BY <1>6 DEF StartSync, ChangeTypeOK
  <2>2. \A i \in FactIndices(unit) : i < next
    <3>1. /\ Patches(unit) = 1..Len(Plan[unit]) /\ Len(Plan[unit]) \in Nat
          /\ FactIndices(unit) \subseteq Patches(unit)
      BY <2>1, PlanAssumption DEF FactIndices, Patches
    <3> QED  BY <1>0, <2>1, <3>1
  <2>3. AllPassed'
    BY <2>1, <2>2 DEF AllPassed
  <2>4. SkipsDone' /\ DoneSoFar'
    BY <2>1, SkipsStillDone, DoneSoFarStays DEF LandsInv
  <2> QED  BY <1>0, <2>1, <2>3, <2>4 DEF LandsInv
<1>7. CASE StartReconcile \/ \E g \in Fact : SyncOne(g) \/ ReconcileOne(g)
  <2>1. /\ UNCHANGED <<facts, unit, skip, next>>
        /\ phase \in {"syncing", "reconciling"} /\ phase' \in {"syncing", "reconciling"}
    BY <1>7 DEF StartReconcile, SyncOne, ReconcileOne
  <2>2. /\ work'.live = work.live /\ work'.parent = work.parent /\ work'.title = work.title
        /\ \A f \in Fact \ work.live : work'.body[f] = work.body[f]
    <3>1. CASE StartReconcile
      BY <3>1 DEF StartReconcile
    <3>2. CASE \E g \in Fact : SyncOne(g)
      BY <1>0, <3>2, WithEdgesShape DEF SyncOne
    <3>3. ASSUME NEW g \in Fact, ReconcileOne(g)
          PROVE  /\ work'.live = work.live /\ work'.parent = work.parent
                 /\ work'.title = work.title
                 /\ \A f \in Fact \ work.live : work'.body[f] = work.body[f]
      <4>1. g \in work.live \/ work' = work
        BY <3>3 DEF ReconcileOne, KeepsMembers
      <4> QED  BY <1>0, <3>3, <4>1, SameCites
    <3> QED  BY <1>7, <3>1, <3>2, <3>3
  <2>3. NothingLeft(work')
    BY <2>1, <2>2 DEF LandsInv, NothingLeft
  <2>4. SkipsDone' /\ DoneSoFar'
    BY <2>1, <2>2, SkipsStillDone, DoneSoFarStays DEF LandsInv
  <2>5. AllPassed'
    BY <2>1 DEF LandsInv, AllPassed
  <2> QED  BY <1>0, <2>1, <2>3, <2>4, <2>5 DEF LandsInv
<1>8. CASE WriteCanvases
  <2>1. /\ UNCHANGED <<facts, unit, skip>> /\ work' = facts /\ next' = 1
        /\ phase = "gated" /\ phase' = "patching" /\ unit \in Unit
    BY <1>8 DEF WriteCanvases, OpenTransaction, ChangeTypeOK
  <2>2. SkipsDone'
    BY <2>1, SkipsStillDone DEF LandsInv
  <2>3. \A i \in FactIndices(unit) : ~(i < 1)
    <3>1. \A i \in FactIndices(unit) : i \in 1..Len(Plan[unit]) /\ Len(Plan[unit]) \in Nat
      BY <2>1, PlanAssumption DEF FactIndices, Patches
    <3> QED  BY <3>1
  <2>4. DoneSoFar'
    BY <2>1, <2>3 DEF LandsInv, SkipsDone, DoneSoFar
  <2> QED  BY <2>1, <2>2, <2>4 DEF LandsInv
<1>9. CASE Commit
  <2>1. facts' = work /\ phase = "reconciling" /\ phase' = "idle" /\ next' = 1
    BY <1>9 DEF Commit, EndRun
  <2> QED  BY <2>1 DEF LandsInv
<1>10. CASE UNCHANGED vars
  <2>1. UNCHANGED <<facts, unit, skip, phase, work, next>>
    BY <1>10 DEF vars, txVars
  <2>2. phase # "idle" => SkipsDone'
    BY <2>1, SkipsStillDone DEF LandsInv
  <2>3. InTransaction => DoneSoFar'
    BY <2>1, DoneSoFarStays DEF LandsInv
  <2>4. phase \in {"syncing", "reconciling"} => AllPassed'
    BY <2>1 DEF LandsInv, AllPassed
  <2> QED  BY <2>1, <2>2, <2>3, <2>4 DEF LandsInv
<1> QED
  BY <1>1, <1>2, <1>3, <1>4, <1>5, <1>6, <1>7, <1>8, <1>9, <1>10 DEF Next, RunStep, Finished

-----------------------------------------------------------------------------
(* What a run that ends as applied has written.                              *)

\* The places of a unit's patches are numbers, and there are finitely many before any.
LEMMA UptoFinite ==
    ASSUME NEW set \in SUBSET Nat, NEW n \in Nat
    PROVE  IsFiniteSet(Upto(set, n)) /\ Cardinality(Upto(set, n)) \in Nat
<1>1. IsFiniteSet(0..n)
  BY FS_Interval
<1>0. \A i \in set : i \in Nat
  OBVIOUS
<1>2. Upto(set, n) \subseteq 0..n
  <2>1. \A i \in Nat : i < n => i \in 0..n
    OBVIOUS
  <2> QED  BY <1>0, <2>1 DEF Upto
<1>3. IsFiniteSet(Upto(set, n))
  BY <1>1, <1>2, FS_Subset
<1> QED  BY <1>3, FS_CardinalityType

\* One place more.
LEMMA UptoNext ==
    ASSUME NEW set \in SUBSET Nat, NEW n \in Nat
    PROVE  /\ n \notin set => Upto(set, n + 1) = Upto(set, n)
           /\ n \in set => /\ Upto(set, n + 1) = Upto(set, n) \union {n}
                           /\ Cardinality(Upto(set, n + 1)) = Cardinality(Upto(set, n)) + 1
<1>0. \A i \in set : i \in Nat /\ (i < n + 1 <=> i < n \/ i = n)
  OBVIOUS
<1>1. n \notin set => Upto(set, n + 1) = Upto(set, n)
  BY <1>0 DEF Upto
<1>2. n \in set => Upto(set, n + 1) = Upto(set, n) \union {n}
  BY <1>0 DEF Upto
<1>3. n \notin Upto(set, n) /\ IsFiniteSet(Upto(set, n))
  BY UptoFinite DEF Upto
<1>4. Cardinality(Upto(set, n) \union {n}) = Cardinality(Upto(set, n)) + 1
  BY <1>3, FS_AddElement
<1> QED  BY <1>1, <1>2, <1>4

\* The patches about a fact's text are patches on facts.
LEMMA TextPlaces ==
    ASSUME NEW u \in Unit, NEW f, NEW b, NEW applied
    PROVE  /\ FactIndices(u) \subseteq Nat
           /\ Creates(u, f) \ applied \in SUBSET Nat
           /\ Takes(u, f, b) \ applied \in SUBSET Nat
           /\ Writes(u, f, b) \ applied \in SUBSET Nat
<1>1. FactIndices(u) \subseteq Nat
  BY PatchOf DEF FactIndices
<1> QED  BY <1>1 DEF Creates, Takes, Writes

\* Before the first patch there is nothing to account for.
LEMMA BalancedFirst ==
    ASSUME NEW u \in Unit, NEW f \in Fact, NEW b \in Block, NEW was, NEW applied, was \in Store
    PROVE  Balanced(was, was, u, applied, 1, f, b)
<1>1. \A i \in FactIndices(u) : ~(i < 1)
  <2>1. \A i \in FactIndices(u) : i \in 1..Len(Plan[u]) /\ Len(Plan[u]) \in Nat
    BY PlanAssumption DEF FactIndices, Patches
  <2> QED  BY <2>1
<1>2. /\ Upto(Creates(u, f) \ applied, 1) = {}
      /\ Upto(Takes(u, f, b) \ applied, 1) = {}
      /\ Upto(Writes(u, f, b) \ applied, 1) = {}
  BY <1>1 DEF Upto, Creates, Takes, Writes
<1>3. Cardinality({}) = 0
  BY FS_EmptySet
<1>4. was.body[f][b] \in Nat
  BY StoreShape DEF Body
<1> QED  BY <1>2, <1>3, <1>4 DEF Balanced

\* A patch that is not of this fact, or not of the run, changes no account.
LEMMA BalancedBeside ==
    ASSUME NEW u \in Unit, NEW n \in Nat, NEW f \in Fact, NEW b \in Block,
           NEW was, NEW now, NEW then, NEW applied,
           n \in FactIndices(u) \ applied =>
             Plan[u][n].target # f \/ Plan[u][n].scope = "frontmatter",
           then.body[f][b] = now.body[f][b],
           Balanced(was, now, u, applied, n, f, b)
    PROVE  Balanced(was, then, u, applied, n + 1, f, b)
<1>1. /\ n \notin Creates(u, f) \ applied
      /\ n \notin Takes(u, f, b) \ applied
      /\ n \notin Writes(u, f, b) \ applied
  BY DEF Creates, Takes, Writes
<1>2. /\ Upto(Creates(u, f) \ applied, n + 1) = Upto(Creates(u, f) \ applied, n)
      /\ Upto(Takes(u, f, b) \ applied, n + 1) = Upto(Takes(u, f, b) \ applied, n)
      /\ Upto(Writes(u, f, b) \ applied, n + 1) = Upto(Writes(u, f, b) \ applied, n)
  BY <1>1, TextPlaces, UptoNext
<1> QED  BY <1>2 DEF Balanced

\* A block or insert or append changes the count of what it writes and takes away.
LEMMA PatchedCounts ==
    ASSUME NEW body \in Body, NEW p \in Patch, p.scope \in {"block", "insert", "append"},
           p.scope = "block" => Has(body, p.base), NEW b \in Block
    PROVE  Patched(body, p)[b] + (IF p.scope = "block" /\ p.base = b THEN 1 ELSE 0)
             = body[b] + (IF p.to = b THEN 1 ELSE 0)
<1>1. /\ p.scope = "block" => /\ p.base \in Block
                              /\ p.to \in Block \union {NoBlock}
      /\ p.scope \in {"insert", "append"} => p.to \in Block
  BY PatchShape
<1>2. NoBlock \notin Block
  BY DEF NoBlock, Block, TextBlock, SectionBlock, CiteRow, MemberRow
<1>3. body \in [Block -> Nat] /\ body[b] \in Nat
  BY DEF Body
<1>4. CASE p.scope = "block" /\ p.to = NoBlock
  <2>1. Patched(body, p)[b] = IF p.base = b THEN body[b] - 1 ELSE body[b]
    BY <1>1, <1>3, <1>4 DEF Patched, Removed
  <2> QED  BY <1>2, <1>3, <1>4, <2>1
<1>5. CASE p.scope = "block" /\ p.to # NoBlock
  <2> DEFINE less == Removed(body, p.base)
  <2>1. less[b] = IF p.base = b THEN body[b] - 1 ELSE body[b]
    BY <1>1, <1>3, <1>5 DEF Removed
  <2>2. less \in Body
    BY <1>1, <1>5, BodyChanged
  <2>3. Patched(body, p) = Added(less, p.to)
    BY <1>5 DEF Patched
  <2> HIDE DEF less
  <2>4. Patched(body, p)[b] = IF p.to = b THEN less[b] + 1 ELSE less[b]
    BY <1>1, <1>5, <2>2, <2>3 DEF Added, Body
  <2> QED  BY <1>3, <1>5, <2>1, <2>4
<1>6. CASE p.scope \in {"insert", "append"}
  <2>1. Patched(body, p)[b] = IF p.to = b THEN body[b] + 1 ELSE body[b]
    BY <1>1, <1>3, <1>6 DEF Patched, Added
  <2> QED  BY <1>3, <1>6, <2>1
<1> QED  BY <1>4, <1>5, <1>6

\* An account which one more such patch is entered in.
LEMMA BalancedEdit ==
    ASSUME NEW u \in Unit, NEW n \in Nat, NEW f \in Fact, NEW b \in Block,
           NEW was \in Store, NEW now \in Store, NEW then \in Store, NEW applied,
           n \in FactIndices(u) \ applied, Plan[u][n] \in Patch,
           Plan[u][n].scope \in {"block", "insert", "append"}, Plan[u][n].target = f,
           Plan[u][n].scope = "block" => Has(now.body[f], Plan[u][n].base),
           then.body[f] = Patched(now.body[f], Plan[u][n]),
           Balanced(was, now, u, applied, n, f, b)
    PROVE  Balanced(was, then, u, applied, n + 1, f, b)
<1> DEFINE p     == Plan[u][n]
           by    == Upto(Creates(u, f) \ applied, n)
           start == IF by = {} THEN was.body[f] ELSE Plan[u][CHOOSE i \in by : TRUE].body
           ts    == Takes(u, f, b) \ applied
           ws    == Writes(u, f, b) \ applied
<1>1. /\ n \notin Creates(u, f) \ applied
      /\ n \in ts <=> p.scope = "block" /\ p.base = b
      /\ n \in ws <=> p.to = b
  BY DEF Creates, Takes, Writes
<1>2. Upto(Creates(u, f) \ applied, n + 1) = by
  <2>1. Creates(u, f) \ applied \in SUBSET Nat
    BY TextPlaces
  <2> QED  BY <1>1, <2>1, UptoNext
<1>3. ts \in SUBSET Nat /\ ws \in SUBSET Nat
  BY TextPlaces
<1>4. now.body[f][b] + Cardinality(Upto(ts, n)) = start[b] + Cardinality(Upto(ws, n))
  BY DEF Balanced
<1>5. now.body[f] \in Body /\ now.body[f][b] \in Nat /\ then.body[f][b] \in Nat
  BY StoreShape DEF Body
<1>6. then.body[f][b] + (IF p.scope = "block" /\ p.base = b THEN 1 ELSE 0)
        = now.body[f][b] + (IF p.to = b THEN 1 ELSE 0)
  BY <1>5, PatchedCounts
<1>7. start[b] \in Nat
  <2>1. ASSUME by # {}
        PROVE  Plan[u][CHOOSE i \in by : TRUE].body \in Body
    <3>1. PICK k : k = (CHOOSE i \in by : TRUE) /\ k \in by
      BY <2>1
    <3>2. k \in FactIndices(u) /\ Plan[u][k].scope = "whole"
      BY <3>1 DEF Upto, Creates
    <3>3. k \in Patches(u)
      BY <3>2 DEF FactIndices
    <3>4. Plan[u][k] \in Patch
      BY <3>3, PatchOf
    <3>5. Plan[u][k].body \in Body
      BY <3>2, <3>4, PatchShape
    <3> QED  BY <3>1, <3>5
  <2>2. was.body[f] \in Body
    BY StoreShape
  <2> QED  BY <2>1, <2>2 DEF Body
<1>8. then.body[f][b] + Cardinality(Upto(ts, n + 1)) = start[b] + Cardinality(Upto(ws, n + 1))
  <2> HIDE DEF p, by, start, ts, ws
  <2>1. /\ Cardinality(Upto(ts, n)) \in Nat
        /\ Cardinality(Upto(ws, n)) \in Nat
    BY <1>3, UptoFinite
  <2>2. Cardinality(Upto(ts, n + 1)) = Cardinality(Upto(ts, n)) + (IF n \in ts THEN 1 ELSE 0)
    BY <1>3, <2>1, UptoNext
  <2>3. Cardinality(Upto(ws, n + 1)) = Cardinality(Upto(ws, n)) + (IF n \in ws THEN 1 ELSE 0)
    BY <1>3, <2>1, UptoNext
  <2> QED  BY <1>1, <1>4, <1>5, <1>6, <1>7, <2>1, <2>2, <2>3
<1> QED  BY <1>2, <1>8 DEF Balanced

\* A create is the first that the run does with its fact.
LEMMA BalancedCreate ==
    ASSUME NEW u \in Unit, NEW n \in Nat, NEW f \in Fact, NEW b \in Block,
           NEW was, NEW then \in Store, NEW applied,
           n \in FactIndices(u) \ applied,
           Plan[u][n].scope = "whole", Plan[u][n].target = f,
           \A i \in FactIndices(u) \ applied : i < n => Plan[u][i].target # f,
           then.body[f] = Plan[u][n].body
    PROVE  Balanced(was, then, u, applied, n + 1, f, b)
<1>1. /\ n \in Creates(u, f) \ applied
      /\ n \notin Takes(u, f, b) \ applied
      /\ n \notin Writes(u, f, b) \ applied
  BY DEF Creates, Takes, Writes
<1>2. /\ Upto(Creates(u, f) \ applied, n) = {}
      /\ Upto(Takes(u, f, b) \ applied, n) = {}
      /\ Upto(Writes(u, f, b) \ applied, n) = {}
  BY DEF Upto, Creates, Takes, Writes
<1>3. /\ Upto(Creates(u, f) \ applied, n + 1) = {} \union {n}
      /\ Upto(Takes(u, f, b) \ applied, n + 1) = {}
      /\ Upto(Writes(u, f, b) \ applied, n + 1) = {}
  <2>0. n \in Nat /\ Creates(u, f) \ applied \in SUBSET Nat
    BY TextPlaces
  <2>1. Upto(Creates(u, f) \ applied, n + 1) = Upto(Creates(u, f) \ applied, n) \union {n}
    BY <1>1, <2>0, UptoNext
  <2>2. /\ Upto(Takes(u, f, b) \ applied, n + 1) = Upto(Takes(u, f, b) \ applied, n)
        /\ Upto(Writes(u, f, b) \ applied, n + 1) = Upto(Writes(u, f, b) \ applied, n)
    BY <1>1, TextPlaces, UptoNext
  <2> QED  BY <1>2, <2>1, <2>2
<1>4. (CHOOSE i \in {} \union {n} : TRUE) = n
  OBVIOUS
<1>5. Cardinality({}) = 0
  BY FS_EmptySet
<1>6. then.body[f][b] \in Nat
  BY StoreShape DEF Body
<1>7. {} \union {n} # {}
  OBVIOUS
<1> QED  BY <1>3, <1>4, <1>5, <1>6, <1>7 DEF Balanced

\* Nothing is open, so nothing is written.
LEMMA TextBegins ==
    ASSUME unit' \in Unit, facts' \in Store, work' = facts', next' = 1
    PROVE  TextSoFar' /\ CreatedSoFar'
<1>1. \A i \in FactIndices(unit)' : ~(i < 1)
  <2>1. \A i \in FactIndices(unit') : i \in 1..Len(Plan[unit']) /\ Len(Plan[unit']) \in Nat
    BY PlanAssumption DEF FactIndices, Patches
  <2> QED  BY <2>1 DEF FactIndices, MorphIndices, Patches
<1>2. \A f \in Fact, b \in Block : Balanced(facts', facts', unit', skip', 1, f, b)
  BY BalancedFirst
<1> QED  BY <1>1, <1>2 DEF TextSoFar, CreatedSoFar, Retired, Patches

\* Edges and tables are nothing to the text.
LEMMA TextStays ==
    ASSUME TextSoFar, CreatedSoFar, UNCHANGED <<facts, unit, skip, next>>,
           work'.parent = work.parent, work'.title = work.title,
           \A f \in Fact : \A b \in Block \ MemberRow : work'.body[f][b] = work.body[f][b]
    PROVE  TextSoFar' /\ CreatedSoFar'
<1>1. /\ FactIndices(unit)' = FactIndices(unit) /\ Retired(unit)' = Retired(unit)
      /\ \A i : LastWord(unit, i)' <=> LastWord(unit, i)
  BY DEF FactIndices, MorphIndices, Patches, Retired, LastWord
<1>2. CreatedSoFar'
  BY <1>1 DEF CreatedSoFar
<1>3. ASSUME NEW f \in Fact \ Retired(unit), NEW b \in Block \ MemberRow
      PROVE  Balanced(facts, work', unit, skip, next, f, b)
  <2>1. Balanced(facts, work, unit, skip, next, f, b)
    BY <1>3 DEF TextSoFar
  <2> QED  BY <2>1 DEF Balanced
<1> QED  BY <1>1, <1>2, <1>3 DEF TextSoFar

\* While a run is on, what it skips is still there.
LEMMA SkipsStillThere ==
    ASSUME SkipsThere, UNCHANGED <<facts, unit, skip>>
    PROVE  SkipsThere'
BY DEF SkipsThere, FactIndices, MorphIndices, Patches, Has

\* A create that has landed stays as it is while another patch lands.
LEMMA CreatedStays ==
    ASSUME NEW s \in Store, NEW u \in Unit, NEW p \in Patch, p.scope # "canvas",
           CanLand(s, u, p), NEW q \in Patch, q.scope = "whole", q.target # p.target,
           s.parent[q.target] = q.parent, s.title[q.target] = q.title,
           p.scope = "retire" => q.parent # p.target
    PROVE  Landed(s, p).parent[q.target] = q.parent /\ Landed(s, p).title[q.target] = q.title
<1> DEFINE w == Landed(s, p)
<1>1. p.target \in Fact /\ q.target \in Fact
  BY PatchShape
<1>2. Fields(s, w, p)
  BY LandedFields
<1> QED  BY <1>1, <1>2, PatchShape DEF Fields

\* A patch that lands enters its text in the accounts.
LEMMA ApplyOneWrites ==
    ASSUME Agreeing, NoneMovesUnderRetired, ChangeTypeOK, LandsInv, TextInv, ApplyOne
    PROVE  TextInv'
<1> DEFINE p == Plan[unit][next]
<1>1. /\ unit \in Unit /\ next \in FactIndices(unit) \ skip
      /\ p \in Patch /\ p.scope # "canvas"
      /\ CanLand(work, unit, p)
      /\ work' = Landed(work, p) /\ next' = next + 1
      /\ work \in Store /\ next \in Nat
  BY ApplyOneLands DEF ChangeTypeOK
<1>2. /\ UNCHANGED <<facts, unit, skip>> /\ facts \in Store
      /\ phase = "patching" /\ phase' = "patching"
  BY DEF ApplyOne, ChangeTypeOK
<1>3. NothingLeft(work) /\ DoneSoFar /\ SkipsThere /\ TextSoFar /\ CreatedSoFar
  BY <1>2 DEF LandsInv, TextInv, InTransaction
<1>4. Fields(work, work', p)
  BY <1>1, LandedFields
<1>5. /\ p.target \in Fact
      /\ p.scope \in {"block", "insert", "append", "whole", "frontmatter", "retire"}
      /\ p.scope = "retire" => p.target \in Retired(unit)
  <2>1. p.scope = "retire" => p.target \in Retired(unit)
    BY <1>1 DEF Retired, FactIndices
  <2> QED  BY <1>1, <2>1, PatchShape
<1>6. work' \in Store
  BY <1>4 DEF Fields
<1> HIDE DEF p
<1>7. ASSUME NEW f \in Fact \ Retired(unit), NEW b \in Block \ MemberRow
      PROVE  Balanced(facts, work', unit, skip, next + 1, f, b)
  <2>1. Balanced(facts, work, unit, skip, next, f, b)
    BY <1>3, <1>7 DEF TextSoFar
  <2>2. CASE p.target # f \/ p.scope = "frontmatter"
    <3>1. work'.body[f][b] = work.body[f][b]
      BY <1>4, <1>5, <2>2 DEF Fields
    <3>2. Plan[unit][next].target # f \/ Plan[unit][next].scope = "frontmatter"
      BY <2>2 DEF p
    <3> QED  BY <1>1, <2>1, <3>1, <3>2, BalancedBeside
  <2>3. CASE p.target = f /\ p.scope \in {"block", "insert", "append"}
    <3>1. p.scope = "block" => Has(work.body[f], p.base)
      BY <1>1, <2>3 DEF CanLand, Fresh
    <3>2. work'.body[f] = Patched(work.body[f], p)
      BY <1>4, <2>3 DEF Fields
    <3>3. /\ Plan[unit][next] \in Patch
          /\ Plan[unit][next].scope \in {"block", "insert", "append"}
          /\ Plan[unit][next].target = f
          /\ Plan[unit][next].scope = "block" => Has(work.body[f], Plan[unit][next].base)
          /\ work'.body[f] = Patched(work.body[f], Plan[unit][next])
      BY <1>1, <2>3, <3>1, <3>2 DEF p
    <3> QED  BY <1>1, <1>2, <1>6, <2>1, <3>3, BalancedEdit
  <2>4. CASE p.target = f /\ p.scope = "whole"
    <3>1. f \notin work.live
      BY <1>1, <2>4 DEF CanLand
    <3>2. ASSUME NEW i \in FactIndices(unit) \ skip, i < next
          PROVE  Plan[unit][i].target # f
      <4>1. Done(work, Plan[unit][i])
        BY <1>3, <3>2 DEF DoneSoFar
      <4>2. Plan[unit][i].target = f => Plan[unit][i].scope = "retire"
        BY <3>1, <4>1 DEF Done
      <4>3. Plan[unit][i].scope = "retire" => Plan[unit][i].target \in Retired(unit)
        BY DEF Retired, FactIndices
      <4> QED  BY <1>7, <4>2, <4>3
    <3>3. work'.body[f] = p.body
      BY <1>4, <2>4 DEF Fields
    <3>4. /\ Plan[unit][next].scope = "whole" /\ Plan[unit][next].target = f
          /\ work'.body[f] = Plan[unit][next].body
      BY <2>4, <3>3 DEF p
    <3> QED  BY <1>1, <1>6, <3>2, <3>4, BalancedCreate
  <2> QED  BY <1>5, <1>7, <2>2, <2>3, <2>4
<1>8. TextSoFar'
  <2>1. Retired(unit)' = Retired(unit)
    BY <1>2 DEF Retired, Patches
  <2> QED  BY <1>1, <1>2, <1>7, <2>1 DEF TextSoFar
<1>9. ASSUME NEW i \in FactIndices(unit) \ skip, i < next + 1,
             Plan[unit][i].scope = "whole", LastWord(unit, i)
      PROVE  /\ work'.parent[Plan[unit][i].target] = Plan[unit][i].parent
             /\ work'.title[Plan[unit][i].target] = Plan[unit][i].title
  <2>1. CASE i = next
    <3>1. p.scope = "whole" /\ p = Plan[unit][i]
      BY <1>9, <2>1 DEF p
    <3> QED  BY <1>4, <3>1 DEF Fields
  <2>2. CASE i # next
    <3> DEFINE q == Plan[unit][i]
    <3>1. i \in Nat /\ q \in Patch
      BY <1>1, PatchOf DEF FactIndices
    <3>2. i < next
      BY <1>1, <1>9, <2>2, <3>1
    <3>3. /\ work.parent[q.target] = q.parent /\ work.title[q.target] = q.title
          /\ q.scope = "whole"
      BY <1>3, <1>9, <3>2 DEF CreatedSoFar
    <3>4. q.target # p.target
      BY <1>1, <1>9, <3>2 DEF LastWord, p
    <3>5. p.scope = "retire" => q.parent # p.target
      BY <1>1, <1>5, <3>3 DEF NoneMovesUnderRetired
    <3> HIDE DEF q
    <3>6. work'.parent[q.target] = q.parent /\ work'.title[q.target] = q.title
      BY <1>1, <3>1, <3>3, <3>4, <3>5, CreatedStays
    <3> QED  BY <3>6 DEF q
  <2> QED  BY <2>1, <2>2
<1>10. CreatedSoFar'
  <2>1. FactIndices(unit)' = FactIndices(unit) /\ \A i : LastWord(unit, i)' <=> LastWord(unit, i)
    BY <1>2 DEF FactIndices, MorphIndices, Patches, LastWord
  <2> QED  BY <1>1, <1>2, <1>9, <2>1 DEF CreatedSoFar
<1>11. SkipsThere'
  BY <1>2, <1>3, SkipsStillThere
<1> QED  BY <1>2, <1>8, <1>10, <1>11 DEF TextInv

\* Every step keeps the accounts.
LEMMA TextKept ==
    ASSUME Agreeing, NoneMovesUnderRetired, ChangeTypeOK, LandsInv, TextInv, [Next]_vars
    PROVE  TextInv'
<1> USE DEF InTransaction
<1>0. /\ facts \in Store /\ work \in Store /\ next \in Nat
      /\ phase # "idle" => unit \in Unit
  BY DEF ChangeTypeOK
<1>1. CASE \/ \E u \in Unit : Draft(u)
           \/ GatesPass \/ PreviewFails \/ RollBack
  <2>1. UNCHANGED <<facts, unit, skip>>
    BY <1>1 DEF Draft, GatesPass, PreviewFails, RollBack, txVars
  <2>2. \/ phase = "idle" /\ phase' = "idle"
        \/ phase # "idle" /\ phase' \in {"gated", "restoring"}
    BY <1>1 DEF Draft, GatesPass, PreviewFails, RollBack, PreviewDone, ApplyFails
  <2>3. phase # "idle" => SkipsThere'
    BY <2>1, SkipsStillThere DEF TextInv
  <2> QED  BY <2>2, <2>3 DEF TextInv
<1>2. CASE \/ \E u \in Unit : Reject(u)
           \/ GatesReject \/ DryRun \/ CanvasWriteFails \/ Restore \/ Commit
  <2>1. \E why : EndRun(why)
    BY <1>2 DEF Reject, GatesReject, DryRun, CanvasWriteFails, Restore, Commit
  <2>2. phase' = "idle"
    BY <2>1 DEF EndRun
  <2> QED  BY <2>2 DEF TextInv
<1>3. ASSUME NEW u \in Unit, Begin(u)
      PROVE  TextInv'
  <2>1. /\ facts' = facts /\ work' = facts /\ unit' = u /\ next' = 1
        /\ skip' \in Skips(u)
    BY <1>3 DEF Begin, OpenTransaction
  <2>2. ASSUME NEW i \in FactIndices(u)
        PROVE  /\ Plan[u][i].scope = "whole" /\ Plan[u][i].target \in facts.live => i \in skip'
               /\ i \in skip' /\ Plan[u][i].scope \in {"block", "insert", "append"} =>
                    Plan[u][i].scope = "block" /\ Has(facts.body[Plan[u][i].target], Plan[u][i].to)
    BY <2>1, <2>2 DEF Skips, IsApplied, MayBeApplied
  <2>3. SkipsThere'
    <3>1. FactIndices(unit)' = FactIndices(u)
      BY <2>1 DEF FactIndices, MorphIndices, Patches
    <3> QED  BY <2>1, <2>2, <3>1 DEF SkipsThere, Has
  <2>4. TextSoFar' /\ CreatedSoFar'
    BY <1>0, <2>1, TextBegins
  <2> QED  BY <2>3, <2>4 DEF TextInv
<1>4. CASE SkipPatch
  <2>1. /\ UNCHANGED <<facts, unit, skip, phase, work>>
        /\ phase = "patching" /\ next' = next + 1 /\ unit \in Unit
        /\ next \notin FactIndices(unit) \ skip
    BY <1>4 DEF SkipPatch, ChangeTypeOK, FactIndices
  <2>2. SkipsThere'
    BY <2>1, SkipsStillThere DEF TextInv
  <2>3. TextSoFar /\ CreatedSoFar
    BY <2>1 DEF TextInv
  <2>4. ASSUME NEW f \in Fact \ Retired(unit), NEW b \in Block \ MemberRow
        PROVE  Balanced(facts, work, unit, skip, next + 1, f, b)
    <3>1. Balanced(facts, work, unit, skip, next, f, b)
      BY <2>3, <2>4 DEF TextSoFar
    <3>2. work.body[f][b] = work.body[f][b]
      OBVIOUS
    <3> QED  BY <1>0, <2>1, <3>1, <3>2, BalancedBeside
  <2>5. TextSoFar'
    <3>1. Retired(unit)' = Retired(unit)
      BY <2>1 DEF Retired, Patches
    <3> QED  BY <2>1, <2>4, <3>1 DEF TextSoFar
  <2>6. CreatedSoFar'
    <3>1. FactIndices(unit)' = FactIndices(unit) /\ \A i : LastWord(unit, i)' <=> LastWord(unit, i)
      BY <2>1 DEF FactIndices, MorphIndices, Patches, LastWord
    <3>2. \A i \in FactIndices(unit) \ skip : i < next + 1 => i < next
      <4>1. \A i \in FactIndices(unit) : i \in Nat
        BY <2>1, PatchOf DEF FactIndices
      <4> QED  BY <1>0, <2>1, <4>1
    <3> QED  BY <2>1, <2>3, <3>1, <3>2 DEF CreatedSoFar
  <2> QED  BY <2>1, <2>2, <2>5, <2>6 DEF TextInv
<1>5. CASE ApplyOne
  BY <1>5, ApplyOneWrites
<1>6. CASE StartSync \/ StartReconcile \/ \E g \in Fact : SyncOne(g) \/ ReconcileOne(g)
  <2>1. /\ UNCHANGED <<facts, unit, skip, next>>
        /\ phase \in {"patching", "syncing", "reconciling"}
    BY <1>6 DEF StartSync, StartReconcile, SyncOne, ReconcileOne
  <2>2. /\ work'.parent = work.parent /\ work'.title = work.title
        /\ \A f \in Fact : \A b \in Block \ MemberRow : work'.body[f][b] = work.body[f][b]
    <3>1. CASE StartSync \/ StartReconcile
      BY <3>1 DEF StartSync, StartReconcile
    <3>2. CASE \E g \in Fact : SyncOne(g)
      BY <1>0, <3>2, WithEdgesShape DEF SyncOne
    <3>3. ASSUME NEW g \in Fact, ReconcileOne(g)
          PROVE  /\ work'.parent = work.parent /\ work'.title = work.title
                 /\ \A f \in Fact : \A b \in Block \ MemberRow :
                       work'.body[f][b] = work.body[f][b]
      <4>1. CASE ~KeepsMembers(work, g) /\ work' = work
        BY <4>1
      <4>2. CASE \E body \in ReconciledBodies(work, g) : work' = WithBody(work, g, body)
        <5>1. PICK body \in ReconciledBodies(work, g) : work' = WithBody(work, g, body)
          BY <4>2
        <5>2. body \in Body /\ \A b \in Block \ MemberRow : body[b] = work.body[g][b]
          BY <1>0, <5>1, RowsOnly
        <5> QED  BY <1>0, <5>1, <5>2, WithBodyShape
      <4> QED  BY <3>3, <4>1, <4>2 DEF ReconcileOne
    <3> QED  BY <1>6, <3>1, <3>2, <3>3
  <2>3. TextSoFar' /\ CreatedSoFar'
    BY <2>1, <2>2, TextStays DEF TextInv
  <2>4. SkipsThere'
    BY <2>1, SkipsStillThere DEF TextInv
  <2> QED  BY <2>3, <2>4 DEF TextInv
<1>7. CASE WriteCanvases
  <2>1. /\ UNCHANGED <<facts, unit, skip>> /\ work' = facts /\ next' = 1
        /\ phase = "gated" /\ unit \in Unit
    BY <1>7 DEF WriteCanvases, OpenTransaction, ChangeTypeOK
  <2>2. SkipsThere'
    BY <2>1, SkipsStillThere DEF TextInv
  <2>3. TextSoFar' /\ CreatedSoFar'
    BY <1>0, <2>1, TextBegins
  <2> QED  BY <2>2, <2>3 DEF TextInv
<1>8. CASE UNCHANGED vars
  <2>1. UNCHANGED <<facts, unit, skip, phase, work, next>>
    BY <1>8 DEF vars, txVars
  <2>2. phase # "idle" => SkipsThere'
    BY <2>1, SkipsStillThere DEF TextInv
  <2>3. InTransaction => TextSoFar' /\ CreatedSoFar'
    BY <2>1, TextStays DEF TextInv
  <2> QED  BY <2>1, <2>2, <2>3 DEF TextInv
<1> QED
  BY <1>1, <1>2, <1>3, <1>4, <1>5, <1>6, <1>7, <1>8 DEF Next, RunStep, Finished

\* When a run commits, the text is what its patches say, but for membership rows.
LEMMA CommitWritesAll ==
    ASSUME ChangeTypeOK, LandsInv, TextInv, Commit
    PROVE  /\ \A f \in Fact \ Retired(unit) : TextAsWritten(facts', unit, skip, f)
           /\ facts'.live \subseteq Fact \ Retired(unit)
<1>1. /\ phase = "reconciling" /\ facts' = work /\ unit \in Unit /\ work \in Store
  BY DEF Commit, ChangeTypeOK
<1>2. DoneSoFar /\ AllPassed /\ TextSoFar
  BY <1>1 DEF LandsInv, TextInv, InTransaction
<1>3. ASSUME NEW f \in Fact \ Retired(unit)
      PROVE  TextAsWritten(work, unit, skip, f)
  <2>1. ASSUME NEW set \in SUBSET FactIndices(unit)
        PROVE  Upto(set, next) = set
    BY <1>2 DEF AllPassed, Upto
  <2>2. \A b : /\ Upto(Creates(unit, f) \ skip, next) = Creates(unit, f) \ skip
               /\ Upto(Takes(unit, f, b) \ skip, next) = Takes(unit, f, b) \ skip
               /\ Upto(Writes(unit, f, b) \ skip, next) = Writes(unit, f, b) \ skip
    BY <2>1 DEF Creates, Takes, Writes
  <2>3. \A b \in Block \ MemberRow : Balanced(facts, work, unit, skip, next, f, b)
    BY <1>2, <1>3 DEF TextSoFar
  <2> QED  BY <2>2, <2>3 DEF Balanced, TextAsWritten
<1>4. ASSUME NEW f \in work.live, f \in Retired(unit)
      PROVE  FALSE
  <2>1. PICK i \in Patches(unit) : Plan[unit][i].scope = "retire" /\ Plan[unit][i].target = f
    BY <1>4 DEF Retired
  <2>2. i \in FactIndices(unit)
    BY <2>1 DEF FactIndices, MorphIndices
  <2>3. Done(work, Plan[unit][i])
    BY <1>2, <2>2 DEF DoneSoFar, AllPassed
  <2> QED  BY <1>4, <2>1, <2>3 DEF Done
<1>5. work.live \subseteq Fact
  BY <1>1, StoreShape
<1> QED  BY <1>1, <1>3, <1>4, <1>5

\* And every patch of its unit is in effect, the skipped ones too.
LEMMA CommitLandsAll ==
    ASSUME ChangeTypeOK, LandsInv, TextInv, Commit
    PROVE  \A i \in FactIndices(unit) : InEffect(facts', unit, skip, i)
<1>1. /\ phase = "reconciling" /\ facts' = work /\ unit \in Unit
      /\ facts \in Store /\ work \in Store
  BY DEF Commit, ChangeTypeOK
<1>2. DoneSoFar /\ AllPassed /\ CreatedSoFar /\ SkipsThere /\ NothingLeft(facts)
  BY <1>1 DEF LandsInv, TextInv, InTransaction
<1>3. /\ \A f \in Fact \ Retired(unit) : TextAsWritten(work, unit, skip, f)
      /\ work.live \subseteq Fact \ Retired(unit)
  BY <1>1, CommitWritesAll
<1> SUFFICES ASSUME NEW i \in FactIndices(unit)
             PROVE  InEffect(work, unit, skip, i)
  BY <1>1
<1> DEFINE p == Plan[unit][i]
<1>4. /\ Done(work, p)
      /\ p.scope = "whole" /\ LastWord(unit, i) /\ i \notin skip =>
           work.parent[p.target] = p.parent /\ work.title[p.target] = p.title
  BY <1>2 DEF DoneSoFar, AllPassed, CreatedSoFar
<1>5. ASSUME p.scope \in {"block", "insert", "append"}, p.target \in work.live,
             p.to \in Block \ MemberRow, Takes(unit, p.target, p.to) = {}
      PROVE  Has(work.body[p.target], p.to)
  <2> DEFINE f  == p.target
             b  == p.to
             by == Creates(unit, f) \ skip
             ws == Writes(unit, f, b) \ skip
             start == IF by = {} THEN facts.body[f] ELSE Plan[unit][CHOOSE k \in by : TRUE].body
  <2>1. f \in Fact \ Retired(unit) /\ b \in Block
    BY <1>3, <1>5
  <2>2. TextAsWritten(work, unit, skip, f)
    BY <1>3, <2>1
  <2>3. work.body[f][b] + Cardinality(Takes(unit, f, b) \ skip) = start[b] + Cardinality(ws)
    BY <1>5, <2>2 DEF TextAsWritten
  <2>4. Cardinality(Takes(unit, f, b) \ skip) = 0
    <3>1. Takes(unit, f, b) \ skip = {}
      BY <1>5
    <3> QED  BY <3>1, FS_EmptySet
  <2>5. work.body[f][b] \in Nat
    BY <1>1, <2>1, StoreShape DEF Body
  <2>6. IsFiniteSet(ws) /\ Cardinality(ws) \in Nat
    <3>1. ws \subseteq 1..Len(Plan[unit]) /\ Len(Plan[unit]) \in Nat
      BY <1>1, PlanAssumption DEF Writes, FactIndices, Patches
    <3>2. IsFiniteSet(1..Len(Plan[unit]))
      BY <3>1, FS_Interval
    <3>3. IsFiniteSet(ws)
      BY <3>1, <3>2, FS_Subset
    <3> QED  BY <3>3, FS_CardinalityType
  <2>7. start[b] \in Nat
    <3>1. ASSUME by # {}
          PROVE  Plan[unit][CHOOSE k \in by : TRUE].body \in Body
      <4>1. PICK k : k = (CHOOSE j \in by : TRUE) /\ k \in by
        BY <3>1
      <4>2. k \in FactIndices(unit) /\ Plan[unit][k].scope = "whole"
        BY <4>1 DEF Creates
      <4>3. k \in Patches(unit)
        BY <4>2 DEF FactIndices
      <4>4. Plan[unit][k] \in Patch
        BY <1>1, <4>3, PatchOf
      <4>5. Plan[unit][k].body \in Body
        BY <4>2, <4>4, PatchShape
      <4> QED  BY <4>1, <4>5
    <3>2. facts.body[f] \in Body
      BY <1>1, <2>1, StoreShape
    <3> QED  BY <2>1, <3>1, <3>2 DEF Body
  <2>8. CASE i \notin skip
    <3>1. i \in ws
      BY <1>5, <2>8 DEF Writes
    <3>2. Cardinality(ws) # 0
      BY <2>6, <3>1, FS_EmptySet
    <3> HIDE DEF f, b, by, ws, start
    <3>3. work.body[f][b] > 0
      BY <2>3, <2>4, <2>5, <2>6, <2>7, <3>2
    <3> QED  BY <3>3 DEF Has, f, b
  <2>9. CASE i \in skip
    <3>1. Has(facts.body[f], b)
      BY <1>2, <1>5, <2>9 DEF SkipsThere
    <3>2. f \in facts.live
      BY <1>1, <1>2, <2>1, <3>1, HasLives
    <3>3. by = {}
      BY <1>2, <3>2 DEF SkipsThere, Creates
    <3>4. start[b] > 0
      BY <3>1, <3>3 DEF Has
    <3> HIDE DEF f, b, by, ws, start
    <3>5. work.body[f][b] > 0
      BY <2>3, <2>4, <2>5, <2>6, <2>7, <3>4
    <3> QED  BY <3>5 DEF Has, f, b
  <2> QED  BY <2>8, <2>9
<1>6. (\A j \in FactIndices(unit) :
          Plan[unit][j].scope = "block" /\ Plan[unit][j].target = p.target
            => Plan[unit][j].base # p.to)
      => Takes(unit, p.target, p.to) = {}
  BY DEF Takes
<1>7. (\A j \in FactIndices(unit) : j > i => Plan[unit][j].target # p.target)
      <=> LastWord(unit, i)
  BY DEF LastWord
<1> HIDE DEF p
<1>8. Plan[unit][i] = p
  BY DEF p
<1> QED  BY <1>4, <1>5, <1>6, <1>7, <1>8 DEF Done, InEffect

\* Where what is gone has left nothing behind to begin with, a unit that retires a
\* fact says nothing else of it and puts nothing under it, and no unit says twice
\* what the frontmatter of a fact is, a run lands all of its unit, text and all, or
\* nothing (AllOrNothing).
THEOREM LandsWhole ==
    ASSUME Agreeing, NoneMovesUnderRetired, NothingLeft(Genesis)
    PROVE  Spec => AllOrNothing
<1>1. Init => LandsInv /\ TextInv
  BY DEF Init, LandsInv, TextInv, InTransaction
<1>2. ChangeTypeOK /\ LandsInv /\ TextInv /\ [Next]_vars => LandsInv' /\ TextInv'
  BY LandsKept, TextKept
<1>3. ChangeTypeOK /\ CanvasesOnDisk /\ LandsInv /\ TextInv /\ [Next]_vars =>
        (phase # "idle" /\ phase' = "idle" =>
           IF verdict' = "applied"
           THEN /\ canvas' = Reshaped(backup, unit)
                /\ \A i \in FactIndices(unit) : InEffect(facts', unit, skip, i)
                /\ \A f \in facts'.live \ Retired(unit) :
                      TextAsWritten(facts', unit, skip, f)
           ELSE facts' = facts /\ canvas' = backup)
  <2> SUFFICES ASSUME ChangeTypeOK, CanvasesOnDisk, LandsInv, TextInv, [Next]_vars,
                      phase # "idle", phase' = "idle"
               PROVE  IF verdict' = "applied"
                      THEN /\ canvas' = Reshaped(backup, unit)
                           /\ \A i \in FactIndices(unit) : InEffect(facts', unit, skip, i)
                           /\ \A f \in facts'.live \ Retired(unit) :
                                 TextAsWritten(facts', unit, skip, f)
                      ELSE facts' = facts /\ canvas' = backup
    OBVIOUS
  <2>1. Next
    BY DEF vars
  <2>2. \/ Commit /\ verdict' = "applied" /\ canvas' = Reshaped(backup, unit)
        \/ verdict' # "applied" /\ facts' = facts /\ canvas' = backup
    BY <2>1, HowARunEnds
  <2> QED  BY <2>2, CommitLandsAll, CommitWritesAll
<1> QED  BY <1>1, <1>2, <1>3, ChangeTypes, PTL DEF Spec, AllOrNothing

-----------------------------------------------------------------------------
(* What an author wrote about a child stays, in plans that write row for row. *)

\* The rows of a body are blocks that it has.
LEMMA RowsHad ==
    ASSUME NEW body, NEW m
    PROVE  m \in Rows(body) <=> m \in MemberRow /\ Has(body, m)
BY DEF Rows

\* A body without one of its blocks keeps the others, and its one row of each.
LEMMA RemovedKeeps ==
    ASSUME NEW body \in Body, NEW b \in Block, Has(body, b)
    PROVE  /\ \A m \in Block \ {b} : Removed(body, b)[m] = body[m]
           /\ Rows(Removed(body, b)) \subseteq Rows(body)
           /\ OneRowEach(body) =>
                OneRowEach(Removed(body, b)) /\ b \notin Rows(Removed(body, b))
<1> DEFINE c == Removed(body, b)
<1>1. /\ \A m \in Block \ {b} : c[m] = body[m]
      /\ c[b] = body[b] - 1
      /\ body[b] \in Nat /\ body[b] > 0
  BY DEF Removed, Has, Body
<1>2. MemberRow \subseteq Block
  BY DEF Block
<1> HIDE DEF c
<1>3. Rows(c) \subseteq Rows(body)
  BY <1>1, <1>2 DEF Rows, Has
<1>4. ASSUME OneRowEach(body)
      PROVE  b \notin Rows(c) /\ OneRowEach(c)
  <2>1. b \in Rows(c) => body[b] = 1
    BY <1>3, <1>4 DEF OneRowEach
  <2>2. b \notin Rows(c)
    BY <1>1, <2>1 DEF Rows, Has
  <2>3. \A m \in Rows(c) : m \in Rows(body) /\ m \in Block \ {b}
    BY <1>2, <1>3, <2>2 DEF Rows
  <2> QED  BY <1>1, <1>4, <2>2, <2>3 DEF OneRowEach
<1> QED  BY <1>1, <1>3, <1>4 DEF c

\* A body with a block more keeps what it had; it keeps its one row of each when
\* the block is none, or the row of a fact of which it has none.
LEMMA AddedKeeps ==
    ASSUME NEW body \in Body, NEW b \in Block
    PROVE  /\ \A m \in Block : Has(body, m) => Has(Added(body, b), m)
           /\ Has(Added(body, b), b)
           /\ OneRowEach(body) /\ (b \in MemberRow => \A m \in Rows(body) : m.id # b.id) =>
                OneRowEach(Added(body, b))
<1> DEFINE c == Added(body, b)
<1>1. /\ \A m \in Block \ {b} : c[m] = body[m]
      /\ c[b] = body[b] + 1
      /\ body \in [Block -> Nat]
  BY DEF Added, Body
<1>2. MemberRow \subseteq Block
  BY DEF Block
<1> HIDE DEF c
<1>3. /\ \A m \in Block : Has(body, m) => Has(c, m)
      /\ Has(c, b)
  BY <1>1 DEF Has
<1>4. ASSUME OneRowEach(body), b \in MemberRow => \A m \in Rows(body) : m.id # b.id
      PROVE  OneRowEach(c)
  <2>1. \A m \in Rows(c) : (m \in Rows(body) /\ m # b) \/ (m = b /\ b \in MemberRow)
    BY <1>1, <1>2 DEF Rows, Has
  <2>2. b \in MemberRow => body[b] = 0 /\ c[b] = 1
    <3>1. b \in MemberRow => b \notin Rows(body)
      BY <1>4
    <3> QED  BY <1>1, <3>1 DEF Rows, Has
  <2>3. \A m \in Rows(body) : m # b => c[m] = 1
    BY <1>1, <1>2, <1>4 DEF OneRowEach, Rows
  <2> QED  BY <1>4, <2>1, <2>2, <2>3 DEF OneRowEach
<1> QED  BY <1>3, <1>4 DEF c

\* A block patch that writes row for row takes away its base only and leaves what
\* it writes.
LEMMA BlockPatchRows ==
    ASSUME NEW body \in Body, OneRowEach(body), NEW p \in Patch, p.scope = "block",
           Has(body, p.base),
           p.to \in MemberRow => p.base \in MemberRow /\ p.base.id = p.to.id
    PROVE  /\ \A m \in Rows(body) : m # p.base => m \in Rows(Patched(body, p))
           /\ p.to \in MemberRow => p.to \in Rows(Patched(body, p))
           /\ OneRowEach(Patched(body, p))
<1> DEFINE rest == Removed(body, p.base)
<1>1. p.base \in Block /\ p.to \in Block \union {NoBlock} /\ p.scope # "canvas"
  BY PatchShape DEF Patch, Block
<1>2. /\ rest \in Body
      /\ \A m \in Block \ {p.base} : rest[m] = body[m]
      /\ Rows(rest) \subseteq Rows(body)
      /\ OneRowEach(rest) /\ p.base \notin Rows(rest)
  BY <1>1, BodyChanged, RemovedKeeps
<1>3. MemberRow \subseteq Block /\ NoBlock \notin MemberRow
  BY DEF Block, MemberRow, NoBlock
<1>4. Patched(body, p) = IF p.to = NoBlock THEN rest ELSE Added(rest, p.to)
  BY DEF Patched
<1> HIDE DEF rest
<1>5. \A m \in Rows(body) : m # p.base => m \in Rows(rest)
  BY <1>2, <1>3 DEF Rows, Has
<1>6. CASE p.to = NoBlock
  BY <1>2, <1>3, <1>4, <1>5, <1>6
<1>7. CASE p.to # NoBlock
  <2>1. p.to \in MemberRow => \A m \in Rows(rest) : m.id # p.to.id
    <3> SUFFICES ASSUME p.to \in MemberRow, NEW m \in Rows(rest), m.id = p.to.id
                 PROVE  FALSE
      OBVIOUS
    <3>1. p.base \in Rows(body) /\ m \in Rows(body) /\ m.id = p.base.id
      BY <1>2 DEF Rows
    <3>2. m = p.base
      BY <3>1 DEF OneRowEach
    <3> QED  BY <1>2, <3>2
  <2>2. /\ \A m \in Block : Has(rest, m) => Has(Added(rest, p.to), m)
        /\ Has(Added(rest, p.to), p.to)
        /\ OneRowEach(Added(rest, p.to))
    BY <1>1, <1>2, <1>7, <2>1, AddedKeeps
  <2>3. \A m \in Rows(rest) : m \in Rows(Added(rest, p.to))
    BY <1>3, <2>2 DEF Rows
  <2>4. p.to \in MemberRow => p.to \in Rows(Added(rest, p.to))
    BY <2>2 DEF Rows
  <2> QED  BY <1>4, <1>5, <1>7, <2>2, <2>3, <2>4
<1> QED  BY <1>6, <1>7

\* So do the patches that add a block which is no row.
LEMMA AddPatchRows ==
    ASSUME NEW body \in Body, OneRowEach(body), NEW p \in Patch,
           p.scope \in {"insert", "append"}, p.scope = "insert" => p.to \notin MemberRow
    PROVE  /\ \A m \in Rows(body) : m \in Rows(Patched(body, p))
           /\ OneRowEach(Patched(body, p))
<1>1. p.to \in Block /\ Patched(body, p) = Added(body, p.to)
  BY PatchShape DEF Patched
<1>2. p.to \notin MemberRow
  BY DEF Patch, SectionBlock, MemberRow
<1>3. MemberRow \subseteq Block
  BY DEF Block
<1> QED  BY <1>1, <1>2, <1>3, AddedKeeps DEF Rows

\* The table the tool writes has one row for each child, and if there was one before
\* it says what that one said.
LEMMA ReconciledSays ==
    ASSUME NEW s \in Store, NEW f \in Fact, OneRowEach(s.body[f]),
           NEW body \in ReconciledBodies(s, f)
    PROVE  /\ OneRowEach(body)
           /\ \A m \in Rows(s.body[f]) : m.id \in Children(s, f) =>
                \E n \in Rows(body) : n.id = m.id /\ n.note = m.note
<1>1. RowsMatchChildren(WithBody(s, f, body), f)
  BY RowsExact
<1>2. body \in Body
  BY RowsOnly
<1>3. WithBody(s, f, body).body[f] = body
  BY <1>2, WithBodyShape
<1>4. OneRowEach(body)
  BY <1>1, <1>3 DEF RowsMatchChildren, OneRowEach
<1>5. ASSUME NEW m \in Rows(s.body[f]), m.id \in Children(s, f)
      PROVE  \E n \in Rows(body) : n.id = m.id /\ n.note = m.note
  <2> DEFINE c == m.id
             kept == {r.note : r \in {q \in Rows(s.body[f]) : q.id = c}}
  <2>1. PICK note \in [Children(s, f) -> Text] :
           /\ body = WithRows(s, f, note)
           /\ \A d \in Children(s, f) : note[d] \in Notes(s, f, d)
    BY DEF ReconciledBodies
  <2>2. Notes(s, f, c) = IF kept = {} THEN {Goal} ELSE kept
    BY DEF Notes
  <2>3. kept = {m.note}
    BY DEF OneRowEach
  <2>4. note[c] = m.note
    <3> HIDE DEF kept, c
    <3>1. note[c] \in Notes(s, f, c)
      BY <1>5, <2>1 DEF c
    <3> QED  BY <2>2, <2>3, <3>1
  <2> DEFINE n == Row(s, c, note[c])
  <2>5. c \in Fact /\ s.title[c] \in Title /\ note[c] \in Text
    BY <1>5, <2>1, StoreShape DEF Children
  <2>6. n \in MemberRow /\ n.id = c /\ n.note = note[c]
    <3> HIDE DEF c
    <3> QED  BY <2>5 DEF Row, MemberRow
  <2>7. n \in Block
    BY <2>6 DEF Block
  <2>8. body[n] = 1
    <3> DEFINE rows == {Row(s, d, note[d]) : d \in Children(s, f)}
    <3>1. n \in rows
      BY <1>5
    <3>2. body = [b \in Block |-> IF b \in MemberRow THEN IF b \in rows THEN 1 ELSE 0
                                  ELSE s.body[f][b]]
      BY <2>1 DEF WithRows
    <3> HIDE DEF n, rows
    <3> QED  BY <2>6, <2>7, <3>1, <3>2
  <2> HIDE DEF n
  <2>9. n \in Rows(body)
    BY <2>6, <2>8 DEF Rows, Has
  <2> QED  BY <2>4, <2>6, <2>9
<1> QED  BY <1>4, <1>5

\* While a run is on, what it skips is still written.
LEMMA SkippedStillWritten ==
    ASSUME SkippedWritten, UNCHANGED <<facts, unit, skip>>
    PROVE  SkippedWritten'
BY DEF SkippedWritten, BlockPatches, FactIndices, MorphIndices, Patches, Has

\* What the patches of a unit are about.
LEMMA BlockPatchOf ==
    ASSUME NEW u \in Unit, NEW f \in Fact, NEW i \in BlockPatches(u, f)
    PROVE  /\ i \in FactIndices(u) /\ i \in Nat
           /\ Plan[u][i] \in Patch /\ Plan[u][i].scope = "block" /\ Plan[u][i].target = f
<1>1. /\ i \in FactIndices(u) /\ Plan[u][i].scope = "block" /\ Plan[u][i].target = f
  BY DEF BlockPatches
<1>2. i \in Patches(u)
  BY <1>1 DEF FactIndices
<1> QED  BY <1>1, <1>2, PatchOf

\* A patch that lands keeps what is written about the facts that stay.
LEMMA ApplyOneSays ==
    ASSUME RowForRow, ChangeTypeOK, AuthorInv, ApplyOne
    PROVE  AuthorInv'
<1> DEFINE p == Plan[unit][next]
           t == p.target
<1>1. /\ unit \in Unit /\ next \in FactIndices(unit) \ skip
      /\ p \in Patch /\ p.scope # "canvas" /\ t \in Fact
      /\ CanLand(work, unit, p)
      /\ work' = Landed(work, p) /\ next' = next + 1
      /\ work \in Store /\ facts \in Store /\ next \in Nat
  BY ApplyOneLands DEF ChangeTypeOK
<1>2. /\ UNCHANGED <<facts, unit, skip>>
      /\ phase = "patching" /\ phase' = "patching"
  BY DEF ApplyOne
<1>3. /\ \A f \in Fact : OneRowEach(facts.body[f])
      /\ \A f \in Fact : OneRowEach(work.body[f])
      /\ facts.live \ work.live \subseteq Retired(unit)
      /\ RowsSoFar /\ SkippedWritten
  BY <1>2 DEF AuthorInv, InTransaction
<1>4. /\ p.scope = "block" /\ p.to \in MemberRow =>
           p.base \in MemberRow /\ p.base.id = p.to.id
      /\ p.scope = "insert" => p.to \notin MemberRow
      /\ p.scope = "whole" => OneRowEach(p.body) /\ t \notin Retired(unit)
      /\ p.scope = "retire" => t \in Retired(unit)
  <2>1. p.scope = "block" => next \in BlockPatches(unit, t)
    BY <1>1 DEF BlockPatches
  <2>2. p.scope = "retire" => t \in Retired(unit)
    BY <1>1 DEF Retired, FactIndices
  <2> QED  BY <1>1, <2>1, <2>2 DEF RowForRow
<1>5. \A f \in Fact : \A i \in BlockPatches(unit, f) :
        Plan[unit][i].to \in MemberRow /\ i # next /\ f = t /\ p.scope = "block" =>
            p.base # Plan[unit][i].to
  BY <1>1 DEF RowForRow, BlockPatches
<1>6. next \in BlockPatches(unit, t) => p.scope = "block"
  BY DEF BlockPatches
<1>7. p.scope = "block" => p.base \in {Plan[unit][i].base : i \in BlockPatches(unit, t)}
  BY <1>1 DEF BlockPatches
<1> HIDE DEF p
<1>8. Fields(work, work', p)
  BY <1>1, LandedFields
<1>9. work.body[t] \in Body /\ work.live \subseteq Fact /\ facts.live \subseteq Fact
  BY <1>1, StoreShape
<1> HIDE DEF t
<1>10. \A f \in Fact \ {t} : work'.body[f] = work.body[f]
  BY <1>1, <1>8, PatchShape DEF Fields, t
<1>11. p.scope = "block" =>
          /\ \A m \in Rows(work.body[t]) : m # p.base => m \in Rows(work'.body[t])
          /\ p.to \in MemberRow => p.to \in Rows(work'.body[t])
          /\ OneRowEach(work'.body[t])
  <2> SUFFICES ASSUME p.scope = "block"
               PROVE  /\ \A m \in Rows(work.body[t]) : m # p.base => m \in Rows(work'.body[t])
                      /\ p.to \in MemberRow => p.to \in Rows(work'.body[t])
                      /\ OneRowEach(work'.body[t])
    OBVIOUS
  <2>1. Has(work.body[t], p.base)
    BY <1>1 DEF CanLand, Fresh, t
  <2>2. work'.body[t] = Patched(work.body[t], p)
    BY <1>8 DEF Fields, t
  <2> QED  BY <1>1, <1>3, <1>4, <1>9, <2>1, <2>2, BlockPatchRows
<1>12. p.scope \in {"insert", "append"} =>
          /\ \A m \in Rows(work.body[t]) : m \in Rows(work'.body[t])
          /\ OneRowEach(work'.body[t])
  <2>1. p.scope \in {"insert", "append"} => work'.body[t] = Patched(work.body[t], p)
    BY <1>8 DEF Fields, t
  <2> QED  BY <1>1, <1>3, <1>4, <1>9, <2>1, AddPatchRows
<1>13. p.scope = "frontmatter" => work'.body[t] = work.body[t]
  BY <1>8 DEF Fields
<1>14. p.scope = "whole" => work'.body[t] = p.body /\ t \notin facts.live
  <2>1. p.scope = "whole" => work'.body[t] = p.body /\ t \notin work.live
    BY <1>1, <1>8 DEF Fields, CanLand, t
  <2> QED  BY <1>3, <1>4, <2>1
<1>15. p.scope = "retire" => work'.body[t] = Empty /\ t \notin work'.live
  BY <1>8 DEF Fields, t
<1>16. p.scope \in {"block", "insert", "append", "whole", "frontmatter", "retire"}
  BY <1>1, PatchShape
<1>17. \A f \in Fact : OneRowEach(work'.body[f])
  <2>1. OneRowEach(Empty)
    <3>1. MemberRow \subseteq Block
      BY DEF Block
    <3>2. Rows(Empty) = {}
      BY <3>1 DEF Rows, Has, Empty
    <3> QED  BY <3>2 DEF OneRowEach
  <2>2. OneRowEach(work'.body[t])
    BY <1>1, <1>3, <1>4, <1>11, <1>12, <1>13, <1>14, <1>15, <1>16, <2>1
  <2> QED  BY <1>3, <1>10, <2>2
<1>18. /\ work'.live \subseteq work.live \union {t}
       /\ t \in work'.live => t \in work.live \/ p.scope = "whole"
       /\ work.live \ work'.live \subseteq IF p.scope = "retire" THEN {t} ELSE {}
  BY <1>8, <1>16 DEF Fields, t
<1>19. facts.live \ work'.live \subseteq Retired(unit)
  BY <1>3, <1>4, <1>18
<1>20. \A f \in facts.live \intersect work'.live : f \in Staying
  BY <1>10, <1>14, <1>18 DEF Staying
<1>21. \A m \in Rows(work.body[t]) :
          t \in facts.live \intersect work'.live /\ (p.scope = "block" => m # p.base) =>
             m \in Rows(work'.body[t])
  BY <1>11, <1>12, <1>13, <1>14, <1>15, <1>16
<1>22. ASSUME NEW f \in facts.live \intersect work'.live
       PROVE  /\ \A m \in Rows(facts.body[f])
                     \ {Plan[unit][i].base : i \in BlockPatches(unit, f)} :
                   m \in Rows(work'.body[f])
              /\ \A i \in BlockPatches(unit, f) :
                   (i < next' \/ i \in skip) /\ Plan[unit][i].to \in MemberRow =>
                      Plan[unit][i].to \in Rows(work'.body[f])
  <2>1. f \in Fact /\ f \in Staying
    BY <1>9, <1>20
  <2>2. /\ \A m \in Rows(facts.body[f])
              \ {Plan[unit][i].base : i \in BlockPatches(unit, f)} :
             m \in Rows(work.body[f])
        /\ \A i \in BlockPatches(unit, f) :
             (i < next \/ i \in skip) /\ Plan[unit][i].to \in MemberRow =>
                Plan[unit][i].to \in Rows(work.body[f])
    BY <1>3, <2>1 DEF RowsSoFar
  <2>3. ASSUME NEW m \in Rows(facts.body[f])
                     \ {Plan[unit][i].base : i \in BlockPatches(unit, f)}
        PROVE  m \in Rows(work'.body[f])
    BY <1>7, <1>10, <1>21, <2>1, <2>2, <2>3
  <2>4. ASSUME NEW i \in BlockPatches(unit, f), i < next' \/ i \in skip,
               Plan[unit][i].to \in MemberRow
        PROVE  Plan[unit][i].to \in Rows(work'.body[f])
    <3>1. CASE i = next
      <4>1. f = t /\ p.scope = "block"
        BY <3>1 DEF BlockPatches, p, t
      <4> QED  BY <1>11, <2>4, <3>1, <4>1 DEF p
    <3>2. CASE i # next
      <4>1. i \in Nat
        BY <1>1, <2>1, BlockPatchOf
      <4>2. Plan[unit][i].to \in Rows(work.body[f])
        BY <1>1, <2>2, <2>4, <3>2, <4>1
      <4>3. f = t /\ p.scope = "block" => Plan[unit][i].to # p.base
        BY <1>5, <2>1, <2>4, <3>2
      <4> QED  BY <1>10, <1>21, <2>1, <4>2, <4>3
    <3> QED  BY <3>1, <3>2
  <2> QED  BY <2>3, <2>4
<1>24. RowsSoFar'
  BY <1>2, <1>22 DEF RowsSoFar, Staying, BlockPatches, FactIndices, MorphIndices, Patches
<1>25. SkippedWritten'
  BY <1>2, <1>3, SkippedStillWritten
<1> QED  BY <1>2, <1>3, <1>17, <1>19, <1>24, <1>25 DEF AuthorInv, InTransaction

\* Before its first patch a transaction has every row there is, and those that the
\* patches it skips wrote.
LEMMA OpenSays ==
    ASSUME SkippedWritten', facts' \in Store, work' = facts', next' = 1, unit' \in Unit
    PROVE  RowsSoFar'
<1>1. \A f \in Fact : \A i \in BlockPatches(unit', f) :
         ~(i < 1) /\ (i \in skip' => Has(facts'.body[f], Plan[unit'][i].to))
  <2>1. \A i \in FactIndices(unit') : i \in 1..Len(Plan[unit']) /\ Len(Plan[unit']) \in Nat
    BY PlanAssumption DEF FactIndices, Patches
  <2>2. \A f \in Fact : BlockPatches(unit', f) \subseteq FactIndices(unit')
    BY DEF BlockPatches
  <2>3. \A f \in Fact : \A i \in BlockPatches(unit', f) : ~(i < 1)
    BY <2>1, <2>2
  <2>4. \A f \in Fact : \A i \in BlockPatches(unit', f) \intersect skip' :
          Has(facts'.body[f], Plan[unit'][i].to)
    BY DEF SkippedWritten, BlockPatches, FactIndices, MorphIndices, Patches
  <2> QED  BY <2>3, <2>4
<1>3. facts'.live \subseteq Fact
  BY StoreShape
<1>4. ASSUME NEW f \in facts'.live, NEW i \in BlockPatches(unit', f),
             i < next' \/ i \in skip', Plan[unit'][i].to \in MemberRow
      PROVE  Plan[unit'][i].to \in Rows(work'.body[f])
  BY <1>1, <1>3, <1>4 DEF Rows
<1> QED
  BY <1>4 DEF RowsSoFar, Staying, BlockPatches, FactIndices, MorphIndices, Patches

\* Edges are nothing to a table.
LEMMA SyncOneSays ==
    ASSUME ChangeTypeOK, AuthorInv, NEW g \in Fact, SyncOne(g)
    PROVE  AuthorInv'
<1>1. /\ UNCHANGED <<facts, unit, skip>>
      /\ phase = "syncing" /\ phase' = "syncing"
  BY DEF SyncOne
<1>2. /\ work'.live = work.live /\ work'.parent = work.parent /\ work'.body = work.body
  BY WithEdgesShape DEF SyncOne, ChangeTypeOK
<1>3. SkippedWritten'
  BY <1>1, SkippedStillWritten DEF AuthorInv
<1>4. \A f : Children(work', f) = Children(work, f)
  BY <1>2 DEF Children
<1>5. \A f : Authored(unit, f)' = Authored(unit, f)
  BY <1>1 DEF Authored, FactIndices, MorphIndices, Patches, Rows, Has
<1>6. StillSaid'
  BY <1>1, <1>2, <1>4, <1>5 DEF AuthorInv, StillSaid, Staying
<1> QED  BY <1>1, <1>2, <1>3, <1>6 DEF AuthorInv, InTransaction

\* The tool's rewriting of a table says what the author said.
LEMMA ReconcileOneSays ==
    ASSUME ChangeTypeOK, AuthorInv, NEW g \in Fact, ReconcileOne(g)
    PROVE  AuthorInv'
<1>1. /\ UNCHANGED <<facts, unit, skip>>
      /\ phase = "reconciling" /\ phase' = "reconciling"
      /\ work \in Store /\ work.live \subseteq Fact
  BY StoreShape DEF ReconcileOne, ChangeTypeOK
<1>2. /\ work'.live = work.live /\ work'.parent = work.parent
      /\ \A f \in Fact \ {g} : work'.body[f] = work.body[f]
      /\ work' = work \/ work'.body[g] \in ReconciledBodies(work, g)
  BY <1>1, RowsOnly, WithBodyShape DEF ReconcileOne
<1>3. \A f \in Fact : OneRowEach(work.body[f])
  BY <1>1 DEF AuthorInv, InTransaction
<1>4. \A f : Children(work', f) = Children(work, f)
  BY <1>2 DEF Children
<1>5. /\ OneRowEach(work'.body[g])
      /\ \A m \in Rows(work.body[g]) : m.id \in Children(work, g) =>
           \E n \in Rows(work'.body[g]) : n.id = m.id /\ n.note = m.note
  <2>1. CASE work' = work
    BY <1>3, <2>1
  <2>2. CASE work'.body[g] \in ReconciledBodies(work, g)
    BY <1>1, <1>3, <2>2, ReconciledSays
  <2> QED  BY <1>2, <2>1, <2>2
<1>6. \A f : Authored(unit, f)' = Authored(unit, f)
  BY <1>1 DEF Authored, FactIndices, MorphIndices, Patches, Rows, Has
<1>7. ASSUME NEW f \in Staying, NEW m \in Authored(unit, f), m.id \in Children(work, f)
      PROVE  \E n \in Rows(work'.body[f]) : n.id = m.id /\ n.note = m.note
  <2>1. PICK r \in Rows(work.body[f]) : r.id = m.id /\ r.note = m.note
    BY <1>1, <1>7 DEF AuthorInv, StillSaid
  <2>2. CASE f = g
    <3>1. PICK n \in Rows(work'.body[g]) : n.id = r.id /\ n.note = r.note
      BY <1>5, <1>7, <2>1, <2>2
    <3> QED  BY <2>1, <2>2, <3>1
  <2>3. CASE f # g
    BY <1>1, <1>2, <2>1, <2>3 DEF Staying
  <2> QED  BY <2>2, <2>3
<1>8. StillSaid'
  BY <1>1, <1>2, <1>4, <1>6, <1>7 DEF StillSaid, Staying
<1>9. SkippedWritten'
  BY <1>1, SkippedStillWritten DEF AuthorInv
<1>10. \A f \in Fact : OneRowEach(work'.body[f])
  BY <1>2, <1>3, <1>5
<1> QED  BY <1>1, <1>2, <1>8, <1>9, <1>10 DEF AuthorInv, InTransaction

\* A transaction comes to the patches one by one from the first.
LEMMA NextGrows ==
    ASSUME ChangeTypeOK, next >= 1, [Next]_vars
    PROVE  next' >= 1
<1>1. \A why : EndRun(why) => next' = 1
  BY DEF EndRun
<1>2. next' = next \/ next' = next + 1 \/ next' = 1
  BY <1>1 DEF Next, RunStep, Finished, Draft, Reject, Begin, SkipPatch, ApplyOne, StartSync,
     StartReconcile, SyncOne, ReconcileOne, GatesReject, GatesPass, PreviewFails, DryRun,
     CanvasWriteFails, WriteCanvases, Commit, RollBack, Restore, OpenTransaction, vars, txVars
<1> QED  BY <1>2 DEF ChangeTypeOK

\* Every step keeps what the authors said.
LEMMA AuthorKept ==
    ASSUME RowForRow, ChangeTypeOK, next >= 1, AuthorInv, [Next]_vars
    PROVE  AuthorInv'
<1> USE DEF InTransaction
<1>0. /\ facts \in Store /\ work \in Store
      /\ phase # "idle" => unit \in Unit
  BY DEF ChangeTypeOK
<1>1. CASE \/ \E u \in Unit : Draft(u)
           \/ GatesPass \/ PreviewFails \/ RollBack
  <2>1. UNCHANGED <<facts, unit, skip>>
    BY <1>1 DEF Draft, GatesPass, PreviewFails, RollBack, txVars
  <2>2. \/ phase = "idle" /\ phase' = "idle"
        \/ phase # "idle" /\ phase' \in {"gated", "restoring"}
    BY <1>1 DEF Draft, GatesPass, PreviewFails, RollBack, PreviewDone, ApplyFails
  <2>3. phase # "idle" => SkippedWritten'
    BY <2>1, SkippedStillWritten DEF AuthorInv
  <2> QED  BY <2>1, <2>2, <2>3 DEF AuthorInv
<1>2. CASE \/ \E u \in Unit : Reject(u)
           \/ GatesReject \/ DryRun \/ CanvasWriteFails \/ Restore
  <2>1. facts' = facts /\ \E why : EndRun(why)
    BY <1>2 DEF Reject, GatesReject, DryRun, CanvasWriteFails, Restore
  <2>2. phase' = "idle"
    BY <2>1 DEF EndRun
  <2> QED  BY <2>1, <2>2 DEF AuthorInv
<1>3. ASSUME NEW u \in Unit, Begin(u)
      PROVE  AuthorInv'
  <2>1. /\ facts' = facts /\ work' = facts' /\ unit' = u /\ next' = 1
        /\ skip' \in Skips(u) /\ phase' \in {"patching", "gated"}
    BY <1>3 DEF Begin, OpenTransaction
  <2>2. ASSUME NEW f \in Fact, NEW i \in BlockPatches(u, f), i \in skip'
        PROVE  Has(facts.body[f], Plan[u][i].to)
    <3>1. /\ IsApplied(facts, Plan[u][i]) \/ MayBeApplied(facts, Plan[u][i])
          /\ Plan[u][i].scope = "block" /\ Plan[u][i].target = f
      BY <2>1, <2>2 DEF Skips, BlockPatches
    <3> QED  BY <3>1 DEF IsApplied, MayBeApplied
  <2>3. SkippedWritten'
    BY <2>1, <2>2 DEF SkippedWritten, BlockPatches, FactIndices, MorphIndices, Patches
  <2>4. RowsSoFar'
    BY <1>0, <2>1, <2>3, OpenSays
  <2> QED  BY <2>1, <2>3, <2>4 DEF AuthorInv
<1>4. CASE SkipPatch
  <2>1. /\ UNCHANGED <<facts, unit, skip, phase, work>>
        /\ phase = "patching" /\ next' = next + 1 /\ unit \in Unit /\ next \in Nat
        /\ next \in skip \union MorphIndices(unit)
    BY <1>4 DEF SkipPatch, ChangeTypeOK
  <2>2. SkippedWritten'
    BY <2>1, SkippedStillWritten DEF AuthorInv
  <2>3. \A f \in Fact : \A i \in BlockPatches(unit, f) :
          i < next' \/ i \in skip => i < next \/ i \in skip
    <3>1. \A f \in Fact : \A i \in BlockPatches(unit, f) :
            i \in Nat /\ i \notin MorphIndices(unit)
      BY <2>1, BlockPatchOf DEF FactIndices
    <3> QED  BY <2>1, <3>1
  <2>4. facts.live \subseteq Fact
    BY <1>0, StoreShape
  <2>5. RowsSoFar'
    BY <2>1, <2>3, <2>4
       DEF AuthorInv, RowsSoFar, Staying, BlockPatches, FactIndices, MorphIndices, Patches
  <2> QED  BY <2>1, <2>2, <2>5 DEF AuthorInv
<1>5. CASE ApplyOne
  BY <1>5, ApplyOneSays
<1>6. CASE StartSync
  <2>1. /\ UNCHANGED <<facts, unit, skip, work, next>>
        /\ phase = "patching" /\ phase' = "syncing" /\ next \notin Patches(unit) /\ unit \in Unit
    BY <1>6 DEF StartSync, ChangeTypeOK
  <2>2. \A i \in FactIndices(unit) : i < next
    <3>1. /\ Patches(unit) = 1..Len(Plan[unit]) /\ Len(Plan[unit]) \in Nat
          /\ FactIndices(unit) \subseteq Patches(unit)
      BY <2>1, PlanAssumption DEF FactIndices, Patches
    <3>2. \A i \in FactIndices(unit) : i \in 1..Len(Plan[unit])
      BY <3>1
    <3>3. next \notin 1..Len(Plan[unit]) /\ next \in Nat
      BY <2>1, <3>1 DEF ChangeTypeOK
    <3> QED  BY <3>1, <3>2, <3>3
  <2>3. ASSUME NEW f \in Staying, NEW m \in Authored(unit, f)
        PROVE  m \in Rows(work.body[f])
    <3> DEFINE ps == {Plan[unit][i] : i \in {j \in FactIndices(unit) :
                        Plan[unit][j].scope = "block" /\ Plan[unit][j].target = f}}
    <3>1. \/ m \in Rows(facts.body[f]) /\ m \notin {p.base : p \in ps}
          \/ \E p \in ps : m = p.to /\ p.to \in MemberRow
      BY DEF Authored
    <3>2. ps = {Plan[unit][i] : i \in BlockPatches(unit, f)}
      BY DEF BlockPatches
    <3> HIDE DEF ps
    <3>3. RowsSoFar
      BY <2>1 DEF AuthorInv
    <3>4. CASE m \in Rows(facts.body[f]) /\ m \notin {p.base : p \in ps}
      <4>1. m \notin {Plan[unit][i].base : i \in BlockPatches(unit, f)}
        BY <3>2, <3>4
      <4> QED  BY <3>3, <3>4, <4>1 DEF RowsSoFar
    <3>5. CASE \E p \in ps : m = p.to /\ p.to \in MemberRow
      <4>1. PICK i \in BlockPatches(unit, f) : m = Plan[unit][i].to /\ m \in MemberRow
        BY <3>2, <3>5
      <4>2. i < next
        BY <2>2 DEF BlockPatches
      <4> QED  BY <3>3, <4>1, <4>2 DEF RowsSoFar
    <3> QED  BY <3>1, <3>4, <3>5
  <2>4. StillSaid
    BY <2>3 DEF StillSaid
  <2>5. StillSaid'
    BY <2>1, <2>4
       DEF StillSaid, Staying, Authored, FactIndices, MorphIndices, Patches, Rows, Has
  <2>6. SkippedWritten'
    BY <2>1, SkippedStillWritten DEF AuthorInv
  <2> QED  BY <2>1, <2>5, <2>6 DEF AuthorInv
<1>7. CASE StartReconcile
  <2>1. /\ UNCHANGED <<facts, unit, skip, work>>
        /\ phase = "syncing" /\ phase' = "reconciling"
    BY <1>7 DEF StartReconcile
  <2>2. StillSaid'
    BY <2>1 DEF AuthorInv, StillSaid, Staying, Authored, FactIndices, MorphIndices, Patches,
       Rows, Has
  <2>3. SkippedWritten'
    BY <2>1, SkippedStillWritten DEF AuthorInv
  <2> QED  BY <2>1, <2>2, <2>3 DEF AuthorInv
<1>8. CASE \E g \in Fact : SyncOne(g) \/ ReconcileOne(g)
  BY <1>8, SyncOneSays, ReconcileOneSays
<1>9. CASE WriteCanvases
  <2>1. /\ UNCHANGED <<facts, unit, skip>> /\ work' = facts' /\ next' = 1
        /\ phase = "gated" /\ phase' = "patching" /\ unit' \in Unit
    BY <1>9 DEF WriteCanvases, OpenTransaction, ChangeTypeOK
  <2>2. SkippedWritten'
    BY <2>1, SkippedStillWritten DEF AuthorInv
  <2>3. RowsSoFar'
    BY <1>0, <2>1, <2>2, OpenSays
  <2> QED  BY <2>1, <2>2, <2>3 DEF AuthorInv
<1>10. CASE Commit
  <2>1. facts' = work /\ phase = "reconciling" /\ phase' = "idle"
    BY <1>10 DEF Commit, EndRun
  <2> QED  BY <2>1 DEF AuthorInv
<1>11. CASE UNCHANGED vars
  <2>1. UNCHANGED <<facts, unit, skip, phase, work, next>>
    BY <1>11 DEF vars, txVars
  <2>2. phase # "idle" => SkippedWritten'
    BY <2>1, SkippedStillWritten DEF AuthorInv
  <2>3. RowsSoFar => RowsSoFar'
    BY <2>1 DEF RowsSoFar, Staying, BlockPatches, FactIndices, MorphIndices, Patches
  <2>4. StillSaid => StillSaid'
    BY <2>1
       DEF StillSaid, Staying, Authored, FactIndices, MorphIndices, Patches, Rows, Has
  <2> QED  BY <2>1, <2>2, <2>3, <2>4 DEF AuthorInv
<1> QED
  BY <1>1, <1>2, <1>3, <1>4, <1>5, <1>6, <1>7, <1>8, <1>9, <1>10, <1>11
     DEF Next, RunStep, Finished

\* Only a commit makes a run one that ended as applied.
LEMMA OnlyCommitApplies ==
    ASSUME [Next]_vars, verdict # "applied", verdict' = "applied"
    PROVE  Commit
<1>1. Next
  BY DEF vars
<1>2. \A why : EndRun(why) => verdict' = why
  BY DEF EndRun
<1> QED
  BY <1>1, <1>2 DEF Next, RunStep, Finished, Draft, Reject, Begin, SkipPatch, ApplyOne, StartSync,
     StartReconcile, SyncOne, ReconcileOne, GatesReject, GatesPass, PreviewFails, DryRun,
     CanvasWriteFails, WriteCanvases, RollBack, Restore, vars

\* Where the tables to begin with have at most one row about a fact, and the units
\* write a row only in the place of the row of the same child, every run leaves the
\* author's words about a child as the unit has them, whichever tables the tool
\* rewrites and whatever moves, is renamed, created or retired (AuthoredKept: the
\* authored columns of ReconcileMembershipBody).
THEOREM AuthorsAreKept ==
    ASSUME RowForRow, \A f \in Fact : OneRowEach(Genesis.body[f])
    PROVE  Spec => AuthoredKept
<1>1. Init => next >= 1 /\ AuthorInv
  BY DEF Init, AuthorInv, InTransaction
<1>2. ChangeTypeOK /\ (next >= 1 /\ AuthorInv) /\ [Next]_vars => (next >= 1 /\ AuthorInv)'
  BY AuthorKept, NextGrows
<1>3. ChangeTypeOK /\ AuthorInv /\ [Next]_vars =>
        (verdict # "applied" /\ verdict' = "applied" =>
           \A f \in facts.live \intersect facts'.live : \A m \in Authored(unit, f) :
              m.id \in Children(facts', f) =>
                  \E n \in Rows(facts'.body[f]) : n.id = m.id /\ n.note = m.note)
  <2> SUFFICES ASSUME AuthorInv, [Next]_vars, verdict # "applied", verdict' = "applied"
               PROVE  \A f \in facts.live \intersect facts'.live : \A m \in Authored(unit, f) :
                         m.id \in Children(facts', f) =>
                             \E n \in Rows(facts'.body[f]) : n.id = m.id /\ n.note = m.note
    OBVIOUS
  <2>1. Commit
    BY OnlyCommitApplies
  <2>2. phase = "reconciling" /\ facts' = work
    BY <2>1 DEF Commit
  <2>3. StillSaid
    BY <2>2 DEF AuthorInv
  <2> QED  BY <2>2, <2>3 DEF StillSaid, Staying
<1> QED  BY <1>1, <1>2, <1>3, ChangeTypes, PTL DEF Spec, AuthoredKept

=============================================================================
