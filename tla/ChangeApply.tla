---------------------------- MODULE ChangeApply ----------------------------
(***************************************************************************)
(* change apply: how the patches of a change-unit land on the frozen facts *)
(* (RunChangeApply and its gates in cli/cmd, changeset.Apply).             *)
(*                                                                         *)
(* A run passes the drift and canvas gates, replays the unit in a preview  *)
(* transaction for the morph and retire gates, writes the reshaped canvas  *)
(* files, and then applies the patches for good in one transaction.        *)
(* Preview and transaction are the same routine: the patches in file       *)
(* order, then the edges of every touched fact, then the membership table  *)
(* of every affected parent.  One run is in progress at a time: the write  *)
(* coordinator (module Coordinator) sees to that.                          *)
(***************************************************************************)
EXTENDS FactStore, Sequences

CONSTANTS
    NoTitle,
    Unit, NoUnit,   \* change-units
    Plan,       \* per unit: its patches in file-name order
    Genesis,    \* the facts to begin with
    Canvases,   \* the canvas of each type to begin with
    MaxRuns     \* bound: how many runs of change apply are begun

\* A "block" patch with NoBlock deletes the block it cites; "insert" adds a
\* block after a cited one; "append" (an insert with an entity base) adds a
\* section; a frontmatter patch leaves alone what it gives as NoFact, NoTitle.
\* (No unit edits or deletes a heading.)
Patch ==
    [scope : {"block"}, target : Fact, base : Block \ SectionBlock,
     to : (Block \ SectionBlock) \union {NoBlock}]
    \union [scope : {"insert"}, target : Fact, base : Block, to : Block]
    \union [scope : {"append"}, target : Fact, to : SectionBlock]
    \union [scope : {"whole"}, target : Fact, parent : Fact \union {NoFact},
            title : Title, body : Body]
    \union [scope : {"frontmatter"}, target : Fact,
            parent : Fact \union {NoFact}, title : Title \union {NoTitle}]
    \union [scope : {"retire"}, target : Fact]
    \union [scope : {"canvas"}, type : Type, shape : Shape]

ASSUME PlanAssumption    ==
    NoTitle \notin Title /\ NoUnit \notin Unit /\ Plan \in [Unit -> Seq(Patch)]
ASSUME GenesisAssumption == Genesis \in Store /\ Canvases \in [Type -> Shape]
ASSUME BoundAssumption   == MaxRuns \in Nat

Patches(u)      == DOMAIN Plan[u]
MorphIndices(u) == {i \in Patches(u) : Plan[u][i].scope = "canvas"}
FactIndices(u)  == Patches(u) \ MorphIndices(u)
Retired(u) ==
    {Plan[u][i].target : i \in {j \in Patches(u) : Plan[u][j].scope = "retire"}}

\* The canvases with the unit's morphs written; the last morph of a type wins.
Reshaped(cs, u) ==
    LET of(t) == {i \in MorphIndices(u) : Plan[u][i].type = t}
    IN  [t \in Type |-> IF of(t) = {} THEN cs[t]
                        ELSE Plan[u][CHOOSE i \in of(t) : \A j \in of(t) : j <= i].shape]

-----------------------------------------------------------------------------
VARIABLES
    facts,      \* the committed store
    canvas,     \* the canvas files
    seen,       \* per unit: the bodies its author took entity anchors from
    phase,      \* where the run is
    unit,       \* the unit being applied
    skip,       \* its patches taken to be applied already
    preview,    \* whether the open transaction is the preview
    work,       \* the store as the open transaction sees it
    next,       \* the patch the transaction comes to next
    touched,    \* targets of the patches applied in the transaction
    affected,   \* parents whose membership table has to be reconciled
    todo,       \* facts the current phase has still to visit
    backup,     \* the canvas files before the unit's were written
    verdict,    \* how the last run ended
    runs        \* number of runs begun

txVars == <<work, next, touched, affected, todo>>
vars   == <<facts, canvas, seen, phase, unit, skip, preview, txVars, backup,
            verdict, runs>>

Init ==
    /\ facts = Genesis
    /\ canvas = Canvases
    /\ seen = [u \in Unit |-> Genesis.body]
    /\ phase = "idle"
    /\ unit = NoUnit
    /\ skip = {}
    /\ preview = FALSE
    /\ work = Genesis
    /\ next = 1
    /\ touched = {}
    /\ affected = {}
    /\ todo = {}
    /\ backup = Canvases
    /\ verdict = "none"
    /\ runs = 0

-----------------------------------------------------------------------------
(* One patch against one store.                                              *)

\* CheckDrift: a block anchor by the block's hash, an entity anchor by the root
\* merkle the author saw; a create anchors nothing.
Fresh(s, u, p) ==
    CASE p.scope \in {"block", "insert"} -> Has(s.body[p.target], p.base)
      [] p.scope = "whole"               -> TRUE
      [] OTHER -> p.target \in s.live /\ s.body[p.target] = seen[u][p.target]

\* PatchStateOf: patches that are certainly, and possibly, "applied".  A block
\* patch is when the node its handle names seals to the patch's content; node
\* ids are not modelled, so either answer is taken where such a block exists.
IsApplied(s, p) ==
    \/ p.scope = "whole" /\ p.target \in s.live
    \/ p.scope = "retire" /\ p.target \notin s.live
MayBeApplied(s, p) ==
    p.scope = "block" /\ p.to # NoBlock /\ Has(s.body[p.target], p.to)

\* (Mutant: what an edit replaces stays.)
PatchedBeside(body, p) ==
    CASE p.scope = "block" /\ p.to = NoBlock -> Removed(body, p.base)
      [] p.scope = "whole"                   -> p.body
      [] p.scope \in {"block", "insert", "append"} -> Added(body, p.to)
      [] OTHER                               -> body

\* The body a patch makes of a body.
Patched(body, p) ==
    CASE p.scope = "block" /\ p.to = NoBlock -> Removed(body, p.base)
      [] p.scope = "block" /\ p.to # NoBlock -> Added(Removed(body, p.base), p.to)
      [] p.scope \in {"insert", "append"}    -> Added(body, p.to)
      [] p.scope = "whole"                   -> p.body
      [] OTHER                               -> body

\* What applyOne demands of the store inside the transaction: anchors are
\* checked again there for block, insert and append, but not for the others.
CanLand(s, u, p) ==
    CASE p.scope \in {"block", "insert"} -> Fresh(s, u, p)
      [] p.scope = "append" -> Fresh(s, u, p) /\ ~Has(s.body[p.target], p.to)
      [] p.scope = "whole"  -> p.target \notin s.live /\ p.parent \in s.live \union {NoFact}
      [] p.scope = "frontmatter" -> p.target \in s.live /\ p.parent \in s.live \union {NoFact}
      [] p.scope = "retire" -> p.target \in s.live

Landed(s, p) ==
    CASE p.scope \in {"block", "insert", "append"} ->
           WithBody(s, p.target, Patched(s.body[p.target], p))
      [] p.scope = "whole" ->
           [s EXCEPT !.live = @ \union {p.target},
                     !.parent[p.target] = p.parent,
                     !.title[p.target] = p.title,
                     !.body[p.target] = p.body]
      [] p.scope = "frontmatter" ->
           [s EXCEPT !.parent[p.target] = IF p.parent = NoFact THEN @ ELSE p.parent,
                     !.title[p.target] = IF p.title = NoTitle THEN @ ELSE p.title]
      [] p.scope = "retire" -> Deleted(s, p.target)

\* (Mutant: the parent is only read after the patch.)
ParentLeftForgotten(s, p) == {}

\* The parent a reparented or retired fact leaves, read before it does.
ParentLeft(s, p) ==
    IF \/ p.scope = "frontmatter" /\ p.parent # NoFact
       \/ p.scope = "retire"
    THEN {s.parent[p.target]} \ {NoFact}
    ELSE {}

\* canvasGate: the body this one patch makes of the committed one, against the
\* shape the unit itself may bring.
FitsCanvas(u, p) ==
    p.scope \in {"block", "insert", "append", "whole"} =>
        /\ ValidBody(Patched(facts.body[p.target], p),
                     Reshaped(canvas, u)[TypeOf[p.target]])
        /\ p.scope = "append" => ~Has(facts.body[p.target], p.to)

-----------------------------------------------------------------------------
(* Beginning a run: the drift gate and the canvas gate.                      *)

\* Targets the unit anchors as wholes.
Anchored(u) ==
    {Plan[u][i].target :
        i \in {j \in FactIndices(u) :
                 Plan[u][j].scope \in {"append", "frontmatter", "retire"}}}

\* The author cites those facts as they are: c3x read --cite, or a rebase.
Draft(u) ==
    /\ phase = "idle"
    /\ runs < MaxRuns
    /\ seen' = [seen EXCEPT ![u] =
                  [f \in Fact |-> IF f \in Anchored(u) THEN facts.body[f] ELSE @[f]]]
    /\ seen' # seen
    /\ UNCHANGED <<facts, canvas, phase, unit, skip, preview, txVars, backup,
                   verdict, runs>>

Skips(u) ==
    LET must == {i \in FactIndices(u) : IsApplied(facts, Plan[u][i])}
        may  == {i \in FactIndices(u) : MayBeApplied(facts, Plan[u][i])}
    IN  {must \union some : some \in SUBSET may}

PassesPatchGate(u, applied) ==
    \A i \in FactIndices(u) \ applied :
        Fresh(facts, u, Plan[u][i]) /\ FitsCanvas(u, Plan[u][i])

NeedsPreview(u) == MorphIndices(u) # {} \/ Retired(u) # {}

OpenTransaction ==
    /\ work' = facts
    /\ next' = 1
    /\ touched' = {}
    /\ affected' = {}
    /\ todo' = {}

\* The command ends and prints why.  (What it leaves in memory is reset, so that
\* runs which end alike end in the same state.)
EndRun(why) ==
    /\ phase' = "idle"
    /\ verdict' = why
    /\ unit' = NoUnit
    /\ skip' = {}
    /\ preview' = FALSE
    /\ work' = facts'
    /\ backup' = canvas'
    /\ next' = 1
    /\ touched' = {}
    /\ affected' = {}
    /\ todo' = {}

Reject(u) ==
    /\ phase = "idle"
    /\ runs < MaxRuns
    /\ \E applied \in Skips(u) : ~PassesPatchGate(u, applied)
    /\ runs' = runs + 1
    /\ UNCHANGED <<facts, canvas, seen>>
    /\ EndRun("rejected")

Begin(u) ==
    /\ phase = "idle"
    /\ runs < MaxRuns
    /\ \E applied \in Skips(u) :
        /\ PassesPatchGate(u, applied)
        /\ skip' = applied
    /\ runs' = runs + 1
    /\ unit' = u
    /\ OpenTransaction
    /\ preview' = NeedsPreview(u)
    /\ phase' = IF NeedsPreview(u) THEN "patching" ELSE "gated"
    /\ verdict' = "none"
    /\ UNCHANGED <<facts, canvas, seen, backup>>

-----------------------------------------------------------------------------
(* changeset.Apply, in the preview or for good.                              *)

SkipPatch ==
    /\ phase = "patching"
    /\ next \in Patches(unit)
    /\ next \in skip \union MorphIndices(unit)
    /\ next' = next + 1
    /\ UNCHANGED <<facts, canvas, seen, phase, unit, skip, preview, work,
                   touched, affected, todo, backup, verdict, runs>>

ApplyOne ==
    LET p == Plan[unit][next] IN
    /\ phase = "patching"
    /\ next \in FactIndices(unit) \ skip
    /\ CanLand(work, unit, p)
    /\ work' = Landed(work, p)
    /\ affected' = affected \union ParentLeft(work, p)
    /\ touched' = touched \union {p.target}
    /\ next' = next + 1
    /\ UNCHANGED <<facts, canvas, seen, phase, unit, skip, preview, todo,
                   backup, verdict, runs>>

\* Touched facts and the parents they now have join the affected ones.
StartSync ==
    /\ phase = "patching"
    /\ next \notin Patches(unit)
    /\ affected' = affected \union touched
                     \union ({work.parent[f] : f \in touched \intersect work.live} \ {NoFact})
    /\ todo' = touched
    /\ phase' = "syncing"
    /\ UNCHANGED <<facts, canvas, seen, unit, skip, preview, work, next,
                   touched, backup, verdict, runs>>

SyncOne(f) ==
    /\ phase = "syncing"
    /\ f \in todo
    /\ f \in work.live => EdgesResolve(work, f)
    /\ work' = IF f \in work.live THEN WithEdges(work, f) ELSE work
    /\ todo' = todo \ {f}
    /\ UNCHANGED <<facts, canvas, seen, phase, unit, skip, preview, next,
                   touched, affected, backup, verdict, runs>>

StartReconcile ==
    /\ phase = "syncing"
    /\ todo = {}
    /\ todo' = affected
    /\ phase' = "reconciling"
    /\ UNCHANGED <<facts, canvas, seen, unit, skip, preview, work, next,
                   touched, affected, backup, verdict, runs>>

\* A table that changed must leave its body fit for the canvas file of its type
\* as it is on disk now.  (The parents come in id order; their tables do not
\* depend on each other.)
ReconcileOne(f) ==
    /\ phase = "reconciling"
    /\ f \in todo
    /\ \/ /\ KeepsMembers(work, f)
          /\ \E body \in ReconciledBodies(work, f) :
               /\ body # work.body[f] => ValidBody(body, canvas[TypeOf[f]])
               /\ work' = WithBody(work, f, body)
       \/ ~KeepsMembers(work, f) /\ work' = work
    /\ todo' = todo \ {f}
    /\ UNCHANGED <<facts, canvas, seen, phase, unit, skip, preview, next,
                   touched, affected, backup, verdict, runs>>

ApplyFails ==
    \/ /\ phase = "patching"
       /\ next \in FactIndices(unit) \ skip
       /\ ~CanLand(work, unit, Plan[unit][next])
    \/ /\ phase = "syncing"
       /\ \E f \in todo \intersect work.live : ~EdgesResolve(work, f)
    \/ /\ phase = "reconciling"
       /\ \E f \in todo : KeepsMembers(work, f) /\
            \E body \in ReconciledBodies(work, f) :
                body # work.body[f] /\ ~ValidBody(body, canvas[TypeOf[f]])

-----------------------------------------------------------------------------
(* The morph gate and the retire gate, on the outcome of the preview.        *)

\* (Mutant: only the instances the unit touches are held against the shape.)
MorphStrandsTouchedOnly ==
    \E f \in work.live \intersect touched :
        /\ \E i \in MorphIndices(unit) : Plan[unit][i].type = TypeOf[f]
        /\ ~ValidBody(work.body[f], Reshaped(canvas, unit)[TypeOf[f]])

\* An instance of a reshaped type would not fit the new shape.
MorphStrands ==
    \E f \in work.live :
        /\ \E i \in MorphIndices(unit) : Plan[unit][i].type = TypeOf[f]
        /\ ~ValidBody(work.body[f], Reshaped(canvas, unit)[TypeOf[f]])

\* The retire gate looks at what were the children and citers of the retired
\* facts before the unit.
WasChild(f) == f \in facts.live /\ facts.parent[f] \in Retired(unit)
Suspects    == {f \in facts.live : WasChild(f) \/ facts.edges[f] \intersect Retired(unit) # {}}

\* (Mutant: citers are not looked at.)
RetireStrandsChildrenOnly ==
    \E f \in Suspects \intersect work.live :
        WasChild(f) /\ work.parent[f] \notin work.live

RetireStrands ==
    \E f \in Suspects \intersect work.live :
        \/ WasChild(f) /\ work.parent[f] \notin work.live
        \/ \E r \in Retired(unit) : Mentions(work.body[f], r)

PreviewDone == preview /\ phase = "reconciling" /\ todo = {}

GatesReject ==
    /\ PreviewDone
    /\ MorphStrands \/ RetireStrands
    /\ UNCHANGED <<facts, canvas, seen, runs>>
    /\ EndRun("rejected")

GatesPass ==
    /\ PreviewDone
    /\ ~MorphStrands /\ ~RetireStrands
    /\ phase' = "gated"
    /\ UNCHANGED <<facts, canvas, seen, unit, skip, preview, txVars, backup,
                   verdict, runs>>

\* A unit whose preview does not apply is left for another gate to report: both
\* gates then say nothing.
PreviewFails ==
    /\ preview
    /\ ApplyFails
    /\ phase' = "gated"
    /\ UNCHANGED <<facts, canvas, seen, unit, skip, preview, txVars, backup,
                   verdict, runs>>

-----------------------------------------------------------------------------
(* Landing the unit.                                                         *)

DryRun ==
    /\ phase = "gated"
    /\ UNCHANGED <<facts, canvas, seen, runs>>
    /\ EndRun("dry")

\* On an error halfway the canvas files already written are put back.
CanvasWriteFails ==
    /\ phase = "gated"
    /\ MorphIndices(unit) # {}
    /\ UNCHANGED <<facts, canvas, seen, runs>>
    /\ EndRun("failed")

WriteCanvases ==
    /\ phase = "gated"
    /\ canvas' = Reshaped(canvas, unit)
    /\ OpenTransaction
    /\ preview' = FALSE
    /\ phase' = "patching"
    /\ UNCHANGED <<facts, seen, unit, skip, backup, verdict, runs>>

Commit ==
    /\ ~preview
    /\ phase = "reconciling"
    /\ todo = {}
    /\ facts' = work
    /\ UNCHANGED <<canvas, seen, runs>>
    /\ EndRun("applied")

\* A patch that cannot land, or the store failing: the transaction is rolled
\* back whole.
RollBack ==
    /\ ~preview
    /\ phase \in {"patching", "syncing", "reconciling"}
    /\ phase' = "restoring"
    /\ UNCHANGED <<facts, canvas, seen, unit, skip, preview, txVars, backup,
                   verdict, runs>>

\* restoreCanvases, and the caller's snapshot of the whole directory behind it.
Restore ==
    /\ phase = "restoring"
    /\ canvas' = backup
    /\ UNCHANGED <<facts, seen, runs>>
    /\ EndRun("failed")

RunStep ==
    \/ SkipPatch \/ ApplyOne \/ StartSync \/ StartReconcile
    \/ \E f \in Fact : SyncOne(f) \/ ReconcileOne(f)
    \/ GatesReject \/ GatesPass \/ PreviewFails
    \/ DryRun \/ CanvasWriteFails \/ WriteCanvases
    \/ Commit \/ RollBack \/ Restore

\* No run is left to begin: the only place where the system stops.
Finished == phase = "idle" /\ runs = MaxRuns /\ UNCHANGED vars

Next ==
    \/ \E u \in Unit : Draft(u) \/ Reject(u) \/ Begin(u)
    \/ RunStep
    \/ Finished

\* A run that has begun keeps going.
Spec == Init /\ [][Next]_vars /\ WF_vars(RunStep)

-----------------------------------------------------------------------------
(* Correctness.                                                              *)

\* Membership writes itself: outside a run the table of every parent has
\* exactly one row for each of its children, under the child's current title,
\* whatever was created, renamed, moved, retired or edited by hand in the table
\* (the membership hook of changeset.Apply, membershipReconciler).
MembershipExact ==
    \A f \in Fact : KeepsMembers(facts, f) => RowsMatchChildren(facts, f)

\* "The graph never strands": a table cell that cites a fact cites one that exists,
\* the edges the graph commands follow are exactly the citations, and a fact of a
\* type that is some type's child has a live parent of that type (SyncEdges,
\* retireGate).
GraphNeverStrands ==
    \A f \in facts.live :
        /\ Cites(facts.body[f]) \subseteq facts.live
        /\ facts.edges[f] = Cites(facts.body[f]) \ {f}
        /\ (\E t \in Type : ChildType[t] = TypeOf[f]) =>
              /\ facts.parent[f] \in facts.live
              /\ ChildType[TypeOf[facts.parent[f]]] = TypeOf[f]

\* "The model moves only if every fact can come with it": outside a run every
\* fact is valid against the canvas of its type (canvasGate, morphGate).
InstancesValid ==
    phase = "idle" =>
        \A f \in facts.live : ValidBody(facts.body[f], canvas[TypeOf[f]])

\* What each patch promises of a store: one that no later patch on its fact overrides
\* says whether the fact is there and what its frontmatter is, unless (for a create)
\* the fact was there before; a block that one writes and none takes away is there.
\* (Membership rows are the tool's: MembershipExact and AuthoredKept.)
InEffect(s, u, applied, i) ==
    LET p      == Plan[u][i]
        last   == \A j \in FactIndices(u) : j > i => Plan[u][j].target # p.target
        stays  == \A j \in FactIndices(u) :
                      Plan[u][j].scope = "block" /\ Plan[u][j].target = p.target
                          => Plan[u][j].base # p.to
    IN  /\ last => (p.scope = "retire" <=> p.target \notin s.live)
        /\ last /\ p.scope = "frontmatter" =>
             /\ p.parent # NoFact => s.parent[p.target] = p.parent
             /\ p.title # NoTitle => s.title[p.target] = p.title
        /\ last /\ p.scope = "whole" /\ i \notin applied =>
             s.parent[p.target] = p.parent /\ s.title[p.target] = p.title
        /\ /\ p.scope \in {"block", "insert", "append"} /\ p.target \in s.live
           /\ p.to \in Block \ MemberRow /\ stays
           => Has(s.body[p.target], p.to)

\* The patches that write a block of a fact, and those that take one away.
Writes(u, f, b) ==
    {i \in FactIndices(u) : /\ Plan[u][i].scope \in {"block", "insert", "append"}
                            /\ Plan[u][i].target = f /\ Plan[u][i].to = b}
Takes(u, f, b) ==
    {i \in FactIndices(u) : /\ Plan[u][i].scope = "block"
                            /\ Plan[u][i].target = f /\ Plan[u][i].base = b}

\* The patches that bring a fact with its body.
Creates(u, f) ==
    {i \in FactIndices(u) : Plan[u][i].scope = "whole" /\ Plan[u][i].target = f}

\* A fact has of each block (but its membership rows) what it had, or was created
\* with, and what the patches that were not skipped add and take away: nothing is
\* lost, doubled, or changed unasked.
TextAsWritten(s, u, applied, f) ==
    LET by    == Creates(u, f) \ applied
        start == IF by = {} THEN facts.body[f] ELSE Plan[u][CHOOSE i \in by : TRUE].body
    IN  \A b \in Block \ MemberRow :
          s.body[f][b] + Cardinality(Takes(u, f, b) \ applied)
            = start[b] + Cardinality(Writes(u, f, b) \ applied)

\* A run that says it applied its unit has reshaped the canvases, has every patch in
\* effect, and has changed no text but as the patches say, that of facts the unit says
\* nothing of included; one that says anything else has changed nothing, in the store
\* or in the canvas files (RunChangeApply, applyOne, applyCanvasMorphs, Store.WithTx).
AllOrNothing ==
    [][phase # "idle" /\ phase' = "idle" =>
         IF verdict' = "applied"
         THEN /\ canvas' = Reshaped(backup, unit)
              /\ \A i \in FactIndices(unit) : InEffect(facts', unit, skip, i)
              /\ \A f \in facts'.live \ Retired(unit) :
                    TextAsWritten(facts', unit, skip, f)
         ELSE facts' = facts /\ canvas' = backup]_vars

\* The rows of a membership table as its author has them: those of before the
\* unit that none of its block patches takes away, and those the patches write.
Authored(u, f) ==
    LET ps == {Plan[u][i] : i \in {j \in FactIndices(u) :
                 Plan[u][j].scope = "block" /\ Plan[u][j].target = f}}
    IN  (Rows(facts.body[f]) \ {p.base : p \in ps})
            \union {p.to : p \in {q \in ps : q.to \in MemberRow}}

\* The parent's own words about a child survive every run, also one that edits
\* the table by hand, though the tool rewrites the table whenever a child
\* changes (the authored columns of ReconcileMembershipBody).
AuthoredKept ==
    [][verdict # "applied" /\ verdict' = "applied" =>
         \A f \in facts.live \intersect facts'.live : \A m \in Authored(unit, f) :
            m.id \in Children(facts', f) =>
                \E n \in Rows(facts'.body[f]) : n.id = m.id /\ n.note = m.note]_vars

=============================================================================
