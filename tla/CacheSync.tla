----------------------------- MODULE CacheSync -----------------------------
(***************************************************************************)
(* The document tree of a .c3 directory and its cache c3.db: how commands  *)
(* refresh the cache from the tree, run on it, export it back and undo a   *)
(* failure (runWithIO in cli/main.go; repair.go, import.go, sync.go in     *)
(* cli/cmd).                                                               *)
(*                                                                         *)
(* A writer is one run of a mutating command; the write coordinator        *)
(* (module Coordinator) lets one run at a time.  A checker is one run of   *)
(* plain check, which does not go through the coordinator and yet rebuilds *)
(* a cache that differs from the tree.  A database is told apart from the  *)
(* path it is at: c3.db can be replaced under a process that has it open.  *)
(***************************************************************************)
EXTENDS Integers, FiniteSets

CONSTANTS
    Mutator,    \* runs of commands that change documents
    Repairer,   \* runs of repair
    Checker,    \* runs of plain check
    NoProcess,
    Casts,      \* sets of runs that may take place together
    Killable,   \* runs that may be killed
    Alone,      \* runs that no other run is beside
    Doc,        \* documents of the tree
    Decision,   \* those under adr/
    Content,    \* what a document may say
    NoDoc,      \* a document that does not exist
    Keep,       \* a document that a change leaves alone
    Change,     \* what commands are asked to change
    NoDb,       \* nothing at the path of a database
    Original,   \* the tree to begin with
    MaxEdits    \* bound: how often users edit the tree themselves

Writer  == Mutator \union Repairer
Process == Writer \union Checker
Tree    == [Doc -> Content \union {NoDoc}]
NoChange == [f \in Doc |-> Keep]

ASSUME ProcessAssumption ==
    /\ Mutator \intersect Repairer = {}
    /\ Writer \intersect Checker = {}
    /\ NoProcess \notin Process
    /\ Casts \subseteq SUBSET Process
    /\ Killable \subseteq Process
    /\ Alone \subseteq Process
ASSUME DocumentAssumption ==
    /\ Decision \subseteq Doc
    /\ {NoDoc, Keep} \intersect Content = {}
    /\ NoDoc # Keep
    /\ Change \subseteq [Doc -> Content \union {NoDoc, Keep}]
    /\ Original \in Tree
    /\ MaxEdits \in Nat

\* Databases: the one that was there, and those a process creates by an import,
\* by opening a path with nothing at it, and by putting back its backup.
Built(p) == <<p, "built">>
Fresh(p) == <<p, "fresh">>
Copy(p)  == <<p, "copy">>
Db == {Built(p) : p \in Process \union {NoProcess}}
        \union {Fresh(p) : p \in Process} \union {Copy(p) : p \in Process}
Database == [rows : Tree]
EmptyTree == [f \in Doc |-> NoDoc]

ASSUME DatabaseAssumption == NoDb \notin Database

VARIABLES
    tree,       \* the documents
    unsealed,   \* documents whose seal does not match their text
    dbs,        \* the databases
    cacheAt,    \* the database at c3.db
    tmpAt,      \* the one at .c3.import.tmp.db, a path all processes share
    pc,         \* where each process is
    asked,      \* the change each is asked to make
    forced,     \* processes whose import replaces a cache, whatever the seals
    read,       \* documents each has read, from its cache or the tree
    handle,     \* the database each has open
    todo,       \* documents each has still to write
    backup,     \* the copy of the directory each has taken
    outcome,    \* how each process ended
    edits       \* number of edits

vars == <<tree, unsealed, dbs, cacheAt, tmpAt, pc, asked, forced, read, handle,
          todo, backup, outcome, edits>>

Undoing  == {"wipe", "putback"}
NoBackup == [tree |-> EmptyTree, unsealed |-> {}, cache |-> NoDb]

Init ==
    /\ tree = Original
    /\ unsealed = {}
    /\ dbs = [d \in Db |-> IF d = Built(NoProcess)
                           THEN [rows |-> Original]
                           ELSE [rows |-> EmptyTree]]
    /\ cacheAt \in {Built(NoProcess), NoDb}     \* a clone has no cache
    /\ tmpAt = NoDb
    /\ \E cast \in Casts :
         /\ pc = [p \in Process |-> IF p \in cast THEN "idle" ELSE "done"]
         /\ outcome = [p \in Process |-> IF p \in cast THEN "none" ELSE "absent"]
    /\ asked = [p \in Process |-> NoChange]
    /\ forced = {}
    /\ read = [p \in Process |-> EmptyTree]
    /\ handle = [p \in Process |-> NoDb]
    /\ todo = [p \in Process |-> {}]
    /\ backup = [p \in Process |-> NoBackup]
    /\ edits = 0

-----------------------------------------------------------------------------
Goto(p, from, to) == pc[p] = from /\ pc' = [pc EXCEPT ![p] = to]

\* The process ends; what it has in memory goes with it.
End(p, why) ==
    /\ pc' = [pc EXCEPT ![p] = "done"]
    /\ outcome' = [outcome EXCEPT ![p] = why]
    /\ forced' = forced \ {p}
    /\ read' = [read EXCEPT ![p] = EmptyTree]
    /\ handle' = [handle EXCEPT ![p] = NoDb]
    /\ todo' = [todo EXCEPT ![p] = {}]
    /\ backup' = [backup EXCEPT ![p] = NoBackup]

Active == {p \in Process : pc[p] \notin {"idle", "done"}}
Docs(t) == {f \in Doc : t[f] # NoDoc}
Changed(t, c) == [f \in Doc |-> IF c[f] = Keep THEN t[f] ELSE c[f]]

\* What sync looks at by default: decisions are left out.
Compared == Doc \ Decision

\* store.Open: a path with nothing at it gets an empty database.
OpenPath(p) ==
    IF cacheAt = NoDb
    THEN /\ cacheAt' = Fresh(p)
         /\ dbs' = [dbs EXCEPT ![Fresh(p)] = [rows |-> EmptyTree]]
    ELSE UNCHANGED <<cacheAt, dbs>>

\* A user edits the tree, by hand or with git, which brings documents that are
\* sealed.  (While no command runs, and never so that no document is left:
\* commands take a cache beside an empty tree for the documents.)
Edit(f, v) ==
    /\ Active = {}
    /\ edits < MaxEdits
    /\ edits' = edits + 1
    /\ tree' = [tree EXCEPT ![f] = v]
    /\ Docs(tree') # {}
    /\ unsealed' \in IF v = NoDoc THEN {unsealed \ {f}}
                     ELSE {unsealed \ {f}, unsealed \union {f}}
    /\ UNCHANGED <<dbs, cacheAt, tmpAt, pc, asked, forced, read, handle, todo,
                   backup, outcome>>

-----------------------------------------------------------------------------
(* How a command begins.                                                     *)

MayStart(p) ==
    /\ pc[p] = "idle"
    /\ p \in Writer => Active \intersect Writer = {}
    /\ p \in Alone => Active = {}
    /\ Active \intersect Alone = {}

\* (Mutant: a cache that is there is taken to be up to date.)
AfterStartTrusting(p) ==
    CASE cacheAt # NoDb    -> "snapshot"
      [] Docs(tree) # {}   -> "walk"
      [] OTHER             -> "done"

\* Where a mutating command goes: a cache beside documents is refreshed, a
\* missing one is built.
AfterStart(p) ==
    CASE Docs(tree) # {} /\ cacheAt # NoDb -> "compare"
      [] Docs(tree) # {} /\ cacheAt = NoDb -> "walk"
      [] Docs(tree) = {} /\ cacheAt # NoDb -> "snapshot"
      [] OTHER -> "done"

StartMutation(p) ==
    /\ p \in Mutator
    /\ MayStart(p)
    /\ AfterStart(p) # "done"
    /\ pc' = [pc EXCEPT ![p] = AfterStart(p)]
    /\ asked' \in {[asked EXCEPT ![p] = c] : c \in Change}
    /\ UNCHANGED <<tree, unsealed, dbs, cacheAt, tmpAt, forced, read, handle,
                   todo, backup, outcome, edits>>

\* "local C3 cache unavailable"
Unavailable(p) ==
    /\ p \in Mutator
    /\ MayStart(p)
    /\ AfterStart(p) = "done"
    /\ End(p, "failed")
    /\ UNCHANGED <<tree, unsealed, dbs, cacheAt, tmpAt, asked, edits>>

StartRepair(p) ==
    /\ p \in Repairer
    /\ MayStart(p)
    /\ pc' = [pc EXCEPT ![p] = "snapshot"]
    /\ forced' = forced \union {p}
    /\ UNCHANGED <<tree, unsealed, dbs, cacheAt, tmpAt, asked, read, handle,
                   todo, backup, outcome, edits>>

StartCheck(p) ==
    /\ p \in Checker
    /\ MayStart(p)
    /\ unsealed \intersect Compared = {}
    /\ pc' = [pc EXCEPT ![p] = IF cacheAt = NoDb THEN "walk" ELSE "compare"]
    /\ UNCHANGED <<tree, unsealed, dbs, cacheAt, tmpAt, asked, forced, read,
                   handle, todo, backup, outcome, edits>>

\* BROKEN_SEAL: check reads no further.
SealsBroken(p) ==
    /\ p \in Checker
    /\ MayStart(p)
    /\ unsealed \intersect Compared # {}
    /\ End(p, "failed")
    /\ UNCHANGED <<tree, unsealed, dbs, cacheAt, tmpAt, asked, edits>>

\* An error: a writer that has its backup begins to undo what it did.
Fails(p, where) ==
    /\ pc[p] = where
    /\ IF backup[p] = NoBackup
       THEN End(p, "failed")
       ELSE /\ pc' = [pc EXCEPT ![p] = "wipe"]
            /\ UNCHANGED <<forced, read, handle, todo, backup, outcome>>
    /\ UNCHANGED <<tree, unsealed, asked, edits>>

-----------------------------------------------------------------------------
(* EnsureLocalCache, and the import that builds a cache from the tree.       *)

AfterRefresh(p) ==
    CASE p \in Mutator  -> "snapshot"
      [] p \in Repairer -> "open"
      [] p \in Checker  -> "suite"

ReadCache(p) ==
    /\ Goto(p, "compare", "diff")
    /\ OpenPath(p)
    /\ read' = [read EXCEPT ![p] = dbs'[cacheAt'].rows]
    /\ UNCHANGED <<tree, unsealed, tmpAt, asked, forced, handle, todo, backup,
                   outcome, edits>>

Synced(rows) ==
    /\ \A f \in Compared : rows[f] = tree[f]
    /\ unsealed \intersect Compared = {}

\* A cache that differs from the tree is replaced, whatever the seals say.
Diff(p) ==
    /\ Goto(p, "diff", IF Synced(read[p]) THEN AfterRefresh(p) ELSE "walk")
    /\ forced' = IF Synced(read[p]) THEN forced ELSE forced \union {p}
    /\ read' = [read EXCEPT ![p] = EmptyTree]
    /\ UNCHANGED <<tree, unsealed, dbs, cacheAt, tmpAt, asked, handle, todo,
                   backup, outcome, edits>>

\* RunImport reads the tree before it does anything else.
Importable(p) ==
    /\ Docs(tree) # {}
    /\ p \notin forced => unsealed \ Decision = {} /\ cacheAt = NoDb

Walk(p) ==
    /\ Importable(p)
    /\ Goto(p, "walk", "fill")
    /\ read' = [read EXCEPT ![p] = tree]
    /\ tmpAt' = Built(p)
    /\ dbs' = [dbs EXCEPT ![Built(p)] = [rows |-> EmptyTree]]
    /\ UNCHANGED <<tree, unsealed, cacheAt, asked, forced, handle, todo, backup,
                   outcome, edits>>

WalkRefused(p) ==
    /\ ~Importable(p)
    /\ Fails(p, "walk")
    /\ UNCHANGED <<dbs, cacheAt, tmpAt>>

Fill(p) ==
    /\ Goto(p, "fill", "unlink")
    /\ dbs' = [dbs EXCEPT ![Built(p)] = [rows |-> read[p]]]
    /\ UNCHANGED <<tree, unsealed, cacheAt, tmpAt, asked, forced, read, handle,
                   todo, backup, outcome, edits>>

\* Documents that do not make a store (a parent that is missing, an id used
\* twice): the temporary path is cleared, whoever's database is there.
FillFails(p) ==
    /\ Fails(p, "fill")
    /\ tmpAt' = NoDb
    /\ UNCHANGED <<dbs, cacheAt>>

Unlink(p) ==
    /\ Goto(p, "unlink", "swap")
    /\ cacheAt' = NoDb
    /\ UNCHANGED <<tree, unsealed, dbs, tmpAt, asked, forced, read, handle,
                   todo, backup, outcome, edits>>

SwapIn(p) ==
    /\ tmpAt # NoDb
    /\ Goto(p, "swap", AfterRefresh(p))
    /\ cacheAt' = tmpAt
    /\ tmpAt' = NoDb
    /\ forced' = forced \ {p}
    /\ read' = [read EXCEPT ![p] = EmptyTree]
    /\ UNCHANGED <<tree, unsealed, dbs, asked, handle, todo, backup, outcome,
                   edits>>

\* "replace database": another process has moved or removed the file.
SwapFails(p) ==
    /\ tmpAt = NoDb
    /\ Fails(p, "swap")
    /\ UNCHANGED <<dbs, cacheAt, tmpAt>>

-----------------------------------------------------------------------------
(* The command on the cache, and its export.                                 *)

Snapshot(p) ==
    /\ Goto(p, "snapshot", IF p \in Repairer THEN "walk" ELSE "open")
    /\ backup' = [backup EXCEPT ![p] =
                    [tree |-> tree, unsealed |-> unsealed,
                     cache |-> IF cacheAt = NoDb THEN NoDb ELSE dbs[cacheAt]]]
    /\ read' = [read EXCEPT ![p] = EmptyTree]
    /\ UNCHANGED <<tree, unsealed, dbs, cacheAt, tmpAt, asked, forced, handle,
                   todo, outcome, edits>>

Open(p) ==
    /\ Goto(p, "open", IF p \in Repairer THEN "list" ELSE "command")
    /\ OpenPath(p)
    /\ handle' = [handle EXCEPT ![p] = cacheAt']
    /\ UNCHANGED <<tree, unsealed, tmpAt, asked, forced, read, todo, backup,
                   outcome, edits>>

\* The command's transaction commits.
Command(p) ==
    /\ Goto(p, "command", "list")
    /\ dbs' = [dbs EXCEPT ![handle[p]].rows = Changed(@, asked[p])]
    /\ UNCHANGED <<tree, unsealed, cacheAt, tmpAt, asked, forced, read, handle,
                   todo, backup, outcome, edits>>

\* (Mutant: documents the store does not have are left alone.)
ListStored(p) ==
    /\ Goto(p, "list", "export")
    /\ todo' = [todo EXCEPT ![p] = Docs(dbs[handle[p]].rows)]
    /\ UNCHANGED <<tree, unsealed, dbs, cacheAt, tmpAt, asked, forced, read,
                   handle, backup, outcome, edits>>

\* RunSyncExport renders the store into a directory of its own and compares.
List(p) ==
    /\ Goto(p, "list", "export")
    /\ todo' = [todo EXCEPT ![p] = Docs(tree) \union Docs(dbs[handle[p]].rows)]
    /\ UNCHANGED <<tree, unsealed, dbs, cacheAt, tmpAt, asked, forced, read,
                   handle, backup, outcome, edits>>

\* Documents the store does not have are removed first, then all others are
\* written, one by one.
ExportOne(p, f) ==
    LET rows == dbs[handle[p]].rows IN
    /\ pc[p] = "export"
    /\ f \in todo[p]
    /\ rows[f] # NoDoc => todo[p] \subseteq Docs(rows)
    /\ tree' = [tree EXCEPT ![f] = rows[f]]
    /\ unsealed' = unsealed \ {f}
    /\ todo' = [todo EXCEPT ![p] = @ \ {f}]
    /\ UNCHANGED <<dbs, cacheAt, tmpAt, pc, asked, forced, read, handle, backup,
                   outcome, edits>>

FinishMutation(p) ==
    /\ p \in Mutator
    /\ pc[p] = "export"
    /\ todo[p] = {}
    /\ End(p, "ok")
    /\ UNCHANGED <<tree, unsealed, dbs, cacheAt, tmpAt, asked, edits>>

FinishExport(p) ==
    /\ p \in Repairer
    /\ Goto(p, "export", "suite")
    /\ todo[p] = {}
    /\ UNCHANGED <<tree, unsealed, dbs, cacheAt, tmpAt, asked, forced, read,
                   handle, todo, backup, outcome, edits>>

\* The verification suite opens c3.db once more and compares again; it may
\* find other faults in the documents.
SuitePasses(p) ==
    /\ pc[p] = "suite"
    /\ cacheAt # NoDb
    /\ Synced(dbs[cacheAt].rows)
    /\ End(p, "ok")
    /\ UNCHANGED <<tree, unsealed, dbs, cacheAt, tmpAt, asked, edits>>

SuiteFails(p) ==
    /\ Fails(p, "suite")
    /\ OpenPath(p)
    /\ UNCHANGED tmpAt

\* The command refuses, or a file cannot be written.
CommandFails(p) ==
    /\ Fails(p, "command") \/ Fails(p, "list") \/ Fails(p, "export")
    /\ UNCHANGED <<dbs, cacheAt, tmpAt>>

-----------------------------------------------------------------------------
(* Undoing: the directory is removed, whatever is in it in any order, and     *)
(* copied back from the backup.                                              *)

RemoveDoc(p, f) ==
    /\ pc[p] = "wipe"
    /\ f \in Docs(tree)
    /\ tree' = [tree EXCEPT ![f] = NoDoc]
    /\ unsealed' = unsealed \ {f}
    /\ UNCHANGED <<dbs, cacheAt, tmpAt, pc, asked, forced, read, handle, todo,
                   backup, outcome, edits>>

RemoveCache(p) ==
    /\ pc[p] = "wipe"
    /\ cacheAt # NoDb
    /\ cacheAt' = NoDb
    /\ UNCHANGED <<tree, unsealed, dbs, tmpAt, pc, asked, forced, read, handle,
                   todo, backup, outcome, edits>>

Wiped(p) ==
    /\ Goto(p, "wipe", "putback")
    /\ Docs(tree) = {} /\ cacheAt = NoDb
    /\ tmpAt' = NoDb
    /\ todo' = [todo EXCEPT ![p] = Docs(backup[p].tree)]
    /\ handle' = [handle EXCEPT ![p] = NoDb]
    /\ UNCHANGED <<tree, unsealed, dbs, cacheAt, asked, forced, read, backup,
                   outcome, edits>>

\* "rollback failed": a file cannot be removed or copied back, and the backup
\* goes with the process.
RestoreFails(p) ==
    /\ pc[p] \in Undoing
    /\ End(p, "unrestored")
    /\ UNCHANGED <<tree, unsealed, dbs, cacheAt, tmpAt, asked, edits>>

PutBack(p, f) ==
    /\ pc[p] = "putback"
    /\ f \in todo[p]
    /\ tree' = [tree EXCEPT ![f] = backup[p].tree[f]]
    /\ unsealed' = unsealed \union ({f} \intersect backup[p].unsealed)
    /\ todo' = [todo EXCEPT ![p] = @ \ {f}]
    /\ UNCHANGED <<dbs, cacheAt, tmpAt, pc, asked, forced, read, handle, backup,
                   outcome, edits>>

\* c3.db comes after README.md in the order of the walk.
PutBackCache(p) ==
    /\ pc[p] = "putback"
    /\ backup[p].cache # NoDb
    /\ cacheAt = NoDb
    /\ Docs(backup[p].tree) = {} \/ Docs(tree) # {}
    /\ cacheAt' = Copy(p)
    /\ dbs' = [dbs EXCEPT ![Copy(p)] = backup[p].cache]
    /\ UNCHANGED <<tree, unsealed, tmpAt, pc, asked, forced, read, handle, todo,
                   backup, outcome, edits>>

\* (Mutant: the cache is left out of the rollback.)
FinishUndoingDocs(p) ==
    /\ pc[p] = "putback"
    /\ todo[p] = {}
    /\ End(p, "failed")
    /\ UNCHANGED <<tree, unsealed, dbs, cacheAt, tmpAt, asked, edits>>

FinishUndoing(p) ==
    /\ pc[p] = "putback"
    /\ todo[p] = {}
    /\ backup[p].cache # NoDb => cacheAt # NoDb
    /\ End(p, "failed")
    /\ UNCHANGED <<tree, unsealed, dbs, cacheAt, tmpAt, asked, edits>>

-----------------------------------------------------------------------------
\* What a killed process did stays; its backup is in a directory nobody reads.
Kill(p) ==
    /\ p \in Killable \intersect Active
    /\ End(p, "killed")
    /\ UNCHANGED <<tree, unsealed, dbs, cacheAt, tmpAt, asked, edits>>

Start(p) ==
    \/ StartMutation(p) \/ Unavailable(p) \/ StartRepair(p)
    \/ StartCheck(p) \/ SealsBroken(p)

Step(p) ==
    \/ ReadCache(p) \/ Diff(p) \/ Walk(p) \/ WalkRefused(p)
    \/ Fill(p) \/ FillFails(p) \/ Unlink(p) \/ SwapIn(p) \/ SwapFails(p)
    \/ Snapshot(p) \/ Open(p) \/ Command(p) \/ CommandFails(p) \/ List(p)
    \/ \E f \in Doc : ExportOne(p, f) \/ RemoveDoc(p, f) \/ PutBack(p, f)
    \/ FinishMutation(p) \/ FinishExport(p) \/ SuitePasses(p) \/ SuiteFails(p)
    \/ RemoveCache(p) \/ Wiped(p) \/ PutBackCache(p) \/ FinishUndoing(p)
    \/ RestoreFails(p)

\* Every command has run: the only state without a further step.
AllDone == (\A p \in Process : pc[p] = "done") /\ UNCHANGED vars

Next ==
    \/ \E p \in Process : Start(p) \/ Step(p) \/ Kill(p)
    \/ \E f \in Doc, v \in Content \union {NoDoc} : Edit(f, v)
    \/ AllDone

\* A command that has begun keeps going unless it is killed.
Spec == Init /\ [][Next]_vars /\ \A p \in Process : WF_vars(Step(p))

-----------------------------------------------------------------------------
(* Correctness.                                                              *)

\* The documents are what their users and the commands that succeeded made
\* them: a command overwrites nothing it was not asked to change, changes all
\* it was asked to or, if it fails, nothing, and one that is killed leaves
\* nothing but a part of its own change; it is only one that is killed in its
\* rollback, or whose rollback fails, that loses documents, and only where it has
\* left none that the next command starts from what the cache says
\* (EnsureLocalCache, RunSyncExport, mutationSnapshot).  A writer's work shows
\* when it ends.  Decisions, which EnsureLocalCache does not compare, are not in
\* the promise.
Hidden == {p \in Writer : backup[p] # NoBackup}
Hider  == CHOOSE p \in Hidden : TRUE

RowsOf(d) == IF d = NoDb THEN EmptyTree ELSE d.rows
AtPath    == IF cacheAt = NoDb THEN EmptyTree ELSE dbs[cacheAt].rows

Visible == IF Hidden = {} THEN tree ELSE backup[Hider].tree
Cached  == IF Hidden = {} THEN AtPath ELSE RowsOf(backup[Hider].cache)

Progress(p) ==
    CASE pc[p] = "idle"    -> "waiting"
      [] outcome[p] = "absent" -> "waiting"
      [] pc[p] = "done" /\ outcome[p] # "absent" -> outcome[p]
      [] pc[p] \in Undoing -> "undoing"
      [] OTHER             -> "working"

Seen(t) == [f \in Compared |-> t[f]]

Promise == INSTANCE Documents WITH
    Doc <- Compared,
    Change <- {Seen(c) : c \in Change},
    doc <- Seen(Visible),
    cached <- Seen(Cached),
    asked <- [p \in Writer |-> Seen(asked[p])],
    status <- [p \in Writer |-> Progress(p)]

ImplementsDocuments == Promise!Spec

Ends(p, why) == pc[p] # "done" /\ outcome'[p] = why

\* A writer that succeeds leaves a cache that says what the tree says, and a
\* tree with every seal in place, whatever it found (RunSyncExport, RunRepair).
SyncedOnSuccess ==
    [][\A p \in Writer : Ends(p, "ok") =>
         /\ cacheAt' # NoDb
         /\ dbs'[cacheAt'].rows = tree'
         /\ unsealed' = {}]_vars

\* One that fails, and does not report that its rollback failed too, leaves the
\* directory as it was when it took its backup, the cache and broken seals
\* included, whatever it had written or removed (mutationSnapshot.restore).
FailureLeavesNoTrace ==
    [][\A p \in Writer : Ends(p, "failed") /\ backup[p] # NoBackup =>
         /\ tree' = backup[p].tree
         /\ unsealed' = backup[p].unsealed
         /\ IF backup[p].cache = NoDb THEN cacheAt' = NoDb
            ELSE cacheAt' # NoDb /\ dbs'[cacheAt'] = backup[p].cache]_vars

=============================================================================
