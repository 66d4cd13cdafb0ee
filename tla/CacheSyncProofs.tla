--------------------------- MODULE CacheSyncProofs ---------------------------
(***************************************************************************)
(* What TLAPS proves of CacheSync, for every set of commands, documents    *)
(* and changes and every number of edits, when a writer has the directory  *)
(* to itself: a command that succeeds leaves tree and cache in agreement,  *)
(* one that fails leaves no trace, and commands do to the documents what   *)
(* module Documents promises.                                              *)
(***************************************************************************)
EXTENDS CacheSync, TLAPS

-----------------------------------------------------------------------------
(* The inductive invariant.                                                  *)

Idle      == {"idle", "done"}
Importing == {"walk", "fill", "unlink", "swap"}
Exporting == {"list", "export"}

MutatorPlaces  == Idle \union Importing \union Exporting \union Undoing
                    \union {"compare", "diff", "snapshot", "open", "command"}
RepairerPlaces == Idle \union Importing \union Exporting \union Undoing
                    \union {"snapshot", "open", "suite"}
CheckerPlaces  == Idle \union Importing \union {"compare", "diff", "suite"}
Places         == MutatorPlaces \union RepairerPlaces

Backups == [tree : Tree, unsealed : SUBSET Doc, cache : Database \union {NoDb}]
AnyChange == [Doc -> Content \union {NoDoc, Keep}]

TypeOK ==
    /\ tree \in Tree /\ unsealed \in SUBSET Doc /\ dbs \in [Db -> Database]
    /\ cacheAt \in Db \union {NoDb} /\ tmpAt \in Db \union {NoDb}
    /\ pc \in [Process -> Places] /\ asked \in [Process -> AnyChange]
    /\ forced \in SUBSET Process /\ read \in [Process -> Tree]
    /\ handle \in [Process -> Db \union {NoDb}] /\ todo \in [Process -> SUBSET Doc]
    /\ backup \in [Process -> Backups]
    /\ outcome \in [Process -> {"none", "absent", "ok", "failed", "killed", "unrestored"}]
    /\ edits \in Nat

\* Who works on a database has opened one.
HandlesAreOpen ==
    \A p \in Process : pc[p] \in {"command"} \union Exporting => handle[p] \in Db

\* What each kind of command goes through, and what it has before it begins, when
\* it is over, and until it takes its backup.
Kept(p) ==
    /\ p \in Mutator => pc[p] \in MutatorPlaces
    /\ p \in Repairer => pc[p] \in RepairerPlaces /\ asked[p] = NoChange
    /\ p \in Checker => pc[p] \in CheckerPlaces /\ backup[p] = NoBackup
    /\ pc[p] = "done" <=> outcome[p] # "none"
    /\ pc[p] \in Idle \union {"compare", "diff", "snapshot"} => backup[p] = NoBackup
    /\ p \in Mutator /\ pc[p] \in Importing => backup[p] = NoBackup

EachItsPlaces == \A p \in Process : Kept(p)

\* Beside a writer nothing runs.
WriterIsAlone ==
    \A p \in Writer, q \in Process : p \in Active /\ q \in Active => p = q

\* A seal that does not match is that of a document that exists.
SealsOfDocuments ==
    /\ unsealed \subseteq Docs(tree)
    /\ \A p \in Process : backup[p].unsealed \subseteq Docs(backup[p].tree)

\* A writer works on the database at c3.db.
WorksOnCache(p) ==
    /\ pc[p] \in {"compare", "diff", "open", "command", "suite"} \union Exporting =>
          cacheAt # NoDb
    /\ p \in Mutator /\ pc[p] = "snapshot" => cacheAt # NoDb
    /\ pc[p] \in {"command"} \union Exporting => handle[p] = cacheAt

\* The backup is the directory until the export begins to write.
BackedUp(p) ==
    pc[p] \in {"open", "command", "list"} \/ (p \in Repairer /\ pc[p] \in Importing) =>
        backup[p].tree = tree /\ backup[p].unsealed = unsealed

\* What is exported is what the database says, sealed.
Exported(p) ==
    /\ pc[p] = "export" => \A f \in Doc \ todo[p] :
          tree[f] = dbs[cacheAt].rows[f] /\ f \notin unsealed
    /\ pc[p] = "suite" => tree = dbs[cacheAt].rows /\ unsealed = {}

\* What is put back is what the backup says, its seals and its cache included.
Restored(p) ==
    pc[p] = "putback" =>
        /\ todo[p] \subseteq Docs(backup[p].tree)
        /\ \A f \in Doc : tree[f] = IF f \in todo[p] THEN NoDoc ELSE backup[p].tree[f]
        /\ unsealed = backup[p].unsealed \ todo[p]
        /\ cacheAt # NoDb => backup[p].cache # NoDb /\ dbs[cacheAt] = backup[p].cache

Directory(p) == WorksOnCache(p) /\ BackedUp(p) /\ Exported(p) /\ Restored(p)

SyncInv ==
    /\ TypeOK /\ HandlesAreOpen /\ EachItsPlaces /\ WriterIsAlone /\ SealsOfDocuments
    /\ \A p \in Writer : Directory(p)

\* What a command changes: for a mutation what its cache says, for a repair the documents.
BaseOf(p) == IF p \in Mutator THEN backup[p].cache.rows ELSE backup[p].tree

\* What a mutation's cache says is what the documents say, decisions aside, if there are any.
StartsFromDocuments(p) ==
    p \in Mutator /\ backup[p] # NoBackup =>
        /\ backup[p].cache # NoDb
        /\ Docs(backup[p].tree) # {} => Seen(backup[p].cache.rows) = Seen(backup[p].tree)

\* What a writer's cache says, as against what it began with and was asked.
CacheSays(p) ==
    /\ pc[p] = "diff" => read[p] = dbs[cacheAt].rows
    /\ pc[p] \in {"fill", "unlink", "swap"} => read[p] = tree /\ tmpAt = Built(p)
    /\ pc[p] \in {"unlink", "swap"} => dbs[Built(p)].rows = tree
    /\ p \in Mutator /\ pc[p] = "snapshot" /\ Docs(tree) # {} =>
          Seen(dbs[cacheAt].rows) = Seen(tree)
    /\ pc[p] \in {"open", "command"} => dbs[cacheAt].rows = BaseOf(p)
    /\ pc[p] \in Exporting \union {"suite"} =>
          dbs[cacheAt].rows = Changed(BaseOf(p), asked[p])

\* What the cache says should the writer stop here.
LeavesBehind(p) ==
    backup[p] # NoBackup =>
        AtPath \in {EmptyTree, RowsOf(backup[p].cache), BaseOf(p), Changed(BaseOf(p), asked[p])}

\* A document that is not as it was is as it was asked to be; while a failure is
\* undone it may be missing.
HalfDone(p) ==
    /\ pc[p] \in {"open", "command", "suite"} \union Exporting \union Undoing =>
          backup[p] # NoBackup
    /\ pc[p] \in {"fill", "unlink", "swap"} => Docs(tree) # {}
    /\ pc[p] = "export" => \A f \in todo[p] : tree[f] = backup[p].tree[f]
    /\ pc[p] = "wipe" => \A f \in Doc :
          tree[f] \in {backup[p].tree[f], Changed(BaseOf(p), asked[p])[f], NoDoc}

WriterSays(p) == StartsFromDocuments(p) /\ CacheSays(p) /\ LeavesBehind(p) /\ HalfDone(p)

\* What a check builds, beside others that do, is nothing yet or the documents.
Builds(p) ==
    pc[p] \in {"fill", "unlink", "swap"} =>
        /\ read[p] = tree
        /\ tmpAt # NoDb => dbs[tmpAt].rows \in {EmptyTree, tree}

DocumentInv == (\A p \in Writer : WriterSays(p)) /\ (\A p \in Checker : Builds(p))

-----------------------------------------------------------------------------
(* Types.                                                                    *)

\* What is written down in no variable has its type too.
LEMMA Values ==
    /\ EmptyTree \in Tree /\ NoBackup \in Backups /\ NoChange \in AnyChange
    /\ \A t \in Tree : [rows |-> t] \in Database
    /\ \A t \in Tree, c \in AnyChange : Changed(t, c) \in Tree
    /\ \A d \in Database, t \in Tree :
          d.rows \in Tree /\ [d EXCEPT !.rows = t] \in Database /\ [d EXCEPT !.rows = t].rows = t
    /\ \A t \in Tree, f \in Doc, v \in Content \union {NoDoc} : [t EXCEPT ![f] = v] \in Tree
    /\ \A p \in Process : Built(p) \in Db /\ Fresh(p) \in Db /\ Copy(p) \in Db
    /\ Change \subseteq AnyChange
<1>1. EmptyTree \in Tree
    BY DEF EmptyTree, Tree
<1>2. NoBackup \in Backups
    BY <1>1 DEF NoBackup, Backups
<1>3. NoChange \in AnyChange
    BY DEF NoChange, AnyChange
<1>4. \A t \in Tree : [rows |-> t] \in Database
    BY DEF Database
<1>5. \A t \in Tree, c \in AnyChange : Changed(t, c) \in Tree
    BY DEF Changed, Tree, AnyChange
<1>6. \A d \in Database, t \in Tree :
          d.rows \in Tree /\ [d EXCEPT !.rows = t] \in Database /\ [d EXCEPT !.rows = t].rows = t
    BY DEF Database
<1>7. \A t \in Tree, f \in Doc, v \in Content \union {NoDoc} : [t EXCEPT ![f] = v] \in Tree
    BY DEF Tree
<1>8. \A p \in Process : Built(p) \in Db /\ Fresh(p) \in Db /\ Copy(p) \in Db
    BY DEF Db
<1>9. Change \subseteq AnyChange
    BY DocumentAssumption DEF AnyChange
<1> QED
    BY <1>1, <1>2, <1>3, <1>4, <1>5, <1>6, <1>7, <1>8, <1>9

\* What a process keeps when it ends, or fails.
LEMMA EndTypes ==
    ASSUME TypeOK, NEW p \in Process, NEW why \in {"ok", "failed", "killed", "unrestored"}, End(p, why)
    PROVE  /\ pc' \in [Process -> Places] /\ forced' \in SUBSET Process
           /\ read' \in [Process -> Tree] /\ handle' \in [Process -> Db \union {NoDb}]
           /\ todo' \in [Process -> SUBSET Doc] /\ backup' \in [Process -> Backups]
           /\ outcome' \in [Process -> {"none", "absent", "ok", "failed", "killed", "unrestored"}]
           /\ pc'[p] = "done" /\ outcome'[p] = why /\ backup'[p] = NoBackup
           /\ \A q \in Process \ {p} :
                 pc'[q] = pc[q] /\ outcome'[q] = outcome[q] /\ backup'[q] = backup[q]
<1>1. "done" \in Places
    BY DEF Places, MutatorPlaces, Idle
<1> QED
    BY <1>1, Values DEF TypeOK, End

\* A step that fails ends its process, or sends one with a backup to undo its work.
LEMMA FailTypes ==
    ASSUME TypeOK, NEW p \in Process, NEW where, Fails(p, where)
    PROVE  /\ pc' \in [Process -> Places] /\ forced' \in SUBSET Process
           /\ read' \in [Process -> Tree] /\ handle' \in [Process -> Db \union {NoDb}]
           /\ todo' \in [Process -> SUBSET Doc] /\ backup' \in [Process -> Backups]
           /\ outcome' \in [Process -> {"none", "absent", "ok", "failed", "killed", "unrestored"}]
           /\ pc[p] = where /\ UNCHANGED <<tree, unsealed, asked, edits>>
           /\ \/ /\ backup[p] = NoBackup /\ backup'[p] = NoBackup
                 /\ pc'[p] = "done" /\ outcome'[p] = "failed"
              \/ /\ backup[p] # NoBackup /\ backup'[p] = backup[p]
                 /\ pc'[p] = "wipe" /\ outcome'[p] = outcome[p]
           /\ \A q \in Process \ {p} :
                 pc'[q] = pc[q] /\ outcome'[q] = outcome[q] /\ backup'[q] = backup[q]
<1>1. "wipe" \in Places
    BY DEF Places, MutatorPlaces, Undoing
<1>2. pc[p] = where /\ UNCHANGED <<tree, unsealed, asked, edits>>
    BY DEF Fails
<1>3. CASE backup[p] = NoBackup
  <2>1. End(p, "failed")
      BY <1>3 DEF Fails
  <2> QED
      BY <1>2, <1>3, <2>1, EndTypes
<1>4. CASE backup[p] # NoBackup
    BY <1>1, <1>2, <1>4 DEF Fails, TypeOK
<1> QED
    BY <1>3, <1>4

\* Opening a path yields a database.
LEMMA OpenTypes ==
    ASSUME TypeOK, NEW p \in Process, OpenPath(p)
    PROVE  /\ dbs' \in [Db -> Database] /\ cacheAt' \in Db
           /\ cacheAt # NoDb => cacheAt' = cacheAt /\ dbs' = dbs
           /\ cacheAt = NoDb => cacheAt' = Fresh(p) /\ dbs'[cacheAt'].rows = EmptyTree
<1>1. [rows |-> EmptyTree] \in Database /\ Fresh(p) \in Db
    BY Values
<1>2. CASE cacheAt = NoDb
  <2>1. cacheAt' = Fresh(p) /\ dbs' = [dbs EXCEPT ![Fresh(p)] = [rows |-> EmptyTree]]
      BY <1>2 DEF OpenPath
  <2>2. dbs' \in [Db -> Database] /\ dbs'[Fresh(p)] = [rows |-> EmptyTree]
      BY <1>1, <2>1 DEF TypeOK
  <2> QED
      BY <1>1, <1>2, <2>1, <2>2
<1>3. CASE cacheAt # NoDb
    BY <1>3 DEF OpenPath, TypeOK
<1> QED
    BY <1>2, <1>3

\* Every step keeps the types.
LEMMA TypeStep == TypeOK /\ HandlesAreOpen /\ [Next]_vars => TypeOK'
<1> SUFFICES ASSUME TypeOK, HandlesAreOpen, [Next]_vars PROVE TypeOK'
    OBVIOUS
<1> USE Values
<1>1. ASSUME NEW p \in Process, Start(p) PROVE TypeOK'
  <2>1. {"snapshot", "walk", "compare"} \subseteq Places
      BY DEF Places, MutatorPlaces, Importing
  <2>2. CASE StartMutation(p)
    <3>1. AfterStart(p) \in Places
        BY <2>1, <2>2 DEF StartMutation, AfterStart
    <3> QED
        BY <2>2, <3>1 DEF StartMutation, TypeOK
  <2>3. CASE Unavailable(p)
    <3>1. End(p, "failed") /\ UNCHANGED <<tree, unsealed, dbs, cacheAt, tmpAt, asked, edits>>
        BY <2>3 DEF Unavailable
    <3> QED
        BY <3>1, EndTypes DEF TypeOK
  <2>4. CASE StartRepair(p)
      BY <2>1, <2>4 DEF StartRepair, TypeOK
  <2>5. CASE StartCheck(p)
      BY <2>1, <2>5 DEF StartCheck, TypeOK
  <2>6. CASE SealsBroken(p)
    <3>1. End(p, "failed") /\ UNCHANGED <<tree, unsealed, dbs, cacheAt, tmpAt, asked, edits>>
        BY <2>6 DEF SealsBroken
    <3> QED
        BY <3>1, EndTypes DEF TypeOK
  <2> QED
      BY <1>1, <2>2, <2>3, <2>4, <2>5, <2>6 DEF Start
<1>2. ASSUME NEW p \in Process, Step(p) PROVE TypeOK'
  <2>1. /\ {"diff", "walk", "fill", "unlink", "swap", "snapshot", "open", "command", "list",
            "export", "suite", "putback"} \subseteq Places
        /\ AfterRefresh(p) \in Places
      BY ProcessAssumption DEF Places, MutatorPlaces, RepairerPlaces, Importing, Exporting, Undoing,
         AfterRefresh, Process, Writer
  <2>2. CASE ReadCache(p)
    <3>1. OpenPath(p) /\ cacheAt' \in Db /\ dbs' \in [Db -> Database]
        BY <2>2, OpenTypes DEF ReadCache
    <3>2. dbs'[cacheAt'].rows \in Tree
        BY <3>1
    <3> QED
        BY <2>1, <2>2, <3>1, <3>2 DEF ReadCache, Goto, TypeOK
  <2>3. CASE Diff(p)
      BY <2>1, <2>3 DEF Diff, Goto, TypeOK
  <2>4. CASE Walk(p)
      BY <2>1, <2>4 DEF Walk, Goto, TypeOK
  <2>5. CASE WalkRefused(p)
      BY <2>5, FailTypes DEF WalkRefused, TypeOK
  <2>6. CASE Fill(p)
      BY <2>1, <2>6 DEF Fill, Goto, TypeOK
  <2>7. CASE FillFails(p)
      BY <2>7, FailTypes DEF FillFails, TypeOK
  <2>8. CASE Unlink(p)
      BY <2>1, <2>8 DEF Unlink, Goto, TypeOK
  <2>9. CASE SwapIn(p)
      BY <2>1, <2>9 DEF SwapIn, Goto, TypeOK
  <2>10. CASE SwapFails(p)
      BY <2>10, FailTypes DEF SwapFails, TypeOK
  <2>11. CASE Snapshot(p)
    <3>1. [tree |-> tree, unsealed |-> unsealed,
           cache |-> IF cacheAt = NoDb THEN NoDb ELSE dbs[cacheAt]] \in Backups
        BY DEF TypeOK, Backups
    <3> QED
        BY <2>1, <2>11, <3>1 DEF Snapshot, Goto, TypeOK
  <2>12. CASE Open(p)
    <3>1. OpenPath(p) /\ cacheAt' \in Db /\ dbs' \in [Db -> Database]
        BY <2>12, OpenTypes DEF Open
    <3> QED
        BY <2>1, <2>12, <3>1 DEF Open, Goto, TypeOK
  <2>13. CASE Command(p)
    <3>1. asked[p] \in AnyChange /\ dbs \in [Db -> Database]
        BY DEF TypeOK
    <3>2. \A d \in Db : dbs[d] \in Database /\ Changed(dbs[d].rows, asked[p]) \in Tree
        BY <3>1
    <3>3. dbs' \in [Db -> Database]
        BY <2>13, <3>1, <3>2 DEF Command
    <3> QED
        BY <2>1, <2>13, <3>3 DEF Command, Goto, TypeOK
  <2>14. CASE CommandFails(p)
      BY <2>14, FailTypes DEF CommandFails, TypeOK
  <2>15. CASE List(p)
    <3>1. Docs(tree) \union Docs(dbs[handle[p]].rows) \in SUBSET Doc
        BY DEF Docs
    <3> QED
        BY <2>1, <2>15, <3>1 DEF List, Goto, TypeOK
  <2>16. ASSUME NEW f \in Doc, ExportOne(p, f) PROVE TypeOK'
    <3>1. handle[p] \in Db
        BY <2>16 DEF ExportOne, HandlesAreOpen, Exporting
    <3>2. dbs[handle[p]] \in Database /\ dbs[handle[p]].rows[f] \in Content \union {NoDoc}
        BY <3>1 DEF TypeOK, Database, Tree
    <3> QED
        BY <2>16, <3>2 DEF ExportOne, TypeOK
  <2>17. ASSUME NEW f \in Doc, PutBack(p, f) PROVE TypeOK'
    <3>1. backup[p].tree[f] \in Content \union {NoDoc}
        BY DEF TypeOK, Backups, Tree
    <3> QED
        BY <2>17, <3>1 DEF PutBack, TypeOK
  <2>18. CASE FinishMutation(p)
      BY <2>18, EndTypes DEF FinishMutation, TypeOK
  <2>19. CASE FinishExport(p)
      BY <2>1, <2>19 DEF FinishExport, Goto, TypeOK
  <2>20. CASE SuitePasses(p)
      BY <2>20, EndTypes DEF SuitePasses, TypeOK
  <2>21. CASE SuiteFails(p)
      BY <2>21, FailTypes, OpenTypes DEF SuiteFails, TypeOK
  <2>22. CASE Wiped(p)
    <3>1. Docs(backup[p].tree) \in SUBSET Doc
        BY DEF Docs
    <3> QED
        BY <2>1, <2>22, <3>1 DEF Wiped, Goto, TypeOK
  <2>23. CASE PutBackCache(p)
    <3>1. backup[p].cache \in Database
        BY <2>23 DEF PutBackCache, TypeOK, Backups
    <3> QED
        BY <2>23, <3>1 DEF PutBackCache, TypeOK
  <2>24. CASE FinishUndoing(p)
      BY <2>24, EndTypes DEF FinishUndoing, TypeOK
  <2>25. CASE RestoreFails(p)
      BY <2>25, EndTypes DEF RestoreFails, TypeOK
  <2>26. CASE RemoveCache(p)
      BY <2>26 DEF RemoveCache, TypeOK
  <2>27. ASSUME NEW f \in Doc, RemoveDoc(p, f) PROVE TypeOK'
      BY <2>27 DEF RemoveDoc, TypeOK
  <2> QED
      BY <1>2, <2>2, <2>3, <2>4, <2>5, <2>6, <2>7, <2>8, <2>9, <2>10, <2>11, <2>12, <2>13,
         <2>14, <2>15, <2>16, <2>17, <2>18, <2>19, <2>20, <2>21, <2>22, <2>23, <2>24,
         <2>25, <2>26, <2>27 DEF Step
<1>3. ASSUME NEW p \in Process, Kill(p) PROVE TypeOK'
    BY <1>3, EndTypes DEF Kill, TypeOK
<1>4. ASSUME NEW f \in Doc, NEW v \in Content \union {NoDoc}, Edit(f, v) PROVE TypeOK'
  <2>1. unsealed' \in SUBSET Doc
      BY <1>4 DEF Edit, TypeOK
  <2>2. tree' = [tree EXCEPT ![f] = v] /\ tree' \in Tree
      BY <1>4 DEF Edit, TypeOK
  <2>3. edits' \in Nat
      BY <1>4 DEF Edit, TypeOK
  <2> QED
      BY <1>4, <2>1, <2>2, <2>3 DEF Edit, TypeOK
<1>5. CASE UNCHANGED vars
    BY <1>5 DEF vars, TypeOK
<1> QED
    BY <1>1, <1>2, <1>3, <1>4, <1>5 DEF Next, AllDone

\* Every step keeps databases open for those who work on them.
LEMMA HandlesStep == TypeOK /\ HandlesAreOpen /\ [Next]_vars => HandlesAreOpen'
<1> SUFFICES ASSUME TypeOK, HandlesAreOpen, [Next]_vars PROVE HandlesAreOpen'
    OBVIOUS
<1> USE DEF Exporting, HandlesAreOpen
<1>1. ASSUME NEW p \in Process, NEW why \in {"ok", "failed", "killed", "unrestored"}, End(p, why)
      PROVE  HandlesAreOpen'
    BY <1>1 DEF End, TypeOK
<1>2. ASSUME NEW p \in Process, NEW where, Fails(p, where) PROVE HandlesAreOpen'
    BY <1>1, <1>2 DEF Fails, TypeOK
<1>3. ASSUME NEW p \in Process, Start(p) PROVE HandlesAreOpen'
  <2>1. AfterStart(p) \in {"compare", "walk", "snapshot", "done"}
      BY DEF AfterStart
  <2> QED
      BY <1>1, <1>3, <2>1 DEF Start, StartMutation, Unavailable, StartRepair, StartCheck,
         SealsBroken, TypeOK
<1>4. ASSUME NEW p \in Process, Step(p) PROVE HandlesAreOpen'
  <2>1. AfterRefresh(p) \in {"snapshot", "open", "suite"}
      BY ProcessAssumption DEF AfterRefresh, Process, Writer
  <2>2. CASE Open(p)
    <3>1. cacheAt' \in Db
        BY <2>2, OpenTypes DEF Open
    <3> QED
        BY <2>2, <3>1 DEF Open, Goto, TypeOK
  <2>3. CASE Command(p) \/ List(p)
      BY <2>3 DEF Command, List, Goto, TypeOK
  <2>4. CASE ReadCache(p) \/ Diff(p) \/ Walk(p) \/ WalkRefused(p) \/ Fill(p) \/ FillFails(p)
      BY <1>2, <2>1, <2>4 DEF ReadCache, Diff, Walk, WalkRefused, Fill, FillFails, Goto, TypeOK
  <2>5. CASE Unlink(p) \/ SwapIn(p) \/ SwapFails(p) \/ Snapshot(p) \/ CommandFails(p)
      BY <1>2, <2>1, <2>5 DEF Unlink, SwapIn, SwapFails, Snapshot, CommandFails, Goto, TypeOK
  <2>6. CASE \E f \in Doc : ExportOne(p, f) \/ RemoveDoc(p, f) \/ PutBack(p, f)
      BY <2>6 DEF ExportOne, RemoveDoc, PutBack, TypeOK
  <2>7. CASE FinishMutation(p) \/ FinishExport(p) \/ SuitePasses(p) \/ SuiteFails(p)
      BY <1>1, <1>2, <2>7 DEF FinishMutation, FinishExport, SuitePasses, SuiteFails, Goto, TypeOK
  <2>8. CASE RemoveCache(p) \/ Wiped(p) \/ PutBackCache(p) \/ FinishUndoing(p) \/ RestoreFails(p)
      BY <1>1, <2>8 DEF RemoveCache, Wiped, PutBackCache, FinishUndoing, RestoreFails, Goto, TypeOK
  <2> QED
      BY <1>4, <2>2, <2>3, <2>4, <2>5, <2>6, <2>7, <2>8 DEF Step
<1>5. ASSUME NEW p \in Process, Kill(p) PROVE HandlesAreOpen'
    BY <1>1, <1>5 DEF Kill
<1>6. ASSUME NEW f \in Doc, NEW v \in Content \union {NoDoc}, Edit(f, v) PROVE HandlesAreOpen'
    BY <1>6 DEF Edit
<1>7. CASE UNCHANGED vars
    BY <1>7 DEF vars
<1> QED
    BY <1>3, <1>4, <1>5, <1>6, <1>7 DEF Next, AllDone

-----------------------------------------------------------------------------
(* Who is where.                                                             *)

\* Where a process is says what it may be, and each step keeps to that.
LEMMA PlacesStep == TypeOK /\ EachItsPlaces /\ [Next]_vars => EachItsPlaces'
<1> SUFFICES ASSUME TypeOK, EachItsPlaces, [Next]_vars PROVE EachItsPlaces'
    OBVIOUS
<1> USE DEF Idle, Importing, Exporting, Undoing, MutatorPlaces, RepairerPlaces, CheckerPlaces
<1>1. /\ \A p \in Process : Kept(p)
      /\ \A p \in Process : (p \in Mutator \/ p \in Repairer \/ p \in Checker)
            /\ ~(p \in Mutator /\ p \in Repairer) /\ ~(p \in Writer /\ p \in Checker)
      /\ \A p \in Mutator : p \in Writer
      /\ \A p \in Repairer : p \in Writer
    BY ProcessAssumption DEF EachItsPlaces, Process, Writer
\* One process moves, and keeps to its places.
<1>2. ASSUME NEW p \in Process, Kept(p)',
             \A q \in Process \ {p} : /\ pc'[q] = pc[q] /\ asked'[q] = asked[q]
                                      /\ backup'[q] = backup[q] /\ outcome'[q] = outcome[q]
      PROVE  EachItsPlaces'
  <2>1. ASSUME NEW q \in Process \ {p} PROVE Kept(q)'
      BY <1>1, <1>2, <2>1 DEF Kept
  <2> QED
      BY <1>2, <2>1 DEF EachItsPlaces
<1>3. ASSUME NEW p \in Process, NEW why \in {"ok", "failed", "killed", "unrestored"}, End(p, why), UNCHANGED asked
      PROVE  EachItsPlaces'
  <2>1. Kept(p)'
      BY <1>1, <1>3, EndTypes DEF Kept
  <2> QED
      BY <1>2, <1>3, <2>1, EndTypes
<1>4. ASSUME NEW p \in Process, NEW where \in {"walk", "fill", "swap", "command", "list", "export", "suite"},
             Fails(p, where)
      PROVE  EachItsPlaces'
  <2>1. Kept(p)'
      BY <1>1, <1>4, FailTypes DEF Kept
  <2> QED
      BY <1>2, <1>4, <2>1, FailTypes
<1>5. ASSUME NEW p \in Process, Start(p) PROVE EachItsPlaces'
  <2>1. AfterStart(p) \in {"compare", "walk", "snapshot", "done"}
      BY DEF AfterStart
  <2>2. CASE StartMutation(p)
    <3>1. PICK c \in Change : asked' = [asked EXCEPT ![p] = c]
        BY <2>2 DEF StartMutation
    <3>2. Kept(p)'
        BY <1>1, <2>1, <2>2, <3>1 DEF StartMutation, MayStart, Kept, TypeOK
    <3>3. \A q \in Process \ {p} : /\ pc'[q] = pc[q] /\ asked'[q] = asked[q]
                                   /\ backup'[q] = backup[q] /\ outcome'[q] = outcome[q]
        BY <2>2, <3>1 DEF StartMutation, TypeOK
    <3> QED
        BY <1>2, <3>2, <3>3
  <2>3. CASE StartRepair(p) \/ StartCheck(p)
    <3>1. Kept(p)'
        BY <1>1, <2>3 DEF StartRepair, StartCheck, MayStart, Kept, TypeOK
    <3> QED
        BY <1>2, <2>3, <3>1 DEF StartRepair, StartCheck, TypeOK
  <2>4. CASE Unavailable(p) \/ SealsBroken(p)
      BY <1>3, <2>4 DEF Unavailable, SealsBroken
  <2> QED
      BY <1>5, <2>2, <2>3, <2>4 DEF Start
<1>6. ASSUME NEW p \in Process, Step(p) PROVE EachItsPlaces'
  <2>1. AfterRefresh(p) = IF p \in Mutator THEN "snapshot"
                          ELSE IF p \in Repairer THEN "open" ELSE "suite"
      BY <1>1 DEF AfterRefresh
  <2>2. CASE ReadCache(p)
    <3>1. Kept(p)'
        BY <1>1, <2>1, <2>2 DEF ReadCache, Goto, Kept, TypeOK
    <3> QED
        BY <1>2, <2>2, <3>1 DEF ReadCache, Goto, TypeOK
  <2>3. CASE Diff(p)
    <3>1. Kept(p)'
        BY <1>1, <2>1, <2>3 DEF Diff, Goto, Kept, TypeOK
    <3> QED
        BY <1>2, <2>3, <3>1 DEF Diff, Goto, TypeOK
  <2>4. CASE Walk(p)
    <3>1. Kept(p)'
        BY <1>1, <2>1, <2>4 DEF Walk, Goto, Kept, TypeOK
    <3> QED
        BY <1>2, <2>4, <3>1 DEF Walk, Goto, TypeOK
  <2>5. CASE Fill(p)
    <3>1. Kept(p)'
        BY <1>1, <2>1, <2>5 DEF Fill, Goto, Kept, TypeOK
    <3> QED
        BY <1>2, <2>5, <3>1 DEF Fill, Goto, TypeOK
  <2>6. CASE Unlink(p)
    <3>1. Kept(p)'
        BY <1>1, <2>1, <2>6 DEF Unlink, Goto, Kept, TypeOK
    <3> QED
        BY <1>2, <2>6, <3>1 DEF Unlink, Goto, TypeOK
  <2>7. CASE SwapIn(p)
    <3>1. Kept(p)'
        BY <1>1, <2>1, <2>7 DEF SwapIn, Goto, Kept, TypeOK
    <3> QED
        BY <1>2, <2>7, <3>1 DEF SwapIn, Goto, TypeOK
  <2>8. CASE Snapshot(p)
    <3>1. Kept(p)'
        BY <1>1, <2>1, <2>8 DEF Snapshot, Goto, Kept, TypeOK
    <3> QED
        BY <1>2, <2>8, <3>1 DEF Snapshot, Goto, TypeOK
  <2>9. CASE Open(p)
    <3>1. Kept(p)'
        BY <1>1, <2>1, <2>9 DEF Open, Goto, Kept, TypeOK
    <3> QED
        BY <1>2, <2>9, <3>1 DEF Open, Goto, TypeOK
  <2>10. CASE Command(p)
    <3>1. Kept(p)'
        BY <1>1, <2>1, <2>10 DEF Command, Goto, Kept, TypeOK
    <3> QED
        BY <1>2, <2>10, <3>1 DEF Command, Goto, TypeOK
  <2>11. CASE List(p)
    <3>1. Kept(p)'
        BY <1>1, <2>1, <2>11 DEF List, Goto, Kept, TypeOK
    <3> QED
        BY <1>2, <2>11, <3>1 DEF List, Goto, TypeOK
  <2>12. CASE FinishExport(p)
    <3>1. Kept(p)'
        BY <1>1, <2>1, <2>12 DEF FinishExport, Goto, Kept, TypeOK
    <3> QED
        BY <1>2, <2>12, <3>1 DEF FinishExport, Goto, TypeOK
  <2>13. CASE Wiped(p)
    <3>1. Kept(p)'
        BY <1>1, <2>1, <2>13 DEF Wiped, Goto, Kept, TypeOK
    <3> QED
        BY <1>2, <2>13, <3>1 DEF Wiped, Goto, TypeOK
  <2>14. CASE RemoveCache(p) \/ PutBackCache(p)
              \/ \E f \in Doc : ExportOne(p, f) \/ RemoveDoc(p, f) \/ PutBack(p, f)
    <3>1. UNCHANGED <<pc, asked, backup, outcome>>
        BY <2>14 DEF RemoveCache, PutBackCache, ExportOne, RemoveDoc, PutBack
    <3> QED
        BY <1>1, <3>1 DEF EachItsPlaces, Kept
  <2>15. CASE WalkRefused(p) \/ FillFails(p) \/ SwapFails(p) \/ CommandFails(p) \/ SuiteFails(p)
      BY <1>4, <2>15 DEF WalkRefused, FillFails, SwapFails, CommandFails, SuiteFails
  <2>16. CASE FinishMutation(p) \/ SuitePasses(p) \/ FinishUndoing(p) \/ RestoreFails(p)
      BY <1>3, <2>16 DEF FinishMutation, SuitePasses, FinishUndoing, RestoreFails
  <2> QED
      BY <1>6, <2>2, <2>3, <2>4, <2>5, <2>6, <2>7, <2>8, <2>9,
         <2>10, <2>11, <2>12, <2>13, <2>14, <2>15, <2>16 DEF Step
<1>7. ASSUME NEW p \in Process, Kill(p) PROVE EachItsPlaces'
    BY <1>3, <1>7 DEF Kill
<1>8. ASSUME NEW f \in Doc, NEW v \in Content \union {NoDoc}, Edit(f, v) PROVE EachItsPlaces'
    BY <1>1, <1>8 DEF Edit, EachItsPlaces, Kept
<1>9. CASE UNCHANGED vars
    BY <1>1, <1>9 DEF vars, EachItsPlaces, Kept
<1> QED
    BY <1>5, <1>6, <1>7, <1>8, <1>9 DEF Next, AllDone

\* Who moves beside a writer is that writer: whoever else is one is not at work.
LEMMA WriterMoves ==
    ASSUME Writer \subseteq Alone, TypeOK, WriterIsAlone,
           NEW p \in Process, Start(p) \/ Step(p) \/ Kill(p)
    PROVE  /\ pc[p] # "done" /\ pc[p] = "idle" => Active \intersect Writer = {}
           /\ p \in Writer /\ pc[p] = "idle" => Active = {}
           /\ \A q \in Writer \ {p} : pc[q] \in Idle
           /\ \A q \in Process \ {p} : pc'[q] = pc[q]
           /\ \A q \in Process \ {p} : p \in Writer => pc[q] \in Idle
<1>1. Writer \subseteq Process
    BY DEF Process
<1>2. /\ \A q \in Process \ {p} : pc'[q] = pc[q]
      /\ pc[p] # "done"
      /\ pc[p] = "idle" => MayStart(p)
  <2>1. ASSUME NEW why, End(p, why) PROVE \A q \in Process \ {p} : pc'[q] = pc[q]
      BY <2>1 DEF End, TypeOK
  <2>2. ASSUME NEW where, Fails(p, where)
        PROVE  pc[p] = where /\ \A q \in Process \ {p} : pc'[q] = pc[q]
      BY <2>1, <2>2 DEF Fails, TypeOK
  <2>3. CASE Start(p)
      BY <2>1, <2>3 DEF Start, StartMutation, Unavailable, StartRepair, StartCheck, SealsBroken,
         MayStart, TypeOK
  <2>4. CASE Kill(p)
      BY <2>1, <2>4 DEF Kill, Active
  <2>5. CASE Step(p)
    <3>1. CASE ReadCache(p) \/ Diff(p) \/ Walk(p) \/ Fill(p) \/ Unlink(p) \/ SwapIn(p) \/ Snapshot(p)
        BY <3>1 DEF ReadCache, Diff, Walk, Fill, Unlink, SwapIn, Snapshot, Goto, TypeOK
    <3>2. CASE \/ Open(p) \/ Command(p) \/ List(p) \/ FinishExport(p)
               \/ RemoveCache(p) \/ Wiped(p) \/ PutBackCache(p)
        BY <3>2 DEF Open, Command, List, FinishExport, RemoveCache, Wiped, PutBackCache, Goto, TypeOK
    <3>3. CASE \E f \in Doc : ExportOne(p, f) \/ RemoveDoc(p, f) \/ PutBack(p, f)
        BY <3>3 DEF ExportOne, RemoveDoc, PutBack
    <3>4. CASE WalkRefused(p) \/ FillFails(p) \/ SwapFails(p) \/ CommandFails(p) \/ SuiteFails(p)
        BY <2>2, <3>4 DEF WalkRefused, FillFails, SwapFails, CommandFails, SuiteFails
    <3>5. CASE FinishMutation(p) \/ SuitePasses(p) \/ FinishUndoing(p) \/ RestoreFails(p)
        BY <2>1, <3>5 DEF FinishMutation, SuitePasses, FinishUndoing, RestoreFails, Undoing
    <3> QED
        BY <2>5, <3>1, <3>2, <3>3, <3>4, <3>5 DEF Step
  <2> QED
      BY <2>3, <2>4, <2>5
<1>3. MayStart(p) => Active \intersect Writer = {} /\ (p \in Writer => Active = {})
    BY DEF MayStart
<1>4. CASE pc[p] = "idle"
    BY <1>1, <1>2, <1>3, <1>4 DEF Active, Idle
<1>5. CASE pc[p] # "idle"
    BY <1>1, <1>2, <1>5 DEF Active, Idle, WriterIsAlone
<1> QED
    BY <1>2, <1>4, <1>5

\* So a writer stays alone.
LEMMA AloneStep ==
    Writer \subseteq Alone /\ TypeOK /\ WriterIsAlone /\ [Next]_vars => WriterIsAlone'
<1> SUFFICES ASSUME Writer \subseteq Alone, TypeOK, WriterIsAlone, [Next]_vars PROVE WriterIsAlone'
    OBVIOUS
<1>1. Writer \subseteq Process
    BY DEF Process
<1>2. ASSUME NEW p \in Process, Start(p) \/ Step(p) \/ Kill(p) PROVE WriterIsAlone'
    BY <1>1, <1>2, WriterMoves DEF WriterIsAlone, Active, Idle
<1>3. ASSUME UNCHANGED pc PROVE WriterIsAlone'
    BY <1>3 DEF WriterIsAlone, Active
<1> QED
    BY <1>2, <1>3 DEF Next, AllDone, Edit, vars

-----------------------------------------------------------------------------
(* The directory.                                                            *)

\* Every step keeps broken seals to documents that exist.
LEMMA SealsStep ==
    TypeOK /\ EachItsPlaces /\ SealsOfDocuments /\ (\A p \in Writer : Restored(p)) /\ [Next]_vars
        => SealsOfDocuments'
<1> SUFFICES ASSUME TypeOK, EachItsPlaces, SealsOfDocuments, \A p \in Writer : Restored(p), [Next]_vars
             PROVE  SealsOfDocuments'
    OBVIOUS
<1>1. NoBackup.unsealed = {}
    BY DEF NoBackup
<1>2. ASSUME UNCHANGED <<tree, unsealed>>,
             \A p \in Process : backup'[p] = backup[p] \/ backup'[p] = NoBackup
      PROVE  SealsOfDocuments'
    BY <1>1, <1>2 DEF SealsOfDocuments, Docs
<1>3. ASSUME NEW p \in Process, NEW why, End(p, why), UNCHANGED <<tree, unsealed>>
      PROVE  SealsOfDocuments'
    BY <1>2, <1>3 DEF End, TypeOK
<1>4. ASSUME NEW p \in Process, NEW where, Fails(p, where) PROVE SealsOfDocuments'
    BY <1>2, <1>3, <1>4 DEF Fails
<1>5. ASSUME NEW p \in Process, Start(p) PROVE SealsOfDocuments'
    BY <1>2, <1>3, <1>5 DEF Start, StartMutation, Unavailable, StartRepair, StartCheck, SealsBroken
<1>6. ASSUME NEW p \in Process, Step(p) PROVE SealsOfDocuments'
  <2>1. CASE ReadCache(p) \/ Diff(p) \/ Walk(p) \/ Fill(p) \/ Unlink(p) \/ SwapIn(p) \/ Open(p)
      BY <1>2, <2>1 DEF ReadCache, Diff, Walk, Fill, Unlink, SwapIn, Open
  <2>2. CASE Command(p) \/ List(p) \/ FinishExport(p) \/ PutBackCache(p) \/ RemoveCache(p) \/ Wiped(p)
      BY <1>2, <2>2 DEF Command, List, FinishExport, PutBackCache, RemoveCache, Wiped
  <2>3. CASE WalkRefused(p) \/ FillFails(p) \/ SwapFails(p) \/ CommandFails(p) \/ SuiteFails(p)
      BY <1>4, <2>3 DEF WalkRefused, FillFails, SwapFails, CommandFails, SuiteFails
  <2>4. CASE FinishMutation(p) \/ SuitePasses(p) \/ FinishUndoing(p) \/ RestoreFails(p)
      BY <1>3, <2>4 DEF FinishMutation, SuitePasses, FinishUndoing, RestoreFails
  <2>5. CASE Snapshot(p)
    <3>1. /\ UNCHANGED <<tree, unsealed>>
          /\ backup'[p].tree = tree /\ backup'[p].unsealed = unsealed
          /\ \A q \in Process \ {p} : backup'[q] = backup[q]
        BY <2>5 DEF Snapshot, TypeOK
    <3> QED
        BY <3>1 DEF SealsOfDocuments, Docs
  <2>6. ASSUME NEW f \in Doc, RemoveDoc(p, f) PROVE SealsOfDocuments'
    <3>1. /\ UNCHANGED backup /\ unsealed' = unsealed \ {f}
          /\ \A g \in Doc \ {f} : tree'[g] = tree[g]
        BY <2>6 DEF RemoveDoc, TypeOK, Tree
    <3> QED
        BY <3>1 DEF SealsOfDocuments, Docs
  <2>7. ASSUME NEW f \in Doc, ExportOne(p, f) PROVE SealsOfDocuments'
    <3>1. /\ UNCHANGED backup /\ unsealed' = unsealed \ {f}
          /\ \A g \in Doc \ {f} : tree'[g] = tree[g]
        BY <2>7 DEF ExportOne, TypeOK, Tree
    <3> QED
        BY <3>1 DEF SealsOfDocuments, Docs
  <2>8. ASSUME NEW f \in Doc, PutBack(p, f) PROVE SealsOfDocuments'
    <3>1. p \in Writer
        BY <2>8 DEF PutBack, EachItsPlaces, Kept, CheckerPlaces, Idle, Importing, Process, Writer
    <3>2. f \in Docs(backup[p].tree)
        BY <2>8, <3>1 DEF PutBack, Restored
    <3>3. /\ UNCHANGED backup /\ unsealed' \subseteq unsealed \union {f}
          /\ \A g \in Doc \ {f} : tree'[g] = tree[g]
          /\ tree'[f] = backup[p].tree[f]
        BY <2>8 DEF PutBack, TypeOK, Tree
    <3> QED
        BY <3>2, <3>3 DEF SealsOfDocuments, Docs
  <2> QED
      BY <1>6, <2>1, <2>2, <2>3, <2>4, <2>5, <2>6, <2>7, <2>8 DEF Step
<1>7. ASSUME NEW p \in Process, Kill(p) PROVE SealsOfDocuments'
    BY <1>3, <1>7 DEF Kill
<1>8. ASSUME NEW f \in Doc, NEW v \in Content \union {NoDoc}, Edit(f, v) PROVE SealsOfDocuments'
  <2>1. /\ UNCHANGED backup /\ tree'[f] = v
        /\ \A g \in Doc \ {f} : tree'[g] = tree[g]
        /\ v = NoDoc => unsealed' = unsealed \ {f}
        /\ unsealed' \subseteq unsealed \union {f}
      BY <1>8 DEF Edit, TypeOK, Tree
  <2> QED
      BY <2>1 DEF SealsOfDocuments, Docs
<1>9. CASE UNCHANGED vars
    BY <1>2, <1>9 DEF vars
<1> QED
    BY <1>5, <1>6, <1>7, <1>8, <1>9 DEF Next, AllDone

\* Nothing is asked of the directory by a writer that has not begun or is over.
LEMMA AtRest == \A p \in Writer : pc[p] \in Idle => Directory(p)
BY DEF Idle, Importing, Exporting, Directory, WorksOnCache, BackedUp, Exported, Restored

\* A writer's step keeps it at work on the directory as it should be.
LEMMA DirectoryStep ==
    Writer \subseteq Alone /\ SyncInv /\ [Next]_vars => \A p \in Writer : Directory(p)'
<1> SUFFICES ASSUME Writer \subseteq Alone, SyncInv, [Next]_vars
             PROVE  \A p \in Writer : Directory(p)'
    OBVIOUS
<1> USE DEF Importing, Exporting
<1>1. /\ TypeOK /\ HandlesAreOpen /\ EachItsPlaces /\ WriterIsAlone /\ SealsOfDocuments
      /\ \A p \in Writer : Directory(p)
      /\ Writer \subseteq Process
    BY DEF SyncInv, Process
<1>2. (\A p \in Writer : pc[p] \in Idle => Directory(p))'
    BY AtRest, PTL
<1>3. ASSUME NEW p \in Process, NEW why, End(p, why) PROVE pc'[p] \in Idle
    BY <1>1, <1>3 DEF End, TypeOK, Idle
\* A process begins, fails or is over.
<1>4. ASSUME NEW p \in Writer, Start(p) PROVE Directory(p)'
  <2>1. CASE StartMutation(p)
    <3>1. pc'[p] \in {"compare", "walk", "snapshot"} /\ (pc'[p] # "walk" => cacheAt # NoDb)
          /\ UNCHANGED cacheAt
        BY <1>1, <2>1 DEF StartMutation, AfterStart, TypeOK
    <3>2. p \notin Repairer
        BY <2>1, ProcessAssumption DEF StartMutation
    <3> QED
        BY <3>1, <3>2 DEF Directory, WorksOnCache, BackedUp, Exported, Restored
  <2>2. CASE StartRepair(p)
    <3>1. pc'[p] = "snapshot" /\ p \notin Mutator
        BY <1>1, <2>2, ProcessAssumption DEF StartRepair, TypeOK
    <3> QED
        BY <3>1 DEF Directory, WorksOnCache, BackedUp, Exported, Restored
  <2>3. CASE Unavailable(p) \/ SealsBroken(p)
      BY <1>1, <1>2, <1>3, <2>3 DEF Unavailable, SealsBroken
  <2>4. ~StartCheck(p)
      BY ProcessAssumption DEF StartCheck
  <2> QED
      BY <1>4, <2>1, <2>2, <2>3, <2>4 DEF Start
<1>5. ASSUME NEW p \in Writer, NEW where, Fails(p, where) PROVE Directory(p)'
  <2>1. CASE backup[p] = NoBackup
      BY <1>1, <1>2, <1>3, <1>5, <2>1 DEF Fails
  <2>2. CASE backup[p] # NoBackup
    <3>1. pc'[p] = "wipe"
        BY <1>1, <1>5, <2>2 DEF Fails, TypeOK
    <3> QED
        BY <3>1 DEF Directory, WorksOnCache, BackedUp, Exported, Restored
  <2> QED
      BY <2>1, <2>2
<1>6. ASSUME NEW p \in Writer, Step(p) PROVE Directory(p)'
  <2>1. /\ p \in Process /\ ~(p \in Mutator /\ p \in Repairer) /\ (p \in Mutator \/ p \in Repairer)
        /\ AfterRefresh(p) = IF p \in Mutator THEN "snapshot" ELSE "open"
        /\ p \in Repairer => pc[p] \notin {"compare", "diff", "command"}
        /\ p \in Mutator => pc[p] # "suite"
        /\ WorksOnCache(p) /\ BackedUp(p) /\ Exported(p) /\ Restored(p)
      BY <1>1, ProcessAssumption
      DEF AfterRefresh, Process, Writer, EachItsPlaces, Kept, RepairerPlaces, MutatorPlaces, Idle,
          Undoing, Directory
  <2>2. CASE ReadCache(p)
    <3>1. pc[p] = "compare" /\ pc'[p] = "diff" /\ OpenPath(p)
        BY <1>1, <2>1, <2>2 DEF ReadCache, Goto, TypeOK
    <3>2. cacheAt' # NoDb
        BY <1>1, <2>1, <3>1, OpenTypes DEF WorksOnCache
    <3> QED
        BY <3>1, <3>2 DEF Directory, WorksOnCache, BackedUp, Exported, Restored
  <2>3. CASE Diff(p)
    <3>1. /\ pc[p] = "diff" /\ p \in Mutator /\ cacheAt # NoDb /\ cacheAt' = cacheAt
          /\ pc'[p] \in {"snapshot", "walk"}
        BY <1>1, <2>1, <2>3 DEF Diff, Goto, TypeOK, WorksOnCache
    <3> QED
        BY <2>1, <3>1 DEF Directory, WorksOnCache, BackedUp, Exported, Restored
  <2>4. CASE Walk(p) \/ Fill(p) \/ Unlink(p)
    <3>1. /\ pc[p] \in {"walk", "fill", "unlink"} /\ pc'[p] \in {"fill", "unlink", "swap"}
          /\ UNCHANGED <<tree, unsealed, backup>>
        BY <1>1, <2>1, <2>4 DEF Walk, Fill, Unlink, Goto, TypeOK
    <3> QED
        BY <2>1, <3>1 DEF Directory, WorksOnCache, BackedUp, Exported, Restored
  <2>5. CASE SwapIn(p)
    <3>1. /\ pc[p] = "swap" /\ pc'[p] = IF p \in Mutator THEN "snapshot" ELSE "open"
          /\ UNCHANGED <<tree, unsealed, backup>> /\ cacheAt' # NoDb
        BY <1>1, <2>1, <2>5 DEF SwapIn, Goto, TypeOK
    <3> QED
        BY <2>1, <3>1 DEF Directory, WorksOnCache, BackedUp, Exported, Restored
  <2>6. CASE Snapshot(p)
    <3>1. /\ pc[p] = "snapshot" /\ pc'[p] = IF p \in Mutator THEN "open" ELSE "walk"
          /\ UNCHANGED <<tree, unsealed, cacheAt>>
          /\ backup'[p].tree = tree /\ backup'[p].unsealed = unsealed
        BY <1>1, <2>1, <2>6 DEF Snapshot, Goto, TypeOK
    <3> QED
        BY <2>1, <3>1 DEF Directory, WorksOnCache, BackedUp, Exported, Restored
  <2>7. CASE Open(p)
    <3>1. /\ pc[p] = "open" /\ pc'[p] = IF p \in Mutator THEN "command" ELSE "list"
          /\ UNCHANGED <<tree, unsealed, backup>> /\ OpenPath(p) /\ handle'[p] = cacheAt'
        BY <1>1, <2>1, <2>7 DEF Open, Goto, TypeOK
    <3>2. cacheAt' # NoDb
        BY <1>1, <2>1, <3>1, OpenTypes DEF WorksOnCache
    <3> QED
        BY <2>1, <3>1, <3>2 DEF Directory, WorksOnCache, BackedUp, Exported, Restored
  <2>8. CASE Command(p)
    <3>1. /\ pc[p] = "command" /\ pc'[p] = "list"
          /\ UNCHANGED <<tree, unsealed, backup, cacheAt, handle>>
        BY <1>1, <2>1, <2>8 DEF Command, Goto, TypeOK
    <3> QED
        BY <2>1, <3>1 DEF Directory, WorksOnCache, BackedUp, Exported, Restored
  <2>9. CASE List(p)
    <3>1. /\ pc[p] = "list" /\ pc'[p] = "export" /\ handle[p] = cacheAt /\ cacheAt # NoDb
          /\ UNCHANGED <<tree, unsealed, dbs, backup, cacheAt, handle>>
          /\ todo'[p] = Docs(tree) \union Docs(dbs[cacheAt].rows)
        BY <1>1, <2>1, <2>9 DEF List, Goto, TypeOK, WorksOnCache
    <3>2. \A f \in Doc \ todo'[p] : tree[f] = dbs[cacheAt].rows[f] /\ f \notin unsealed
        BY <1>1, <3>1 DEF Docs, SealsOfDocuments
    <3> QED
        BY <2>1, <3>1, <3>2 DEF Directory, WorksOnCache, BackedUp, Exported, Restored
  <2>10. ASSUME NEW f \in Doc, ExportOne(p, f) PROVE Directory(p)'
    <3>1. /\ pc[p] = "export" /\ UNCHANGED <<pc, dbs, backup, cacheAt, handle>>
          /\ handle[p] = cacheAt /\ cacheAt # NoDb
        BY <1>1, <2>1, <2>10 DEF ExportOne, WorksOnCache
    <3>2. /\ tree'[f] = dbs[cacheAt].rows[f] /\ unsealed' = unsealed \ {f}
          /\ todo'[p] = todo[p] \ {f} /\ \A g \in Doc \ {f} : tree'[g] = tree[g]
        BY <1>1, <2>1, <2>10, <3>1 DEF ExportOne, TypeOK, Tree
    <3> QED
        BY <2>1, <3>1, <3>2 DEF Directory, WorksOnCache, BackedUp, Exported, Restored
  <2>11. CASE FinishExport(p)
    <3>1. /\ pc[p] = "export" /\ pc'[p] = "suite" /\ todo[p] = {} /\ cacheAt # NoDb
          /\ UNCHANGED <<tree, unsealed, dbs, backup, cacheAt, handle>>
        BY <1>1, <2>1, <2>11 DEF FinishExport, Goto, TypeOK, WorksOnCache
    <3>2. \A f \in Doc : tree[f] = dbs[cacheAt].rows[f] /\ f \notin unsealed
        BY <2>1, <3>1 DEF Exported
    <3>3. tree = dbs[cacheAt].rows /\ unsealed = {}
      <4>1. tree \in Tree /\ dbs[cacheAt].rows \in Tree /\ unsealed \subseteq Doc
          BY <1>1, <3>1, Values DEF TypeOK
      <4> QED
          BY <3>2, <4>1 DEF Tree
    <3> QED
        BY <2>1, <3>1, <3>3 DEF Directory, WorksOnCache, BackedUp, Exported, Restored
  <2>12. CASE WalkRefused(p) \/ FillFails(p) \/ SwapFails(p) \/ CommandFails(p) \/ SuiteFails(p)
      BY <1>5, <2>12 DEF WalkRefused, FillFails, SwapFails, CommandFails, SuiteFails
  <2>13. CASE FinishMutation(p) \/ SuitePasses(p) \/ FinishUndoing(p) \/ RestoreFails(p)
      BY <1>2, <1>3, <2>1, <2>13 DEF FinishMutation, SuitePasses, FinishUndoing, RestoreFails
  <2>14. CASE Wiped(p)
    <3>1. /\ pc'[p] = "putback" /\ backup' = backup /\ todo'[p] = Docs(backup[p].tree)
          /\ Docs(tree) = {} /\ tree' = tree /\ unsealed' = unsealed /\ cacheAt' = NoDb
        BY <1>1, <2>1, <2>14 DEF Wiped, Goto, TypeOK
    <3>2. backup[p].unsealed \subseteq Docs(backup[p].tree) /\ unsealed' = {}
        BY <1>1, <2>1, <3>1 DEF SealsOfDocuments
    <3>3. \A f \in Doc : tree'[f] = IF f \in todo'[p] THEN NoDoc ELSE backup[p].tree[f]
        BY <3>1 DEF Docs
    <3> QED
        BY <3>1, <3>2, <3>3 DEF Directory, WorksOnCache, BackedUp, Exported, Restored
  <2>15. ASSUME NEW f \in Doc, PutBack(p, f) PROVE Directory(p)'
    <3>1. /\ pc[p] = "putback" /\ UNCHANGED <<pc, dbs, backup, cacheAt>> /\ f \in todo[p]
          /\ tree'[f] = backup[p].tree[f] /\ \A g \in Doc \ {f} : tree'[g] = tree[g]
          /\ unsealed' = unsealed \union ({f} \intersect backup[p].unsealed)
          /\ todo'[p] = todo[p] \ {f}
        BY <1>1, <2>1, <2>15 DEF PutBack, TypeOK, Tree
    <3>2. unsealed' = backup'[p].unsealed \ todo'[p]
        BY <2>1, <3>1 DEF Restored
    <3> QED
        BY <2>1, <3>1, <3>2 DEF Directory, WorksOnCache, BackedUp, Exported, Restored
  <2>16. CASE PutBackCache(p)
    <3>1. /\ pc[p] = "putback" /\ UNCHANGED <<pc, tree, unsealed, todo, backup>>
          /\ backup[p].cache # NoDb /\ cacheAt' = Copy(p) /\ dbs'[Copy(p)] = backup[p].cache
        BY <1>1, <2>1, <2>16, Values DEF PutBackCache, TypeOK
    <3> QED
        BY <2>1, <3>1 DEF Directory, WorksOnCache, BackedUp, Exported, Restored
  <2>17. CASE RemoveCache(p) \/ \E f \in Doc : RemoveDoc(p, f)
    <3>1. pc[p] = "wipe" /\ pc' = pc
        BY <2>17 DEF RemoveCache, RemoveDoc
    <3> QED
        BY <3>1 DEF Directory, WorksOnCache, BackedUp, Exported, Restored
  <2> QED
      BY <1>6, <2>2, <2>3, <2>4, <2>5, <2>6, <2>7, <2>8, <2>9, <2>10, <2>11, <2>12, <2>13,
         <2>14, <2>15, <2>16, <2>17 DEF Step
<1>7. ASSUME NEW p \in Writer, Kill(p) PROVE Directory(p)'
    BY <1>1, <1>2, <1>3, <1>7 DEF Kill
\* Writers that do not move are at rest.
<1>8. ASSUME NEW p \in Process, Start(p) \/ Step(p) \/ Kill(p), NEW q \in Writer \ {p}
      PROVE  Directory(q)'
  <2>1. pc'[q] = pc[q] /\ pc[q] \in Idle
      BY <1>1, <1>8, WriterMoves
  <2> QED
      BY <1>2, <2>1
<1>9. ASSUME NEW f \in Doc, NEW v \in Content \union {NoDoc}, Edit(f, v), NEW q \in Writer
      PROVE  Directory(q)'
  <2>1. pc'[q] = pc[q] /\ pc[q] \in Idle
      BY <1>1, <1>9 DEF Edit, Active, Idle
  <2> QED
      BY <1>2, <2>1
<1>10. ASSUME UNCHANGED vars, NEW q \in Writer PROVE Directory(q)'
    BY <1>1, <1>10 DEF vars, Directory, WorksOnCache, BackedUp, Exported, Restored, Docs
<1> QED
    BY <1>4, <1>6, <1>7, <1>8, <1>9, <1>10 DEF Next, AllDone

-----------------------------------------------------------------------------
(* The invariant, and how commands end.                                      *)

\* Before any command all is in place.
LEMMA SyncBegins == Init => TypeOK /\ HandlesAreOpen /\ SyncInv
<1> SUFFICES ASSUME Init PROVE TypeOK /\ HandlesAreOpen /\ SyncInv
    OBVIOUS
<1> USE DEF Idle
<1>1. PICK cast \in Casts :
         /\ pc = [p \in Process |-> IF p \in cast THEN "idle" ELSE "done"]
         /\ outcome = [p \in Process |-> IF p \in cast THEN "none" ELSE "absent"]
    BY DEF Init
<1>2. TypeOK
  <2>1. {"idle", "done"} \subseteq Places
      BY DEF Places, MutatorPlaces
  <2>2. Original \in Tree /\ [rows |-> Original] \in Database /\ [rows |-> EmptyTree] \in Database
      BY Values, DocumentAssumption
  <2>3. dbs \in [Db -> Database]
      BY <2>2 DEF Init
  <2>4. cacheAt \in Db \union {NoDb}
      BY DEF Init, Db
  <2> QED
      BY <1>1, <2>1, <2>2, <2>3, <2>4, Values DEF Init, TypeOK
<1>3. /\ \A p \in Process : pc[p] \in Idle /\ backup[p] = NoBackup /\ asked[p] = NoChange
      /\ \A p \in Process : pc[p] = "done" <=> outcome[p] # "none"
      /\ unsealed = {}
    BY <1>1 DEF Init
<1>4. HandlesAreOpen
    BY <1>3 DEF HandlesAreOpen, Exporting
<1>5. EachItsPlaces
    BY <1>3 DEF EachItsPlaces, Kept, MutatorPlaces, RepairerPlaces, CheckerPlaces, Importing
<1>6. WriterIsAlone
    BY <1>3 DEF WriterIsAlone, Active
<1>7. SealsOfDocuments
    BY <1>3 DEF SealsOfDocuments, NoBackup
<1>8. \A p \in Writer : Directory(p)
    BY <1>3, AtRest DEF Process
<1> QED
    BY <1>2, <1>4, <1>5, <1>6, <1>7, <1>8 DEF SyncInv

\* Variables keep to their types, whoever runs beside whom: a database that is
\* worked on was opened (Init, Next).
THEOREM TypeCorrect == Spec => []TypeOK
<1>1. Init => TypeOK /\ HandlesAreOpen
    BY SyncBegins
<1>2. TypeOK /\ HandlesAreOpen /\ [Next]_vars => (TypeOK /\ HandlesAreOpen)'
    BY TypeStep, HandlesStep
<1> QED
    BY <1>1, <1>2, PTL DEF Spec

\* The inductive invariant: where nothing runs beside a writer (the coordinator lets
\* one writer run, and no plain check comes between), its backup, its cache and
\* the documents are related at each step as Directory has it.
THEOREM SyncInvariant == Writer \subseteq Alone => (Spec => []SyncInv)
<1> SUFFICES ASSUME Writer \subseteq Alone PROVE Spec => []SyncInv
    OBVIOUS
<1>1. Init => SyncInv
    BY SyncBegins
<1>2. SyncInv /\ [Next]_vars => SyncInv'
  <2>1. SyncInv /\ [Next]_vars => (\A p \in Writer : Directory(p)')
      BY DirectoryStep
  <2>2. SyncInv /\ [Next]_vars
            => (TypeOK /\ HandlesAreOpen /\ EachItsPlaces /\ WriterIsAlone /\ SealsOfDocuments)'
      BY TypeStep, HandlesStep, PlacesStep, AloneStep, SealsStep DEF SyncInv, Directory
  <2> QED
      BY <2>1, <2>2 DEF SyncInv
<1> QED
    BY <1>1, <1>2, PTL DEF Spec

\* A writer ends in one of a few ways.
LEMMA Ending ==
    ASSUME TypeOK, EachItsPlaces, [Next]_vars, NEW p \in Writer, NEW why, why # "none", Ends(p, why)
    PROVE  \/ why = "ok" /\ (FinishMutation(p) \/ (p \in Repairer /\ SuitePasses(p)))
           \/ why = "failed" /\ (FinishUndoing(p) \/ backup[p] = NoBackup)
           \/ why = "killed" /\ Kill(p)
           \/ why = "unrestored" /\ RestoreFails(p)
<1> DEFINE Goal == \/ why = "ok" /\ (FinishMutation(p) \/ (p \in Repairer /\ SuitePasses(p)))
                   \/ why = "failed" /\ (FinishUndoing(p) \/ backup[p] = NoBackup)
                   \/ why = "killed" /\ Kill(p)
                   \/ why = "unrestored" /\ RestoreFails(p)
<1>1. /\ outcome[p] = "none" /\ outcome'[p] = why /\ p \in Process /\ p \notin Checker
      /\ pc[p] = "idle" => backup[p] = NoBackup
      /\ pc[p] = "suite" => p \in Repairer
    BY ProcessAssumption DEF Ends, EachItsPlaces, Kept, Process, Writer, Idle, MutatorPlaces, Importing,
       Exporting, Undoing
<1>2. ASSUME NEW q \in Process, NEW how \in {"ok", "failed", "killed", "unrestored"}, End(q, how)
      PROVE  q = p /\ why = how
    BY <1>1, <1>2, EndTypes
<1>3. ASSUME NEW q \in Process, NEW where, Fails(q, where)
      PROVE  q = p /\ why = "failed" /\ backup[p] = NoBackup
    BY <1>1, <1>3, FailTypes
<1> HIDE DEF Goal
<1>4. ASSUME outcome' = outcome PROVE Goal
    BY <1>1, <1>4
<1>5. ASSUME NEW q \in Process, Start(q) PROVE Goal
  <2>1. CASE StartMutation(q) \/ StartRepair(q) \/ StartCheck(q)
      BY <1>4, <2>1 DEF StartMutation, StartRepair, StartCheck
  <2>2. CASE Unavailable(q) \/ SealsBroken(q)
    <3>1. End(q, "failed") /\ pc[q] = "idle"
        BY <2>2 DEF Unavailable, SealsBroken, MayStart
    <3> QED
        BY <1>1, <1>2, <3>1 DEF Goal
  <2> QED
      BY <1>5, <2>1, <2>2 DEF Start
<1>6. ASSUME NEW q \in Process, Step(q) PROVE Goal
  <2>1. CASE ReadCache(q) \/ Diff(q) \/ Walk(q) \/ Fill(q) \/ Unlink(q) \/ SwapIn(q) \/ Snapshot(q)
      BY <1>4, <2>1 DEF ReadCache, Diff, Walk, Fill, Unlink, SwapIn, Snapshot
  <2>2. CASE \/ Open(q) \/ Command(q) \/ List(q) \/ FinishExport(q)
             \/ RemoveCache(q) \/ Wiped(q) \/ PutBackCache(q)
      BY <1>4, <2>2 DEF Open, Command, List, FinishExport, RemoveCache, Wiped, PutBackCache
  <2>3. CASE \E f \in Doc : ExportOne(q, f) \/ RemoveDoc(q, f) \/ PutBack(q, f)
      BY <1>4, <2>3 DEF ExportOne, RemoveDoc, PutBack
  <2>4. CASE WalkRefused(q) \/ FillFails(q) \/ SwapFails(q) \/ CommandFails(q) \/ SuiteFails(q)
      BY <1>3, <2>4 DEF WalkRefused, FillFails, SwapFails, CommandFails, SuiteFails, Goal
  <2>5. CASE FinishMutation(q)
      BY <1>2, <2>5 DEF FinishMutation, Goal
  <2>6. CASE SuitePasses(q)
      BY <1>1, <1>2, <2>6 DEF SuitePasses, Goal
  <2>7. CASE FinishUndoing(q)
      BY <1>2, <2>7 DEF FinishUndoing, Goal
  <2>8. CASE RestoreFails(q)
      BY <1>2, <2>8 DEF RestoreFails, Goal
  <2> QED
      BY <1>6, <2>1, <2>2, <2>3, <2>4, <2>5, <2>6, <2>7, <2>8 DEF Step
<1>7. ASSUME NEW q \in Process, Kill(q) PROVE Goal
    BY <1>2, <1>7 DEF Kill, Goal
<1>8. Goal
    BY <1>4, <1>5, <1>6, <1>7 DEF Next, AllDone, Edit, vars
<1> QED
    BY <1>8 DEF Goal

\* A writer that succeeds leaves a cache that says what the tree says and seals that
\* match, decisions included (RunSyncExport and the end of RunRepair).
THEOREM SuccessInStep == Writer \subseteq Alone => (Spec => SyncedOnSuccess)
<1> SUFFICES ASSUME Writer \subseteq Alone PROVE Spec => SyncedOnSuccess
    OBVIOUS
<1>1. SyncInv /\ [Next]_vars =>
          \A p \in Writer : Ends(p, "ok") =>
              /\ cacheAt' # NoDb
              /\ dbs'[cacheAt'].rows = tree'
              /\ unsealed' = {}
  <2> SUFFICES ASSUME SyncInv, [Next]_vars, NEW p \in Writer, Ends(p, "ok")
               PROVE  cacheAt' # NoDb /\ dbs'[cacheAt'].rows = tree' /\ unsealed' = {}
      OBVIOUS
  <2>1. /\ FinishMutation(p) \/ (p \in Repairer /\ SuitePasses(p))
        /\ TypeOK /\ WorksOnCache(p) /\ Exported(p)
      BY Ending DEF SyncInv, Directory
  <2>2. UNCHANGED <<tree, unsealed, dbs, cacheAt>>
      BY <2>1 DEF FinishMutation, SuitePasses
  <2>3. CASE FinishMutation(p)
    <3>1. /\ cacheAt # NoDb
          /\ \A f \in Doc : tree[f] = dbs[cacheAt].rows[f] /\ f \notin unsealed
        BY <2>1, <2>3 DEF FinishMutation, WorksOnCache, Exported, Exporting
    <3>2. tree \in Tree /\ dbs[cacheAt].rows \in Tree /\ unsealed \subseteq Doc
        BY <2>1, <3>1, Values DEF TypeOK
    <3>3. tree = dbs[cacheAt].rows /\ unsealed = {}
        BY <3>1, <3>2 DEF Tree
    <3> QED
        BY <2>2, <3>1, <3>3
  <2>4. CASE SuitePasses(p)
      BY <2>1, <2>2, <2>4 DEF SuitePasses, Exported
  <2> QED
      BY <2>1, <2>3, <2>4
<1>2. Spec => []SyncInv
    BY SyncInvariant
<1> QED
    BY <1>1, <1>2, PTL DEF Spec, SyncedOnSuccess

\* A writer that fails after its backup, and does not report that its rollback failed
\* too, leaves documents, broken seals and cache as it found them, whichever of its
\* steps failed (mutationSnapshot.restore).
THEOREM NoTrace == Writer \subseteq Alone => (Spec => FailureLeavesNoTrace)
<1> SUFFICES ASSUME Writer \subseteq Alone PROVE Spec => FailureLeavesNoTrace
    OBVIOUS
<1>1. SyncInv /\ [Next]_vars =>
          \A p \in Writer : Ends(p, "failed") /\ backup[p] # NoBackup =>
              /\ tree' = backup[p].tree
              /\ unsealed' = backup[p].unsealed
              /\ IF backup[p].cache = NoDb THEN cacheAt' = NoDb
                 ELSE cacheAt' # NoDb /\ dbs'[cacheAt'] = backup[p].cache
  <2> SUFFICES ASSUME SyncInv, [Next]_vars, NEW p \in Writer, Ends(p, "failed"), backup[p] # NoBackup
               PROVE  /\ tree' = backup[p].tree
                      /\ unsealed' = backup[p].unsealed
                      /\ IF backup[p].cache = NoDb THEN cacheAt' = NoDb
                         ELSE cacheAt' # NoDb /\ dbs'[cacheAt'] = backup[p].cache
      OBVIOUS
  <2>1. FinishUndoing(p) /\ TypeOK /\ Restored(p)
      BY Ending DEF SyncInv, Directory
  <2>2. UNCHANGED <<tree, unsealed, dbs, cacheAt>>
      BY <2>1 DEF FinishUndoing
  <2>3. /\ \A f \in Doc : tree[f] = backup[p].tree[f]
        /\ unsealed = backup[p].unsealed
        /\ cacheAt # NoDb => backup[p].cache # NoDb /\ dbs[cacheAt] = backup[p].cache
        /\ backup[p].cache # NoDb => cacheAt # NoDb
      BY <2>1 DEF FinishUndoing, Restored
  <2>4. tree \in Tree /\ backup[p].tree \in Tree
      BY <2>1 DEF TypeOK, Backups, Process
  <2>5. tree = backup[p].tree
      BY <2>3, <2>4 DEF Tree
  <2> QED
      BY <2>2, <2>3, <2>5
<1>2. Spec => []SyncInv
    BY SyncInvariant
<1> QED
    BY <1>1, <1>2, PTL DEF Spec, FailureLeavesNoTrace

-----------------------------------------------------------------------------
(* The promise to the documents.                                             *)

\* A document that is asked to be kept is kept.
LEMMA NothingChanged == \A t \in Tree : Changed(t, NoChange) = t
BY DEF Tree, Changed, NoChange

\* A tree without documents is the empty one.
LEMMA NoDocuments == \A t \in Tree : Docs(t) = {} => t = EmptyTree
<1> SUFFICES ASSUME NEW t \in Tree, Docs(t) = {} PROVE t = EmptyTree
    OBVIOUS
<1>1. \A f \in Doc : t[f] = NoDoc
    BY DEF Docs
<1> QED
    BY <1>1 DEF Tree, EmptyTree

RestSays == \A p \in Writer : pc[p] \in Idle /\ backup[p] = NoBackup => WriterSays(p)

\* Nothing is said of a writer that has not begun or is over.
LEMMA NothingSaid == RestSays
BY DEF RestSays, Idle, Exporting, Undoing, WriterSays, StartsFromDocuments, CacheSays, LeavesBehind, HalfDone

\* Where failures come from, what was there is there, or as it was asked to be.
LEMMA FailedHalfDone ==
    ASSUME SyncInv, DocumentInv, NEW p \in Writer,
           pc[p] \in {"walk", "fill", "swap", "command", "list", "export", "suite"},
           backup[p] # NoBackup, NEW f \in Doc
    PROVE  tree[f] \in {backup[p].tree[f], Changed(BaseOf(p), asked[p])[f]}
<1>1. /\ BackedUp(p) /\ Exported(p) /\ CacheSays(p) /\ HalfDone(p)
      /\ p \in Mutator /\ pc[p] \in Importing => backup[p] = NoBackup
      /\ p \in Mutator \/ p \in Repairer
    BY DEF SyncInv, Directory, DocumentInv, WriterSays, EachItsPlaces, Kept, Process, Writer
<1>2. CASE pc[p] \in {"walk", "fill", "swap"}
    BY <1>1, <1>2 DEF BackedUp, Importing
<1>3. CASE pc[p] \in {"command", "list"}
    BY <1>1, <1>3 DEF BackedUp
<1>4. CASE pc[p] = "export"
    BY <1>1, <1>4 DEF Exported, CacheSays, HalfDone, Exporting
<1>5. CASE pc[p] = "suite"
    BY <1>1, <1>5 DEF Exported, CacheSays, Exporting
<1> QED
    BY <1>2, <1>3, <1>4, <1>5

\* What a mutation or a repair starts from does not change while it has its backup.
LEMMA BaseStays ==
    ASSUME NEW p, backup'[p] = backup[p], asked'[p] = asked[p]
    PROVE  /\ BaseOf(p)' = BaseOf(p) /\ Changed(BaseOf(p), asked[p])' = Changed(BaseOf(p), asked[p])
           /\ StartsFromDocuments(p) => StartsFromDocuments(p)'
           /\ RowsOf(backup[p].cache)' = RowsOf(backup[p].cache)
<1>1. BaseOf(p)' = BaseOf(p)
    BY DEF BaseOf
<1> QED
    BY <1>1 DEF Changed, StartsFromDocuments, Docs, Seen, RowsOf

\* A writer's step keeps what its cache says and what it has done by halves.
LEMMA WriterSaysStep ==
    ASSUME Writer \subseteq Alone, SyncInv, DocumentInv,
           NEW p \in Writer, Start(p) \/ Step(p) \/ Kill(p)
    PROVE  WriterSays(p)'
<1>1. /\ TypeOK /\ HandlesAreOpen /\ EachItsPlaces /\ WriterIsAlone
      /\ Directory(p) /\ StartsFromDocuments(p) /\ CacheSays(p) /\ LeavesBehind(p) /\ HalfDone(p)
      /\ Writer \subseteq Process /\ p \in Process
      /\ backup[p] \in Backups /\ backup[p].tree \in Tree
      /\ pc[p] \in Idle \union {"compare", "diff", "snapshot"} => backup[p] = NoBackup
      /\ p \in Mutator /\ pc[p] \in Importing => backup[p] = NoBackup
    BY DEF SyncInv, DocumentInv, WriterSays, Process, Backups, TypeOK, EachItsPlaces, Kept
<1>2. (pc[p] \in Idle /\ backup[p] = NoBackup => WriterSays(p))'
  <2>1. RestSays'
      BY NothingSaid, PTL
  <2> QED
      BY <2>1 DEF RestSays
<1>3. ASSUME NEW why, End(p, why) PROVE WriterSays(p)'
    BY <1>1, <1>2, <1>3 DEF End, TypeOK, Idle
\* A step that leaves the backup, or its absence, and what is asked.
<1>4. ASSUME backup'[p] = backup[p], asked'[p] = asked[p],
             CacheSays(p)', LeavesBehind(p)', HalfDone(p)'
      PROVE  WriterSays(p)'
    BY <1>1, <1>4, BaseStays DEF WriterSays
\* One that leaves the database at c3.db as well.
<1>5. ASSUME backup'[p] = backup[p], asked'[p] = asked[p], AtPath' = AtPath PROVE LeavesBehind(p)'
    BY <1>1, <1>5, BaseStays DEF LeavesBehind
<1>6. ASSUME UNCHANGED <<dbs, cacheAt>> PROVE AtPath' = AtPath
    BY <1>6 DEF AtPath
<1>7. CASE Start(p)
  <2>1. CASE StartMutation(p)
    <3>1. /\ UNCHANGED <<tree, dbs, cacheAt, backup>> /\ pc'[p] = AfterStart(p) /\ p \in Mutator
          /\ AfterStart(p) \in {"compare", "walk", "snapshot"}
          /\ AfterStart(p) = "snapshot" => Docs(tree) = {}
          /\ pc[p] = "idle"
        BY <1>1, <2>1 DEF StartMutation, MayStart, AfterStart, TypeOK
    <3>2. backup[p] = NoBackup /\ backup'[p] = NoBackup
        BY <1>1, <3>1 DEF Idle
    <3> QED
        BY <3>1, <3>2 DEF WriterSays, StartsFromDocuments, CacheSays, LeavesBehind, HalfDone,
           Exporting, Undoing, Docs
  <2>2. CASE StartRepair(p)
    <3>1. /\ pc'[p] = "snapshot" /\ p \notin Mutator /\ pc[p] = "idle" /\ UNCHANGED backup
        BY <1>1, <2>2, ProcessAssumption DEF StartRepair, MayStart, TypeOK
    <3>2. backup'[p] = NoBackup
        BY <1>1, <3>1 DEF Idle
    <3> QED
        BY <3>1, <3>2 DEF WriterSays, StartsFromDocuments, CacheSays, LeavesBehind, HalfDone,
           Exporting, Undoing
  <2>3. CASE Unavailable(p) \/ SealsBroken(p)
      BY <1>3, <2>3 DEF Unavailable, SealsBroken
  <2>4. ~StartCheck(p)
      BY ProcessAssumption DEF StartCheck
  <2> QED
      BY <1>7, <2>1, <2>2, <2>3, <2>4 DEF Start
<1>8. ASSUME Fails(p, pc[p]), AtPath' = AtPath,
             pc[p] \in {"walk", "fill", "swap", "command", "list", "export", "suite"}
      PROVE  WriterSays(p)'
  <2>1. CASE backup[p] = NoBackup
      BY <1>3, <1>8, <2>1 DEF Fails
  <2>2. CASE backup[p] # NoBackup
    <3>1. pc'[p] = "wipe" /\ UNCHANGED <<tree, asked, backup>>
        BY <1>1, <1>8, <2>2 DEF Fails, TypeOK
    <3>2. \A f \in Doc : tree[f] \in {backup[p].tree[f], Changed(BaseOf(p), asked[p])[f]}
        BY <1>8, <2>2, FailedHalfDone
    <3>3. CacheSays(p)'
        BY <3>1 DEF CacheSays, Exporting
    <3>4. HalfDone(p)'
        BY <2>2, <3>1, <3>2, BaseStays DEF HalfDone, Exporting
    <3> QED
        BY <1>4, <1>5, <1>8, <3>1, <3>3, <3>4
  <2> QED
      BY <2>1, <2>2
<1>9. CASE Step(p)
  <2>1. /\ ~(p \in Mutator /\ p \in Repairer) /\ (p \in Mutator \/ p \in Repairer)
        /\ AfterRefresh(p) = IF p \in Mutator THEN "snapshot" ELSE "open"
        /\ p \in Repairer => pc[p] \notin {"compare", "diff", "command"} /\ asked[p] = NoChange
        /\ p \in Mutator => pc[p] # "suite"
        /\ backup[p] \in Backups /\ backup[p].tree \in Tree
      BY <1>1, ProcessAssumption
      DEF AfterRefresh, Process, Writer, EachItsPlaces, Kept, RepairerPlaces, MutatorPlaces, Idle,
          Importing, Exporting, Undoing, TypeOK, Backups
  <2>2. WorksOnCache(p) /\ BackedUp(p) /\ CacheSays(p) /\ HalfDone(p) /\ Restored(p)
      BY <1>1 DEF Directory
  <2>3. CASE ReadCache(p)
    <3>1. /\ pc[p] = "compare" /\ pc'[p] = "diff" /\ read'[p] = dbs'[cacheAt'].rows
          /\ UNCHANGED <<asked, backup>>
        BY <1>1, <2>1, <2>3 DEF ReadCache, Goto, TypeOK
    <3>2. backup[p] = NoBackup
        BY <1>1, <3>1
    <3> QED
        BY <1>4, <3>1, <3>2 DEF CacheSays, HalfDone, LeavesBehind, Exporting, Undoing
  <2>4. CASE Diff(p)
    <3>1. /\ pc[p] = "diff" /\ UNCHANGED <<tree, dbs, cacheAt, asked, backup>>
          /\ pc'[p] = IF Synced(read[p]) THEN "snapshot" ELSE "walk"
          /\ p \in Mutator
        BY <1>1, <2>1, <2>4 DEF Diff, Goto, TypeOK
    <3>2. read[p] = dbs[cacheAt].rows /\ backup[p] = NoBackup
        BY <1>1, <2>2, <3>1 DEF CacheSays
    <3>3. Synced(read[p]) => Seen(dbs[cacheAt].rows)' = Seen(tree)'
        BY <3>1, <3>2 DEF Synced, Seen
    <3> QED
        BY <1>4, <3>1, <3>2, <3>3 DEF CacheSays, HalfDone, LeavesBehind, Exporting, Undoing
  <2>5. CASE Walk(p)
    <3>1. /\ pc[p] = "walk" /\ pc'[p] = "fill" /\ UNCHANGED <<tree, cacheAt, asked, backup>>
          /\ read'[p] = tree /\ tmpAt' = Built(p)
          /\ dbs' = [dbs EXCEPT ![Built(p)] = [rows |-> EmptyTree]] /\ Docs(tree) # {}
        BY <1>1, <2>1, <2>5 DEF Walk, Importable, Goto, TypeOK
    <3>2. AtPath' \in {AtPath, EmptyTree}
        BY <1>1, <3>1 DEF AtPath, TypeOK
    <3>3. LeavesBehind(p)'
        BY <1>1, <3>1, <3>2, BaseStays DEF LeavesBehind, EmptyTree
    <3> QED
        BY <1>4, <3>1, <3>3 DEF CacheSays, HalfDone, Exporting, Undoing, Docs
  <2>6. CASE Fill(p)
    <3>1. /\ pc[p] = "fill" /\ pc'[p] = "unlink" /\ UNCHANGED <<tree, read, tmpAt, cacheAt, asked, backup>>
          /\ dbs' = [dbs EXCEPT ![Built(p)] = [rows |-> read[p]]]
        BY <1>1, <2>1, <2>6 DEF Fill, Goto, TypeOK
    <3>2. dbs'[Built(p)].rows = tree /\ read[p] = tree /\ tmpAt = Built(p)
        BY <1>1, <2>2, <3>1, Values DEF CacheSays, TypeOK
    <3>3. AtPath' \in {AtPath, tree}
        BY <1>1, <3>1, <3>2 DEF AtPath, TypeOK
    <3>4. backup[p] # NoBackup => BaseOf(p) = tree
        BY <1>1, <2>1, <2>2, <3>1 DEF BaseOf, BackedUp, Importing
    <3>5. LeavesBehind(p)'
        BY <1>1, <3>1, <3>3, <3>4, BaseStays DEF LeavesBehind, EmptyTree
    <3> QED
        BY <1>4, <2>2, <3>1, <3>2, <3>5 DEF CacheSays, HalfDone, Exporting, Undoing, Docs
  <2>7. CASE Unlink(p)
    <3>1. /\ pc[p] = "unlink" /\ pc'[p] = "swap" /\ UNCHANGED <<tree, read, tmpAt, dbs, asked, backup>>
          /\ cacheAt' = NoDb
        BY <1>1, <2>1, <2>7 DEF Unlink, Goto, TypeOK
    <3>2. LeavesBehind(p)'
        BY <3>1 DEF LeavesBehind, AtPath
    <3> QED
        BY <1>4, <2>2, <3>1, <3>2 DEF CacheSays, HalfDone, Exporting, Undoing, Docs
  <2>8. CASE SwapIn(p)
    <3>1. /\ pc[p] = "swap" /\ pc'[p] = IF p \in Mutator THEN "snapshot" ELSE "open"
          /\ UNCHANGED <<tree, dbs, backup, asked>> /\ cacheAt' = tmpAt /\ tmpAt # NoDb
        BY <1>1, <2>1, <2>8 DEF SwapIn, Goto, TypeOK
    <3>2. dbs'[cacheAt'].rows = tree /\ Docs(tree) # {} /\ AtPath' = tree
        BY <2>2, <3>1 DEF CacheSays, HalfDone, AtPath
    <3>3. /\ p \in Repairer => backup[p].tree = tree /\ backup[p] # NoBackup
          /\ backup[p] # NoBackup => BaseOf(p) = tree /\ p \in Repairer
        BY <1>1, <2>1, <2>2, <3>1, <3>2
        DEF BackedUp, Importing, NoBackup, EmptyTree, Docs, BaseOf
    <3>4. LeavesBehind(p)'
        BY <3>1, <3>2, <3>3, BaseStays DEF LeavesBehind
    <3>5. CacheSays(p)'
        BY <2>1, <3>1, <3>2, <3>3, BaseStays DEF CacheSays, Exporting, Seen
    <3>6. HalfDone(p)'
        BY <2>1, <3>1, <3>3 DEF HalfDone, Exporting, Undoing
    <3> QED
        BY <1>4, <3>1, <3>4, <3>5, <3>6
  <2>9. CASE Snapshot(p)
    <3>1. /\ pc[p] = "snapshot" /\ pc'[p] = IF p \in Mutator THEN "open" ELSE "walk"
          /\ UNCHANGED <<tree, dbs, cacheAt>>
          /\ backup'[p].tree = tree
          /\ backup'[p].cache = IF cacheAt = NoDb THEN NoDb ELSE dbs[cacheAt]
        BY <1>1, <2>1, <2>9 DEF Snapshot, Goto, TypeOK
    <3>2. /\ p \in Mutator => cacheAt # NoDb /\ dbs[cacheAt] \in Database /\ dbs[cacheAt] # NoDb
          /\ cacheAt # NoDb => dbs[cacheAt] # NoDb
        BY <1>1, <2>2, <3>1, DatabaseAssumption DEF WorksOnCache, TypeOK
    <3>3. p \in Mutator => backup'[p] # NoBackup /\ BaseOf(p)' = dbs[cacheAt].rows
        BY <3>1, <3>2 DEF NoBackup, BaseOf
    <3>4. StartsFromDocuments(p)'
        BY <2>2, <3>1, <3>2 DEF StartsFromDocuments, CacheSays, Seen, Docs
    <3>5. AtPath' = RowsOf(backup'[p].cache)
        BY <3>1, <3>2 DEF AtPath, RowsOf
    <3>6. LeavesBehind(p)'
        BY <3>5 DEF LeavesBehind, RowsOf
    <3>7. CacheSays(p)'
        BY <2>1, <3>1, <3>2, <3>3 DEF CacheSays, Exporting
    <3>8. HalfDone(p)'
        BY <2>1, <3>1, <3>3 DEF HalfDone, Exporting, Undoing
    <3> QED
        BY <3>4, <3>6, <3>7, <3>8 DEF WriterSays
  <2>10. CASE Open(p)
    <3>1. /\ pc[p] = "open" /\ pc'[p] = IF p \in Mutator THEN "command" ELSE "list"
          /\ UNCHANGED <<backup, asked>> /\ OpenPath(p)
        BY <1>1, <2>1, <2>10 DEF Open, Goto, TypeOK
    <3>2. cacheAt' = cacheAt /\ dbs' = dbs
        BY <1>1, <2>1, <2>2, <3>1, OpenTypes DEF WorksOnCache
    <3>3. /\ dbs[cacheAt].rows = BaseOf(p) /\ backup[p] # NoBackup
          /\ p \in Repairer => Changed(BaseOf(p), asked[p]) = BaseOf(p)
        BY <2>1, <2>2, <3>1, NothingChanged DEF CacheSays, HalfDone, BaseOf
    <3>4. LeavesBehind(p)'
        BY <1>5, <1>6, <3>1, <3>2
    <3>5. CacheSays(p)'
        BY <2>1, <3>1, <3>2, <3>3, BaseStays DEF CacheSays, Exporting
    <3>6. HalfDone(p)'
        BY <2>1, <3>1, <3>3 DEF HalfDone, Exporting, Undoing
    <3> QED
        BY <1>4, <3>1, <3>4, <3>5, <3>6
  <2>11. CASE Command(p)
    <3>1. /\ pc[p] = "command" /\ pc'[p] = "list" /\ UNCHANGED <<backup, asked, cacheAt>>
          /\ cacheAt \in Db /\ handle[p] = cacheAt /\ cacheAt # NoDb
        BY <1>1, <2>1, <2>2, <2>11 DEF Command, Goto, TypeOK, WorksOnCache
    <3>2. dbs[cacheAt] \in Database /\ dbs[cacheAt].rows = BaseOf(p) /\ asked[p] \in AnyChange
        BY <1>1, <2>1, <2>2, <3>1 DEF CacheSays, TypeOK
    <3>3. Changed(dbs[cacheAt].rows, asked[p]) \in Tree
        BY <3>2, Values
    <3>4. dbs'[cacheAt] = [dbs[cacheAt] EXCEPT !.rows = Changed(dbs[cacheAt].rows, asked[p])]
        BY <1>1, <2>11, <3>1 DEF Command, TypeOK
    <3>5. dbs'[cacheAt].rows = Changed(BaseOf(p), asked[p])
        BY <3>2, <3>3, <3>4 DEF Database
    <3>6. AtPath' = Changed(BaseOf(p), asked[p])
        BY <3>1, <3>5 DEF AtPath
    <3>7. LeavesBehind(p)'
        BY <3>1, <3>6, BaseStays DEF LeavesBehind
    <3>8. CacheSays(p)'
        BY <3>1, <3>5, BaseStays DEF CacheSays, Exporting
    <3>9. HalfDone(p)'
        BY <2>2, <3>1 DEF HalfDone, Exporting, Undoing
    <3> QED
        BY <1>4, <3>1, <3>7, <3>8, <3>9
  <2>12. CASE List(p)
    <3>1. /\ pc[p] = "list" /\ pc'[p] = "export"
          /\ UNCHANGED <<tree, dbs, cacheAt, backup, asked>> /\ todo' \in [Process -> SUBSET Doc]
        BY <1>1, <2>1, <2>12, TypeStep DEF List, Goto, TypeOK, Docs
    <3>2. backup[p].tree = tree
        BY <2>2, <3>1 DEF BackedUp
    <3>3. LeavesBehind(p)'
        BY <1>5, <1>6, <3>1
    <3>4. CacheSays(p)'
        BY <2>2, <3>1, BaseStays DEF CacheSays, Exporting
    <3>5. HalfDone(p)'
        BY <2>2, <3>1, <3>2 DEF HalfDone, Exporting, Undoing
    <3> QED
        BY <1>4, <3>1, <3>3, <3>4, <3>5
  <2>13. ASSUME NEW f \in Doc, ExportOne(p, f) PROVE WriterSays(p)'
    <3>1. /\ pc[p] = "export" /\ UNCHANGED <<pc, dbs, backup, cacheAt, asked>>
          /\ todo'[p] = todo[p] \ {f} /\ \A g \in Doc \ {f} : tree'[g] = tree[g]
          /\ todo[p] \subseteq Doc
        BY <1>1, <2>1, <2>13 DEF ExportOne, TypeOK, Tree
    <3>2. LeavesBehind(p)'
        BY <1>5, <1>6, <3>1
    <3>3. CacheSays(p)'
        BY <2>2, <3>1, BaseStays DEF CacheSays, Exporting
    <3>4. HalfDone(p)'
        BY <2>2, <3>1 DEF HalfDone, Exporting, Undoing
    <3> QED
        BY <1>4, <3>1, <3>2, <3>3, <3>4
  <2>14. CASE FinishExport(p)
    <3>1. pc[p] = "export" /\ pc'[p] = "suite" /\ UNCHANGED <<dbs, cacheAt, backup, asked>>
        BY <1>1, <2>1, <2>14 DEF FinishExport, Goto, TypeOK
    <3>2. LeavesBehind(p)'
        BY <1>5, <1>6, <3>1
    <3>3. CacheSays(p)'
        BY <2>2, <3>1, BaseStays DEF CacheSays, Exporting
    <3>4. HalfDone(p)'
        BY <2>2, <3>1 DEF HalfDone, Exporting, Undoing
    <3> QED
        BY <1>4, <3>1, <3>2, <3>3, <3>4
  <2>15. CASE WalkRefused(p) \/ FillFails(p) \/ SwapFails(p) \/ CommandFails(p)
    <3>1. /\ Fails(p, pc[p]) /\ UNCHANGED <<dbs, cacheAt>>
          /\ pc[p] \in {"walk", "fill", "swap", "command", "list", "export", "suite"}
        BY <2>15 DEF WalkRefused, FillFails, SwapFails, CommandFails, Fails
    <3> QED
        BY <1>6, <1>8, <3>1
  <2>16. CASE SuiteFails(p)
    <3>1. pc[p] = "suite" /\ Fails(p, pc[p]) /\ OpenPath(p)
        BY <2>16 DEF SuiteFails, Fails
    <3>2. UNCHANGED <<dbs, cacheAt>>
        BY <1>1, <2>2, <3>1, OpenTypes DEF WorksOnCache
    <3> QED
        BY <1>6, <1>8, <3>1, <3>2
  <2>17. CASE FinishMutation(p) \/ SuitePasses(p) \/ FinishUndoing(p) \/ RestoreFails(p)
      BY <1>3, <2>17 DEF FinishMutation, SuitePasses, FinishUndoing, RestoreFails
  <2>18. CASE RemoveCache(p) \/ \E f \in Doc : RemoveDoc(p, f)
    <3>1. /\ pc[p] = "wipe" /\ UNCHANGED <<pc, dbs, asked, backup>>
          /\ cacheAt' \in {cacheAt, NoDb}
          /\ \A f \in Doc : tree'[f] \in {tree[f], NoDoc}
      <4>1. CASE RemoveCache(p)
          BY <4>1 DEF RemoveCache
      <4>2. ASSUME NEW f \in Doc, RemoveDoc(p, f)
            PROVE  \A g \in Doc : tree'[g] \in {tree[g], NoDoc}
          BY <1>1, <4>2 DEF RemoveDoc, TypeOK, Tree
      <4>3. CASE \E f \in Doc : RemoveDoc(p, f)
          BY <4>2, <4>3 DEF RemoveDoc
      <4> QED
          BY <2>18, <4>1, <4>3
    <3>2. AtPath' \in {AtPath, EmptyTree}
        BY <3>1 DEF AtPath
    <3>3. LeavesBehind(p)'
        BY <1>1, <3>1, <3>2, BaseStays DEF LeavesBehind, EmptyTree
    <3>4. CacheSays(p)'
        BY <3>1 DEF CacheSays, Exporting
    <3>5. HalfDone(p)'
        BY <2>2, <3>1, BaseStays DEF HalfDone, Exporting, Undoing
    <3> QED
        BY <1>4, <3>1, <3>3, <3>4, <3>5
  <2>19. CASE Wiped(p) \/ \E f \in Doc : PutBack(p, f)
    <3>1. /\ pc[p] \in Undoing /\ pc'[p] = "putback"
          /\ UNCHANGED <<dbs, cacheAt, asked, backup>>
        BY <1>1, <2>1, <2>19 DEF Wiped, PutBack, Goto, TypeOK, Undoing
    <3>2. LeavesBehind(p)'
        BY <1>5, <1>6, <3>1
    <3> QED
        BY <1>4, <2>2, <3>1, <3>2 DEF CacheSays, HalfDone, Exporting, Undoing
  <2>20. CASE PutBackCache(p)
    <3>1. /\ pc[p] = "putback" /\ pc' = pc /\ UNCHANGED <<asked, backup>>
          /\ cacheAt' = Copy(p) /\ dbs'[Copy(p)] = backup[p].cache /\ backup[p].cache # NoDb
        BY <1>1, <2>1, <2>20, Values DEF PutBackCache, TypeOK
    <3>2. AtPath' \in {RowsOf(backup[p].cache), EmptyTree}
        BY <3>1 DEF AtPath, RowsOf
    <3>3. LeavesBehind(p)'
        BY <3>1, <3>2, BaseStays DEF LeavesBehind, EmptyTree
    <3> QED
        BY <1>4, <2>2, <3>1, <3>3 DEF CacheSays, HalfDone, Exporting, Undoing
  <2> QED
      BY <1>9, <2>3, <2>4, <2>5, <2>6, <2>7, <2>8, <2>9, <2>10, <2>11, <2>12, <2>13,
         <2>14, <2>15, <2>16, <2>17, <2>18, <2>19, <2>20 DEF Step
<1>10. CASE Kill(p)
    BY <1>3, <1>10 DEF Kill
<1> QED
    BY <1>7, <1>9, <1>10

\* What the temporary database, if there is one, says while checks are building.
TmpBuilds == tmpAt # NoDb => dbs[tmpAt].rows \in {EmptyTree, tree}

\* A check leaves the documents, and a cache that says what they say, what it said
\* or nothing.
LEMMA CheckerMoves ==
    ASSUME TypeOK, EachItsPlaces, NEW p \in Checker, Builds(p), Start(p) \/ Step(p) \/ Kill(p)
    PROVE  /\ tree' = tree
           /\ AtPath' \in {AtPath, EmptyTree, tree}
           /\ TmpBuilds => TmpBuilds'
           /\ Builds(p)'
           /\ \A q \in Process \ {p} : read'[q] = read[q]
<1>1. /\ p \in Process /\ p \notin Writer /\ backup[p] = NoBackup
      /\ pc[p] \in {"idle", "done", "walk", "fill", "unlink", "swap", "compare", "diff", "suite"}
      /\ AfterRefresh(p) = "suite"
    BY ProcessAssumption DEF EachItsPlaces, Kept, CheckerPlaces, Idle, Importing, Process, Writer, AfterRefresh
<1>2. ASSUME UNCHANGED <<dbs, cacheAt>> PROVE AtPath' = AtPath
    BY <1>2 DEF AtPath
<1>3. ASSUME tree' = tree, dbs' = dbs, tmpAt' \in {tmpAt, NoDb} PROVE TmpBuilds => TmpBuilds'
    BY <1>3 DEF TmpBuilds
<1>4. ASSUME NEW why, End(p, why), UNCHANGED <<tree, dbs, cacheAt>>, tmpAt' \in {tmpAt, NoDb}
      PROVE  /\ tree' = tree /\ AtPath' = AtPath /\ (TmpBuilds => TmpBuilds')
             /\ Builds(p)' /\ \A q \in Process \ {p} : read'[q] = read[q]
  <2>1. pc'[p] = "done" /\ \A q \in Process \ {p} : read'[q] = read[q]
      BY <1>1, <1>4 DEF End, TypeOK
  <2> QED
      BY <1>2, <1>3, <1>4, <2>1 DEF Builds
\* Opening a path puts nothing into a database but an empty one where there was none.
<1>5. ASSUME OpenPath(p), tree' = tree, tmpAt' = tmpAt
      PROVE  AtPath' = AtPath /\ (TmpBuilds => TmpBuilds')
  <2>1. CASE cacheAt = NoDb
    <3>1. /\ cacheAt' = Fresh(p) /\ dbs' = [dbs EXCEPT ![Fresh(p)] = [rows |-> EmptyTree]]
          /\ dbs'[Fresh(p)].rows = EmptyTree
        BY <1>1, <1>5, <2>1, OpenTypes DEF OpenPath
    <3>2. AtPath = EmptyTree /\ AtPath' = EmptyTree
        BY <2>1, <3>1 DEF AtPath, EmptyTree
    <3>3. \A d \in Db : dbs'[d] = dbs[d] \/ dbs'[d].rows = EmptyTree
        BY <3>1 DEF TypeOK
    <3>4. TmpBuilds => TmpBuilds'
        BY <1>5, <3>3 DEF TmpBuilds, TypeOK, EmptyTree
    <3> QED
        BY <3>2, <3>4
  <2>2. CASE cacheAt # NoDb
    <3>1. cacheAt' = cacheAt /\ dbs' = dbs
        BY <1>1, <1>5, <2>2, OpenTypes
    <3> QED
        BY <1>2, <1>3, <1>5, <3>1
  <2> QED
      BY <2>1, <2>2
<1>6. CASE Start(p)
  <2>1. CASE StartCheck(p)
    <3>1. UNCHANGED <<tree, dbs, cacheAt, tmpAt, read>> /\ pc'[p] \in {"walk", "compare"}
        BY <1>1, <2>1 DEF StartCheck, TypeOK
    <3> QED
        BY <1>2, <1>3, <3>1 DEF Builds
  <2>2. CASE SealsBroken(p)
      BY <1>4, <2>2 DEF SealsBroken
  <2> QED
      BY <1>1, <1>6, <2>1, <2>2 DEF Start, StartMutation, Unavailable, StartRepair, Writer
<1>7. CASE Kill(p)
    BY <1>4, <1>7 DEF Kill
<1>8. CASE Step(p)
  <2>1. CASE ReadCache(p)
    <3>1. /\ OpenPath(p) /\ UNCHANGED <<tree, tmpAt>> /\ pc'[p] = "diff"
          /\ \A q \in Process \ {p} : read'[q] = read[q]
        BY <1>1, <2>1 DEF ReadCache, Goto, TypeOK
    <3> QED
        BY <1>5, <3>1 DEF Builds
  <2>2. CASE Diff(p)
    <3>1. /\ UNCHANGED <<tree, tmpAt, dbs, cacheAt>> /\ pc'[p] \in {"suite", "walk"}
          /\ \A q \in Process \ {p} : read'[q] = read[q]
        BY <1>1, <2>2 DEF Diff, Goto, TypeOK
    <3> QED
        BY <1>2, <1>3, <3>1 DEF Builds
  <2>3. CASE Walk(p)
    <3>1. /\ pc'[p] = "fill" /\ UNCHANGED <<tree, cacheAt>>
          /\ read' = [read EXCEPT ![p] = tree] /\ tmpAt' = Built(p)
          /\ dbs' = [dbs EXCEPT ![Built(p)] = [rows |-> EmptyTree]]
        BY <1>1, <2>3 DEF Walk, Goto, TypeOK
    <3>2. AtPath' \in {AtPath, EmptyTree}
        BY <3>1 DEF AtPath, TypeOK
    <3>3. dbs'[Built(p)].rows = EmptyTree
        BY <1>1, <3>1, Values DEF TypeOK
    <3>4. TmpBuilds'
        BY <3>1, <3>3 DEF TmpBuilds, EmptyTree
    <3>5. read'[p] = tree /\ \A q \in Process \ {p} : read'[q] = read[q]
        BY <1>1, <3>1 DEF TypeOK
    <3>6. Builds(p)'
        BY <3>1, <3>4, <3>5 DEF Builds, TmpBuilds
    <3> QED
        BY <3>1, <3>2, <3>4, <3>5, <3>6
  <2>4. CASE Fill(p)
    <3>1. /\ pc[p] = "fill" /\ UNCHANGED <<tree, read, tmpAt, cacheAt>>
          /\ dbs' = [dbs EXCEPT ![Built(p)] = [rows |-> read[p]]]
        BY <1>1, <2>4 DEF Fill, Goto, TypeOK
    <3>2. read[p] = tree /\ TmpBuilds
        BY <3>1 DEF Builds, TmpBuilds
    <3>3. \A d \in Db : dbs'[d] = dbs[d] \/ dbs'[d].rows = tree
        BY <3>1, <3>2 DEF TypeOK
    <3>4. AtPath' \in {AtPath, tree}
        BY <3>1, <3>3 DEF AtPath, TypeOK
    <3>5. TmpBuilds'
        BY <3>1, <3>2, <3>3 DEF TmpBuilds, TypeOK, EmptyTree
    <3>6. Builds(p)'
        BY <3>1, <3>2, <3>5 DEF Builds, TmpBuilds
    <3> QED
        BY <3>1, <3>4, <3>5, <3>6
  <2>5. CASE Unlink(p)
    <3>1. pc[p] = "unlink" /\ UNCHANGED <<tree, read, tmpAt, dbs>> /\ cacheAt' = NoDb
        BY <1>1, <2>5 DEF Unlink, Goto, TypeOK
    <3>2. AtPath' = EmptyTree
        BY <3>1 DEF AtPath, EmptyTree
    <3> QED
        BY <1>3, <3>1, <3>2 DEF Builds
  <2>6. CASE SwapIn(p)
    <3>1. /\ pc[p] = "swap" /\ pc'[p] = "suite" /\ UNCHANGED <<tree, dbs>>
          /\ cacheAt' = tmpAt /\ tmpAt # NoDb /\ tmpAt' = NoDb
          /\ \A q \in Process \ {p} : read'[q] = read[q]
        BY <1>1, <2>6 DEF SwapIn, Goto, TypeOK
    <3>2. AtPath' \in {EmptyTree, tree}
        BY <3>1 DEF AtPath, Builds
    <3> QED
        BY <1>3, <3>1, <3>2 DEF Builds
  <2>7. CASE WalkRefused(p) \/ FillFails(p) \/ SwapFails(p) \/ CommandFails(p)
    <3>1. /\ End(p, "failed") /\ UNCHANGED <<tree, dbs, cacheAt>> /\ tmpAt' \in {tmpAt, NoDb}
        BY <1>1, <2>7 DEF WalkRefused, FillFails, SwapFails, CommandFails, Fails
    <3> QED
        BY <1>4, <3>1
  <2>8. CASE SuiteFails(p)
    <3>1. /\ End(p, "failed") /\ OpenPath(p) /\ UNCHANGED <<tree, tmpAt>>
        BY <1>1, <2>8 DEF SuiteFails, Fails
    <3>2. pc'[p] = "done" /\ \A q \in Process \ {p} : read'[q] = read[q]
        BY <1>1, <3>1 DEF End, TypeOK
    <3> QED
        BY <1>5, <3>1, <3>2 DEF Builds
  <2>9. CASE SuitePasses(p)
      BY <1>4, <2>9 DEF SuitePasses
  <2>10. /\ ~Snapshot(p) /\ ~Open(p) /\ ~Command(p) /\ ~List(p) /\ ~FinishMutation(p)
         /\ ~FinishExport(p) /\ ~RemoveCache(p) /\ ~Wiped(p) /\ ~PutBackCache(p)
         /\ ~FinishUndoing(p) /\ ~RestoreFails(p)
         /\ \A f \in Doc : ~ExportOne(p, f) /\ ~RemoveDoc(p, f) /\ ~PutBack(p, f)
      BY <1>1 DEF Snapshot, Open, Command, List, FinishMutation, FinishExport, RemoveCache, Wiped,
         PutBackCache, FinishUndoing, RestoreFails, ExportOne, RemoveDoc, PutBack, Goto, Undoing
  <2> QED
      BY <1>8, <2>1, <2>2, <2>3, <2>4, <2>5, <2>6, <2>7, <2>8, <2>9, <2>10 DEF Step
<1> QED
    BY <1>6, <1>7, <1>8

\* What is said of the cache and the documents stays so.
LEMMA DocumentStep ==
    Writer \subseteq Alone /\ SyncInv /\ SyncInv' /\ DocumentInv /\ [Next]_vars => DocumentInv'
<1> SUFFICES ASSUME Writer \subseteq Alone, SyncInv, SyncInv', DocumentInv, [Next]_vars
             PROVE  DocumentInv'
    OBVIOUS
<1>1. /\ TypeOK /\ EachItsPlaces /\ WriterIsAlone /\ Writer \subseteq Process
      /\ Checker \subseteq Process /\ EachItsPlaces'
      /\ \A p \in Writer : WriterSays(p)
      /\ \A p \in Checker : Builds(p)
      /\ \A p \in Process : pc'[p] \in Idle => backup'[p] = NoBackup
    BY DEF SyncInv, DocumentInv, Process, EachItsPlaces, Kept, Idle
\* Writers at rest say nothing, checks at rest build nothing.
<1>2. ASSUME NEW p \in Writer, pc'[p] \in Idle PROVE WriterSays(p)'
  <2>1. RestSays'
      BY NothingSaid, PTL
  <2> QED
      BY <1>1, <1>2, <2>1 DEF RestSays
<1>3. ASSUME NEW p \in Checker, pc'[p] \in Idle PROVE Builds(p)'
    BY <1>3 DEF Builds, Idle
<1>4. ASSUME NEW p \in Process, Start(p) \/ Step(p) \/ Kill(p) PROVE DocumentInv'
  <2>1. \A q \in Writer \ {p} : WriterSays(q)'
      BY <1>1, <1>2, <1>4, WriterMoves
  <2>2. CASE p \in Writer
    <3>1. WriterSays(p)'
        BY <1>4, <2>2, WriterSaysStep
    <3>2. \A q \in Checker : Builds(q)'
        BY <1>1, <1>3, <1>4, <2>2, WriterMoves, ProcessAssumption
    <3> QED
        BY <2>1, <3>1, <3>2 DEF DocumentInv
  <2>3. CASE p \in Checker
    <3>1. /\ tree' = tree /\ (TmpBuilds => TmpBuilds') /\ Builds(p)'
          /\ \A q \in Process \ {p} : read'[q] = read[q] /\ pc'[q] = pc[q]
        BY <1>1, <1>4, <2>3, CheckerMoves, WriterMoves
    <3>2. ASSUME NEW q \in Checker \ {p} PROVE Builds(q)'
        BY <1>1, <3>1 DEF Builds, TmpBuilds
    <3>3. p \notin Writer
        BY <2>3, ProcessAssumption
    <3> QED
        BY <2>1, <3>1, <3>2, <3>3 DEF DocumentInv
  <2> QED
      BY <2>2, <2>3 DEF Process
<1>5. ASSUME NEW f \in Doc, NEW v \in Content \union {NoDoc}, Edit(f, v) PROVE DocumentInv'
  <2>1. \A p \in Process : pc'[p] \in Idle
      BY <1>5 DEF Edit, Active, Idle
  <2> QED
      BY <1>1, <1>2, <1>3, <2>1 DEF DocumentInv
<1>6. CASE UNCHANGED vars
  <2>1. /\ \A p \in Writer : WriterSays(p)'
      BY <1>1, <1>6 DEF vars, WriterSays, StartsFromDocuments, CacheSays, LeavesBehind, HalfDone,
         BaseOf, Changed, AtPath, RowsOf, Seen, Docs
  <2>2. \A p \in Checker : Builds(p)'
      BY <1>1, <1>6 DEF vars, Builds
  <2> QED
      BY <2>1, <2>2 DEF DocumentInv
<1> QED
    BY <1>4, <1>5, <1>6 DEF Next, AllDone
-----------------------------------------------------------------------------
(* Every step is one that module Documents allows, or changes nothing of what *)
(* Documents sees.                                                           *)

\* With the others at rest a writer decides what is visible: what it has backed up,
\* until it is over.
OneShows ==
    \A p \in Writer : (\A q \in Writer \ {p} : backup[q] = NoBackup) =>
        /\ Visible = IF backup[p] # NoBackup THEN backup[p].tree ELSE tree
        /\ Cached = IF backup[p] # NoBackup THEN RowsOf(backup[p].cache) ELSE AtPath

\* It does: what it hides is its own backup.
LEMMA WriterShows == OneShows
<1> SUFFICES ASSUME NEW p \in Writer, \A q \in Writer \ {p} : backup[q] = NoBackup
             PROVE  /\ Visible = IF backup[p] # NoBackup THEN backup[p].tree ELSE tree
                    /\ Cached = IF backup[p] # NoBackup THEN RowsOf(backup[p].cache) ELSE AtPath
    BY DEF OneShows
<1>1. CASE backup[p] # NoBackup
  <2>1. Hidden = {p}
      BY <1>1 DEF Hidden
  <2>2. Hider = p
      BY <2>1 DEF Hider
  <2> QED
      BY <1>1, <2>1, <2>2 DEF Visible, Cached
<1>2. CASE backup[p] = NoBackup
  <2>1. Hidden = {}
      BY <1>2 DEF Hidden
  <2> QED
      BY <1>2, <2>1 DEF Visible, Cached
<1> QED
    BY <1>1, <1>2

RestShows == (\A q \in Writer : backup[q] = NoBackup) => Visible = tree /\ Cached = AtPath

\* With all at rest the documents and the cache are.
LEMMA AllShow == RestShows
BY DEF RestShows, Visible, Cached, Hidden

\* How far a writer is.
ProgressAgrees ==
    \A p \in Writer : (pc[p] = "done" <=> outcome[p] # "none") =>
        /\ pc[p] = "idle" => Progress(p) = "waiting"
        /\ pc[p] = "done" => Progress(p) = IF outcome[p] = "absent" THEN "waiting" ELSE outcome[p]
        /\ pc[p] \in Undoing => Progress(p) = "undoing"
        /\ pc[p] \notin Idle \union Undoing => Progress(p) = "working"

\* Its place and its outcome say it.
LEMMA ProgressIs == ProgressAgrees
<1> SUFFICES ASSUME NEW p \in Writer, pc[p] = "done" <=> outcome[p] # "none"
             PROVE  /\ pc[p] = "idle" => Progress(p) = "waiting"
                    /\ pc[p] = "done" =>
                          Progress(p) = IF outcome[p] = "absent" THEN "waiting" ELSE outcome[p]
                    /\ pc[p] \in Undoing => Progress(p) = "undoing"
                    /\ pc[p] \notin Idle \union Undoing => Progress(p) = "working"
    BY DEF ProgressAgrees
<1> USE DEF Progress, Undoing, Idle
<1>1. CASE pc[p] = "idle"
    BY <1>1
<1>2. CASE pc[p] = "done" /\ outcome[p] = "absent"
    BY <1>2
<1>3. CASE pc[p] = "done" /\ outcome[p] # "absent"
    BY <1>3
<1>4. CASE pc[p] \in Undoing
  <2>1. outcome[p] # "absent"
      BY <1>4
  <2> QED
      BY <1>4, <2>1
<1>5. CASE pc[p] \notin Idle \union Undoing
  <2>1. outcome[p] # "absent"
      BY <1>5
  <2> QED
      BY <1>5, <2>1
<1> QED
    BY <1>1, <1>2, <1>3, <1>4, <1>5

\* Changing what is seen of documents is seeing what is changed of them.
LEMMA SeenChanged ==
    /\ \A t, c : Promise!Changed(Seen(t), Seen(c)) = Seen(Changed(t, c))
    /\ Promise!NoDocs = Seen(EmptyTree)
    /\ \A t \in Tree : Seen(t) \in Promise!Docs
    /\ \A c \in Change \union {NoChange} :
          Seen(c) \in {Seen(d) : d \in Change} \union {[f \in Compared |-> Keep]}
<1>1. Compared \subseteq Doc
    BY DEF Compared
<1>2. \A t, c : Promise!Changed(Seen(t), Seen(c)) = Seen(Changed(t, c))
  <2> SUFFICES ASSUME NEW t, NEW c PROVE Promise!Changed(Seen(t), Seen(c)) = Seen(Changed(t, c))
      OBVIOUS
  <2>1. \A f \in Compared : Changed(t, c)[f] = IF c[f] = Keep THEN t[f] ELSE c[f]
      BY <1>1 DEF Changed
  <2>2. Seen(Changed(t, c)) = [f \in Compared |-> IF c[f] = Keep THEN t[f] ELSE c[f]]
      BY <2>1 DEF Seen
  <2>3. Promise!Changed(Seen(t), Seen(c)) = [f \in Compared |-> IF c[f] = Keep THEN t[f] ELSE c[f]]
      BY DEF Promise!Changed, Seen
  <2> QED
      BY <2>2, <2>3
<1>3. Promise!NoDocs = Seen(EmptyTree)
    BY <1>1 DEF Promise!NoDocs, Seen, EmptyTree
<1>4. \A t \in Tree : Seen(t) \in Promise!Docs
    BY <1>1 DEF Promise!Docs, Seen, Tree
<1>5. \A c \in Change \union {NoChange} :
        Seen(c) \in {Seen(d) : d \in Change} \union {[f \in Compared |-> Keep]}
    BY <1>1 DEF Seen, NoChange
<1> QED
    BY <1>2, <1>3, <1>4, <1>5

\* What a command starts from is what Documents lets it start from.
LEMMA BaseIsOne ==
    ASSUME NEW p \in Writer, TypeOK, StartsFromDocuments(p), backup[p] # NoBackup,
           Visible = backup[p].tree, Cached = RowsOf(backup[p].cache)
    PROVE  Seen(BaseOf(p)) \in Promise!Bases
<1>1. CASE p \in Mutator
  <2>1. BaseOf(p) = Cached /\ (Docs(Visible) # {} => Seen(Cached) = Seen(Visible))
      BY <1>1 DEF StartsFromDocuments, BaseOf, RowsOf
  <2>2. CASE Docs(Visible) # {}
      BY <2>1, <2>2 DEF Promise!Bases
  <2>3. CASE Docs(Visible) = {}
    <3>1. Visible \in Tree
        BY DEF TypeOK, Backups, Writer, Process
    <3>2. Seen(Visible) = Promise!NoDocs
        BY <2>3, <3>1, NoDocuments, SeenChanged
    <3> QED
        BY <2>1, <3>2 DEF Promise!Bases
  <2> QED
      BY <2>2, <2>3
<1>2. CASE p \notin Mutator
    BY <1>2 DEF BaseOf, Promise!Bases
<1> QED
    BY <1>1, <1>2

\* One who moves leaves what the others are asked, have backed up and came to.
LEMMA OthersKeep ==
    ASSUME TypeOK, NEW p \in Process, Start(p) \/ Step(p) \/ Kill(p), NEW q \in Process \ {p}
    PROVE  asked'[q] = asked[q] /\ outcome'[q] = outcome[q] /\ backup'[q] = backup[q]
<1>1. ASSUME NEW why, End(p, why) PROVE outcome'[q] = outcome[q] /\ backup'[q] = backup[q]
    BY <1>1 DEF End, TypeOK
<1>2. ASSUME NEW where, Fails(p, where)
      PROVE  asked'[q] = asked[q] /\ outcome'[q] = outcome[q] /\ backup'[q] = backup[q]
    BY <1>1, <1>2 DEF Fails
<1>3. CASE Start(p)
  <2>1. CASE StartMutation(p)
    <3>1. PICK c : asked' = [asked EXCEPT ![p] = c]
        BY <2>1 DEF StartMutation
    <3> QED
        BY <2>1, <3>1 DEF StartMutation, TypeOK
  <2>2. CASE Unavailable(p) \/ StartRepair(p) \/ StartCheck(p) \/ SealsBroken(p)
      BY <1>1, <2>2 DEF Unavailable, StartRepair, StartCheck, SealsBroken
  <2> QED
      BY <1>3, <2>1, <2>2 DEF Start
<1>4. CASE Kill(p)
    BY <1>1, <1>4 DEF Kill
<1>5. CASE Step(p)
  <2>1. CASE ReadCache(p) \/ Diff(p) \/ Walk(p) \/ Fill(p) \/ Unlink(p) \/ SwapIn(p) \/ Snapshot(p)
      BY <2>1 DEF ReadCache, Diff, Walk, Fill, Unlink, SwapIn, Snapshot, TypeOK
  <2>2. CASE Open(p) \/ Command(p) \/ List(p) \/ FinishExport(p) \/ RemoveCache(p) \/ Wiped(p) \/ PutBackCache(p)
      BY <2>2 DEF Open, Command, List, FinishExport, RemoveCache, Wiped, PutBackCache
  <2>3. CASE \E f \in Doc : ExportOne(p, f) \/ RemoveDoc(p, f) \/ PutBack(p, f)
      BY <2>3 DEF ExportOne, RemoveDoc, PutBack
  <2>4. CASE WalkRefused(p) \/ FillFails(p) \/ SwapFails(p) \/ CommandFails(p) \/ SuiteFails(p)
      BY <1>2, <2>4 DEF WalkRefused, FillFails, SwapFails, CommandFails, SuiteFails
  <2>5. CASE FinishMutation(p) \/ SuitePasses(p) \/ FinishUndoing(p) \/ RestoreFails(p)
      BY <1>1, <2>5 DEF FinishMutation, SuitePasses, FinishUndoing, RestoreFails
  <2> QED
      BY <1>5, <2>1, <2>2, <2>3, <2>4, <2>5 DEF Step
<1> QED
    BY <1>3, <1>4, <1>5

\* A step of a writer, seen from Documents.
LEMMA WriterStep ==
    ASSUME Writer \subseteq Alone, SyncInv, DocumentInv, SyncInv',
           NEW p \in Writer, Start(p) \/ Step(p) \/ Kill(p)
    PROVE  [Promise!Next]_(Promise!vars)
<1> DEFINE AskedOf == [q \in Writer |-> Seen(asked[q])]
           StatusOf == [q \in Writer |-> Progress(q)]
           Goal == [Promise!Next]_(Promise!vars)
<1> SUFFICES Goal
    OBVIOUS
\* What the invariant says of the writer, and of those beside it.
<1>1. /\ TypeOK /\ EachItsPlaces /\ TypeOK' /\ EachItsPlaces' /\ HandlesAreOpen
      /\ WorksOnCache(p) /\ BackedUp(p) /\ Exported(p) /\ Restored(p)
      /\ StartsFromDocuments(p) /\ CacheSays(p) /\ LeavesBehind(p) /\ HalfDone(p)
      /\ p \in Process /\ p \notin Checker /\ Writer \subseteq Process
      /\ ~(p \in Mutator /\ p \in Repairer) /\ (p \in Mutator \/ p \in Repairer)
      /\ Change \subseteq AnyChange
      /\ tree \in Tree /\ backup[p].tree \in Tree
    BY ProcessAssumption, Values
    DEF SyncInv, DocumentInv, WriterSays, Directory, Process, Writer, TypeOK, Backups
<1>2. \A q \in Writer \ {p} : /\ pc[q] \in Idle /\ pc'[q] = pc[q]
                              /\ backup[q] = NoBackup /\ backup'[q] = NoBackup
    BY <1>1, WriterMoves, OthersKeep DEF SyncInv, EachItsPlaces, Kept
<1>3. \A q \in Writer : pc[q] = "done" <=> outcome[q] # "none"
    BY <1>1 DEF EachItsPlaces, Kept
<1>4. \A q \in Writer : pc'[q] = "done" <=> outcome'[q] # "none"
    BY <1>1 DEF EachItsPlaces, Kept
<1>5. /\ Visible = IF backup[p] # NoBackup THEN backup[p].tree ELSE tree
      /\ Cached = IF backup[p] # NoBackup THEN RowsOf(backup[p].cache) ELSE AtPath
    BY <1>2, WriterShows DEF OneShows
<1>6. /\ Visible' = IF backup'[p] # NoBackup THEN backup'[p].tree ELSE tree'
      /\ Cached' = IF backup'[p] # NoBackup THEN RowsOf(backup'[p].cache) ELSE AtPath'
  <2>1. OneShows'
      BY WriterShows, PTL
  <2>2. \A r \in Writer : (\A q \in Writer \ {r} : backup'[q] = NoBackup) =>
            /\ Visible' = IF backup'[r] # NoBackup THEN backup'[r].tree ELSE tree'
            /\ Cached' = IF backup'[r] # NoBackup THEN RowsOf(backup'[r].cache) ELSE AtPath'
      BY <2>1 DEF OneShows, NoBackup, EmptyTree, RowsOf
  <2> QED
      BY <1>2, <2>2
<1>7. /\ pc[p] = "idle" => Progress(p) = "waiting"
      /\ pc[p] \in Undoing => Progress(p) = "undoing"
      /\ pc[p] \notin Idle \union Undoing => Progress(p) = "working"
      /\ \A q \in Writer \ {p} : Progress(q) \notin {"working", "undoing"}
  <2>1. \A q \in Writer : outcome[q] \in {"none", "absent", "ok", "failed", "killed", "unrestored"}
      BY <1>1 DEF TypeOK
  <2> QED
      BY <1>2, <1>3, <2>1, ProgressIs DEF Idle, ProgressAgrees
<1>8. /\ pc'[p] = "done" /\ outcome'[p] # "absent" => Progress(p)' = outcome'[p]
      /\ pc'[p] \in Undoing => Progress(p)' = "undoing"
      /\ pc'[p] \notin Idle \union Undoing => Progress(p)' = "working"
  <2>1. ProgressAgrees'
      BY ProgressIs, PTL
  <2> QED
      BY <1>4, <2>1 DEF ProgressAgrees
<1>9. \A q \in Writer \ {p} : asked'[q] = asked[q] /\ outcome'[q] = outcome[q]
    BY <1>1, OthersKeep
<1>10. StatusOf' = [StatusOf EXCEPT ![p] = Progress(p)']
  <2>1. \A q \in Writer \ {p} : Progress(q)' = Progress(q)
      BY <1>2, <1>9 DEF Progress
  <2>2. StatusOf' = [q \in Writer |-> Progress(q)']
      OBVIOUS
  <2> QED
      BY <2>1, <2>2
<1>11. /\ AskedOf' = [q \in Writer |-> Seen(asked'[q])]
       /\ Seen(Visible)' = Seen(Visible') /\ Seen(Cached)' = Seen(Cached')
    BY DEF Seen
\* What a step can be for Documents.
<1>12. ASSUME Visible' = Visible, Cached' = Cached, asked'[p] = asked[p], Progress(p)' = Progress(p)
       PROVE  Goal
  <2>1. AskedOf' = AskedOf /\ StatusOf' = StatusOf
      BY <1>9, <1>10, <1>11, <1>12
  <2> QED
      BY <1>11, <1>12, <2>1 DEF Promise!vars
<1>13. ASSUME Visible' = Visible, Cached' \in {Visible, EmptyTree}, asked'[p] = asked[p],
              Progress(p) = "working", Progress(p)' = "working"
       PROVE  Goal
  <2>1. AskedOf' = AskedOf /\ StatusOf' = StatusOf
      BY <1>9, <1>10, <1>11, <1>13
  <2>2. \A q \in Writer : StatusOf[q] # "undoing"
      BY <1>7, <1>13
  <2>3. Seen(Cached)' \in {Seen(Visible), Promise!NoDocs} /\ Seen(Visible)' = Seen(Visible)
      BY <1>11, <1>13, SeenChanged
  <2>4. Promise!Refresh
      BY <2>1, <2>2, <2>3 DEF Promise!Refresh
  <2> QED
      BY <2>4 DEF Promise!Next
<1>14. ASSUME Visible' = Visible, Cached' = Cached, asked'[p] = asked[p],
              \/ Progress(p) = "working" /\ Progress(p)' = "undoing"
              \/ Progress(p) \in {"waiting", "working", "undoing"} /\ Progress(p)' = "failed"
       PROVE  Goal
  <2>1. AskedOf' = AskedOf
      BY <1>9, <1>11, <1>14
  <2>2. Promise!Fail(p)
      BY <1>10, <1>11, <1>14, <2>1 DEF Promise!Fail, Promise!Become
  <2> QED
      BY <2>2 DEF Promise!Next
<1>15. ASSUME Seen(BaseOf(p)) \in Promise!Bases, Visible' = Changed(BaseOf(p), asked[p]),
              Cached' = Visible', asked'[p] = asked[p], Progress(p) = "working", Progress(p)' = "ok"
       PROVE  Goal
  <2>1. AskedOf' = AskedOf /\ AskedOf[p] = Seen(asked[p])
      BY <1>9, <1>11, <1>15
  <2>2. Seen(Visible)' = Promise!Changed(Seen(BaseOf(p)), AskedOf[p]) /\ Seen(Cached)' = Seen(Visible)'
      BY <1>11, <1>15, <2>1, SeenChanged
  <2>3. Promise!Succeed(p)
      BY <1>10, <1>15, <2>1, <2>2 DEF Promise!Succeed, Promise!Become
  <2> QED
      BY <2>3 DEF Promise!Next
<1>16. ASSUME NEW c \in Change \union {NoChange}, asked'[p] = c, Visible' = Visible, Cached' = Cached,
              Progress(p) = "waiting", Progress(p)' = "working"
       PROVE  Goal
  <2>1. AskedOf' = [AskedOf EXCEPT ![p] = Seen(c)]
      BY <1>9, <1>11, <1>16
  <2>2. \A q \in Writer : StatusOf[q] \notin {"working", "undoing"}
      BY <1>7, <1>16
  <2>3. Seen(c) \in {Seen(d) : d \in Change} \union {[f \in Compared |-> Keep]}
      BY <1>16, SeenChanged
  <2>4. Promise!Ask(p)
      BY <1>10, <1>11, <1>16, <2>1, <2>2, <2>3 DEF Promise!Ask, Promise!Become
  <2> QED
      BY <2>4 DEF Promise!Next
<1>17. ASSUME NEW base, Seen(base) \in Promise!Bases, Visible' \in Tree, asked'[p] = asked[p],
              Cached' \in {Cached, EmptyTree, base, Changed(base, asked[p])},
              \/ /\ Progress(p) = "working" /\ Progress(p)' = "killed"
                 /\ \A f \in Doc : Visible'[f] \in {Visible[f], Changed(base, asked[p])[f]}
              \/ /\ Progress(p) = "undoing" /\ Progress(p)' \in {"killed", "unrestored"}
                 /\ \A f \in Doc : Visible'[f] \in {Visible[f], Changed(base, asked[p])[f], NoDoc}
       PROVE  Goal
  <2>1. AskedOf' = AskedOf /\ AskedOf[p] = Seen(asked[p])
      BY <1>9, <1>11, <1>17
  <2>2. Promise!Changed(Seen(base), AskedOf[p]) = Seen(Changed(base, asked[p]))
      BY <2>1, SeenChanged
  <2>3. Seen(Cached)' \in {Seen(Cached), Promise!NoDocs, Seen(base), Promise!Changed(Seen(base), AskedOf[p])}
      BY <1>11, <1>17, <2>2, SeenChanged
  <2>4. Seen(Visible)' \in Promise!Docs
      BY <1>11, <1>17, SeenChanged
  <2>5. \A f \in Compared : /\ f \in Doc /\ Seen(Visible)'[f] = Visible'[f]
                            /\ Seen(Visible)[f] = Visible[f]
                            /\ Promise!Changed(Seen(base), AskedOf[p])[f] = Changed(base, asked[p])[f]
      BY <1>11, <2>2 DEF Seen, Compared
  <2>6. ASSUME NEW also,
               \A f \in Compared : Seen(Visible)'[f] \in
                   {Seen(Visible)[f], Promise!Changed(Seen(base), AskedOf[p])[f]} \union also
        PROVE  Promise!CutShort(p, also)
      BY <1>17, <2>1, <2>3, <2>4, <2>6 DEF Promise!CutShort
  <2>7. CASE Progress(p) = "working"
    <3>1. Promise!CutShort(p, {})
        BY <1>17, <2>5, <2>6, <2>7
    <3>2. Promise!Torn(p)
        BY <1>10, <1>17, <2>7, <3>1 DEF Promise!Torn, Promise!Become
    <3> QED
        BY <3>2 DEF Promise!Next
  <2>8. CASE Progress(p) = "undoing"
    <3>1. Promise!CutShort(p, {NoDoc})
        BY <1>17, <2>5, <2>6, <2>8
    <3>2. Promise!Lost(p)
        BY <1>10, <1>17, <2>8, <3>1 DEF Promise!Lost, Promise!Become
    <3> QED
        BY <3>2 DEF Promise!Next
  <2> QED
      BY <1>17, <2>7, <2>8
<1> HIDE DEF Goal, AskedOf, StatusOf
\* A database that stays at c3.db says what it said, one that is opened there nothing.
<1>18. UNCHANGED <<dbs, cacheAt>> \/ OpenPath(p) => AtPath' = AtPath
  <2>1. CASE UNCHANGED <<dbs, cacheAt>>
      BY <2>1 DEF AtPath
  <2>2. CASE OpenPath(p) /\ cacheAt = NoDb
    <3>1. cacheAt' = Fresh(p) /\ dbs'[Fresh(p)].rows = EmptyTree
        BY <1>1, <2>2, OpenTypes
    <3> QED
        BY <2>2, <3>1 DEF AtPath, EmptyTree
  <2>3. CASE OpenPath(p) /\ cacheAt # NoDb
      BY <2>3 DEF OpenPath, AtPath
  <2> QED
      BY <2>1, <2>2, <2>3
\* What a writer that is cut short, having its backup, starts from.
<1>19. backup[p] # NoBackup => /\ Seen(BaseOf(p)) \in Promise!Bases
                               /\ AtPath \in {Cached, EmptyTree, BaseOf(p), Changed(BaseOf(p), asked[p])}
  <2> SUFFICES ASSUME backup[p] # NoBackup
               PROVE  /\ Seen(BaseOf(p)) \in Promise!Bases
                      /\ AtPath \in {Cached, EmptyTree, BaseOf(p), Changed(BaseOf(p), asked[p])}
      OBVIOUS
  <2>1. Seen(BaseOf(p)) \in Promise!Bases
      BY <1>1, <1>5, BaseIsOne
  <2> QED
      BY <1>1, <1>5, <2>1 DEF LeavesBehind
\* Beginnings.
<1>20. CASE Start(p)
  <2>1. CASE StartMutation(p)
    <3>1. PICK c \in Change : asked' = [asked EXCEPT ![p] = c]
        BY <2>1 DEF StartMutation
    <3>2. /\ pc[p] = "idle" /\ pc'[p] \in {"compare", "walk", "snapshot"}
          /\ UNCHANGED <<tree, dbs, cacheAt, backup>> /\ asked'[p] = c
        BY <1>1, <2>1, <3>1 DEF StartMutation, MayStart, AfterStart, TypeOK
    <3>3. Visible' = Visible /\ Cached' = Cached
        BY <1>5, <1>6, <1>18, <3>2
    <3> QED
        BY <1>7, <1>8, <1>16, <3>2, <3>3 DEF Idle, Undoing
  <2>2. CASE StartRepair(p)
    <3>1. /\ pc[p] = "idle" /\ pc'[p] = "snapshot" /\ UNCHANGED <<tree, dbs, cacheAt, backup, asked>>
          /\ asked[p] = NoChange
        BY <1>1, <2>2 DEF StartRepair, MayStart, TypeOK, EachItsPlaces, Kept
    <3>2. Visible' = Visible /\ Cached' = Cached
        BY <1>5, <1>6, <1>18, <3>1
    <3> QED
        BY <1>7, <1>8, <1>16, <3>1, <3>2 DEF Idle, Undoing
  <2>3. CASE Unavailable(p)
    <3>1. /\ pc[p] = "idle" /\ pc'[p] = "done" /\ outcome'[p] = "failed"
          /\ UNCHANGED <<tree, dbs, cacheAt, asked>> /\ backup'[p] = NoBackup
        BY <1>1, <2>3, EndTypes DEF Unavailable, MayStart
    <3>2. backup[p] = NoBackup
        BY <1>1, <3>1 DEF EachItsPlaces, Kept, Idle
    <3>3. Visible' = Visible /\ Cached' = Cached
        BY <1>5, <1>6, <1>18, <3>1, <3>2
    <3> QED
        BY <1>7, <1>8, <1>14, <3>1, <3>3
  <2> QED
      BY <1>1, <1>20, <2>1, <2>2, <2>3 DEF Start, StartCheck, SealsBroken
\* Steps.
<1>21. CASE Step(p)
  <2>1. AfterRefresh(p) = IF p \in Mutator THEN "snapshot" ELSE "open"
      BY <1>1 DEF AfterRefresh
  \* A writer that stays at work and keeps its backup.
  <2>2. ASSUME pc[p] \notin Idle \union Undoing, pc'[p] \notin Idle \union Undoing, asked' = asked,
               backup' = backup, backup[p] # NoBackup \/ (tree' = tree /\ AtPath' = AtPath)
        PROVE  Goal
    <3>1. Visible' = Visible /\ Cached' = Cached
        BY <1>5, <1>6, <2>2
    <3> QED
        BY <1>7, <1>8, <1>12, <2>2, <3>1
  \* One that refreshes the cache.
  <2>3. ASSUME pc[p] \in Importing, pc'[p] \notin Idle \union Undoing, asked' = asked,
               backup' = backup, tree' = tree, AtPath' \in {AtPath, tree, EmptyTree}
        PROVE  Goal
    <3>1. pc[p] \notin Idle \union Undoing
        BY <2>3 DEF Importing, Idle, Undoing
    <3>2. CASE backup[p] # NoBackup \/ AtPath' = AtPath
        BY <2>2, <2>3, <3>1, <3>2
    <3>3. CASE backup[p] = NoBackup /\ AtPath' \in {tree, EmptyTree}
      <4>1. Visible' = Visible /\ Cached' \in {Visible, EmptyTree}
          BY <1>5, <1>6, <2>3, <3>3
      <4> QED
          BY <1>7, <1>8, <1>13, <2>3, <3>1, <4>1
    <3> QED
        BY <2>3, <3>2, <3>3
  <2>4. CASE ReadCache(p) \/ Diff(p)
    <3>1. /\ pc[p] \in {"compare", "diff"} /\ pc'[p] \in {"diff", "walk", "snapshot", "open"}
          /\ UNCHANGED <<tree, asked, backup>>
        BY <1>1, <2>1, <2>4 DEF ReadCache, Diff, Goto, TypeOK
    <3>2. AtPath' = AtPath
        BY <1>18, <2>4 DEF ReadCache, Diff
    <3> QED
        BY <2>2, <3>1, <3>2 DEF Idle, Undoing
  <2>5. CASE Walk(p)
    <3>1. /\ pc[p] = "walk" /\ pc'[p] = "fill" /\ UNCHANGED <<tree, cacheAt, asked, backup>>
          /\ dbs' = [dbs EXCEPT ![Built(p)] = [rows |-> EmptyTree]]
        BY <1>1, <2>5 DEF Walk, Goto, TypeOK
    <3>2. AtPath' \in {AtPath, EmptyTree}
        BY <1>1, <3>1 DEF AtPath, TypeOK
    <3> QED
        BY <2>3, <3>1, <3>2 DEF Importing, Idle, Undoing
  <2>6. CASE Fill(p)
    <3>1. /\ pc[p] = "fill" /\ pc'[p] = "unlink" /\ UNCHANGED <<tree, cacheAt, asked, backup>>
          /\ dbs' = [dbs EXCEPT ![Built(p)] = [rows |-> read[p]]]
        BY <1>1, <2>6 DEF Fill, Goto, TypeOK
    <3>2. read[p] = tree
        BY <1>1, <3>1 DEF CacheSays
    <3>3. AtPath' \in {AtPath, tree}
        BY <1>1, <3>1, <3>2 DEF AtPath, TypeOK
    <3> QED
        BY <2>3, <3>1, <3>3 DEF Importing, Idle, Undoing
  <2>7. CASE Unlink(p)
    <3>1. /\ pc[p] = "unlink" /\ pc'[p] = "swap" /\ UNCHANGED <<tree, asked, backup>>
          /\ cacheAt' = NoDb
        BY <1>1, <2>7 DEF Unlink, Goto, TypeOK
    <3>2. AtPath' = EmptyTree
        BY <3>1 DEF AtPath, EmptyTree
    <3> QED
        BY <2>3, <3>1, <3>2 DEF Importing, Idle, Undoing
  <2>8. CASE SwapIn(p)
    <3>1. /\ pc[p] = "swap" /\ pc'[p] \in {"snapshot", "open"} /\ UNCHANGED <<tree, dbs, asked, backup>>
          /\ cacheAt' = tmpAt /\ tmpAt # NoDb
        BY <1>1, <2>1, <2>8 DEF SwapIn, Goto, TypeOK
    <3>2. tmpAt = Built(p) /\ dbs[Built(p)].rows = tree
        BY <1>1, <3>1 DEF CacheSays
    <3>3. AtPath' = tree
        BY <3>1, <3>2 DEF AtPath
    <3> QED
        BY <2>3, <3>1, <3>3 DEF Importing, Idle, Undoing
  <2>9. CASE Snapshot(p)
    <3>1. /\ pc[p] = "snapshot" /\ pc'[p] \in {"walk", "open"} /\ UNCHANGED <<tree, dbs, cacheAt, asked>>
          /\ backup'[p].tree = tree
          /\ backup'[p].cache = IF cacheAt = NoDb THEN NoDb ELSE dbs[cacheAt]
        BY <1>1, <2>9 DEF Snapshot, Goto, TypeOK
    <3>2. backup[p] = NoBackup
        BY <1>1, <3>1 DEF EachItsPlaces, Kept
    <3>3. cacheAt # NoDb => dbs[cacheAt] # NoDb
        BY <1>1, DatabaseAssumption DEF TypeOK
    <3>4. RowsOf(backup'[p].cache) = AtPath /\ AtPath' = AtPath
        BY <1>18, <3>1, <3>3 DEF RowsOf, AtPath
    <3>5. Visible' = Visible /\ Cached' = Cached
        BY <1>5, <1>6, <3>1, <3>2, <3>4
    <3> QED
        BY <1>7, <1>8, <1>12, <3>1, <3>5 DEF Idle, Undoing
  <2>10. CASE \/ Open(p) \/ Command(p) \/ List(p) \/ FinishExport(p)
              \/ \E f \in Doc : ExportOne(p, f)
    <3>1. /\ pc[p] \in {"open", "command", "list", "export"}
          /\ pc'[p] \in {"command", "list", "export", "suite"} /\ UNCHANGED <<asked, backup>>
        BY <1>1, <2>10 DEF Open, Command, List, FinishExport, ExportOne, Goto, TypeOK
    <3>2. backup[p] # NoBackup
        BY <1>1, <3>1 DEF HalfDone, Exporting
    <3> QED
        BY <2>2, <3>1, <3>2 DEF Idle, Undoing
  <2>11. CASE \/ RemoveCache(p) \/ Wiped(p) \/ PutBackCache(p)
              \/ \E f \in Doc : RemoveDoc(p, f) \/ PutBack(p, f)
    <3>1. pc[p] \in Undoing /\ pc'[p] \in Undoing /\ UNCHANGED <<asked, backup>>
        BY <1>1, <2>11 DEF RemoveCache, Wiped, PutBackCache, RemoveDoc, PutBack, Goto, TypeOK, Undoing
    <3>2. backup[p] # NoBackup
        BY <1>1, <3>1 DEF HalfDone
    <3>3. Visible' = Visible /\ Cached' = Cached
        BY <1>5, <1>6, <3>1, <3>2
    <3> QED
        BY <1>7, <1>8, <1>12, <3>1, <3>3
  <2>12. CASE WalkRefused(p) \/ FillFails(p) \/ SwapFails(p) \/ CommandFails(p) \/ SuiteFails(p)
    <3>1. /\ Fails(p, pc[p])
          /\ pc[p] \in {"walk", "fill", "swap", "command", "list", "export", "suite"}
        BY <2>12 DEF WalkRefused, FillFails, SwapFails, CommandFails, SuiteFails, Fails
    <3>2. AtPath' = AtPath
        BY <1>18, <2>12 DEF WalkRefused, FillFails, SwapFails, CommandFails, SuiteFails
    <3>3. CASE backup[p] = NoBackup
      <4>1. /\ pc'[p] = "done" /\ outcome'[p] = "failed" /\ UNCHANGED <<tree, asked>>
            /\ backup'[p] = NoBackup
          BY <1>1, <3>1, <3>3, FailTypes
      <4>2. Visible' = Visible /\ Cached' = Cached
          BY <1>5, <1>6, <3>2, <3>3, <4>1
      <4> QED
          BY <1>7, <1>8, <1>14, <3>1, <4>1, <4>2 DEF Idle, Undoing
    <3>4. CASE backup[p] # NoBackup
      <4>1. pc'[p] = "wipe" /\ backup'[p] = backup[p] /\ UNCHANGED asked
          BY <1>1, <3>1, <3>4, FailTypes
      <4>2. Visible' = Visible /\ Cached' = Cached
          BY <1>5, <1>6, <3>4, <4>1
      <4> QED
          BY <1>7, <1>8, <1>14, <3>1, <4>1, <4>2 DEF Idle, Undoing
    <3> QED
        BY <3>3, <3>4
  <2>13. CASE FinishMutation(p) \/ SuitePasses(p)
    <3>1. /\ pc[p] \in {"export", "suite"} /\ pc'[p] = "done" /\ outcome'[p] = "ok"
          /\ UNCHANGED <<tree, dbs, cacheAt, asked>> /\ backup'[p] = NoBackup
        BY <1>1, <2>13, EndTypes DEF FinishMutation, SuitePasses
    <3>2. /\ dbs[cacheAt].rows = Changed(BaseOf(p), asked[p]) /\ cacheAt # NoDb
          /\ backup[p] # NoBackup
        BY <1>1, <3>1 DEF CacheSays, WorksOnCache, HalfDone, Exporting
    <3>3. \A f \in Doc : tree[f] = dbs[cacheAt].rows[f]
        BY <1>1, <2>13, <3>1 DEF FinishMutation, SuitePasses, Exported
    <3>4. tree \in Tree /\ dbs[cacheAt].rows \in Tree
        BY <1>1, <3>2, Values DEF TypeOK
    <3>5. tree = Changed(BaseOf(p), asked[p])
        BY <3>2, <3>3, <3>4 DEF Tree
    <3>6. AtPath' = tree
        BY <3>1, <3>2, <3>5 DEF AtPath
    <3>7. Visible' = tree /\ Cached' = tree
        BY <1>6, <3>1, <3>6
    <3> QED
        BY <1>7, <1>8, <1>15, <1>19, <3>1, <3>2, <3>5, <3>7 DEF Idle, Undoing
  <2>14. CASE FinishUndoing(p)
    <3>1. /\ pc[p] = "putback" /\ pc'[p] = "done" /\ outcome'[p] = "failed" /\ todo[p] = {}
          /\ UNCHANGED <<tree, dbs, cacheAt, asked>> /\ backup'[p] = NoBackup
          /\ backup[p].cache # NoDb => cacheAt # NoDb
        BY <1>1, <2>14, EndTypes DEF FinishUndoing
    <3>2. /\ \A f \in Doc : tree[f] = backup[p].tree[f]
          /\ cacheAt # NoDb => backup[p].cache # NoDb /\ dbs[cacheAt] = backup[p].cache
        BY <1>1, <3>1 DEF Restored
    <3>3. tree = backup[p].tree
        BY <1>1, <3>2 DEF Tree
    <3>4. backup[p] # NoBackup
        BY <1>1, <3>1 DEF HalfDone, Undoing
    <3>5. AtPath' = RowsOf(backup[p].cache)
        BY <1>18, <3>1, <3>2 DEF AtPath, RowsOf
    <3>6. Visible' = Visible /\ Cached' = Cached
        BY <1>5, <1>6, <3>1, <3>3, <3>4, <3>5
    <3> QED
        BY <1>7, <1>8, <1>14, <3>1, <3>6 DEF Undoing
  <2>15. CASE RestoreFails(p)
    <3>1. /\ pc[p] \in Undoing /\ pc'[p] = "done" /\ outcome'[p] = "unrestored"
          /\ UNCHANGED <<tree, dbs, cacheAt, asked>> /\ backup'[p] = NoBackup
        BY <1>1, <2>15, EndTypes DEF RestoreFails
    <3>2. backup[p] # NoBackup
        BY <1>1, <3>1 DEF HalfDone
    <3>3. Visible' = tree /\ Cached' = AtPath
        BY <1>6, <1>18, <3>1
    <3>4. \A f \in Doc : tree[f] \in {Visible[f], Changed(BaseOf(p), asked[p])[f], NoDoc}
        BY <1>1, <1>5, <3>1, <3>2 DEF HalfDone, Restored, Undoing
    <3> QED
        BY <1>1, <1>7, <1>8, <1>17, <1>19, <3>1, <3>2, <3>3, <3>4
  <2> QED
      BY <1>21, <2>4, <2>5, <2>6, <2>7, <2>8, <2>9, <2>10, <2>11, <2>12, <2>13, <2>14, <2>15 DEF Step
\* Kills.
<1>22. CASE Kill(p)
  <2>1. /\ pc[p] \notin Idle /\ pc'[p] = "done" /\ outcome'[p] = "killed"
        /\ UNCHANGED <<tree, dbs, cacheAt, asked>> /\ backup'[p] = NoBackup
      BY <1>1, <1>22, EndTypes DEF Kill, Active, Idle
  <2>2. Visible' = tree /\ Cached' = AtPath /\ Progress(p)' = "killed" /\ asked'[p] = asked[p]
      BY <1>6, <1>8, <1>18, <2>1
  <2>3. CASE pc[p] \in Undoing
    <3>1. backup[p] # NoBackup
        BY <1>1, <2>3 DEF HalfDone
    <3>2. \A f \in Doc : tree[f] \in {Visible[f], Changed(BaseOf(p), asked[p])[f], NoDoc}
        BY <1>1, <1>5, <2>3, <3>1 DEF HalfDone, Restored, Undoing
    <3> QED
        BY <1>1, <1>7, <1>17, <1>19, <2>2, <2>3, <3>1, <3>2
  <2>4. CASE pc[p] \notin Undoing /\ backup[p] # NoBackup
    <3>1. /\ pc[p] \in {"walk", "fill", "unlink", "swap", "open", "command", "list", "export", "suite"}
          /\ pc[p] = "unlink" => p \in Repairer
        BY <1>1, <2>1, <2>4 DEF EachItsPlaces, Kept, MutatorPlaces, RepairerPlaces, Idle, Importing, Exporting
    <3>2. \A f \in Doc : tree[f] \in {Visible[f], Changed(BaseOf(p), asked[p])[f]}
      <4>1. CASE pc[p] \in {"open", "unlink"}
          BY <1>1, <1>5, <2>4, <3>1, <4>1 DEF BackedUp, Importing
      <4>2. CASE pc[p] \notin {"open", "unlink"}
          BY <1>5, <2>4, <3>1, <4>2, FailedHalfDone
      <4> QED
          BY <4>1, <4>2
    <3>3. Progress(p) = "working"
        BY <1>7, <2>1, <2>4
    <3> QED
        BY <1>1, <1>17, <1>19, <2>2, <2>4, <3>2, <3>3
  <2>5. CASE pc[p] \notin Undoing /\ backup[p] = NoBackup
    <3>1. Visible = tree /\ Cached = AtPath /\ Progress(p) = "working"
        BY <1>5, <1>7, <2>1, <2>5
    <3>2. Seen(Visible) \in Promise!Bases
        BY DEF Promise!Bases
    <3> QED
        BY <1>1, <1>17, <2>2, <3>1, <3>2
  <2> QED
      BY <2>3, <2>4, <2>5
<1> QED
    BY <1>20, <1>21, <1>22

\* A step of a checker: Documents sees at most the cache refreshed.
LEMMA CheckerStep ==
    ASSUME Writer \subseteq Alone, SyncInv, DocumentInv, SyncInv',
           NEW p \in Checker, Start(p) \/ Step(p) \/ Kill(p)
    PROVE  [Promise!Next]_(Promise!vars)
<1>1. /\ TypeOK /\ EachItsPlaces /\ WriterIsAlone /\ Writer \subseteq Process
      /\ p \in Process /\ p \notin Writer /\ Builds(p)
    BY ProcessAssumption DEF SyncInv, DocumentInv, Process
<1>2. \A q \in Writer : /\ pc[q] \in Idle /\ pc'[q] = pc[q] /\ asked'[q] = asked[q]
                        /\ outcome'[q] = outcome[q] /\ backup'[q] = NoBackup /\ backup[q] = NoBackup
    BY <1>1, WriterMoves, OthersKeep DEF EachItsPlaces, Kept
<1>3. tree' = tree /\ AtPath' \in {AtPath, EmptyTree, tree}
    BY <1>1, CheckerMoves
<1>4. Visible = tree /\ Cached = AtPath
    BY <1>2, AllShow DEF RestShows
<1>5. Visible' = tree' /\ Cached' = AtPath'
  <2>1. RestShows'
      BY AllShow, PTL
  <2>2. (\A q \in Writer : backup[q] = NoBackup)'
      BY <1>2 DEF NoBackup, EmptyTree
  <2> QED
      BY <2>1, <2>2 DEF RestShows
<1>6. /\ [q \in Writer |-> Seen(asked[q])]' = [q \in Writer |-> Seen(asked[q])]
      /\ [q \in Writer |-> Progress(q)]' = [q \in Writer |-> Progress(q)]
    BY <1>2 DEF Progress, Seen
<1>7. Seen(Visible)' = Seen(Visible) /\ Seen(Cached)' \in {Seen(Cached), Seen(Visible), Promise!NoDocs}
  <2>1. Seen(Visible)' = Seen(Visible') /\ Seen(Cached)' = Seen(Cached')
      BY DEF Seen
  <2> QED
      BY <1>3, <1>4, <1>5, <2>1, SeenChanged
<1>8. CASE Seen(Cached)' = Seen(Cached)
    BY <1>6, <1>7, <1>8 DEF Promise!vars
<1>9. CASE Seen(Cached)' \in {Seen(Visible), Promise!NoDocs}
  <2>1. \A q \in Writer : Progress(q) # "undoing"
    <3>1. \A q \in Writer : /\ outcome[q] \in {"none", "absent", "ok", "failed", "killed", "unrestored"}
                            /\ pc[q] = "done" <=> outcome[q] # "none"
        BY <1>1 DEF TypeOK, EachItsPlaces, Kept
    <3> QED
        BY <1>2, <3>1, ProgressIs DEF ProgressAgrees, Idle
  <2>2. \A q \in Writer : [r \in Writer |-> Progress(r)][q] # "undoing"
      BY <2>1
  <2>3. Promise!Refresh
      BY <1>6, <1>7, <1>9, <2>2 DEF Promise!Refresh
  <2> QED
      BY <2>3 DEF Promise!Next
<1> QED
    BY <1>7, <1>8, <1>9

\* A user's edit.
LEMMA EditStep ==
    ASSUME SyncInv, SyncInv', NEW f \in Doc, NEW v \in Content \union {NoDoc}, Edit(f, v)
    PROVE  [Promise!Next]_(Promise!vars)
<1>1. /\ TypeOK /\ EachItsPlaces /\ Writer \subseteq Process
      /\ UNCHANGED <<pc, asked, outcome, backup, dbs, cacheAt>> /\ tree' = [tree EXCEPT ![f] = v]
      /\ \A q \in Writer : pc[q] \in Idle /\ backup[q] = NoBackup
    BY DEF SyncInv, EachItsPlaces, Kept, Process, Edit, Active, Idle
<1>2. Visible = tree /\ Cached = AtPath
    BY <1>1, AllShow DEF RestShows
<1>3. Visible' = tree' /\ Cached' = Cached
  <2>1. RestShows'
      BY AllShow, PTL
  <2>2. (\A q \in Writer : backup[q] = NoBackup)'
      BY <1>1 DEF NoBackup, EmptyTree
  <2>3. AtPath' = AtPath
      BY <1>1 DEF AtPath
  <2> QED
      BY <1>2, <2>1, <2>2, <2>3 DEF RestShows
<1>4. Seen(Cached)' = Seen(Cached) /\ Seen(Visible)' = Seen(Visible')
    BY <1>3 DEF Seen
<1>5. /\ [q \in Writer |-> Seen(asked[q])]' = [q \in Writer |-> Seen(asked[q])]
      /\ [q \in Writer |-> Progress(q)]' = [q \in Writer |-> Progress(q)]
    BY <1>1 DEF Progress, Seen
<1>6. \A q \in Writer : [r \in Writer |-> Progress(r)][q] \notin {"working", "undoing"}
  <2>1. \A q \in Writer : /\ outcome[q] \in {"none", "absent", "ok", "failed", "killed", "unrestored"}
                          /\ pc[q] = "done" <=> outcome[q] # "none"
      BY <1>1 DEF TypeOK, EachItsPlaces, Kept
  <2>2. \A q \in Writer : Progress(q) \notin {"working", "undoing"}
      BY <1>1, <2>1, ProgressIs DEF ProgressAgrees, Idle
  <2> QED
      BY <2>2
<1>7. CASE f \in Compared
  <2>1. Seen(tree') = [Seen(tree) EXCEPT ![f] = v]
      BY <1>1, <1>7 DEF Seen, Compared, TypeOK, Tree
  <2>2. Seen(Visible)' = [Seen(Visible) EXCEPT ![f] = v]
      BY <1>2, <1>3, <1>4, <2>1
  <2>3. Promise!Edit
      BY <1>4, <1>5, <1>6, <1>7, <2>2 DEF Promise!Edit
  <2> QED
      BY <2>3 DEF Promise!Next
<1>8. CASE f \notin Compared
  <2>1. Seen(tree') = Seen(tree)
      BY <1>1, <1>8 DEF Seen, Compared, TypeOK, Tree
  <2> QED
      BY <1>2, <1>3, <1>4, <1>5, <2>1 DEF Promise!vars
<1> QED
    BY <1>7, <1>8

\* To begin with Documents has begun.
LEMMA PromiseBegins == Init => Promise!Init
<1> SUFFICES ASSUME Init PROVE Promise!Init
    OBVIOUS
<1>1. /\ \A q \in Writer : pc[q] \in Idle /\ asked[q] = NoChange /\ backup[q] = NoBackup
      /\ \A q \in Writer : pc[q] = "done" => outcome[q] = "absent"
      /\ tree \in Tree /\ tree = Original
    BY DocumentAssumption DEF Init, Idle, Process
<1>2. Visible = tree /\ Cached = AtPath
    BY <1>1, AllShow DEF RestShows
<1>3. AtPath \in {tree, EmptyTree}
  <2>1. Built(NoProcess) \in Db
      BY DEF Db
  <2>2. dbs[Built(NoProcess)] = [rows |-> Original]
      BY <2>1 DEF Init
  <2> QED
      BY <1>1, <2>2 DEF Init, AtPath
<1>4. Seen(Visible) \in Promise!Docs /\ Seen(Cached) \in {Seen(Visible), Promise!NoDocs}
    BY <1>1, <1>2, <1>3, SeenChanged
<1>5. [q \in Writer |-> Seen(asked[q])] = [q \in Writer |-> [f \in Compared |-> Keep]]
    BY <1>1 DEF NoChange, Seen, Compared
<1>6. \A q \in Writer : Progress(q) = "waiting"
    BY <1>1 DEF Progress, Idle, Undoing
<1> QED
    BY <1>4, <1>5, <1>6 DEF Promise!Init

\* Each step of the commands is one that Documents allows.
LEMMA PromiseStep ==
    Writer \subseteq Alone /\ SyncInv /\ SyncInv' /\ DocumentInv /\ [Next]_vars
        => [Promise!Next]_(Promise!vars)
<1> SUFFICES ASSUME Writer \subseteq Alone, SyncInv, SyncInv', DocumentInv, [Next]_vars
             PROVE  [Promise!Next]_(Promise!vars)
    OBVIOUS
<1>1. ASSUME NEW p \in Process, Start(p) \/ Step(p) \/ Kill(p)
      PROVE  [Promise!Next]_(Promise!vars)
    BY <1>1, WriterStep, CheckerStep DEF Process
<1>2. ASSUME NEW f \in Doc, NEW v \in Content \union {NoDoc}, Edit(f, v)
      PROVE  [Promise!Next]_(Promise!vars)
    BY <1>2, EditStep
<1>3. ASSUME UNCHANGED vars PROVE UNCHANGED Promise!vars
  <2>1. Hidden' = Hidden
      BY <1>3 DEF Hidden, vars, NoBackup, EmptyTree
  <2>2. Hider' = Hider /\ AtPath' = AtPath
      BY <1>3, <2>1 DEF Hider, AtPath, vars
  <2>3. Visible' = Visible /\ Cached' = Cached
      BY <1>3, <2>1, <2>2 DEF Visible, Cached, RowsOf, vars
  <2>4. /\ [q \in Writer |-> Seen(asked[q])]' = [q \in Writer |-> Seen(asked[q])]
        /\ [q \in Writer |-> Progress(q)]' = [q \in Writer |-> Progress(q)]
      BY <1>3 DEF Progress, Seen, vars
  <2>5. Seen(Visible)' = Seen(Visible) /\ Seen(Cached)' = Seen(Cached)
      BY <2>3 DEF Seen
  <2> QED
      BY <2>4, <2>5 DEF Promise!vars
<1> QED
    BY <1>1, <1>2, <1>3 DEF Next, AllDone

\* Where writers are alone, commands do to the documents what Documents promises:
\* one that succeeds has made its change and no other, one that fails has made none,
\* one that is killed a part of its own, and only one that is killed in its rollback,
\* or whose rollback fails, loses documents.  Nothing is assumed of who is killed.
THEOREM DocumentsKept == Writer \subseteq Alone => (Spec => ImplementsDocuments)
<1> SUFFICES ASSUME Writer \subseteq Alone PROVE Spec => ImplementsDocuments
    OBVIOUS
<1>1. Init => DocumentInv
  <2> SUFFICES ASSUME Init PROVE DocumentInv
      OBVIOUS
  <2>1. \A p \in Process : pc[p] \in Idle /\ backup[p] = NoBackup
      BY DEF Init, Idle
  <2> QED
      BY <2>1, NothingSaid DEF DocumentInv, RestSays, Builds, Idle, Process
<1>2. SyncInv /\ SyncInv' /\ DocumentInv /\ [Next]_vars => DocumentInv'
    BY DocumentStep
<1>3. Spec => []SyncInv
    BY SyncInvariant
<1>4. Spec => []DocumentInv
    BY <1>1, <1>2, <1>3, PTL DEF Spec
<1>5. SyncInv /\ SyncInv' /\ DocumentInv /\ [Next]_vars => [Promise!Next]_(Promise!vars)
    BY PromiseStep
<1>6. Init => Promise!Init
    BY PromiseBegins
<1> QED
    BY <1>3, <1>4, <1>5, <1>6, PTL DEF Spec, ImplementsDocuments, Promise!Spec
=============================================================================
