-------------------------- MODULE SemanticIndex --------------------------
(***************************************************************************)
(* The semantic index of search: one row of the cache per entity, made by  *)
(* a local model from the entity's text, and the two files the model needs *)
(* in a cache directory that all the projects of a user share.  `c3x       *)
(* search` brings the index up to date before it searches, `c3x index`     *)
(* makes it anew; neither takes a lock, so they run beside each other and  *)
(* beside the commands that edit entities, and any of them may be killed.  *)
(*                                                                         *)
(* A text is the number of the edit that wrote it; a row holds the text it *)
(* was made from (in the code, its hash).  A file is an inode that holds   *)
(* some of its Chunks.  The vocabulary is fetched as the model is, and is  *)
(* one file with it here; the archive of the runtime library is downloaded *)
(* under a name of its own and is not shared.  The disk may refuse what is *)
(* done to these files, not the cache.                                     *)
(***************************************************************************)
EXTENDS Naturals, FiniteSets

CONSTANTS
    Proc,       \* processes, each of which runs one command
    Entity,
    MaxEdits,   \* bound: edits of entities
    Killable,   \* the processes that may be killed
    Hampered,   \* the processes whose disk may refuse a step
    Late,       \* bound: the processes that begin when no other is running
    Gone,       \* no text, no row, no file
    Old,        \* a row that another model made
    Mixed       \* a text read while it was edited

Chunks == 1..2          \* the least that lets half a file be written
Text   == 0..MaxEdits
File   == {"model", "lib"}
Inode  == (Proc \union {Gone}) \X File     \* <<Gone, f>> was there before

ASSUME SemanticAssumption ==
    /\ Gone # Old /\ Gone # Mixed /\ Old # Mixed
    /\ Gone \notin Nat /\ Old \notin Nat /\ Mixed \notin Nat
    /\ Gone \notin Inode /\ Gone \notin Proc
    /\ IsFiniteSet(Entity) /\ Gone \notin Entity
    /\ MaxEdits \in Nat
    /\ Killable \subseteq Proc /\ Hampered \subseteq Proc /\ Late \subseteq Proc

VARIABLES
    build,      \* "thin": the files are downloaded; "fat": they are in the executable
    job,        \* what each process runs: "index", or a search: "search", "pack", or
                \* "keyword", which leaves the index alone
    pc, stage,  \* where it is, and what it needs the model for
    outcome,    \* how its command ended
    saw,        \* history: what came between it and a quiet run
    store,      \* the text of each entity
    row,        \* the rows of the index
    edits,
    seen,       \* per process: texts when it listed the entities,
    todo,       \* ... the rows it is to write
    drop,       \* ... and the entities whose rows it is to delete
    loaded,     \* the processes that hold the model
    file, offset,   \* the file each process is at, and the chunks it has written
    open,       \* the inode it writes to
    final, tmp, \* what the names of each file stand for
    bytes       \* the chunks in each inode

index   == <<store, row, edits>>
pass    == <<seen, todo, drop>>
disk    == <<final, tmp, bytes>>
writing == <<file, offset, open>>
semanticVars == <<build, job, pc, stage, outcome, saw, index, pass, loaded, writing, disk>>

-----------------------------------------------------------------------------
Goto(p, l)   == pc' = [pc EXCEPT ![p] = l] /\ UNCHANGED outcome
Finish(p, r) == pc' = [pc EXCEPT ![p] = "done"] /\ outcome' = [outcome EXCEPT ![p] = r]
Running(p)   == pc[p] \notin {"idle", "done", "dead"}
Note(p, what) == saw' = [saw EXCEPT ![p] = @ \union {what}]

Whole(i) == i # Gone /\ bytes[i] = Chunks
Stands(i) == i # Gone /\ bytes[i] # {}          \* fileExistsAndNonEmpty
Current(r) == r \notin {Gone, Old}

\* The rest - what runs, in which build, over which texts, rows and files - is given
\* by the instance.
SemanticInit ==
    /\ stage = [p \in Proc |-> "ensure"]
    /\ outcome = [p \in Proc |-> "none"] /\ saw = [p \in Proc |-> {}]
    /\ seen = [p \in Proc |-> [e \in Entity |-> Gone]]
    /\ todo = [p \in Proc |-> [e \in Entity |-> Gone]] /\ drop = [p \in Proc |-> {}]
    /\ loaded = {}
    /\ file = [p \in Proc |-> "model"] /\ offset = [p \in Proc |-> 0]
    /\ open = [p \in Proc |-> Gone] /\ tmp = [f \in File |-> Gone]

Begin(p) ==
    /\ pc[p] = "idle"
    /\ p \in Late => \A q \in Proc \ Late : pc[q] \in {"done", "dead"}
    /\ Goto(p, IF job[p] = "keyword" THEN "probe" ELSE "list")
    /\ saw' = [q \in Proc |-> IF q # p /\ ~Running(q) THEN saw[q]
                              ELSE IF \E r \in Proc \ {p} : Running(r)
                              THEN saw[q] \union {"company"} ELSE saw[q]]
    /\ UNCHANGED <<build, job, stage, index, pass, loaded, writing, disk>>

\* Another command writes, adds or deletes an entity.  A row goes with its entity.
Edit(e) ==
    /\ edits < MaxEdits /\ edits' = edits + 1
    /\ \E t \in {Gone, edits + 1} :
          /\ t # store[e]
          /\ store' = [store EXCEPT ![e] = t]
          /\ row' = [row EXCEPT ![e] = IF t = Gone THEN Gone ELSE @]
    /\ saw' = [p \in Proc |-> IF Running(p) THEN saw[p] \union {"edit"} ELSE saw[p]]
    /\ UNCHANGED <<build, job, pc, stage, outcome, pass, loaded, writing, disk>>

Kill(p) ==
    /\ p \in Killable /\ Running(p)
    /\ pc' = [pc EXCEPT ![p] = "dead"]
    /\ UNCHANGED <<build, job, stage, outcome, saw, index, pass, loaded, writing, disk>>

-----------------------------------------------------------------------------
(* The rows.                                                                 *)

\* AllEntities.
ListEntities(p) ==
    /\ pc[p] = "list"
    /\ seen' = [seen EXCEPT ![p] = store]
    /\ Goto(p, IF job[p] = "index" THEN "texts" ELSE "rows")
    /\ UNCHANGED <<build, job, stage, saw, index, todo, drop, loaded, writing, disk>>

Listed(p) == {e \in Entity : seen[p][e] # Gone}

\* semanticTextForEntity reads the nodes after the entity's own fields.
TextOf(p, e) == IF store[e] = seen[p][e] THEN store[e] ELSE Mixed

\* Search: the rows there are, and the entities they must be made anew for.
CompareByRow(p) ==      \* a mutant: a row that is there is taken for fresh
    /\ pc[p] = "rows"
    /\ todo' = [todo EXCEPT ![p] =
                   [e \in Entity |-> IF e \in Listed(p) /\ row[e] = Gone
                                     THEN TextOf(p, e) ELSE Gone]]
    /\ drop' = [drop EXCEPT ![p] = {e \in Entity \ Listed(p) : row[e] # Gone}]
    /\ Goto(p, IF todo'[p] = [e \in Entity |-> Gone] /\ drop'[p] = {} THEN "count" ELSE "embed")
    /\ UNCHANGED <<build, job, stage, saw, index, seen, loaded, writing, disk>>

Compare(p) ==
    /\ pc[p] = "rows"
    /\ todo' = [todo EXCEPT ![p] =
                   [e \in Entity |-> IF e \in Listed(p) /\ row[e] # TextOf(p, e)
                                     THEN TextOf(p, e) ELSE Gone]]
    /\ drop' = [drop EXCEPT ![p] = {e \in Entity \ Listed(p) : row[e] # Gone}]
    /\ Goto(p, IF todo'[p] = [e \in Entity |-> Gone] /\ drop'[p] = {} THEN "count" ELSE "embed")
    /\ UNCHANGED <<build, job, stage, saw, index, seen, loaded, writing, disk>>

\* Index: every entity.
ReadTexts(p) ==
    /\ pc[p] = "texts"
    /\ todo' = [todo EXCEPT ![p] =
                   [e \in Entity |-> IF e \in Listed(p) THEN TextOf(p, e) ELSE Gone]]
    /\ Goto(p, "embed")
    /\ UNCHANGED <<build, job, stage, saw, index, seen, drop, loaded, writing, disk>>

\* The vectors are made before the transaction begins.
Embed(p) ==
    /\ pc[p] = "embed"
    /\ IF p \in loaded \/ todo[p] = [e \in Entity |-> Gone]
       THEN Goto(p, "commit") /\ UNCHANGED file
       ELSE Goto(p, "check") /\ file' = [file EXCEPT ![p] = "model"]
    /\ UNCHANGED <<build, job, stage, saw, index, pass, loaded, offset, open, disk>>

\* One transaction; a row for an entity that has gone is refused, and all is undone.
Commit(p) ==
    /\ pc[p] = "commit"
    /\ IF \E e \in Entity : todo[p][e] # Gone /\ store[e] = Gone
       THEN Finish(p, "failed") /\ UNCHANGED row
       ELSE /\ row' = [e \in Entity |->
                          IF todo[p][e] # Gone THEN todo[p][e]
                          ELSE IF e \in drop[p] \/ (job[p] = "index" /\ row[e] # Old) THEN Gone
                          ELSE row[e]]
            /\ IF job[p] = "index" THEN Finish(p, "indexed") ELSE Goto(p, "count")
    /\ UNCHANGED <<build, job, stage, saw, store, edits, pass, loaded, writing, disk>>

-----------------------------------------------------------------------------
(* The model and the runtime library.                                        *)

\* ErrSemanticUnavailable: search goes on without the model, index fails.
Unavailable(p) ==
    IF job[p] = "index" THEN Finish(p, "failed")
    ELSE Goto(p, IF stage[p] = "ensure" THEN "probe" ELSE "fuse")

After(p, f) ==          \* the file f is in place
    IF f = "model" THEN Goto(p, "check") /\ file' = [file EXCEPT ![p] = "lib"]
                   ELSE Goto(p, "load") /\ UNCHANGED file

\* A downloaded model is hashed each time; the library, and whatever a fat build
\* wrote, need only be there.
InPlaceByName(f) == Stands(final[f])        \* a mutant

InPlace(f) == IF build = "thin" /\ f = "model" THEN Whole(final[f]) ELSE Stands(final[f])

CheckFile(p) ==
    /\ pc[p] = "check"
    /\ IF InPlace(file[p]) THEN After(p, file[p])
       ELSE Goto(p, IF build = "thin" THEN "fetch" ELSE "open") /\ UNCHANGED file
    /\ UNCHANGED <<build, job, stage, saw, index, pass, loaded, offset, open, disk>>

\* Nothing is downloaded offline; a download that fails takes the temporary file of
\* the model with it, whoever was writing it.
Fetch(p) ==
    /\ pc[p] = "fetch"
    /\ \/ Goto(p, "open") /\ UNCHANGED <<saw, tmp>>
       \/ /\ Unavailable(p)
          /\ Note(p, "cut off")
          /\ \/ UNCHANGED tmp
             \/ file[p] = "model" /\ tmp' = [tmp EXCEPT !["model"] = Gone]
    /\ UNCHANGED <<build, job, stage, index, pass, loaded, writing, final, bytes>>

OpenFinal(p) ==         \* a mutant: the file is written under its own name
    /\ pc[p] = "open"
    /\ LET f == file[p]
           i == IF final[f] = Gone THEN <<p, f>> ELSE final[f]
       IN  /\ final' = [final EXCEPT ![f] = i] /\ tmp' = [tmp EXCEPT ![f] = i]
           /\ bytes' = [bytes EXCEPT ![i] = {}]
           /\ open' = [open EXCEPT ![p] = i] /\ offset' = [offset EXCEPT ![p] = 0]
    /\ Goto(p, "write")
    /\ UNCHANGED <<build, job, stage, saw, index, pass, loaded, file>>

\* The one temporary name is made, or emptied under whoever is writing to it.
OpenTmp(p) ==
    /\ pc[p] = "open"
    /\ LET f == file[p]
           i == IF tmp[f] = Gone THEN <<p, f>> ELSE tmp[f]
       IN  /\ tmp' = [tmp EXCEPT ![f] = i]
           /\ bytes' = [bytes EXCEPT ![i] = {}]
           /\ open' = [open EXCEPT ![p] = i] /\ offset' = [offset EXCEPT ![p] = 0]
    /\ Goto(p, "write")
    /\ UNCHANGED <<build, job, stage, saw, index, pass, loaded, file, final>>

Write(p) ==
    /\ pc[p] = "write"
    /\ bytes' = [bytes EXCEPT ![open[p]] = @ \union {offset[p] + 1}]
    /\ offset' = [offset EXCEPT ![p] = @ + 1]
    /\ Goto(p, IF offset'[p] < Cardinality(Chunks) THEN "write"
               ELSE IF build = "thin" /\ file[p] = "model" THEN "verify" ELSE "rename")
    /\ UNCHANGED <<build, job, stage, saw, index, pass, loaded, file, open, final, tmp>>

\* The hash of what stands under the temporary name.
VerifyTmp(p) ==
    /\ pc[p] = "verify"
    /\ IF Whole(tmp["model"]) THEN Goto(p, "rename") /\ UNCHANGED tmp
       ELSE Unavailable(p) /\ tmp' = [tmp EXCEPT !["model"] = Gone]
    /\ UNCHANGED <<build, job, stage, saw, index, pass, loaded, writing, final, bytes>>

\* A temporary file that another has renamed: only the library's download takes
\* that for an unavailable model; elsewhere the command fails.
RenameTmp(p) ==
    /\ pc[p] = "rename"
    /\ LET f == file[p]
       IN  IF tmp[f] # Gone
           THEN /\ final' = [final EXCEPT ![f] = tmp[f]] /\ tmp' = [tmp EXCEPT ![f] = Gone]
                /\ After(p, f)
           ELSE /\ IF build = "thin" /\ f = "lib" THEN Unavailable(p) ELSE Finish(p, "failed")
                /\ UNCHANGED <<file, final, tmp>>
    /\ UNCHANGED <<build, job, stage, saw, index, pass, loaded, offset, open, bytes>>

\* The disk refuses a step: no directory for the cache can be named or made, a file
\* cannot be opened or renamed, a write ends early, as when an archive is bad.  While a
\* thin build writes the model, and in all it does for the library, that makes the
\* model unavailable; elsewhere the command fails.  A thin build removes what it was
\* writing by its name, whoever writes it by now; either build removes so a file of
\* which it cannot change the mode, just before the renaming.
Downloading(p) == build = "thin" /\ (file[p] = "lib" \/ pc[p] \in {"open", "write", "verify"})
Removals(p) ==
    IF build = "thin" /\ (file[p] = "model" \/ pc[p] = "write") /\ Downloading(p) THEN {TRUE}
    ELSE IF pc[p] = "rename" /\ (build = "fat" \/ file[p] = "lib") THEN BOOLEAN ELSE {FALSE}

DiskRefuses(p) ==
    /\ p \in Hampered
    /\ \/ pc[p] = "check" /\ file[p] = "model"
       \/ pc[p] \in {"fetch", "open", "write", "verify", "rename"}
    /\ IF Downloading(p) THEN Unavailable(p) ELSE Finish(p, "failed")
    /\ \E removed \in Removals(p) :
          tmp' = IF removed THEN [tmp EXCEPT ![file[p]] = Gone] ELSE tmp
    /\ Note(p, "disk")
    /\ UNCHANGED <<build, job, stage, index, pass, loaded, writing, final, bytes>>

\* onnxMiniLMProvider.get: a file that is torn cannot be loaded.
Load(p) ==
    /\ pc[p] = "load"
    /\ IF \A f \in File : Whole(final[f])
       THEN /\ loaded' = loaded \union {p}
            /\ Goto(p, IF stage[p] = "ensure" THEN "commit" ELSE "join")
       ELSE Unavailable(p) /\ UNCHANGED loaded
    /\ UNCHANGED <<build, job, stage, saw, index, pass, writing, disk>>

-----------------------------------------------------------------------------
(* The query.                                                                *)

\* SemanticIndexCount: without a row there is nothing to compare with.
Count(p) ==
    /\ pc[p] = "count"
    /\ Goto(p, "probe")
    /\ IF \E e \in Entity : Current(row[e])
       THEN stage' = [stage EXCEPT ![p] = "query"] /\ UNCHANGED saw
       ELSE Note(p, "no rows") /\ UNCHANGED stage
    /\ UNCHANGED <<build, job, index, pass, loaded, writing, disk>>

\* SearchSemanticWithOptions, once the keyword and graph hits are in.
EmbedQuery(p) ==
    /\ pc[p] = "semantic"
    /\ IF stage[p] # "query" \/ ~\E e \in Entity : Current(row[e])
       THEN Goto(p, "fuse") /\ UNCHANGED file
       ELSE IF p \in loaded THEN Goto(p, "join") /\ UNCHANGED file
       ELSE Goto(p, "check") /\ file' = [file EXCEPT ![p] = "model"]
    /\ UNCHANGED <<build, job, stage, saw, index, pass, loaded, offset, open, disk>>

SemanticStep(p) ==
    \/ Begin(p) \/ Kill(p)
    \/ ListEntities(p) \/ Compare(p) \/ ReadTexts(p) \/ Embed(p) \/ Commit(p)
    \/ CheckFile(p) \/ Fetch(p) \/ OpenTmp(p) \/ Write(p) \/ VerifyTmp(p) \/ RenameTmp(p)
    \/ DiskRefuses(p) \/ Load(p) \/ Count(p) \/ EmbedQuery(p)
=============================================================================
