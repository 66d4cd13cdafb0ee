----------------------------- MODULE Lifecycle -----------------------------
(***************************************************************************)
(* The life of a decision (a change document: an adr or another kind, such *)
(* as a prd) and of the facts it is about, under the commands that change  *)
(* them: add, write, set, delete, supersede, migrate, change accept,       *)
(* change apply and check --fix (cli/cmd, dispatched by runCommand).       *)
(*                                                                         *)
(* There are two stores.  The documents are what is kept; the cache is a   *)
(* database that a command works on and exports when it is done, and that  *)
(* a rebuild makes again from the documents.  Statuses, links and texts    *)
(* are in both; the version numbers of facts are in the cache alone.  The  *)
(* coordinator lets one command run at a time; one that fails is rolled    *)
(* back, one that is killed leaves the cache as far as it got.  How        *)
(* documents are written one by one is the subject of CacheSync.           *)
(***************************************************************************)
EXTENDS Integers, Sequences, SequencesExt, FiniteSets

CONSTANTS
    Adr,            \* decisions of kind adr
    Memo,           \* other change documents
    Fact,
    ParentOf,       \* the fact that lists a fact among its members, or NoFact
    SweepOrder,     \* all ids as migrate sorts them
    Text,           \* what a fact may say
    Unwritten,      \* the body of a fact nobody has written
    NoDoc, NoFact, NoStore,
    Retires,        \* the facts that the change unit of a document retires
    Origins,        \* the documents to begin with
    MaxVersion,     \* bound: versions of a fact
    MaxRuns         \* bound: number of commands

ChangeDoc == Adr \union Memo
NoStatus  == "none"
Canonical == {"open", "accepted", "done", "superseded"}
Legacy    == {"proposed", "implemented", "provisioned"}
Status    == Canonical \union Legacy \union {"active", NoStatus}
Terminal  == {"done", "superseded", "implemented", "provisioned"}

\* A row of a decision's table of what it changes: the fact it is about and the
\* evidence cited, a version and a text; version 0 stands for "N.A - reason".
Row      == [fact : Fact, version : 0..MaxVersion, text : Text \union {Unwritten}]
Decision == [status : Status, supersedes : SUBSET ChangeDoc, rows : SUBSET Row]
FactRow  == [status : {"active", NoStatus}, version : 0..MaxVersion,
             text : Text \union {Unwritten}]

Documents == [decision : [ChangeDoc -> Decision \union {NoDoc}],
              text : [Fact -> Text \union {Unwritten, NoFact}]]
Cache     == [decision : [ChangeDoc -> Decision \union {NoDoc}],
              fact : [Fact -> FactRow \union {NoFact}]]

ASSUME LifecycleAssumption ==
    /\ Adr \intersect Memo = {} /\ ChangeDoc \intersect Fact = {} /\ IsFiniteSet(ChangeDoc)
    /\ ParentOf \in [Fact -> Fact \union {NoFact}]
    /\ SweepOrder \in Seq(ChangeDoc \union Fact) /\ ChangeDoc \subseteq Range(SweepOrder)
    /\ NoDoc \notin Decision
    /\ NoStore \notin Cache \union [docs : Documents, cache : Cache]
    /\ NoFact \notin Fact \union Text \union {Unwritten} \union FactRow
    /\ Unwritten \notin Text
    /\ Retires \in [ChangeDoc -> SUBSET Fact]
    /\ Origins \subseteq Documents
    /\ MaxVersion \in Nat \ {0} /\ MaxRuns \in Nat

VARIABLES
    docs,       \* the documents
    cache,      \* the database
    saved,      \* documents and cache as the running command found them
    at,         \* where the running command is
    job,        \* what it has still to do
    runs,       \* number of commands begun
    released,   \* history: decisions somebody has accepted or deleted
    granted     \* history: what change-units, adds and first writes gave each fact to say

lifecycleVars == <<docs, cache, saved, at, job, runs, released, granted>>

-----------------------------------------------------------------------------
(* Between the two stores.                                                   *)

\* A document without a status line is one whose status is active or blank.
Rendered(c) ==
    [decision |-> [d \in ChangeDoc |->
        IF c.decision[d] # NoDoc /\ c.decision[d].status = "active"
        THEN [c.decision[d] EXCEPT !.status = NoStatus] ELSE c.decision[d]],
     text |-> [f \in Fact |->
        IF c.fact[f] = NoFact THEN NoFact ELSE c.fact[f].text]]

\* A fact becomes active, and its one body version 1; a decision without a
\* status keeps none.
Imported(t) ==
    [decision |-> t.decision,
     fact |-> [f \in Fact |->
        IF t.text[f] = NoFact THEN NoFact
        ELSE [status |-> "active", text |-> t.text[f],
              version |-> IF t.text[f] = Unwritten THEN 0 ELSE 1]]]

\* EnsureLocalCache compares what is not under adr/.
Current(c) ==
    /\ c # NoStore
    /\ Rendered(c).text = docs.text
    /\ \A d \in Memo : Rendered(c).decision[d] = docs.decision[d]

LifecycleInit ==
    /\ docs \in Origins
    /\ cache = Imported(docs)
    /\ saved = NoStore
    /\ at = "idle"
    /\ job = <<>>
    /\ runs = 0
    /\ released = {}
    /\ granted = [f \in Fact |-> {docs.text[f]} \intersect Text]

\* Somebody clones the documents, or removes the cache.
LoseCache ==
    /\ at = "idle"
    /\ cache # NoStore
    /\ cache' = NoStore
    /\ UNCHANGED <<docs, saved, at, job, runs, released, granted>>

BeginCommand ==
    /\ at = "idle"
    /\ runs < MaxRuns
    /\ runs' = runs + 1
    /\ at' = "run"
    /\ cache' = IF Current(cache) THEN cache ELSE Imported(docs)
    /\ saved' = [docs |-> docs, cache |-> cache']
    /\ UNCHANGED <<docs, job, released, granted>>

ExportStore ==
    /\ at = "export"
    /\ docs' = Rendered(cache)
    /\ at' = "idle"
    /\ saved' = NoStore
    /\ UNCHANGED <<cache, job, runs, released, granted>>

\* Any step may find an error; an export, only a file it cannot write.
CommandRolledBack ==
    /\ at # "idle"
    /\ docs' = saved.docs
    /\ cache' = saved.cache
    /\ at' = "idle"
    /\ saved' = NoStore
    /\ job' = <<>>
    /\ UNCHANGED <<runs, released, granted>>

CommandKilled ==
    /\ at # "idle"
    /\ at' = "idle"
    /\ saved' = NoStore
    /\ job' = <<>>
    /\ UNCHANGED <<docs, cache, runs, released, granted>>

\* A command's work in the cache, after which it goes on or exports.
Works(c, next) ==
    /\ at' = next
    /\ cache' = c
    /\ UNCHANGED <<docs, saved, runs>>

-----------------------------------------------------------------------------
(* Evidence.                                                                 *)

\* (Mutant: the version is taken for the text.)
ResolvesByVersion(c, r) ==
    /\ c.fact[r.fact] # NoFact
    /\ c.fact[r.fact].version = r.version

\* A handle is current if version and text are still those of its fact.
Resolves(c, r) ==
    /\ c.fact[r.fact] # NoFact
    /\ c.fact[r.fact].version = r.version
    /\ c.fact[r.fact].text = r.text

IsCite(r) == r.version # 0

\* A fact that the document's own unit retires, and that is gone, needs no other
\* evidence.
RetiredBy(c, d) == {f \in Retires[d] : c.fact[f] = NoFact}

AllDischarged(c, d) ==
    LET owed  == {r \in c.decision[d].rows : r.fact \notin RetiredBy(c, d)}
        cites == {r \in owed : IsCite(r)}
    IN  /\ \A r \in cites : Resolves(c, r)
        /\ cites # {} \/ owed # c.decision[d].rows

\* What an author may put in a row: a handle that read --cite prints, or N.A.
Citable(c) ==
    {[fact |-> f, version |-> c.fact[f].version, text |-> c.fact[f].text] :
        f \in {g \in Fact : c.fact[g] # NoFact /\ c.fact[g].text # Unwritten}}
Excused(c) ==
    {[fact |-> f, version |-> 0, text |-> Unwritten] :
        f \in {g \in Fact : c.fact[g] # NoFact}}

-----------------------------------------------------------------------------
(* Commands on decisions.                                                    *)

InCache(d) == cache.decision[d] # NoDoc
WithStatus(c, d, s) == [c EXCEPT !.decision[d].status = s]

\* An adr is checked as it is created: its rows cite what is current.
AddDecision(d, rows) ==
    /\ at = "run"
    /\ ~InCache(d)
    /\ Works([cache EXCEPT !.decision[d] =
                [status |-> IF d \in Adr THEN "proposed" ELSE "active",
                 supersedes |-> {}, rows |-> rows]], "export")
    /\ UNCHANGED <<job, released, granted>>

\* A whole document: its status is left alone.  A frontmatter, if there is one,
\* names every link the document has from now on.
WriteDecision(d, rows, fm) ==
    /\ at = "run"
    /\ InCache(d)
    /\ \A o \in fm : InCache(o)
    /\ Works([cache EXCEPT !.decision[d].rows = rows,
                           !.decision[d].supersedes = fm], "export")
    /\ UNCHANGED <<job, released, granted>>

\* statusTransitions
NextStatuses(s) ==
    CASE s = "open"        -> {"accepted", "superseded"}
      [] s = "accepted"    -> {"done", "implemented", "superseded"}
      [] s = "proposed"    -> {"accepted", "provisioned", "superseded"}
      [] s \in {"done", "implemented", "provisioned"} -> {"superseded"}
      [] OTHER             -> {}

SetStatus(d, s) ==
    /\ at = "run"
    /\ InCache(d)
    /\ s \in NextStatuses(cache.decision[d].status) \union {cache.decision[d].status}
    /\ Works(WithStatus(cache, d, s), "export")
    /\ UNCHANGED <<job, released, granted>>

\* change accept does not ask what the status was.
Accept(d) ==
    /\ at = "run"
    /\ InCache(d)
    /\ Works(WithStatus(cache, d, "accepted"), "export")
    /\ released' = released \union {d}
    /\ UNCHANGED <<job, granted>>

\* check --fix looks at all change documents, at those that are not adrs, or at
\* the one it is pointed to.
Latch(inspected) ==
    LET ready == {d \in inspected : /\ InCache(d)
                                    /\ cache.decision[d].status = "accepted"
                                    /\ AllDischarged(cache, d)}
    IN  /\ at = "run"
        /\ Works([cache EXCEPT !.decision = [d \in ChangeDoc |->
                    IF d \in ready THEN [@[d] EXCEPT !.status = "done"] ELSE @[d]]],
                 "export")
        /\ UNCHANGED <<job, released, granted>>

Links(c, d) == IF c.decision[d] = NoDoc THEN {} ELSE c.decision[d].supersedes

\* (Mutant: only the direct successors are looked at.)
SupersededFromOneStep(c, d) == {d} \union Links(c, d)

\* What can be reached from a decision along the links in a cache.
SupersededFrom(c, d) ==
    LET grow[n \in 0..Cardinality(ChangeDoc)] ==
            IF n = 0 THEN {d}
            ELSE grow[n-1] \union UNION {Links(c, e) : e \in grow[n-1]}
    IN  grow[Cardinality(ChangeDoc)]

\* supersede flips the old decision, then links the new one to it.
SupersedeFlip(new, old) ==
    /\ at = "run"
    /\ new # old
    /\ InCache(new) /\ InCache(old)
    /\ cache.decision[old].status \in Terminal
    /\ new \notin SupersededFrom(cache, old)
    /\ job' = <<new, old>>
    /\ Works(WithStatus(cache, old, "superseded"), "link")
    /\ UNCHANGED <<released, granted>>

SupersedeLink ==
    /\ at = "link"
    /\ Works([cache EXCEPT !.decision[job[1]].supersedes = @ \union {job[2]}], "export")
    /\ job' = <<>>
    /\ UNCHANGED <<released, granted>>

\* The links to a document go with it.
DeleteDecision(d) ==
    /\ at = "run"
    /\ InCache(d)
    /\ Works([cache EXCEPT !.decision = [e \in ChangeDoc |->
                IF e = d \/ ~InCache(e) THEN NoDoc
                ELSE [cache.decision[e] EXCEPT !.supersedes = @ \ {d}]]], "export")
    /\ released' = released \union {d}
    /\ UNCHANGED <<job, granted>>

-----------------------------------------------------------------------------
(* migrate: every entity in turn, its status and then its seal.              *)

\* (Mutant: the lossy fold is left for somebody to look at.)
FoldedCleanly(s) == CASE s = "proposed" -> "open"
                      [] s = "implemented" -> "done"
                      [] OTHER -> s

\* mapADRStatus
Folded(s) == CASE s = "proposed" -> "open"
               [] s \in {"implemented", "provisioned"} -> "done"
               [] OTHER -> s

StartMigrate ==
    /\ at = "run"
    /\ job' = SweepOrder
    /\ Works(cache, "sweep")
    /\ UNCHANGED <<released, granted>>

SweepDecision ==
    /\ at = "sweep"
    /\ job # <<>>
    /\ Head(job) \in ChangeDoc
    /\ InCache(Head(job)) =>
         cache.decision[Head(job)].status \in Canonical \union Legacy
    /\ Works(IF InCache(Head(job))
             THEN [cache EXCEPT !.decision[Head(job)].status = Folded(@)]
             ELSE cache, "sweep")
    /\ job' = Tail(job)
    /\ UNCHANGED <<released, granted>>

\* The body is written once more as it is, which makes a version of it.
SweepFact ==
    /\ at = "sweep"
    /\ job # <<>>
    /\ Head(job) \in Fact
    /\ cache.fact[Head(job)] # NoFact => cache.fact[Head(job)].version < MaxVersion
    /\ Works(IF cache.fact[Head(job)] = NoFact THEN cache
             ELSE [cache EXCEPT !.fact[Head(job)].status = NoStatus,
                                !.fact[Head(job)].version = @ + 1], "sweep")
    /\ job' = Tail(job)
    /\ UNCHANGED <<released, granted>>

FinishMigrate ==
    /\ at = "sweep"
    /\ job = <<>>
    /\ Works(cache, "export")
    /\ UNCHANGED <<job, released, granted>>

-----------------------------------------------------------------------------
(* Commands on facts.                                                        *)

\* The work of add and apply, which may change facts.
WorksOnFacts(c) ==
    /\ Works(c, "export")
    /\ granted' = [f \in Fact |-> granted[f] \union
                    IF c.fact[f] = NoFact THEN {} ELSE {c.fact[f].text} \intersect Text]
    /\ UNCHANGED <<job, released>>

\* The table of the fact that lists f is rewritten: a body of another version.
ListedAgain(c, f) ==
    LET p == ParentOf[f] IN
    IF p = NoFact \/ c.fact[p] = NoFact \/ c.fact[p].text = Unwritten THEN {c}
    ELSE {[c EXCEPT !.fact[p].version = @ + 1, !.fact[p].text = t] :
            t \in {u \in Text : c.fact[p].version < MaxVersion}}

\* add and an apply that creates: the text, and the parent's list.
CreateFact(f, text) ==
    /\ at = "run"
    /\ cache.fact[f] = NoFact
    /\ ParentOf[f] # NoFact => cache.fact[ParentOf[f]] # NoFact
    /\ \E c \in ListedAgain([cache EXCEPT !.fact[f] =
                  [status |-> "active", version |-> 1, text |-> text]], f) :
         WorksOnFacts(c)

\* (Mutant: a body of version 1 is taken for one that was never written.)
InCreationWindowByVersion(f) == cache.fact[f].version \in {0, 1}

InCreationWindow(f) ==
    /\ cache.fact[f].version = 0
    /\ cache.fact[f].text = Unwritten

\* write on a fact is refused unless nobody has ever written it.  (It gives the fact
\* something to say only where the documents have no words of it.)
WriteFact(f, text) ==
    /\ at = "run"
    /\ cache.fact[f] # NoFact
    /\ InCreationWindow(f)
    /\ Works([cache EXCEPT !.fact[f].text = text, !.fact[f].version = 1], "export")
    /\ granted' = IF docs.text[f] = Unwritten
                  THEN [granted EXCEPT ![f] = @ \union {text}] ELSE granted
    /\ UNCHANGED <<job, released>>

\* An apply that edits a block: the text changes and the version does not.
ApplyBlock(f, text) ==
    /\ at = "run"
    /\ cache.fact[f] # NoFact
    /\ cache.fact[f].text # Unwritten
    /\ WorksOnFacts([cache EXCEPT !.fact[f].text = text])

\* An apply that retires what the unit of d retires.
ApplyRetire(d, f) ==
    /\ at = "run"
    /\ f \in Retires[d]
    /\ cache.fact[f] # NoFact
    /\ \A g \in Fact : ParentOf[g] = f => cache.fact[g] = NoFact
    /\ \E c \in ListedAgain([cache EXCEPT !.fact[f] = NoFact], f) : WorksOnFacts(c)

-----------------------------------------------------------------------------
\* Texts that authors write: with one row or none, or, as they read it, with other
\* links.
RowsToWrite == {{}} \union {{r} : r \in Citable(cache) \union Excused(cache)}

OnDecisions ==
    \/ \E d \in ChangeDoc :
         \/ \E s \in Status : SetStatus(d, s)
         \/ Accept(d) \/ DeleteDecision(d)
         \/ \E e \in ChangeDoc : SupersedeFlip(d, e)
         \/ at = "run" /\ \E rows \in RowsToWrite :
              AddDecision(d, rows) \/ WriteDecision(d, rows, Links(cache, d))
         \/ at = "run" /\ InCache(d) /\ \E fm \in {{}} \union {{e} : e \in ChangeDoc} :
              WriteDecision(d, cache.decision[d].rows, fm)
    \/ Latch(ChangeDoc) \/ Latch(Memo)
    \/ SupersedeLink
    \/ StartMigrate \/ SweepDecision \/ SweepFact \/ FinishMigrate

OnFacts ==
    \E f \in Fact :
        \/ \E t \in Text : CreateFact(f, t) \/ WriteFact(f, t) \/ ApplyBlock(f, t)
        \/ \E d \in ChangeDoc : ApplyRetire(d, f)

LifecycleNext ==
    \/ LoseCache \/ BeginCommand \/ ExportStore
    \/ CommandRolledBack \/ CommandKilled
    \/ OnDecisions \/ OnFacts

LifecycleSpec == LifecycleInit /\ [][LifecycleNext]_lifecycleVars

-----------------------------------------------------------------------------
(* Correctness.                                                              *)

\* What is settled stays as it is in the documents, across kills, rollbacks and
\* rebuilds: a decision that is finished, but for being superseded and for the fold
\* of migrate, until somebody accepts or deletes it (statusTransitions,
\* SetEntityStatus); and a fact, which says what an apply or an add gave it to say, or
\* a write when the documents had no words of it (GuardCanonicalMutation, "facts are
\* apply-only": the guard looks at the cache, which commands that were killed have
\* changed and which a rebuild numbers anew).
SettledHolds ==
    [][/\ \A d \in ChangeDoc :
            LET old == docs.decision[d]
                new == docs'.decision[d]
            IN  (old # NoDoc /\ new # NoDoc /\ d \notin released) =>
                  (old.status \in Terminal =>
                     new.status \in {old.status, "superseded", Folded(old.status)})
       /\ \A f \in Fact : docs'.text[f] \in granted'[f] \union {Unwritten, NoFact}]_lifecycleVars

Acyclic(c) ==
    ~ \E S \in (SUBSET ChangeDoc) \ {{}} : \A d \in S : Links(c, d) \intersect S # {}

\* supersede closes no cycle of links, whatever links writes have left
\* (RunSupersede, supersedeReaches).
SupersedeKeepsAcyclic ==
    [][at = "link" /\ at' = "export" /\ Acyclic(cache) => Acyclic(cache')]_lifecycleVars

\* What check --fix takes for proof is in the documents, although it looks at the
\* cache, which commands that were killed have changed: what a decision it
\* finishes cites is said there, or is gone by the decision's own unit
\* (autoDoneLatch).
LatchProvedByDocuments ==
    [][\A d \in ChangeDoc :
         (Latch(ChangeDoc) \/ Latch(Memo)) /\ cache'.decision[d] # cache.decision[d] =>
           LET rows == cache.decision[d].rows IN
           /\ \A r \in rows : IsCite(r) =>
                \/ docs.text[r.fact] = r.text
                \/ docs.text[r.fact] = NoFact /\ r.fact \in Retires[d]
           /\ \E r \in rows : IsCite(r) \/ docs.text[r.fact] = NoFact]_lifecycleVars

\* migrate leaves every decision with a canonical status and moves none from
\* finished to unfinished or back, also after one that was killed half-way
\* (RunMigrate).
MigrationFolds ==
    at = "sweep" /\ job = <<>> =>
      \A d \in ChangeDoc : cache.decision[d] # NoDoc =>
        /\ cache.decision[d].status \in Canonical
        /\ cache.decision[d].status \in Terminal
             <=> saved.cache.decision[d].status \in Terminal

=============================================================================
