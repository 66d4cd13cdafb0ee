# A verification of c3x

c3x keeps the architecture of a project as a graph of *facts* (contexts,
containers, components, refs, rules) and *decisions* (change-units). Facts live
as Markdown files in `.c3/`, which the user commits; a SQLite database,
`.c3/c3.db`, is a disposable cache of them. Facts are frozen: they change only
when a change-unit, a folder of anchored patches, is applied. Everything that
writes goes through a per-directory write coordinator, runs on the cache, and is
exported back to the tree.

The modules here are translated from the Go code under `cli/`, with its tests
and docs beside it; `PROJECT.json` says for every definition which lines it stands for.

## 1. Inventory

Paths are relative to the repository.

| Component | State | Operations | Talks to | Hard part | What makes it correct |
| --- | --- | --- | --- | --- | --- |
| **Write coordinator** `cli/internal/coord`, `runThroughCoordinator` in `cli/main.go` | flock, socket path, listener, channel of requests, connections | dial, forward, elect, bind, accept, serve, answer, idle out, close; degrade to a solo run | other c3x processes; runs the dispatcher | several processes, two goroutines in each leader, kills, lost answers, deadlines | one writer, at most once, no false report, every command reports, the lock comes free |
| **Change-unit apply** `cli/cmd/change.go`, `morph.go`, `destruction.go`, `overlay.go`, `cli/internal/changeset` | patches, anchors, canvas files, transaction | drift, canvas, morph and retire gates, preview, apply, sync edges, reconcile membership, roll back | fact store, canvases | gates judge a state that the unit itself changes; half-done work on failure | all or nothing, no stranded fact, tables exact, nothing authored lost |
| **Fact store** `cli/internal/store` | entities, nodes, edges, hashes, versions | insert, update, delete with foreign keys, transactions and preview transactions | SQLite | cascades; nested transactions | referential integrity |
| **Mutation transaction and cache sync** `runWithIO` in `cli/main.go`, `cli/cmd/repair.go`, `import.go`, `export.go`, `sync.go` | tree, cache, backup copy, temporary database | refresh cache, snapshot, run, export file by file, restore | every command | a kill between two files; `check` runs outside the coordinator | tree and cache agree; a failed command leaves nothing |
| **Decision lifecycle** `set.go`, `supersede.go`, `freeze.go`, `adr_linkage.go`, `migrate_status.go` | statuses, supersede links, evidence | accept, done, supersede, latch, migrate, freeze guard | store, apply, check | a long series of legal calls; two-step updates; versions that a rebuild gives again | terminal stays terminal, links acyclic, done is earned, frozen facts untouched |
| **Authoring commands** `add.go`, `write.go`, `delete.go`, `materialize.go`, `init.go` | — (store) | create, rewrite, delete | store, gate, freeze guard | the window in which they are allowed | no write after the freeze; nothing passes that check then refuses |
| **Canvases and schema** `cli/cmd/canvas.go`, `cli/internal/schema` | canvas files | resolve, fill, validate | apply, checks | canvas file and database disagree in mid-morph | every fact fits its canvas |
| **Checks and repair reports** `check_enhanced.go`, `strict_component_docs.go` | none of its own | report; `--fix` heals tables and closes finished decisions | store, canvases, `sync.go` | three readers of one section; focus by target; repairs that disturb one another | readers agree, a repair settles, a focused report is the full one's |
| **Parse and render** `cli/internal/content`, `markdown`, `frontmatter`, `walker`, `config` | none | pure conversions | all | round trips of text | parse after render is the identity |
| **Eval engine** `cli/internal/eval`, `cmd/eval.go`, `store/eval_match.go` | records of verdicts | gather, loop, judge, save, use again | files, subprocesses, store | a verdict outlives what it was made from | a verdict that is used again is what a new run says; no vacuous hold |
| **Search and semantic index** `cmd/search.go`, `store/semantic*.go`, `store/search.go` | full-text and vector tables, model files in a shared cache directory | index, fetch, rank, fuse, expand, project | store, network, other projects' processes | no lock around either; edits between two queries | fresh index, whole files, an answer in any case, order and owners follow the hits |
| **Explorer** `explore*.go`, `activity.go`, `explorer-app` | payload, cached page, activity log, event streams | build, lay out, validate, serve, tail | store, activity log, browsers | a build that reads while others write; layout arithmetic; dropped frames | the payload passes its gate, nothing collides, viewers converge |
| **Runtime manager** `packages/cli/src/manager.ts` | binaries, manifest, temporary file | install, select, prune, uninstall | network, other processes | concurrent installs, no lock | a run that nothing disturbs ends with whole files |
| **Retrieval evaluation** `cli/tools/structural-search-eval-v2` | transient unit, marker directory, streams | start, watch, account, join, abort | systemd, target process | marker and exit by different ways, deadlines, aborts that race the start | what is accepted is a whole run; what is left behind is quiet |
| **Structural index, code map, read commands, output** | none | render | store | — | — |
| **Self report, git hooks, skills, research, docs** | files | one call each | — | — | — |

How a mutating command flows: `main` → coordinator (forward to the leader or
become it) → `runWithIO` (refresh cache, snapshot, open store) → the command, for
instance `change apply` → export → commit or restore → an entry in the activity log, which
the explorer's server tails. Because the coordinator lets one command run at a time,
`ChangeApply`, `Lifecycle` and `Check` describe one command at a time. `CacheSync` has
plain `check`, which does not go through the coordinator, as processes of its own.
Search, index, eval, the explorer's build and the runtime manager are not coordinated
either: `Search`, `EvalEngine`, `Explorer` and `RuntimeManager` run them beside whatever
else there is.

The behaviours that tests hardly reach are listed line by line under `hazards` in
`PROJECT.json`, each with the properties that watch it.

## 2. Modules

    SerialWriter          what the coordinator promises (abstract)
    Coordinator           the coordinator; implements SerialWriter
    CoordinatorProofs     theorems: the election, what becomes of a request; SerialWriter
    FactStore             facts, bodies, edges, canvases, membership tables
    ChangeApply           change apply on a FactStore
    ChangeApplyProofs     theorems about ChangeApply
    Documents             what commands promise of the document tree (abstract)
    CacheSync             tree, cache, export and rollback; implements Documents
    CacheSyncProofs       theorems about CacheSync; Documents
    Lifecycle             decisions and the freezing of facts, command by command
    Canvas                what a canvas asks of a body, as three readers read it (operators)
    Check                 check and --fix beside the commands that make what they find
    AuthoringProofs       theorems about Lifecycle and Check
    EvalEngine            the pipelines, the manifest, the records and their reuse
    SemanticIndex         the index and the model's files
    Search                one search, on a SemanticIndex
    SearchProofs          theorems about SemanticIndex and Search
    City                  layoutCity (operators)
    Explorer              the build of a payload; its layout by City; its gate
    Feed                  activity log, server and viewers
    ExplorerProofs        theorems about Feed and Explorer
    RuntimeManager        processes that share a cache of runtimes
    RuntimeManagerProofs  theorems about RuntimeManager
    ConfinedArm           one measured run of the retrieval evaluation
    EvaluationProofs      theorems about ConfinedArm and EvalEngine
    MC*                   the instance of each for TLC

### Coordinator and SerialWriter

Each member of `Client` is a process that runs one mutating command. `pc` follows
`runThroughCoordinator`:

| `pc` | code |
| --- | --- |
| `dial`, `encode`, `await` | `TryForward`: dial, write the request, read the response |
| `elect`, `clear`, `bind` | `NewLeader`: flock, remove the socket path, listen |
| `retry`, `retryDenied` | `ForwardWithRetry` after `ErrBusy` / after `ErrUnavailable` |
| `exec`, `respond`, `select` | `Leader.Serve`: the handler, the answer, the `select` on channel and idle timer |
| `close`, `unlink`, `unlock` | `Leader.Close`: the listener, the path, the lock |
| `solo` | the fallback `runWithIO` without a lock |

The accept loop is a goroutine of its own (`Accept`, `Enqueue`, `DropConnection`)
with the kernel's backlog, the connection in its hands and the bounded channel as
state. `socket` is the process whose listener the path leads to, which may be dead:
a stale path. The flock and the connections belong to the kernel; `Kill` frees
them at any step. Dead processes and processes that return look alike to their
clients: `HangUp` gives EOF to every connection that was not answered.

A command is abstracted to its start, its end and its result (`ok`, `err`). Two
deadlines are left nondeterministic: the client's ten seconds (`ForwardError` may
come before the answer) and the leader's five seconds for a request to arrive. A
`select` with both branches ready takes either, as in Go. `RetryTimeout` has no way
back to `elect`: `ForwardWithRetry` returns only after its two seconds, and the
caller's own deadline of two seconds was set earlier.

`SerialWriter` is the promise: commands run one at a time, each at most once, and
a process reports a result only if it is the result of its command. It says nothing
of a process whose transport failed: its command may have run or may yet run. The
refinement maps `active` to the command a coordinated process runs. The Windows
build and `C3X_COORDINATOR=0` have no protocol and are left out.

### FactStore

A body is a bag of blocks, and a block stands for its own sha256 hash, so a block
anchor is fresh while the bag holds the block and the root merkle, which hashes
the *sorted* node hashes, is the bag itself. Kinds of blocks: text, section
headings, rows that cite a fact, rows of a membership table (an id, the child's
title, and a cell the author owns). Node order and ids are abstracted away; the
one place where an id decides something (`PatchStateOf` of a block patch) is a
nondeterministic choice (`MayBeApplied`).

A canvas is the set of sections it requires. Deletion follows the foreign keys of
`store.go` (children lose their parent, edges go). Edges are re-derived from the
citation rows. `ReconciledBodies` is the membership hook: one row per child, the
authored cell kept from a row with the same id; if a hand-edited table holds two
rows of one id, either may be the one that is kept. The default of a fresh cell is
the constant `Goal`.

### ChangeApply

`RunChangeApply` in its own order. `Begin`/`Reject` are the drift and canvas gates
on the committed state. If the unit reshapes a canvas or retires a fact, the whole
of `changeset.Apply` first runs in a preview transaction, and `GatesReject` or
`GatesPass` judges what it leaves; a preview that does not apply silences the gates
(`PreviewFails`), as in `morph.go:74` and `destruction.go:55`. Then canvas files are
written, and the same `Apply` runs for good: patches in file order (`ApplyOne`,
`SkipPatch`), edges of each touched fact (`SyncOne`), tables of each affected parent
(`ReconcileOne`), then `Commit`; any failure leads to `RollBack` and `Restore`. A
dry run stops at `gated`. What a run owes its unit (`AllOrNothing`) is counted block by block:
each patch that was not skipped adds and takes away what it says, and no other text moves;
the rows of membership tables, which the tool rewrites, are `MembershipExact`'s and
`AuthoredKept`'s. `Draft` is the author taking entity anchors (`read --cite`
or `change rebase`) at any moment between runs.

The two gates share one preview here; the code runs one preview for each, with the
same outcome, since nothing else runs meanwhile. Left out: heading edits,
uncited frontmatter fields, the `result:` hash of a landed patch, versions, and
killing the process (for the tree and the cache, see `CacheSync`).

### CacheSync and Documents

`tree` is the Markdown documents of `.c3/`, `unsealed` those whose seal does not match.
A database is told apart from the path it is at, because `c3.db` can be replaced under a
process that has it open: `dbs` holds the databases, `cacheAt` and `tmpAt` what is at
`c3.db` and at `.c3.import.tmp.db`. `pc` follows the code:

| `pc` | code |
| --- | --- |
| `compare`, `diff` | `EnsureLocalCache`: open the cache, read it, compare with the tree (`RunSyncCheck`) |
| `walk`, `fill`, `unlink`, `swap` | `RunImport`: read the tree, open the temporary database, fill it, remove `c3.db`, rename |
| `snapshot` | `newMutationSnapshot` |
| `open`, `command` | `store.Open` and the command's transaction |
| `list`, `export` | `RunSyncExport`: compare the two trees, then remove and write document by document |
| `suite` | `runVerificationSuite` |
| `wipe` | `restore`: remove the directory, documents and `c3.db` one by one in any order |
| `putback` | copy the backup back, document by document, and `c3.db` |

A command is the change it was asked for (`asked`): a new text, a removal or nothing for each
document. `Fails` is any error, at any place where the code returns one after it has changed
something; a writer that has a backup goes to `wipe`, where a step may fail in its turn ("rollback
failed", `RestoreFails`). `Kill` may come at any step. A user edits the tree only while no command
runs. `RunRepair` is a writer that imports by force; a plain `check` is a checker.

`Documents` says what a user may rely on: each document is as its user or the last
successful command made it, a command makes all of its change or none, and one that is
killed leaves a part of its own change and nothing else, except that killed in its
rollback, or unable to finish it (`unrestored`), it may lose documents. The cache occurs in it
(`cached`) for one reason: where no document is left, a command takes what the cache says for the
documents (`Bases`, `main.go:179`), so what the cache may say has to be promised
too (`Refresh`, `CutShort`). The refinement shows tree and cache, but those in the writer's
backup while a writer is at work or undoes, so that its work appears at once when it ends.

Coarser than the code: a half import has no rows at all; reading the tree, or rendering the
store, is one step; SQLite's side files are part of their database. A snapshot that cannot be
taken and a `store.Open` that fails, both before anything has changed, are left out. A user
never removes the last document, for the cache would then be taken in its place, which suits
directories that have nothing but a database.

### Lifecycle

Two stores: `docs`, the documents, and `cache`, the database a command works on. A command begins
(`BeginCommand`, which rebuilds a stale or missing cache), takes the steps its code takes on the
database, and exports (`ExportStore`); it may be rolled back (`CommandRolledBack`) or killed
(`CommandKilled`) between any two of its writes, and the cache may be lost between commands
(`LoseCache`). Commands on decisions are add, set and accept of a status, write with links and
evidence rows, supersede (which flips the old and links the new decision in two writes), delete,
the migration sweep and the accepted-to-done latch; commands on facts are add, the first write and
apply. Version numbers of facts are only in the cache: a rebuild makes the one version of each
body number 1 again, so a handle cites a version and a text. `released` and `granted` are history:
what somebody has deliberately accepted or deleted, and what apply, add and a first write of a
fact without words gave each fact to say; a write that the freeze guard lets through by mistake
grants nothing. The coverage messages of `check` change nothing and are left out, and so are the
canvases that migrate rewrites.

### Canvas and Check

`Canvas` has the bodies and cells that validators tell apart, and the three readings of
them: the gate of add and write (`Refused`, from `validateBodyContentWithDefinition`), the
strict rules (`StrictFaults`, from `validateStrictDoc`), and the shapes `check` looks for
(`ShapeFaults`, from the loop of `RunCheckV2`). They look sections up differently (first
or last of a name), parse differently (`Parses`, `Holds`) and agree only in part.

`Check` is the command. `RunCheck` runs `RunVerify` restricted to the targets (`first`),
then heals every membership table (`Healed`: each is made of the document's own rows and
children, so their order is of no account), resolves rules to their
citers, reports or closes finished decisions, and collects the issues of documents,
layers, scopes, origins, code anchors, the code map and canvas files, filtered by target.
An error fails the command, which is then rolled back. `Add`, `Rewrite`, `WriteSection`
and `AcceptDocument` are the commands that make what it finds, each with its whole handler, gate
and membership hook included, and `HandEdit` is a document edited in place and imported.
What the cells of a table refer to only check looks up (`validateColumn`), so a section that the
gate passes may be reported for them: one of the four differences `ReadersAgree` names.
Equal words in a detail column stand for long equal texts; issues of one kind at one
section are one issue. Left out: adrs (Lifecycle), seals (CacheSync), the headers made
up for a parent without a canvas, "Must derive from" grounding, hints, and targets that
are paths or globs.

### EvalEngine

Pipelines are data: gathers by path, glob, command or from earlier values, loops with a
sub-pipeline, filters, and one predicate. `Run` is what the engine computes from files,
`Manifest` what it stamps a verdict with, `Mechanical` whether the verdict may be kept.
An eval takes the facts and specs as they are when it begins (`BeginEval`, `loaded`),
and then, fact by fact, reads the manifest (`Probe`), and either uses the record again
(`Reuse`) or reads the files a second time for a verdict (`RunLive`), and saves what it
has in one transaction (`Save`). Files, facts and specs change at any of these points;
an eval may be killed, and the cache with its records lost. A digest is the value
digested. Left out: the outline gather (another program), `contains`, code blocks and
evidence text.

### SemanticIndex and Search

`SemanticIndex` is the work around the model: each process fetches what the shared
directory lacks (opens the one temporary name, writes chunk by chunk, renames, with an
inode apart from its path), then lists the entities, reads their texts, makes vectors and
commits the rows, with foreign keys checked at commit. No lock is taken anywhere. The disk may
refuse a process in `Hampered` any step of this (`DiskRefuses`): by the build, the file and the step
the code takes that for an unavailable model or returns the raw error, and removes the temporary
name or not. A text is the number of the edit that wrote it. `Search` extends it with the stages of one
search: the probe for hits, two full-text queries, edges into the hits, the vector
neighbours, fusion of ranks, the projection of hits on their owners, routes with a
snapshot that must match, and the answer, which diversity cuts to the size of a pack
(`corpus.pack`, five without `--limit`). What the queries would return is chosen with
the corpus. Left out: snippets, titles, tokenizing, vector arithmetic, suggestions,
the floor of ten and ceiling of a hundred hits of a pool, release preparation, and a
cache that is rebuilt during a search. The vocabulary is one file with the model; the
texts of one pass are read in one step; database errors other than foreign keys do not
occur; enrichment's added sources are left out.

### City and Explorer

`Explorer` reads as `build` does, a query at a time (`LoadEntities`, `CollectStaging`,
`CollectBoundaries`, `ReadEdges`, `CollectFlows`, `ReadEvents`), while `Edit` changes the
store in between. `LayoutCity` hands what was read to `City`, whose operators follow
`layoutCity` step by step: districts, sectors by longest path, bands, grids, buildings,
roads, zones, docks, flow signposts, routes. Lengths are integers in 1/80 of a world
unit: for the positions the properties compare, the code's rounding is exact in it.
Dijkstra's choice among paths, heights, lanes, titles and colours are left out, and so are the
straight lines between boundaries or flows of a city without a district, which has no road.
Boundaries nested in themselves, which no command refuses, are not modelled (`NestingAssumption`).

### Feed

`activity.go` and `explore_serve.go` and the browser's live client. A command appends its
entry when it ends and may rotate the log (`lines` is what it read before it writes the
tail back); the server's ticks read from its offset, a mutation's entry starts a timer,
and its rebuild reads the store, stores the page and sends it; a viewer registers, gets
the payload of the moment, then frames from a channel that drops when it is full, and
may go and come back. `history` records what excuses a viewer from converging: a dropped
frame, overlapping rebuilds, a failed one, an entry lost to rotation.

### RuntimeManager

Processes with one command each (`install`, `run`, `use`, `prune`, `uninstall`), a step per file
operation, over paths and inodes: a process goes on writing to the file it opened after another
has renamed or removed the path. A file is partial or whole (its checksum is the published one)
and may lack its executable bit. Downloads fail, the disk refuses a step of an install (`CutOff`),
processes are killed. `uninstall --force`, progress output and the commands that only list are
left out.

### ConfinedArm

One arm of the retrieval evaluation, from the start of the `systemd-run` client to the
return of `invokeConfinedArmMeasured`: controller, client, transient unit, shell, target
and the goroutine in `Wait`. systemd, client and pipes are external and do what
`systemd-run --wait --pipe` documents; a unit may be killed at any time. Time is not
counted: every deadline may pass at any moment. Left out: the checks of the marker's
owner, mode, size and nonce, the periodic sampler, arithmetic on wall and CPU time, the
legacy protocols and scoring.

## 3. Runs

| Run | Instance | What it shows |
| --- | --- | --- |
| `coordinator_safety` | 4 processes, channel of 1, two may be killed | `TypeOK`, `WriterExclusion`, `LeaderReachable`, `AtMostOnce`, `HonestOutcome`, and that `Coordinator` implements `SerialWriter` |
| `coordinator_liveness` | 3 processes, one refused sockets, two killable | `EveryRunReports`, `LockComesFree` |
| `change_everyday` | 7 facts, eleven units, 3 runs | `MembershipExact`, `GraphNeverStrands`, `InstancesValid`, `AllOrNothing`, `AuthoredKept` |
| `cache_commands` | four casts of up to three commands, 2 documents, 1 edit | `SyncedOnSuccess`, `FailureLeavesNoTrace`, and that `CacheSync` implements `Documents` |
| `lifecycle_decisions` | 2 adrs, a prd, 2 facts, four beginnings, 3 commands | `MigrationFolds`, `SettledHolds`, `SupersedeKeepsAcyclic`, `LatchProvedByDocuments` |
| `runtime_cache` | 3 processes in five casts, 2 versions of 2 files, one killable | `CacheServes` |
| `explorer_feed` | 2 commands, 1 viewer, 2 rebuilds, log empty or full | `StreamHasNoHole`, `ViewersConverge` |
| `eval_reuse` | 2 files, 2 facts, 14 specs, 2 edits, 2 evals | `ReuseIsSound`, `NoVacuousHolds` |
| `explorer_payload` | six kinds of store, one of them in 256 variants, edits between queries | `PayloadSound`, `NothingCollides`, `RowsAreLongestPaths`, `RoutesKeepToRoads` |
| `arm_returns` | 2 entities, a corpus that can be seeded and one that cannot, 1 query, exit codes 0, 1, 125, 137 | `AcceptedIsWhole`, `ReturnsQuiet`, `ArmReturns` |
| `search_answers` | 3 processes, one of them before a disk that may refuse, 4 entities, 1 edit, four casts | `FreshWhenAlone`, `QuietSearchAnswers`, `FilesLeftWhole`, `AnswerFollowsHits` |
| `check_reports` | six projects, one of about seventy edits, eight requests with and without `--fix` | `ReadersAgree`, `FixSettles`, `FocusedSaysTheSame`, `ReadyIsFinished` |

The comment above each property says what it means and which code makes it true, and
names every excuse it makes. An excuse is a case in which the code does not keep the
promise; each was put there because TLC found it, and each is needed: without it the run
is violated. Section 5 lists them with their lines.

**Bounds.** *Coordinator*: four processes and a channel of one are what it takes to have, at once,
one command running, one queued, one in the accept loop's hands and so one that
finds the channel full; the real capacity of 32 changes only how many wait. Two
killable processes let a leader and its successor die. The counter `starts` needs no
bound: an invariant keeps it at one.

*ChangeApply*: `MaxRuns` of three lets one unit be drafted, overtaken by a second, and
come last (a stale anchor), and lets a parent be created, filled and retired. Units
come from a fixed catalogue: a patch for each scope, each way of touching a parent's
table, a canvas morph, a unit whose second patch loses the block its first one took, so
that the preview fails, and an insert.

*CacheSync*: one edit (`MaxEdits`) may come before, between or after the commands and may change, remove
or unseal a document; two mutations, either of which may be killed, let the second meet
whatever the first left anywhere in its import, export or rollback, and any rollback may
fail at any file. Two documents are
one that a change touches and one it does not, or a change half made. `Alone` is every
mutation and repair: nothing is beside them, while the two checks overlap each other.
Both initial states occur: a cache in step with the tree, and a fresh clone.

*Lifecycle*: three commands of any kind from four beginnings (a chain of superseded decisions,
statuses of an older release, a project at work, one just made by init); a link cycle, an accept
after done, and a migration stopped and begun again need three. Versions go to three.
*RuntimeManager*: three installs of one version meet in one temporary file; selections change
while their version is installed and removed; two prunes of different projects. *Feed*: two
mutations, so that the second comes while a rebuild is pending or running; a channel of two and a
log of three lines overflow and rotate with them. *EvalEngine*: each shape of pipeline once; two
edits to change and change back, two evals to make a record and use it. *ConfinedArm*: a query and
two entities are a target that fails before, between and after its work.

*Explorer*: stores that are small, wide (two bands of districts), looped, without sectors, crowded
(32 arrows at one face), and every choice among eight possible dependencies of four components,
which has every shape of layer up to four. *Search*: casts of two processes with an empty
directory and a third after them, of one process beside an edit, of two beside an edit, and of one
undisturbed search over many corpora; one of the two that meet in the empty directory may be
refused any step, which is enough to have a whole download and a broken one meet; limits of one
and two over four entities make every cut happen.

*Check*: one edit per beginning, since an issue is made by one command and the six
projects already hold what takes several (duplicated rows, a broken table, a table that
begins with the names, a finished prd, a broken canvas). For each type the
bodies its authors write are a good one and ones with one thing wrong. `Follows`
bounds checks in a row to the `--fix` that a report advises.

**Reachability.** For each run TLC also found, when it was made, states in which the
interesting case happens: a latch that closes, a heal that changes a table, an excuse
that is taken, a leader that dies with a command, and so on.

**Symmetry** is used in `cache_commands` alone, of the two checks and of the two mutations that may
be killed: each pair occurs together in the casts or not at all, and nothing checked
there is a liveness property. Elsewhere the casts name their processes.

**Deadlock** is checked in `coordinator_*`, `change_everyday`, `cache_commands` and
`runtime_cache`; `AllDone`, `Finished` and `Over` are the only places where those stop,
each a stutter guarded by the whole system having ended. The others say
`CHECK_DEADLOCK FALSE` because they do end: commands and edits are bounded in Lifecycle,
Feed, EvalEngine and Check, a build ends in Explorer, a search in Search, an arm in ConfinedArm.

**Fairness.** `Coordinator` assumes weak fairness of each goroutine: of the client or
`Serve` code on a process's main goroutine, of its election and of its accept loop.
That is what the Go scheduler and expiring timers give: every blocking call in
the protocol has a deadline (150 ms dial, 10 s exchange, 5 s request read, 2 s
retry, idle timeout), handlers return, and commands are finitely many, so the idle
timer is not overtaken for ever. Nothing obliges a process to be killed.
`Feed` assumes that what has begun goes on: a command, the server's tail and ticker, a
timer that has been set, a rebuild, a browser's stream; not that a viewer connects, or stays.
`ConfinedArm` assumes weak fairness of the controller alone, whose every wait has a
deadline, and nothing of the target, systemd, the client or the goroutine in `Wait`.
`ChangeApply` and `CacheSync` assume only that a run that has begun keeps going, as sequential
code does; no property of theirs rests on it. Strong fairness is nowhere assumed.

## 4. What is proved

Eleven systems have safety properties proved for every value of their constants; a
run shows each on one instance. TLC checked every inductive invariant on that instance, or
on as much of it as the theorem's hypotheses admit, before it was proved. What is assumed of
the constants are the `ASSUME`s of the modules: that placeholders (`NoClient`, `NoDoc`, `NoFile`)
are none of the things they stand in for, that tables of the instance have their types, that
a channel has room, and that change documents, entities and versions are finitely many. TLC
evaluates them on every run. A theorem that assumes more says so in its statement.

### Coordinator

For every set of processes, every capacity of the channel, any processes
refused sockets and any that may be killed.

* `TypeCorrect`, `ElectionInvariant` — the types and the first inductive invariant.
* `ExclusiveWriter` — one process runs commands under the coordinator, the lock's holder.
* `ReachableLeader` — while a leader serves, the path leads to its open listener.
* `DeliveryInvariant`, `StartedOnce`, `HonestReports` — the second invariant, and from it
  `AtMostOnce` and `HonestOutcome`.
* `SerialRefinement` — `Denied = {} => (Spec => ImplementsSerialWriter)`.

`WriterExclusion` alone is not inductive: a second process could be past the lock and
short of serving. `Election` adds what makes it so. `LockOwned`: the lock belongs to `p`
exactly while `p` is between `NewLeader` and the end of `Close`. `ListenerOpen`: a
listener is open exactly from bind until close. `SocketOwned`: while a process serves,
the path is its own; it survives `clear`, `bind`, `close` and `unlink` of others
because each is done by the holder of the lock. This is why the order in `Close`
(listener, path, lock last) matters; the mutant `CloseListenerAndLock` breaks it.

`Delivery` follows a connection from the backlog through the queue to the answer. Only
leaders have connections; a client is in one place at most (`OncePerClient`); who
waits, or still looks for a leader, has not been run; who runs is the
one the leader holds, or the leader itself, which runs its own command first; an answer sent and a result
reported are those of the run. `AtMostOnce` needs all of it: a second start could
come from the backlog of a second leader, from a retry, or from falling back to solo.
The refinement maps a step of the protocol to a start, a finish or a stutter. It needs
`Denied = {}`: a process that is refused a socket runs its command beside the lock's
holder (§5), which `SerialWriter` forbids.

### Tree and cache

For any commands, documents, changes and number of edits. All but `TypeCorrect`
assume `Writer \subseteq Alone`: nothing runs beside a writer. The code has that while every
process reaches the coordinator and no plain check comes between (§5).

* `TypeCorrect`, `SyncInvariant`.
* `SuccessInStep` — a writer that succeeds leaves tree, cache and seals in agreement.
* `NoTrace` — one that fails after its backup, and does not report that its rollback failed too,
  leaves documents, seals and cache as they were.
* `DocumentsKept` — `CacheSync` implements `Documents`, whoever is killed, whichever
  rollback fails, and whichever documents are decisions (the promise is about the others:
  the comparison in `sync.go:93` leaves them out).

`SyncInv` says of each writer, by its place, what `Directory(p)` has: it works on the one
cache there is (`WorksOnCache`); its backup is the tree, the seals and the cache it began
with (`BackedUp`); what it has exported is in the tree and the rest is still as in the
backup (`Exported`); what its rollback has put back is as it was, the cache included
(`Restored`). `DocumentInv` adds what the documents left are of, and the cache beside them, in the
middle of a rollback, where a kill or a failure may leave them. The property speaks only of
the last step; these say what has to be true on the way to it.

### Change units

For any facts, types, canvases, units and number of runs. Three theorems hold of every plan:

* `ChangeTypes` — types, and the canvas files on disk are the unit's exactly while its
  transaction runs or is undone.
* `NothingByHalves` — a run that does not say it applied its unit has changed nothing.
* `TablesExact` — from exact tables, every membership table is exact outside a run.

Four hold of plans without what the code lets through (§5 for the last two). Where a theorem
leaves units of the run out, TLC checks its property on them as well.

* `LandsWhole` (`AllOrNothing`) — a run has every patch in effect and has changed no text but as the
  patches say, or has changed nothing, where the patches of a unit do not undo one another: it
  retires nothing of which it says anything else, puts no fact under one it retires, and
  sets one frontmatter once. All eleven units of the run are such.
* `AuthorsAreKept` (`AuthoredKept`) — tables have at most one row about a fact to begin with,
  and a unit writes a row only in the place of that child's row: of two rows about one
  child the tool keeps one. All eleven units are such.
* `GraphHolds` (`GraphNeverStrands`) — no unit retires, since the gate lists the children
  before the unit (`destruction.go:41`), and a patch that places a child names a parent of
  the type its kind belongs under. Seven of the eleven.
* `FactsFit` (`InstancesValid`) — no canvas is reshaped, since a preview that fails silences
  the gates, and no body is written twice, since each patch is validated against
  the committed body (`change.go:161`). Nine of the eleven.

The invariants speak of the transaction's own copy `work`. `TableInv`: what no patch has listed is
undisturbed, what one has is in `affected` when the tables are reconciled, and those already
reconciled stay exact while the others are worked on. `LinksInv`: a fact whose edges and citations
may differ is in `touched`. `FitInv`: a fact that no patch has reached is as the gate saw it.
`LandsInv`: what is done is not undone by a later patch, and all is done by the commit. `TextInv`:
at each moment a body has of each block what it had and what the patches so far add and take away.
`AuthorInv`: the rows of before that no patch takes away and those written so far are in the
transaction's bodies (`RowsSoFar`), and when tables are rewritten each still has a row that says
the same (`StillSaid`); that a table never has two rows about one child is what leaves the tool no
choice.

### Decisions

For any decisions, facts and texts and any number of commands.

* `LifecycleInvariant`; from it `Migrated` (`MigrationFolds`), `Settled` (`SettledHolds`),
  `LatchProved` (`LatchProvedByDocuments`) and `NoCycle` (`SupersedeKeepsAcyclic`).

`LifecycleInv` relates the three copies there are. `SavedForRollback`: a command at work holds the
documents as they are, to roll back to. `BeginsInStep`: it begins with a cache that says of facts
what the documents say. `CachesGoOn`: of decisions, a cache and what was saved have reopened and
lost nothing that is finished in the documents, but for what was released. `OnlyGranted`: no copy
of a fact says what no command gave it to say. `Sweeping`: what migrate has met is canonical, what
it has not is as it was. `Linking`: between the guard of `supersede` and its link there is a set
of decisions that holds the old one, not the new one, and that no link leaves. Without the last,
the guard read before the link could be stale. `SupersededFrom` is a recursive function on finite
sets; that the guard's verdict yields such a set goes by well-founded induction with the
hypothesis stated as a set.

### Checks

For any documents and canvases, any drafts people write, any targets and rules, any beginning and
any number of edits. What is assumed of them is `CheckAssumption`: the sections of a canvas have
different names (`ValidateCanvas`, `canvas.go:199`), a type that lists its children has a
canvas with the table for it, and no document has the id `canvas`.

* `CheckInvariant`, and from it `FocusedChecksAgree` (`FocusedSaysTheSame`) and `RepairIsComplete`
  (`FixSettles`).
* `ReadyThenFinished` (`ReadyIsFinished`), provided that `NamesAreApart`: no id is the name of a
  type, and a file name that begins with an id begins with what that one begins with. Ids c3x
  makes are so; one made by hand, or a type somebody names like an id, need not be.
* `ReadersDiffer` (`ReadersAgree`), provided that `ComponentCanvasIsStrict`: the sections the
  canvas of components requires are strict, and their tables want a row. The one that c3x
  brings along is so; a project may replace it, and then the strict rules, which do not look
  at the canvas for this, ask for more than the gate.

TLC evaluates both provisions on the instance. `CheckInv` has, beside the properties, the types
of a project and what a report tells: one that repaired nothing and found no error holds the
issues of the project as it still is (`ReportTells`). Two arguments carry the rest.
*Repair*: reconciling a table keeps the first row of each child (`Survivors`) and adds one for each
child that has none, so it settles in one pass (`NewRowsSettle`), and a settled table is left as it
is (`SettledStay`): rows are in the order of their places, which `Ascending` goes through one
by one. A second pass then changes nothing, and the report cannot find a child unlisted
(`SettledIsConnected`). *Readiness*: only notes call a document ready; a plain check without
an error has no error about the documents that the narrower `--fix` looks at
(`NarrowerFindsLess`), so the `--fix` cannot stop before the latch. `ReadersDiffer` needs no
invariant: it compares the gate, the shape rules and the strict rules section by section.

### Feed

For any commands, viewers and rebuilds and any capacity of a viewer's channel.
`FeedInvariant` and `NoHole` (`StreamHasNoHole`). The property is about viewers that have been
sent a frame. `NoHoleSinceRegistered` says it from registration on, before the first frame
is written, for every moment at which no rebuild is between setting the latest payload and sending
it: what is in the channel ends with the latest payload, or the channel is empty and the first
frame, read after registration (`handleEvents`), will bring it. That moment passes because
rebuilds do not overlap (`OneRebuild`) and send what they set (`SentIsLatest`).

### Explorer

For any finite set of entities of any types, any stores over them and any number of commands
beside the build, as long as no edge of a store is called `flow_step`: that kind is the build's own.

* `EveryPayloadPasses` (`PayloadSound`): the gate never refuses what the explorer has built.
* `RowsFollowDependencies` (`RowsAreLongestPaths`), for sectors of any size.
* `NothingCollidesAnywhere` (`NothingCollides`), for districts of any number, band and size.

The build reads in several queries what others are changing, so nothing it has read need be
true of the store at any one moment. `BuildInv` says why it fits together all the same: every
later reading is cut down to the entities of the first (`present`), edges to those with both ends
among them, boundaries to their members among them, steps to rows whose ends are
among them, and none of it is looked at again. `CityInv` carries what one phase of the layout
leaves for the next: the districts, the rows, that every district with a building in it has land, and one
route for each edge that has its own. The lemmas are about data.
`EventsReplay`: a fact is created by the first event that touches it, because of any
events one comes first and nothing comes before it. `RisingRises`: numbers bumped past
their predecessor rise strictly, whatever they were. `RowsOfSector` is about `layerSector`, which
takes a node on which nothing left depends, and in a cycle just the first. What is upstream
of a node is the least closed set (`UpstreamIsLeast`); of the nodes left, one whose upstream
is smallest shows that a node in no cycle and below none is never taken early (`TakenInTime`); so
when it is taken its row has been deepened by all it depends on (`NextRow`).


Positions are sums over what stands further west or north. Of each, one lemma says that what comes
later begins beyond the end of what came before, with a gap (`SumGrows`, `Ranked`, and from them
`InARow`, `BandsApart`, `GridStands`); so the land of districts is apart (`LandsApart`), each building
stands within its own (`RowsStand`, `SectorsStand`, `GatehouseStands`) and apart from its neighbours
(`NeighborsApart`), and streets lie in the gaps. Zones are built from the boundaries that hold no
others upwards, for which none may be nested in itself (`NestingAssumption`).

### Runtime manager

For any processes, projects, files of a runtime and finitely many versions, and any processes
that may be killed.

* `CacheInvariant`, and from it `Serves` (`CacheServes`).

`CacheServes` speaks of the end only. Two arguments make it inductive. *Alone*: whoever
has had nobody beside it has all that it has passed whole, since a path leads to inodes of its own asset
(`Links`), and renames put whole files in place. *Race*: where nobody is killed, cut off
or removing, a torn file under its final or its temporary name is being written by somebody
(`TornIsWritten`); whoever empties the shared temporary file last makes it whole; whoever loses it
lost it to a rename, so another is further on with that asset (`Carried`). The most
advanced of the racers can then lose nothing, and it is the one who ends well.

### Retrieval evaluation

For any corpus, number of queries and set of exit codes. `ArmInvariant`, and from it
`AcceptedWhole` (`AcceptedIsWhole`) and `QuietReturn` (`ReturnsQuiet`). `ArmInv`: the shell
and the target live and end with the unit (`UnitHoldsShell`); an exit code of 0 is of a target that
has sealed its database (`GoodExitIsWhole`); a marker is the exit code of a target that does
no more work (`MarkerIsFinal`), and what `Wait` returned does not change (`WaitIsFinal`);
the decision on the response is taken with `Wait` joined or nothing started
(`DecidedWhenJoined`); and the directory is swept before it and after it (`SweptTwice`).
Neither of the two properties is inductive: both speak of the end, and rest on what was true at the
decision and cannot change after it.

### Eval engine

For any facts, specs, files and pipelines, and any number of evals, edits and kills.
`EvalInvariant`, and from it `NothingHoldsVacuously` (`NoVacuousHolds`): unless its files change in the
middle of it, an eval records `holds` only where each glob of the code fits a file. Two guards stand
for it, one on each way a verdict comes about, and they look at the files at different moments:
`Run` refuses a binding that does not resolve when it runs, `ReusableManifest` one that
did not when the manifest was read. `EvalInv` says that a manifest that can be compared with
a record is of files the binding resolved in, whatever the files have become since; so a
record that is used again cannot bring in a verdict that a run would have refused.

### Search

For any processes, finitely many entities, any number of edits, any corpora, and any
beginning that `Beginning` allows: rows of any age, entities that come and go, files in
any state, any process of any kind, killed or refused by the disk or not.

* `TypesHold` — the types; the rows of a search are of different entities, and the hits
  of a query are a list of different entities, until it answers.
* `AnswersFollow` (`AnswerFollowsHits`) — for every list of rows and hits, every limit and
  every set of parents and named entities, fusion keeps order and the projection goes one hop.
* `FilesStayWhole` (`FilesLeftWhole`) — from a directory that holds no torn file.
* `FreshHolds` (`FreshWhenAlone`), `QuietSearchesAnswer` (`QuietSearchAnswers`).

The first half is about lists. `InOrder` puts a finite set into a strict total order; that
each member has a rank of its own, and none is skipped, goes by well-founded induction on a
set (`Ranks`). Filters, cuts, the sort of rows, the fusion of ranks and the projection are
all stated by it or by parts of a list in its order (`Sub`), so one lemma says for all of them which
entities come out and who stays ahead of whom. That reciprocal ranks never put
an entity behind one that is behind it in both lists is arithmetic over their common
denominator (`BetterRanks`).

The second half is about processes. Of two at work each has seen that it is not alone (`Company`),
so while one is alone only it takes steps (`AloneSteps`). `Links` says whose inodes the two names
of a file stand for: nobody writes under the final name, and no inode has two names. `NotYet` says
that a process makes its inode of a file once; without it, one that opens the temporary name a
second time could empty what it had put in place itself. `AloneAtWork` is what one who is alone
has made so far, `InWriting` that whatever is short of a chunk has a writer that has left out
nothing. `QuietPass` and `QuietQuery` say that what a quiet process has read is still so;
`QuietWays` that it comes to its query with the model unless `Stuck`: a torn file that passes for
whole, and that nobody is about to make anew. None of the four properties is inductive: all but
fusion's speak of an end whose reasons lie many steps back.

### What is not proved

**Only model-checked:** `RoutesKeepToRoads`, which is about the closure of what roads connect;
EvalEngine's `ReuseIsSound`, which is about what folds over a pipeline compute;
`GraphNeverStrands` and `InstancesValid` for the units their theorems leave out.

**Out of the prover's reach:** the liveness properties: they rest on fairness and `ENABLED`.

## 5. Where code and docs part

What the models showed of the code as it is. Where a property makes an excuse, it is for
one of these.

*Coordinator and cache.*

* A process that lost the election dials until its own deadline and then reports the
  project as busy (`main.go:399`), though the leader may be long gone and nobody hold the lock.
* A process that may not use unix sockets runs beside a leader (`main.go:404`);
  `.c3/c3-1-/c3-107-.md:44` documents that the coordinator degrades to in-process execution.
* Every import goes through one path and plain `check` imports outside the coordinator
  (`import.go:125`): beside a mutation it can put an empty database under it, whose
  export removes documents, and two checks can swap each other's half-built databases.
  `.c3/c3-1-/c3-113-.md:41` promises an atomic swap. Hence `Alone`.
* Freshness of the cache is judged without `adr/`, the export is not
  (`sync.go:93`): a decision edited in the tree is overwritten by the next mutation.
* A kill between the canvas writes and the commit leaves reshaped canvases (`change.go:87`).
* A rollback removes the directory in no particular order (`main.go:262`). Killed in it, or failing
  in it ("rollback failed", `main.go:168`, `217`, `224`), a command can leave `c3.db`
  with the rows it had committed and no document; the next mutation takes that cache for the
  documents (`main.go:179`) and exports them. The backup goes with the process.

*Change units.*

* A canvas morph whose preview fails silences both gates (`morph.go:74`), and strands
  another instance, against `skills/c3/references/change.md:130`.
* The retire gate lists children before the unit (`destruction.go:41`): one that the
  unit itself moves in is orphaned.
* Each patch is validated against the committed body (`change.go:161`): two of them
  may jointly empty a required table.
* An insert stays pending while the block it cites is there (`status.go:44`), and
  running the unit again repeats it.

*Decisions.*

* Version numbers live in the cache (`check_enhanced.go:1121`): evidence for a version
  above 1 goes stale on a rebuild.
* A kill between the two writes of supersede (`supersede.go:63`) leaves a superseded
  decision without successor; `write` with a frontmatter without `supersedes` drops links,
  with no cycle guard.
* `change accept` sets any status, of a fact too (`change.go:197`); migrate refuses a
  status `active` or blank; a terminal decision's text is not frozen for `write`.

*Checks.*

* Reconciliation takes the first column of a membership table for its key
  (`membership.go:137`), `check` the one named ID (`check_enhanced.go:886`): where they
  differ, `--fix` drops or repeats rows and does not settle.
* A required table that does not parse is passed over by `check` (`check_enhanced.go:352`)
  but refused by the gate; a membership section that is empty passes the gate and
  is reported; the gate does not apply the strict rules to change documents other than adrs.
* `--fix` heals before it latches: the heal makes a new version of a parent that a ready
  decision may cite, so the advised `check --fix --only X` then does nothing.
* A project's own change document is latched (`IsChangeDocDir`) but never strictly checked,
  nor skipped when finished (`IsChangeDoc` knows the built-in ones alone).
* `--only ref-a` also takes `ref-a-b`, by the beginning of its file name (`sync.go:300`).
* A line of prose before a table is lost when the table is reconciled.

*Eval.* A predicate on existence over paths that were not found by looking (literals, lines of a
file, output of a command) is stamped with the paths only (`eval.go:898`), so a verdict is used
again after the files are gone, against `eval.go:124`. Records saved after a torn read, and a
drift after a failed gather, stay until something in the manifest changes.

*Search.* Two first searches at once fetch into one temporary name: the loser's rename
fails, and its search with it, although `help.go:334` promises keyword results. A
half-written runtime library under its final name is taken for good; it takes no kill to make one,
since a process whose archive is bad, or whose disk is full, may have emptied the temporary name that
another then renames (`semantic_assets.go:585`). A cache directory that cannot be named or
made, or a model file that cannot be renamed, is no `ErrSemanticUnavailable`
(`semantic_assets.go:86`, `323`, `semantic_embedmodel.go:56`), so a search fails with it
(`search.go:230`), also against `help.go:334`. A delete beside
a search or an index pass fails it. `search.go:829` boosts named entities before the last
cut, but two earlier cuts may have lost them. With `--type`, content hits of other types
fill the limit.

*Explorer.* About thirty arrows at one face of a building put docks beyond the end of its road,
and the gate refuses the payload (`explore_layout.go:1231`), where
`docs/specs/2026-09-15-c3v-visualize-payload-v2.md` has every point on a street. Below a
cycle, rows are no longest paths. An empty nested boundary stretches its parent's zone to
the origin.

*Feed.* "First frame is always the current payload" and that viewers converge regardless
do not hold if a frame is dropped while a payload is in flight, when two rebuilds
overlap (`explore_serve.go:248`), when one fails, or when rotation loses the entry (`activity.go:83`).

*Runtime manager.* Checksums are always downloaded, so a cached runtime does not run
offline (`packages/cli/README.md:66`). Two prunes of different projects can empty the cache. A
killed `use` leaves a torn `runtime.json`.

*Retrieval evaluation.* Killing the client does not kill the unit, which keeps the pipes
and `Wait` alive; a unit already gone is not recognised by the stop
(`explicitUnitNotFound`); after both streams overflow and a stop comes before the unit
exists, processes run on after a return that is not fatal.

## 6. Not modelled, and why

* **Text**: parsing, rendering, formatting, slugs, globs, tokenizing, snippets, wording of
  reports and hints. Pure functions of characters; there is no state to explore.
* **Read commands, output, structural index, code map**: read the store once and render it.
* **Drawing**: scene, heights, lanes, HTML, the browser application except its live client.
* **Retrieval evaluation beyond one arm**: plans, scoring, preparation of releases, the
  earlier protocols: scripts run by hand in a fixed order. `structural-search-eval-v3` likewise.
* **Windows and `C3X_COORDINATOR=0`**: no protocol, the command runs directly.
* **Self report, git hooks, skills, research, docs**: one file or one process per call.
* **The import, export and sync commands run by hand**, and read commands that build a
  missing cache: the same steps as `CacheSync` in other orders.
* **External systems** (SQLite, the kernel's sockets and locks, systemd, the network, the
  local model) are modelled only as far as the code relies on them.

## 7. Plan

1. **Proofs** — what §4 lists as only model-checked and within reach: for City, that roads connect;
   for ChangeApply, units that
   retire and do nothing else, and units that reshape a canvas whose preview succeeds, for
   which the preview is what the run comes to.
2. **Composition** — Coordinator's `exec` driving CacheSync, with solo runs and a plain
   `check` beside a mutation, and canvas files in the tree.
3. **Plans of the retrieval evaluation** — the order of arms and the publication of results.
