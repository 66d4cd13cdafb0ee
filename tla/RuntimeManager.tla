-------------------------- MODULE RuntimeManager --------------------------
(***************************************************************************)
(* The npm front end (packages/cli/src/manager.ts): processes that         *)
(* install, run, select, prune and uninstall runtimes in one cache         *)
(* directory that all projects of a user share.  There is no lock: two     *)
(* installs of a version write the same temporary file, and a removal may  *)
(* come between any two steps of an install.                               *)
(*                                                                         *)
(* A file is a link from a path to an inode, so that a process goes on     *)
(* writing to the file it opened after another has renamed or removed the  *)
(* path.  What a file holds is abstracted to "partial" or "whole", whole   *)
(* meaning that its checksum is the published one.                         *)
(***************************************************************************)
EXTENDS Integers, FiniteSets, FiniteSetsExt

CONSTANTS
    Proc,                   \* processes, each of which runs one command
    Project,
    Version,                \* versions as numbers, newer ones greater
    Released,               \* the latest release
    Assets,                 \* number of files of a runtime; the first is the binary
    Latest, Unset, Torn,    \* contents of .c3/runtime.json that are not a version
    NoFile,
    Killable,               \* processes that may be killed
    Casts                   \* what to begin with: the command of each process and
                            \* the selection of each project

Asset      == 1..Assets
Executable == {1}
\* Asset 0 is the manifest, which is written in place.
Path       == (0..Assets) \X {"tmp", "final"}
Inode      == Proc \X (0..Assets)
Setting    == Version \union {Latest, Unset, Torn}
Job        == [cmd : {"run", "install", "use", "prune", "uninstall"}, project : Project,
               version : Version \union {Latest}]
Result     == {"none", "ready", "unusable", "cutoff", "failed", "refused"}

ASSUME RuntimeAssumption ==
    /\ Version \subseteq Nat /\ IsFiniteSet(Version) /\ Released \in Version
    /\ Assets \in Nat \ {0}
    /\ Casts \subseteq [job : [Proc -> Job], setting : [Project -> Setting \ {Torn}]]
    /\ Killable \subseteq Proc /\ NoFile \notin Inode

VARIABLES
    job,        \* the command of each process
    pc,
    version,    \* the version a process works on
    asset,      \* the asset it is at
    listed,     \* prune and uninstall: the versions it has found or has to remove
    doomed,     \* the paths it has still to remove
    result,
    dirs,       \* versions that have a directory
    at,         \* the inode at each path of each version
    fd,         \* the inode each process has opened for writing
    bytes,      \* what is in each inode
    runnable,   \* inodes that have the executable bit
    shaken,     \* processes whose open file was truncated by another
    setting,    \* .c3/runtime.json of each project
    crowded     \* history: processes that had another one beside them

vars == <<job, pc, version, asset, listed, doomed, result, dirs, at, fd, bytes,
          runnable, shaken, setting, crowded>>
disk == <<dirs, at, fd, bytes, runnable, shaken, setting>>
self == <<version, asset, listed, doomed>>

Init ==
    /\ \E c \in Casts : job = c.job /\ setting = c.setting
    /\ pc = [p \in Proc |-> "idle"]
    /\ version = [p \in Proc |-> job[p].version]
    /\ asset = [p \in Proc |-> 0]
    /\ listed = [p \in Proc |-> {}] /\ doomed = [p \in Proc |-> {}]
    /\ result = [p \in Proc |-> "none"]
    /\ dirs = {} /\ at = [v \in Version |-> [x \in Path |-> NoFile]]
    /\ fd = [p \in Proc |-> NoFile]
    /\ bytes = [i \in Inode |-> "none"] /\ runnable = {} /\ shaken = {}
    /\ crowded = {}

-----------------------------------------------------------------------------
Goto(p, l)    == pc' = [pc EXCEPT ![p] = l] /\ UNCHANGED result
Finish(p, r)  == pc' = [pc EXCEPT ![p] = "done"] /\ result' = [result EXCEPT ![p] = r]
Final(v, a)   == at[v][<<a, "final">>]
IsWhole(v, a) == Final(v, a) # NoFile /\ bytes[Final(v, a)] = "whole"
Usable(v)     == \A a \in Asset : IsWhole(v, a) /\ (a \in Executable => Final(v, a) \in runnable)
Mine(p)       == setting[job[p].project]

Start(p) ==
    /\ pc[p] = "idle"
    /\ Goto(p, CASE job[p].cmd = "run" -> "read"
                 [] job[p].cmd = "install" -> IF version[p] = Latest THEN "latest" ELSE "mkdir"
                 [] job[p].cmd = "use" -> "truncate"
                 [] job[p].cmd = "prune" -> "list"
                 [] job[p].cmd = "uninstall" -> "select")
    /\ UNCHANGED <<self, disk>>

\* resolveRuntimeVersion: the project's own version, else the latest release.
ReadSetting(p) ==
    /\ pc[p] = "read"
    /\ \/ Mine(p) = Torn /\ Finish(p, "refused") /\ UNCHANGED version
       \/ Mine(p) \in Version /\ version' = [version EXCEPT ![p] = Mine(p)] /\ Goto(p, "mkdir")
       \/ Mine(p) \in {Latest, Unset} /\ Goto(p, "latest") /\ UNCHANGED version
    /\ UNCHANGED <<asset, listed, doomed, disk>>

\* The release index; a run that cannot get it takes the newest directory there is.
FindLatest(p) ==
    /\ pc[p] = "latest"
    /\ \/ version' = [version EXCEPT ![p] = Released] /\ Goto(p, "mkdir")
       \/ /\ job[p].cmd = "run" /\ dirs # {}
          /\ version' = [version EXCEPT ![p] = Max(dirs)] /\ Goto(p, "mkdir")
       \/ /\ job[p].cmd = "install" \/ dirs = {}
          /\ Finish(p, "cutoff") /\ UNCHANGED version
    /\ UNCHANGED <<asset, listed, doomed, disk>>

MakeDir(p) ==
    /\ pc[p] = "mkdir"
    /\ dirs' = dirs \union {version[p]}
    /\ asset' = [asset EXCEPT ![p] = 1]
    /\ Goto(p, "checksum")
    /\ UNCHANGED <<version, listed, doomed, at, fd, bytes, runnable, shaken, setting>>

NextAsset(p) ==
    /\ asset' = [asset EXCEPT ![p] = IF @ = Assets THEN 0 ELSE @ + 1]
    /\ Goto(p, IF asset[p] = Assets THEN "manifest" ELSE "checksum")

\* ensureCachedAsset: the published checksum is fetched first, whatever is cached.
Cached(v, a)       == IsWhole(v, a)

Verify(p) ==
    /\ pc[p] = "checksum"
    /\ \/ /\ Cached(version[p], asset[p])
          /\ runnable' = runnable \union
                {Final(version[p], a) : a \in {asset[p]} \intersect Executable}
          /\ NextAsset(p) /\ UNCHANGED dirs
       \/ /\ ~Cached(version[p], asset[p])
          /\ dirs' = dirs \union {version[p]}
          /\ Goto(p, "fetch") /\ UNCHANGED <<asset, runnable>>
    /\ UNCHANGED <<version, listed, doomed, at, fd, bytes, shaken, setting>>

\* No network, or what came is not what was published: then the temporary file goes.
\* Or the disk refuses a step of the install: what has been written until then stays.
Writing == {"mkdir", "open", "write", "chmod", "rename", "manifest"}

CutOff(p) ==
    /\ pc[p] \in {"checksum", "fetch"} \union Writing
    /\ Finish(p, "cutoff")
    /\ \/ UNCHANGED at
       \/ pc[p] = "fetch" /\ at' = [at EXCEPT ![version[p]][<<asset[p], "tmp">>] = NoFile]
    /\ UNCHANGED <<self, dirs, fd, bytes, runnable, shaken, setting>>

Fetch(p) == pc[p] = "fetch" /\ Goto(p, "open") /\ UNCHANGED <<self, disk>>

Tmp(p) == at[version[p]][<<asset[p], "tmp">>]

\* writeFileSync(tmp), first half: the file is made, or truncated if it is there,
\* under the feet of whoever is writing it.
OpenTmp(p) ==
    /\ pc[p] = "open" /\ version[p] \in dirs
    /\ LET i == IF Tmp(p) = NoFile THEN <<p, asset[p]>> ELSE Tmp(p)
       IN  /\ at' = [at EXCEPT ![version[p]][<<asset[p], "tmp">>] = i]
           /\ fd' = [fd EXCEPT ![p] = i]
           /\ bytes' = [bytes EXCEPT ![i] = "partial"]
           /\ shaken' = (shaken \ {p}) \union {q \in Proc \ {p} : pc[q] = "write" /\ fd[q] = i}
    /\ Goto(p, "write")
    /\ UNCHANGED <<self, dirs, runnable, setting>>

\* Second half.  What was written before another truncated the file is lost.
Write(p) ==
    /\ pc[p] = "write"
    /\ \/ bytes' = [bytes EXCEPT ![fd[p]] = "whole"]
       \/ p \in shaken /\ UNCHANGED bytes
    /\ Goto(p, IF asset[p] \in Executable THEN "chmod" ELSE "rename")
    /\ UNCHANGED <<self, dirs, at, fd, runnable, shaken, setting>>

Chmod(p) ==
    /\ pc[p] = "chmod" /\ Tmp(p) # NoFile
    /\ runnable' = runnable \union {Tmp(p)}
    /\ Goto(p, "rename")
    /\ UNCHANGED <<self, dirs, at, fd, bytes, shaken, setting>>

\* A mutant: the file is verified once more where it now is, and removed if it is bad.
RenameAndVerify(p) ==
    /\ pc[p] = "rename" /\ Tmp(p) # NoFile
    /\ LET ok == bytes[Tmp(p)] = "whole"
       IN  /\ at' = [at EXCEPT ![version[p]][<<asset[p], "final">>] =
                                    IF ok THEN Tmp(p) ELSE NoFile,
                               ![version[p]][<<asset[p], "tmp">>] = NoFile]
           /\ \/ ok /\ NextAsset(p)
              \/ ~ok /\ Finish(p, "failed") /\ UNCHANGED asset
    /\ UNCHANGED <<version, listed, doomed, dirs, fd, bytes, runnable, shaken, setting>>

\* renameSync moves whatever is at the temporary path by now.
Rename(p) ==
    /\ pc[p] = "rename" /\ Tmp(p) # NoFile
    /\ at' = [at EXCEPT ![version[p]][<<asset[p], "final">>] = Tmp(p),
                        ![version[p]][<<asset[p], "tmp">>] = NoFile]
    /\ NextAsset(p)
    /\ UNCHANGED <<version, listed, doomed, dirs, fd, bytes, runnable, shaken, setting>>

\* The directory or the temporary file has gone: ENOENT.
FileGone(p) ==
    /\ \/ pc[p] \in {"open", "manifest"} /\ version[p] \notin dirs
       \/ pc[p] \in {"chmod", "rename"} /\ Tmp(p) = NoFile
    /\ Finish(p, "failed")
    /\ UNCHANGED <<self, disk>>

WriteManifest(p) ==
    /\ pc[p] = "manifest" /\ version[p] \in dirs
    /\ at' = [at EXCEPT ![version[p]][<<0, "final">>] = IF @ = NoFile THEN <<p, 0>> ELSE @]
    /\ Goto(p, "exec")
    /\ UNCHANGED <<self, dirs, fd, bytes, runnable, shaken, setting>>

\* The runtime is handed to its user: run starts the binary, install reports it.
HandOver(p) ==
    /\ pc[p] = "exec"
    /\ Finish(p, IF Usable(version[p]) THEN "ready" ELSE "unusable")
    /\ UNCHANGED <<self, disk>>

-----------------------------------------------------------------------------
\* writeProjectRuntimeConfig
TruncateSetting(p) ==
    /\ pc[p] = "truncate"
    /\ setting' = [setting EXCEPT ![job[p].project] = Torn]
    /\ Goto(p, "fill")
    /\ UNCHANGED <<self, dirs, at, fd, bytes, runnable, shaken>>

FillSetting(p) ==
    /\ pc[p] = "fill"
    /\ setting' = [setting EXCEPT ![job[p].project] = job[p].version]
    /\ Finish(p, "ready")
    /\ UNCHANGED <<self, dirs, at, fd, bytes, runnable, shaken>>

\* listInstalledRuntimes: every directory, however little there is in it.
List(p) ==
    /\ pc[p] = "list"
    /\ listed' = [listed EXCEPT ![p] = dirs]
    /\ Goto(p, "select")
    /\ UNCHANGED <<version, asset, doomed, disk>>

\* pruneRuntimeCache keeps the project's version if it is installed, else the newest.
Kept(S, s)         == IF s \in S THEN {s} ELSE {Max(S)}

ToRemove(p) ==
    IF job[p].cmd = "uninstall" THEN {version[p]} \intersect dirs
    ELSE IF listed[p] = {} THEN {}
    ELSE listed[p] \ Kept(listed[p], Mine(p))

\* uninstall refuses the project's version (there is no --force here).
Select(p) ==
    /\ pc[p] = "select"
    /\ \/ /\ Mine(p) = Torn \/ (job[p].cmd = "uninstall" /\ Mine(p) = version[p])
          /\ Finish(p, "refused") /\ UNCHANGED listed
       \/ /\ Mine(p) # Torn /\ ~(job[p].cmd = "uninstall" /\ Mine(p) = version[p])
          /\ listed' = [listed EXCEPT ![p] = ToRemove(p)]
          /\ Goto(p, "rmdir")
    /\ UNCHANGED <<version, asset, doomed, disk>>

\* rmSync of a directory: what is in it when it is read, path by path, then itself.
ReadDir(p) ==
    /\ pc[p] = "rmdir" /\ listed[p] # {}
    /\ LET v == Max(listed[p])
       IN  /\ version' = [version EXCEPT ![p] = v]
           /\ doomed'  = [doomed EXCEPT ![p] = {x \in Path : at[v][x] # NoFile}]
    /\ Goto(p, "unlink")
    /\ UNCHANGED <<asset, listed, disk>>

Unlink(p) ==
    /\ pc[p] = "unlink"
    /\ \E x \in doomed[p] :
          /\ at' = [at EXCEPT ![version[p]][x] = NoFile]
          /\ doomed' = [doomed EXCEPT ![p] = @ \ {x}]
    /\ UNCHANGED <<pc, result, version, asset, listed, dirs, fd, bytes, runnable, shaken, setting>>

\* A file that has come meanwhile keeps the directory, and the command fails.
RemoveDir(p) ==
    /\ pc[p] = "unlink" /\ doomed[p] = {}
    /\ IF \E x \in Path : at[version[p]][x] # NoFile
       THEN Finish(p, "failed") /\ UNCHANGED <<dirs, listed>>
       ELSE /\ dirs' = dirs \ {version[p]}
            /\ listed' = [listed EXCEPT ![p] = @ \ {version[p]}]
            /\ Goto(p, "rmdir")
    /\ UNCHANGED <<version, asset, doomed, at, fd, bytes, runnable, shaken, setting>>

Removed(p) ==
    /\ pc[p] = "rmdir" /\ listed[p] = {}
    /\ Finish(p, "ready")
    /\ UNCHANGED <<self, disk>>

Kill(p) ==
    /\ p \in Killable /\ pc[p] \notin {"idle", "done", "dead"}
    /\ pc' = [pc EXCEPT ![p] = "dead"]
    /\ UNCHANGED <<result, self, disk>>

Step(p) ==
    \/ Start(p) \/ ReadSetting(p) \/ FindLatest(p) \/ MakeDir(p) \/ Verify(p) \/ CutOff(p)
    \/ Fetch(p) \/ OpenTmp(p) \/ Write(p) \/ Chmod(p) \/ Rename(p) \/ FileGone(p)
    \/ WriteManifest(p) \/ HandOver(p) \/ TruncateSetting(p) \/ FillSetting(p)
    \/ List(p) \/ Select(p) \/ ReadDir(p) \/ Unlink(p) \/ RemoveDir(p) \/ Removed(p)

Running == {p \in Proc : pc[p] \notin {"idle", "done", "dead"}}
Over    == \A p \in Proc : pc[p] \in {"done", "dead"}

Next ==
    \/ /\ \E p \in Proc : Step(p) \/ Kill(p)
       /\ crowded' = crowded \union
                        (IF Cardinality(Running') > 1 THEN Running' ELSE {})
       /\ UNCHANGED job
    \/ Over /\ UNCHANGED vars

Spec == Init /\ [][Next]_vars

-----------------------------------------------------------------------------
Preparing(p) == job[p].cmd \in {"run", "install"}

\* Whatever processes that raced or were killed have left in the cache, a run or an
\* install that nothing is beside, and that network and disk do not fail, ends with a
\* runtime all of whose files are whole and executable (ensureCachedAsset compares
\* what is there with the published checksum and replaces the file as a whole).
\* And processes that install one version at the same time, through the same temporary
\* files, may fail one another, but not all: once they have ended, and nobody was
\* killed, cut off or removing anything, each version that was asked for has every
\* file whole, and one of the commands that asked for it did not fail.
CacheServes ==
    /\ \A p \in Proc :
         (Preparing(p) /\ pc[p] = "done" /\ p \notin crowded)
             => result[p] \in {"ready", "cutoff", "refused"}
    /\ (/\ Over /\ \A p \in Proc : pc[p] = "done" /\ result[p] # "cutoff"
        /\ \A p \in Proc : job[p].cmd \notin {"prune", "uninstall"})
         => \A p \in Proc : (Preparing(p) /\ result[p] # "refused") =>
               /\ \A a \in Asset : IsWhole(version[p], a)
               /\ \E q \in Proc : /\ Preparing(q) /\ version[q] = version[p]
                                  /\ result[q] \in {"ready", "unusable"}
=============================================================================
