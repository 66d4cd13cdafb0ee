------------------------ MODULE RuntimeManagerProofs ------------------------
(***************************************************************************)
(* What TLAPS proves of RuntimeManager, for every number of processes,     *)
(* projects, versions and files of a runtime, and every choice of who may  *)
(* be killed: the cache serves whoever is alone with it, and of those who  *)
(* install one version through the same temporary files not all fail.      *)
(***************************************************************************)
EXTENDS RuntimeManager, FiniteSetTheorems, WellFoundedInduction, TLAPS

-----------------------------------------------------------------------------
(* The inductive invariant.                                                  *)

OnAsset    == {"checksum", "fetch", "open", "write", "chmod", "rename"}
Installing == OnAsset \union {"manifest", "exec"}
Resolving  == {"read", "latest", "mkdir"}
Removing   == {"list", "select", "rmdir", "unlink"}
Selecting  == {"truncate", "fill"}
Resting    == {"idle", "done", "dead"}
Places     == OnAsset \union {"manifest", "exec"} \union Resolving \union Removing
                \union Selecting \union Resting

TypeOK ==
    /\ job \in [Proc -> Job] /\ pc \in [Proc -> Places]
    /\ version \in [Proc -> Version \union {Latest}] /\ asset \in [Proc -> 0..Assets]
    /\ listed \in [Proc -> SUBSET Version] /\ doomed \in [Proc -> SUBSET Path]
    /\ result \in [Proc -> Result] /\ dirs \in SUBSET Version
    /\ at \in [Version -> [Path -> Inode \union {NoFile}]]
    /\ fd \in [Proc -> Inode \union {NoFile}]
    /\ bytes \in [Inode -> {"none", "partial", "whole"}]
    /\ runnable \in SUBSET Inode /\ shaken \in SUBSET Proc
    /\ setting \in [Project -> Setting] /\ crowded \in SUBSET Proc

\* Which commands get where, and what they have in hand there.
Post(p) ==
    /\ pc[p] \in Resolving \union Installing => Preparing(p)
    /\ pc[p] \in Removing => job[p].cmd \in {"prune", "uninstall"}
    /\ pc[p] \in Selecting => job[p].cmd = "use"
    /\ pc[p] \in {"mkdir", "unlink"} \union Installing => version[p] \in Version
    /\ pc[p] \in OnAsset => asset[p] \in Asset
    /\ pc[p] \in {"manifest", "exec"} => asset[p] = 0
    /\ pc[p] = "write" => fd[p] \in Inode
    /\ result[p] # "none" <=> pc[p] = "done"
    /\ Preparing(p) /\ result[p] \in {"ready", "unusable", "failed"} => version[p] \in Version

Posts == \A p \in Proc : Post(p)

\* A path leads to an inode made for its asset, in which something has been written.
Link(v, x) == at[v][x] # NoFile => /\ at[v][x][2] = x[1]
                                   /\ x[1] # 0 => bytes[at[v][x]] # "none"
Links == \A v \in Version, x \in Path : Link(v, x)

\* The assets a process has behind it.
Behind(p, a)   == pc[p] \in Installing /\ (asset[p] = 0 \/ a < asset[p])
Sound(v, a)    == IsWhole(v, a) /\ (a \in Executable => Final(v, a) \in runnable)

\* What a process that prepares a runtime has done, if nobody was beside it.
Undisturbed(p) ==
    /\ pc[p] \in Installing => version[p] \in dirs
    /\ \A a \in Asset : Behind(p, a) => Sound(version[p], a)
    /\ pc[p] = "write" => Tmp(p) = fd[p] /\ p \notin shaken
    /\ pc[p] \in {"chmod", "rename"} => Tmp(p) # NoFile /\ bytes[Tmp(p)] = "whole"
    /\ pc[p] = "rename" /\ asset[p] \in Executable => Tmp(p) \in runnable

Served(p) == Preparing(p) /\ pc[p] = "done" => result[p] \in {"ready", "cutoff", "refused"}

Alone ==
    /\ IsFiniteSet(Running)
    /\ \A p \in Proc \ crowded : /\ Served(p)
                                 /\ p \in Running => Running = {p} /\ Undisturbed(p)

\* Nobody has been killed, cut off or is there to remove anything.
Calm == \A p \in Proc : /\ pc[p] # "dead" /\ result[p] # "cutoff"
                        /\ job[p].cmd \notin {"prune", "uninstall"}

\* A file that is torn is being written, by somebody under whom it was not emptied.
TornIsWritten ==
    \A i \in Inode : bytes[i] = "partial" =>
        \E p \in Proc : pc[p] = "write" /\ fd[p] = i /\ p \notin shaken

\* Whoever has put an asset behind it, has lost its temporary file or has ended has
\* done so because the asset is there.
There(v, a)    == Final(v, a) # NoFile
HandedOver(p)  == Preparing(p) /\ pc[p] = "done" /\ result[p] \in {"ready", "unusable"}
Progress(p) ==
    /\ pc[p] \in Installing => version[p] \in dirs
    /\ \A a \in Asset : Behind(p, a) \/ HandedOver(p) => There(version[p], a)
    /\ pc[p] \in {"write", "chmod", "rename"} =>
          Tmp(p) # NoFile \/ There(version[p], asset[p])
    /\ Preparing(p) /\ result[p] = "failed" => \E a \in Asset : There(version[p], a)

\* Somebody has every asset that is there behind it, and has not failed.
Carries(p, v, a) == Preparing(p) /\ version[p] = v /\ (Behind(p, a) \/ HandedOver(p))
Carried == \A v \in Version, a \in Asset : There(v, a) => \E p \in Proc : Carries(p, v, a)

Race == Calm => TornIsWritten /\ (\A p \in Proc : Progress(p)) /\ Carried

CacheInv == TypeOK /\ Posts /\ Links /\ Alone /\ Race

-----------------------------------------------------------------------------
(* Operators.                                                                *)

\* Max of the directories there are: of finitely many numbers one is the greatest.
LEMMA Greatest ==
    ASSUME NEW S \in SUBSET Version, S # {}
    PROVE  Max(S) \in S
<1> DEFINE Topless == {T \in FiniteSubsetsOf(Version) :
                         T # {} /\ ~ \E x \in T : \A y \in T : x >= y}
<1>1. IsFiniteSet(S) /\ Version \subseteq Nat
  BY RuntimeAssumption, FS_Subset
<1>2. Topless = {}
  <2> SUFFICES ASSUME Topless # {} PROVE FALSE
    OBVIOUS
  <2>1. IsWellFoundedOn(StrictSubsetOrdering(Version), FiniteSubsetsOf(Version))
    BY FS_StrictSubsetOrderingWellFounded
  <2>2. PICK T \in Topless : \A U \in Topless : ~ (<<U, T>> \in StrictSubsetOrdering(Version))
    <3>1. Topless \in SUBSET FiniteSubsetsOf(Version)
      OBVIOUS
    <3> HIDE DEF Topless
    <3> QED  BY <2>1, <3>1, WFMin, Zenon
  <2>3. /\ T \in SUBSET Version /\ IsFiniteSet(T) /\ T # {}
        /\ ~ \E x \in T : \A y \in T : x >= y
    BY <2>2 DEF FiniteSubsetsOf
  <2>4. PICK x \in T : TRUE
    BY <2>3
  <2>5. T \ {x} \in FiniteSubsetsOf(Version) /\ <<T \ {x}, T>> \in StrictSubsetOrdering(Version)
    BY <2>3, <2>4, FS_RemoveElement DEF FiniteSubsetsOf, StrictSubsetOrdering
  <2>6. T \ {x} \notin Topless
    BY <2>2, <2>5
  <2>7. CASE T \ {x} = {}
    BY <1>1, <2>3, <2>4, <2>7
  <2>8. CASE T \ {x} # {}
    <3>1. PICK m \in T \ {x} : \A y \in T \ {x} : m >= y
      BY <2>5, <2>6, <2>8
    <3> QED  BY <1>1, <2>3, <2>4, <3>1
  <2> QED  BY <2>7, <2>8
<1>3. S \in FiniteSubsetsOf(Version)
  BY <1>1 DEF FiniteSubsetsOf
<1>4. \E x \in S : \A y \in S : x >= y
  BY <1>2, <1>3
<1> QED  BY <1>4 DEF Max

\* The two names of an asset.
LEMMA Names ==
    ASSUME NEW a \in 0..Assets
    PROVE  /\ <<a, "tmp">> \in Path /\ <<a, "final">> \in Path
           /\ <<a, "tmp">> # <<a, "final">>
           /\ \A x \in Path : x[1] = a => x = <<a, "tmp">> \/ x = <<a, "final">>
<1>1. Path = (0..Assets) \X {"tmp", "final"}
  BY DEF Path
<1> QED  BY <1>1

\* The first asset is there, and is the binary.
LEMMA Numbers ==
    /\ Assets \in Nat /\ 1 \in Asset /\ Executable = {1}
    /\ \A a \in Asset : a \in 0..Assets /\ a # 0
    /\ \A a \in 0..Assets : a # 0 => a \in Asset
BY RuntimeAssumption DEF Asset, Executable

-----------------------------------------------------------------------------
(* Types.                                                                    *)

\* It all begins with its types, with nothing in the cache.
LEMMA TypesBegin == Init => TypeOK /\ Posts /\ Links
<1> SUFFICES ASSUME Init PROVE TypeOK /\ Posts /\ Links
  OBVIOUS
<1>1. PICK c \in Casts : job = c.job /\ setting = c.setting
  BY DEF Init
<1>2. job \in [Proc -> Job] /\ setting \in [Project -> Setting]
  BY <1>1, RuntimeAssumption
<1>3. \A p \in Proc : job[p].version \in Version \union {Latest}
  BY <1>2 DEF Job
<1>4. TypeOK
  BY <1>2, <1>3, Numbers DEF Init, TypeOK, Places, Resting, Result
<1>5. Posts
  BY <1>2 DEF Init, Posts, Post, Resolving, Installing, OnAsset, Removing, Selecting
<1>6. Links
  BY DEF Init, Links, Link
<1> QED  BY <1>4, <1>5, <1>6

\* Where a process may go, and how it ends.
LEMMA Going ==
    ASSUME TypeOK, NEW p \in Proc
    PROVE  /\ \A l \in Places : Goto(p, l) =>
                 /\ pc' \in [Proc -> Places] /\ pc'[p] = l /\ result' = result
                 /\ \A q \in Proc \ {p} : pc'[q] = pc[q]
           /\ \A r \in Result : Finish(p, r) =>
                 /\ pc' \in [Proc -> Places] /\ pc'[p] = "done"
                 /\ result' \in [Proc -> Result] /\ result'[p] = r
                 /\ \A q \in Proc \ {p} : pc'[q] = pc[q] /\ result'[q] = result[q]
<1>1. ASSUME NEW l \in Places, Goto(p, l)
      PROVE  /\ pc' \in [Proc -> Places] /\ pc'[p] = l /\ result' = result
             /\ \A q \in Proc \ {p} : pc'[q] = pc[q]
  BY <1>1 DEF TypeOK, Goto
<1>2. ASSUME NEW r \in Result, Finish(p, r)
      PROVE  /\ pc' \in [Proc -> Places] /\ pc'[p] = "done"
             /\ result' \in [Proc -> Result] /\ result'[p] = r
             /\ \A q \in Proc \ {p} : pc'[q] = pc[q] /\ result'[q] = result[q]
  <2>1. "done" \in Places
    BY DEF Places, Resting
  <2> QED  BY <1>2, <2>1 DEF TypeOK, Finish
<1> QED  BY <1>1, <1>2


\* A table of tables with one entry replaced.
LEMMA Replacing ==
    ASSUME NEW V, NEW P, NEW I, NEW f \in [V -> [P -> I]], NEW v \in V, NEW x \in P, NEW i \in I
    PROVE  /\ [f EXCEPT ![v][x] = i] \in [V -> [P -> I]]
           /\ [f EXCEPT ![v][x] = i][v][x] = i
           /\ \A w \in V, y \in P : w # v \/ y # x => [f EXCEPT ![v][x] = i][w][y] = f[w][y]
OBVIOUS

\* What leads where after a path has been given an inode.
LEMMA Linking ==
    ASSUME TypeOK, NEW v \in Version, NEW x \in Path, NEW i \in Inode \union {NoFile},
           at' = [at EXCEPT ![v][x] = i]
    PROVE  /\ at' \in [Version -> [Path -> Inode \union {NoFile}]]
           /\ at'[v][x] = i
           /\ \A w \in Version, y \in Path : w # v \/ y # x => at'[w][y] = at[w][y]
<1>1. at \in [Version -> [Path -> Inode \union {NoFile}]]
  BY DEF TypeOK
<1> QED  BY <1>1, Replacing

\* What stands under the names of an asset.
LEMMA Standing ==
    ASSUME TypeOK, NEW v \in Version, NEW a \in 0..Assets
    PROVE  /\ at[v][<<a, "tmp">>] \in Inode \union {NoFile}
           /\ at[v][<<a, "final">>] \in Inode \union {NoFile}
           /\ Final(v, a) \in Inode \union {NoFile}
<1>1. <<a, "tmp">> \in Path /\ <<a, "final">> \in Path
  BY Names
<1>2. \A x \in Path : at[v][x] \in Inode \union {NoFile}
  BY DEF TypeOK
<1> QED  BY <1>1, <1>2 DEF Final

USE DEF OnAsset, Installing, Resolving, Removing, Selecting, Resting

\* The file a process opens to write to, which is new or found under the temporary name.
LEMMA OpenEffect ==
    ASSUME TypeOK, Posts, NEW p \in Proc, OpenTmp(p)
    PROVE  /\ version[p] \in Version /\ asset[p] \in Asset
           /\ at'[version[p]][<<asset[p], "tmp">>] \in Inode
           /\ \E i \in Inode :
                /\ i = Tmp(p) \/ i = <<p, asset[p]>>
                /\ at' = [at EXCEPT ![version[p]][<<asset[p], "tmp">>] = i]
                /\ at'[version[p]][<<asset[p], "tmp">>] = i
                /\ fd' = [fd EXCEPT ![p] = i]
                /\ bytes' = [bytes EXCEPT ![i] = "partial"]
                /\ shaken' = (shaken \ {p})
                                 \union {q \in Proc \ {p} : pc[q] = "write" /\ fd[q] = i}
<1>1. version[p] \in Version /\ asset[p] \in Asset
  BY DEF Posts, Post, OpenTmp
<1>2. asset[p] \in 0..Assets /\ <<p, asset[p]>> \in Inode
  BY <1>1, Numbers DEF Inode
<1>3. Tmp(p) \in Inode \union {NoFile}
  BY <1>1, <1>2, Standing DEF Tmp
<1> DEFINE i == IF Tmp(p) = NoFile THEN <<p, asset[p]>> ELSE Tmp(p)
<1>4. i \in Inode /\ (i = Tmp(p) \/ i = <<p, asset[p]>>)
  BY <1>2, <1>3
<1>5. /\ at' = [at EXCEPT ![version[p]][<<asset[p], "tmp">>] = i]
      /\ fd' = [fd EXCEPT ![p] = i]
      /\ bytes' = [bytes EXCEPT ![i] = "partial"]
      /\ shaken' = (shaken \ {p}) \union {q \in Proc \ {p} : pc[q] = "write" /\ fd[q] = i}
  BY DEF OpenTmp
<1> HIDE DEF i
<1>6. at'[version[p]][<<asset[p], "tmp">>] = i
  <2>1. <<asset[p], "tmp">> \in Path /\ i \in Inode \union {NoFile}
    BY <1>2, <1>4, Names
  <2> QED  BY <1>1, <1>5, <2>1, Linking
<1> QED  BY <1>1, <1>4, <1>5, <1>6

\* The file a process renames was the temporary one and is the asset now.
LEMMA RenameEffect ==
    ASSUME TypeOK, Posts, NEW p \in Proc, Rename(p)
    PROVE  /\ version[p] \in Version /\ asset[p] \in Asset /\ Tmp(p) \in Inode
           /\ at' \in [Version -> [Path -> Inode \union {NoFile}]]
           /\ at'[version[p]][<<asset[p], "final">>] = Tmp(p)
           /\ at'[version[p]][<<asset[p], "tmp">>] = NoFile
           /\ \A w \in Version, y \in Path :
                 w # version[p] \/ y \notin {<<asset[p], "final">>, <<asset[p], "tmp">>}
                    => at'[w][y] = at[w][y]
<1>1. version[p] \in Version /\ asset[p] \in Asset
  BY DEF Posts, Post, Rename
<1>2. asset[p] \in 0..Assets
  BY <1>1, Numbers
<1>3. Tmp(p) \in Inode \union {NoFile} /\ Tmp(p) # NoFile
  BY <1>1, <1>2, Standing DEF Tmp, Rename
<1>4. at' = [at EXCEPT ![version[p]][<<asset[p], "final">>] = Tmp(p),
                       ![version[p]][<<asset[p], "tmp">>] = NoFile]
  BY Zenon DEF Rename
<1>5. PICK i \in Inode : i = Tmp(p)
  BY <1>3
<1> DEFINE v == version[p]
           a == asset[p]
<1> HIDE DEF v, a
<1>6. /\ v \in Version /\ a \in 0..Assets
      /\ at' = [at EXCEPT ![v][<<a, "final">>] = i, ![v][<<a, "tmp">>] = NoFile]
  BY <1>1, <1>2, <1>4, <1>5 DEF v, a
<1>7. /\ at' \in [Version -> [Path -> Inode \union {NoFile}]]
      /\ at'[v][<<a, "final">>] = i
      /\ at'[v][<<a, "tmp">>] = NoFile
      /\ \A w \in Version, y \in Path :
            w # v \/ y \notin {<<a, "final">>, <<a, "tmp">>} => at'[w][y] = at[w][y]
  <2>1. at \in [Version -> [Path -> Inode \union {NoFile}]]
    BY DEF TypeOK
  <2>2. <<a, "tmp">> \in Path /\ <<a, "final">> \in Path /\ <<a, "tmp">> # <<a, "final">>
    BY <1>6, Names
  <2>3. i \in Inode \union {NoFile} /\ NoFile \in Inode \union {NoFile}
    OBVIOUS
  <2> DEFINE A == [at EXCEPT ![v][<<a, "final">>] = i]
  <2>4. at' = [A EXCEPT ![v][<<a, "tmp">>] = NoFile]
    BY <1>6
  <2>5. /\ A \in [Version -> [Path -> Inode \union {NoFile}]]
        /\ A[v][<<a, "final">>] = i
        /\ \A w \in Version, y \in Path : w # v \/ y # <<a, "final">> => A[w][y] = at[w][y]
    BY <1>6, <2>1, <2>2, <2>3, Replacing
  <2> HIDE DEF A
  <2>6. /\ at' \in [Version -> [Path -> Inode \union {NoFile}]]
        /\ at'[v][<<a, "tmp">>] = NoFile
        /\ \A w \in Version, y \in Path : w # v \/ y # <<a, "tmp">> => at'[w][y] = A[w][y]
    <3> DEFINE x == <<a, "tmp">>
               B == [A EXCEPT ![v][x] = NoFile]
    <3>1. x \in Path /\ at' = B
      BY <2>2, <2>4
    <3> HIDE DEF x
    <3>2. /\ B \in [Version -> [Path -> Inode \union {NoFile}]]
          /\ B[v][x] = NoFile
          /\ \A w \in Version, y \in Path : w # v \/ y # x => B[w][y] = A[w][y]
      BY <1>6, <2>3, <2>5, <3>1, Replacing
    <3> HIDE DEF B
    <3>3. /\ at' \in [Version -> [Path -> Inode \union {NoFile}]]
          /\ at'[v][x] = NoFile
          /\ \A w \in Version, y \in Path : w # v \/ y # x => at'[w][y] = A[w][y]
      BY <3>1, <3>2
    <3> QED  BY <3>3 DEF x
  <2> QED
    <3>1. \A w \in Version, y \in Path :
             w # v \/ y \notin {<<a, "final">>, <<a, "tmp">>} => at'[w][y] = at[w][y]
      BY <2>5, <2>6
    <3>2. at'[v][<<a, "final">>] = i
      BY <2>2, <2>5, <2>6
    <3> QED  BY <2>6, <3>1, <3>2
<1> QED  BY <1>1, <1>5, <1>7 DEF v, a

\* What a step of one process leaves to the others.
Elsewhere(p) ==
    \A q \in Proc \ {p} : /\ pc'[q] = pc[q] /\ result'[q] = result[q] /\ job'[q] = job[q]
                          /\ version'[q] = version[q] /\ asset'[q] = asset[q] /\ fd'[q] = fd[q]

\* Every step keeps the types, and where it takes its process.
LEMMA StepTypes ==
    ASSUME TypeOK, Posts, NEW p \in Proc, Step(p) \/ Kill(p), job' = job, crowded' \in SUBSET Proc
    PROVE  TypeOK' /\ Post(p)' /\ Elsewhere(p)
<1> USE Going, Numbers DEF Places, self, disk
<1>1. Post(p) /\ job[p] \in Job /\ job'[p] = job[p]
  BY DEF Posts, TypeOK
<1>2. CASE Start(p)
  <2> DEFINE to == CASE job[p].cmd = "run" -> "read"
                     [] job[p].cmd = "install" -> IF version[p] = Latest THEN "latest" ELSE "mkdir"
                     [] job[p].cmd = "use" -> "truncate"
                     [] job[p].cmd = "prune" -> "list"
                     [] job[p].cmd = "uninstall" -> "select"
  <2>1. pc[p] = "idle" /\ Goto(p, to) /\ UNCHANGED <<self, disk>>
    BY <1>2 DEF Start
  <2>2. /\ to \in Places
        /\ to \in Resolving => Preparing(p) /\ (to = "mkdir" => version[p] # Latest)
        /\ to \in Selecting => job[p].cmd = "use"
        /\ to \in Removing => job[p].cmd \in {"prune", "uninstall"}
        /\ to \in Resolving \union Selecting \union {"list", "select"}
    BY <1>1 DEF Job, Preparing
  <2> HIDE DEF to
  <2>3. pc'[p] = to
    BY <2>1, <2>2
  <2>4. TypeOK'
    BY <2>1, <2>2 DEF TypeOK
  <2>5. Post(p)'
    <3>1. result' = result /\ UNCHANGED <<job, version, asset>>
      BY <2>1, <2>2
    <3>2. result[p] = "none"
      BY <1>1, <2>1 DEF Post
    <3>3. version[p] \in Version \union {Latest}
      BY DEF TypeOK
    <3> QED  BY <2>2, <2>3, <3>1, <3>2, <3>3 DEF Post, Preparing
  <2>6. Elsewhere(p)
    BY <2>1, <2>2 DEF TypeOK, Elsewhere
  <2> QED  BY <2>4, <2>5, <2>6
<1>3. CASE ReadSetting(p)
  <2>1. TypeOK'
    BY <1>1, <1>3 DEF TypeOK, Job, Result, ReadSetting, Post, Mine, Setting
  <2>2. Post(p)'
    BY <1>1, <1>3, <2>1 DEF TypeOK, Job, Result, ReadSetting, Post, Preparing, Mine, Setting
  <2>3. Elsewhere(p)
    BY <1>3 DEF TypeOK, Result, ReadSetting, Elsewhere, Mine, Setting
  <2> QED  BY <2>1, <2>2, <2>3
<1>4. CASE FindLatest(p)
  <2>1. dirs # {} => Max(dirs) \in Version
    BY Greatest DEF TypeOK
  <2>2. Released \in Version
    BY RuntimeAssumption
  <2>3. /\ version'[p] \in Version \union {Latest}
        /\ version' = [version EXCEPT ![p] = version'[p]]
        /\ \/ Goto(p, "mkdir") /\ version'[p] \in Version
           \/ Finish(p, "cutoff")
    BY <1>4, <2>1, <2>2 DEF FindLatest, TypeOK
  <2>4. TypeOK'
    BY <1>1, <1>4, <2>3 DEF TypeOK, Result, FindLatest
  <2>5. Post(p)'
    BY <1>1, <1>4, <2>3, <2>4 DEF TypeOK, Result, FindLatest, Post, Preparing
  <2>6. Elsewhere(p)
    BY <1>4, <2>3 DEF TypeOK, Result, FindLatest, Elsewhere
  <2> QED  BY <2>4, <2>5, <2>6
<1>5. CASE MakeDir(p)
  <2>1. TypeOK'
    BY <1>1, <1>5 DEF TypeOK, Job, Result, MakeDir, Post
  <2>2. Post(p)'
    BY <1>1, <1>5, <2>1 DEF TypeOK, Job, Result, MakeDir, Post, Preparing
  <2>3. Elsewhere(p)
    BY <1>5 DEF TypeOK, Result, MakeDir, Elsewhere
  <2> QED  BY <2>1, <2>2, <2>3
<1>6. CASE Verify(p)
  <2>1. version[p] \in Version /\ asset[p] \in Asset /\ Preparing(p)
    BY <1>1, <1>6 DEF Post, Verify
  <2>2. Final(version[p], asset[p]) \in Inode \union {NoFile}
    BY <2>1, Standing
  <2>3. runnable' \in SUBSET Inode
    BY <1>6, <2>1, <2>2 DEF Verify, Cached, IsWhole, TypeOK
  <2>4. dirs' \in SUBSET Version /\ asset' \in [Proc -> 0..Assets]
    BY <1>6, <2>1 DEF Verify, NextAsset, TypeOK
  <2>5. TypeOK'
    BY <1>6, <2>3, <2>4 DEF TypeOK, Verify, NextAsset
  <2>6. Post(p)'
    BY <1>1, <1>6, <2>1, <2>5 DEF TypeOK, Verify, Post, Preparing, NextAsset
  <2>7. Elsewhere(p)
    BY <1>6 DEF TypeOK, Verify, Elsewhere, NextAsset
  <2> QED  BY <2>5, <2>6, <2>7
<1>7. CASE CutOff(p)
  <2>1. pc[p] = "fetch" => version[p] \in Version /\ asset[p] \in 0..Assets
    BY <1>1 DEF Post, TypeOK, Installing, OnAsset
  <2>2. at' \in [Version -> [Path -> Inode \union {NoFile}]]
    <3> DEFINE x == <<asset[p], "tmp">>
    <3>1. at' = at \/ (pc[p] = "fetch" /\ at' = [at EXCEPT ![version[p]][x] = NoFile])
      BY <1>7 DEF CutOff, Writing
    <3>2. pc[p] = "fetch" => x \in Path
      BY <2>1, Names
    <3> HIDE DEF x
    <3>3. NoFile \in Inode \union {NoFile}
      OBVIOUS
    <3>4. CASE at' = at
      BY <3>4 DEF TypeOK
    <3>5. CASE pc[p] = "fetch" /\ at' = [at EXCEPT ![version[p]][x] = NoFile]
      BY <2>1, <3>2, <3>3, <3>5, Linking
    <3> QED  BY <3>1, <3>4, <3>5
  <2>3. TypeOK'
    BY <1>7, <2>2 DEF TypeOK, Result, CutOff, Writing
  <2>4. Post(p)'
    BY <1>1, <1>7 DEF TypeOK, Result, CutOff, Writing, Post, Preparing
  <2>5. Elsewhere(p)
    BY <1>7 DEF TypeOK, Result, CutOff, Writing, Elsewhere
  <2> QED  BY <2>3, <2>4, <2>5
<1>8. CASE Fetch(p)
  <2>1. TypeOK'
    BY <1>1, <1>8 DEF TypeOK, Job, Result, Fetch, Post
  <2>2. Post(p)'
    BY <1>1, <1>8, <2>1 DEF TypeOK, Job, Result, Fetch, Post, Preparing
  <2>3. Elsewhere(p)
    BY <1>8 DEF TypeOK, Result, Fetch, Elsewhere
  <2> QED  BY <2>1, <2>2, <2>3
<1>9. CASE OpenTmp(p)
  <2>1. version[p] \in Version /\ asset[p] \in 0..Assets /\ <<p, asset[p]>> \in Inode
    BY <1>1, <1>9 DEF Post, OpenTmp, Inode
  <2>2. PICK i \in Inode :
            /\ i = Tmp(p) \/ i = <<p, asset[p]>>
            /\ at' = [at EXCEPT ![version[p]][<<asset[p], "tmp">>] = i]
            /\ at'[version[p]][<<asset[p], "tmp">>] = i
            /\ fd' = [fd EXCEPT ![p] = i]
            /\ bytes' = [bytes EXCEPT ![i] = "partial"]
            /\ shaken' = (shaken \ {p}) \union {q \in Proc \ {p} : pc[q] = "write" /\ fd[q] = i}
    BY <1>9, OpenEffect, Zenon
  <2>3. at' \in [Version -> [Path -> Inode \union {NoFile}]]
    BY <2>1, <2>2, Linking, Names
  <2>4. TypeOK'
    BY <1>9, <2>2, <2>3 DEF TypeOK, OpenTmp
  <2>5. Post(p)'
    <3>1. pc'[p] = "write" /\ result' = result /\ UNCHANGED <<job, version, asset>>
      BY <1>9 DEF OpenTmp
    <3>2. fd'[p] = i
      BY <2>2 DEF TypeOK
    <3> QED  BY <1>1, <1>9, <3>1, <3>2 DEF OpenTmp, Post, Preparing
  <2>6. Elsewhere(p)
    BY <1>9, <2>2 DEF TypeOK, OpenTmp, Elsewhere
  <2> QED  BY <2>4, <2>5, <2>6
<1>10. CASE Write(p)
  <2>1. fd[p] \in Inode
    BY <1>1, <1>10 DEF Post, Write
  <2>2. bytes' \in [Inode -> {"none", "partial", "whole"}]
    BY <1>10, <2>1 DEF Write, TypeOK
  <2>3. TypeOK'
    BY <1>10, <2>2 DEF TypeOK, Write
  <2>4. Post(p)'
    BY <1>1, <1>10 DEF TypeOK, Write, Post, Preparing
  <2>5. Elsewhere(p)
    BY <1>10 DEF TypeOK, Write, Elsewhere
  <2> QED  BY <2>3, <2>4, <2>5
<1>11. CASE Chmod(p)
  <2>1. version[p] \in Version /\ asset[p] \in 0..Assets
    BY <1>1, <1>11 DEF Post, Chmod
  <2>2. Tmp(p) \in Inode
    <3>1. Tmp(p) # NoFile
      BY <1>11 DEF Chmod
    <3>2. Tmp(p) \in Inode \union {NoFile}
      BY <2>1, Standing DEF Tmp
    <3> QED  BY <3>1, <3>2
  <2>3. TypeOK'
    BY <1>11, <2>2 DEF TypeOK, Chmod
  <2>4. Post(p)'
    BY <1>1, <1>11 DEF TypeOK, Chmod, Post, Preparing
  <2>5. Elsewhere(p)
    BY <1>11 DEF TypeOK, Chmod, Elsewhere
  <2> QED  BY <2>3, <2>4, <2>5
<1>12. CASE Rename(p)
  <2>1. version[p] \in Version /\ asset[p] \in Asset /\ asset[p] \in 0..Assets /\ Preparing(p)
    BY <1>1, <1>12 DEF Post, Rename
  <2>2. Tmp(p) \in Inode
    BY <1>12, <2>1, Names DEF TypeOK, Tmp, Rename
  <2>3. at' \in [Version -> [Path -> Inode \union {NoFile}]]
    BY <1>12, RenameEffect
  <2>4. asset' \in [Proc -> 0..Assets]
    BY <1>12, <2>1 DEF Rename, NextAsset, TypeOK
  <2>5. TypeOK'
    BY <1>12, <2>3, <2>4 DEF TypeOK, Rename, NextAsset
  <2>6. Post(p)'
    BY <1>1, <1>12, <2>1, <2>5 DEF TypeOK, Rename, Post, Preparing, NextAsset
  <2>7. Elsewhere(p)
    BY <1>12 DEF TypeOK, Rename, Elsewhere, NextAsset
  <2> QED  BY <2>5, <2>6, <2>7
<1>13. CASE FileGone(p)
  <2>1. TypeOK'
    BY <1>1, <1>13 DEF TypeOK, Job, Result, FileGone, Post, Tmp
  <2>2. Post(p)'
    BY <1>1, <1>13, <2>1 DEF TypeOK, Job, Result, FileGone, Post, Preparing, Tmp
  <2>3. Elsewhere(p)
    BY <1>13 DEF TypeOK, Result, FileGone, Elsewhere, Tmp
  <2> QED  BY <2>1, <2>2, <2>3
<1>14. CASE WriteManifest(p)
  <2>1. version[p] \in Version
    BY <1>1, <1>14 DEF Post, WriteManifest
  <2>2. /\ <<0, "final">> \in Path /\ <<p, 0>> \in Inode
        /\ at[version[p]][<<0, "final">>] \in Inode \union {NoFile}
    <3>1. 0 \in 0..Assets
      BY Numbers
    <3> QED  BY <2>1, <3>1, Names, Standing DEF Inode
  <2>3. at' \in [Version -> [Path -> Inode \union {NoFile}]]
    <3> DEFINE i == IF at[version[p]][<<0, "final">>] = NoFile THEN <<p, 0>>
                    ELSE at[version[p]][<<0, "final">>]
    <3>1. at' = [at EXCEPT ![version[p]][<<0, "final">>] = i]
      BY <1>14 DEF WriteManifest
    <3>2. i \in Inode \union {NoFile}
      BY <2>2
    <3> HIDE DEF i
    <3> QED  BY <2>1, <2>2, <3>1, <3>2, Linking
  <2>4. TypeOK'
    BY <1>14, <2>3 DEF TypeOK, WriteManifest
  <2>5. Post(p)'
    BY <1>1, <1>14 DEF TypeOK, WriteManifest, Post, Preparing
  <2>6. Elsewhere(p)
    BY <1>14 DEF TypeOK, WriteManifest, Elsewhere
  <2> QED  BY <2>4, <2>5, <2>6
<1>15. CASE HandOver(p)
  <2>1. TypeOK'
    BY <1>1, <1>15 DEF TypeOK, Job, Result, HandOver, Post
  <2>2. Post(p)'
    BY <1>1, <1>15, <2>1 DEF TypeOK, Job, Result, HandOver, Post, Preparing
  <2>3. Elsewhere(p)
    BY <1>15 DEF TypeOK, Result, HandOver, Elsewhere
  <2> QED  BY <2>1, <2>2, <2>3
<1>16. CASE TruncateSetting(p)
  <2>1. TypeOK'
    BY <1>1, <1>16 DEF TypeOK, Job, Result, TruncateSetting, Post, Setting
  <2>2. Post(p)'
    BY <1>1, <1>16, <2>1 DEF TypeOK, Job, Result, TruncateSetting, Post, Preparing, Setting
  <2>3. Elsewhere(p)
    BY <1>16 DEF TypeOK, Result, TruncateSetting, Elsewhere, Setting
  <2> QED  BY <2>1, <2>2, <2>3
<1>17. CASE FillSetting(p)
  <2>1. TypeOK'
    BY <1>1, <1>17 DEF TypeOK, Job, Result, FillSetting, Post, Setting
  <2>2. Post(p)'
    BY <1>1, <1>17, <2>1 DEF TypeOK, Job, Result, FillSetting, Post, Preparing, Setting
  <2>3. Elsewhere(p)
    BY <1>17 DEF TypeOK, Result, FillSetting, Elsewhere, Setting
  <2> QED  BY <2>1, <2>2, <2>3
<1>18. CASE List(p)
  <2>1. TypeOK'
    BY <1>1, <1>18 DEF TypeOK, Job, Result, List, Post
  <2>2. Post(p)'
    BY <1>1, <1>18, <2>1 DEF TypeOK, Job, Result, List, Post, Preparing
  <2>3. Elsewhere(p)
    BY <1>18 DEF TypeOK, Result, List, Elsewhere
  <2> QED  BY <2>1, <2>2, <2>3
<1>19. CASE Select(p)
  <2>1. TypeOK'
    <3>1. ToRemove(p) \in SUBSET Version
      BY DEF ToRemove, TypeOK
    <3>2. listed' \in [Proc -> SUBSET Version] /\ (Finish(p, "refused") \/ Goto(p, "rmdir"))
      BY <1>19, <3>1 DEF Select, TypeOK
    <3> QED  BY <1>19, <3>2 DEF TypeOK, Result, Select
  <2>2. Post(p)'
    BY <1>1, <1>19, <2>1 DEF TypeOK, Job, Result, Select, Post, Preparing, Mine, ToRemove
  <2>3. Elsewhere(p)
    BY <1>19 DEF TypeOK, Result, Select, Elsewhere, Mine, ToRemove
  <2> QED  BY <2>1, <2>2, <2>3
<1>20. CASE ReadDir(p)
  <2>1. Max(listed[p]) \in Version
    BY <1>20, Greatest DEF TypeOK, ReadDir
  <2>2. /\ version' = [version EXCEPT ![p] = Max(listed[p])]
        /\ version' \in [Proc -> Version \union {Latest}] /\ version'[p] \in Version
        /\ doomed' \in [Proc -> SUBSET Path]
    BY <1>20, <2>1 DEF TypeOK, ReadDir
  <2>3. TypeOK'
    BY <1>20, <2>2 DEF TypeOK, ReadDir
  <2>4. Post(p)'
    BY <1>1, <1>20, <2>2 DEF TypeOK, ReadDir, Post, Preparing
  <2>5. Elsewhere(p)
    BY <1>20, <2>2 DEF TypeOK, ReadDir, Elsewhere
  <2> QED  BY <2>3, <2>4, <2>5
<1>21. CASE Unlink(p)
  <2>1. TypeOK'
    BY <1>1, <1>21 DEF TypeOK, Job, Result, Unlink, Post
  <2>2. Post(p)'
    BY <1>1, <1>21, <2>1 DEF TypeOK, Job, Result, Unlink, Post, Preparing
  <2>3. Elsewhere(p)
    BY <1>21 DEF TypeOK, Result, Unlink, Elsewhere
  <2> QED  BY <2>1, <2>2, <2>3
<1>22. CASE RemoveDir(p)
  <2>1. /\ listed' \in [Proc -> SUBSET Version] /\ dirs' \in SUBSET Version
        /\ Finish(p, "failed") \/ Goto(p, "rmdir")
    BY <1>22 DEF TypeOK, RemoveDir
  <2>2. TypeOK'
    BY <1>22, <2>1 DEF TypeOK, Result, RemoveDir
  <2>3. Post(p)'
    BY <1>1, <1>22, <2>1 DEF TypeOK, Result, RemoveDir, Post, Preparing
  <2>4. Elsewhere(p)
    BY <1>22, <2>1 DEF TypeOK, Result, RemoveDir, Elsewhere
  <2> QED  BY <2>2, <2>3, <2>4
<1>23. CASE Removed(p)
  <2>1. TypeOK'
    BY <1>1, <1>23 DEF TypeOK, Job, Result, Removed, Post
  <2>2. Post(p)'
    BY <1>1, <1>23, <2>1 DEF TypeOK, Job, Result, Removed, Post, Preparing
  <2>3. Elsewhere(p)
    BY <1>23 DEF TypeOK, Result, Removed, Elsewhere
  <2> QED  BY <2>1, <2>2, <2>3
<1>24. CASE Kill(p)
  <2>1. TypeOK'
    BY <1>1, <1>24 DEF TypeOK, Job, Result, Kill, Post
  <2>2. Post(p)'
    BY <1>1, <1>24, <2>1 DEF TypeOK, Job, Result, Kill, Post, Preparing
  <2>3. Elsewhere(p)
    BY <1>24 DEF TypeOK, Result, Kill, Elsewhere
  <2> QED  BY <2>1, <2>2, <2>3
<1> QED  BY <1>2, <1>3, <1>4, <1>5, <1>6, <1>7, <1>8, <1>9, <1>10, <1>11, <1>12, <1>13, <1>14,
            <1>15, <1>16, <1>17, <1>18, <1>19, <1>20, <1>21, <1>22, <1>23, <1>24 DEF Step

\* What is linked stays linked to an inode of its asset that has been written to.
LEMMA StepLinks ==
    ASSUME TypeOK, Posts, Links, NEW p \in Proc, Step(p) \/ Kill(p)
    PROVE  Links'
<1> SUFFICES ASSUME NEW v \in Version, NEW x \in Path
             PROVE  Link(v, x)'
  BY DEF Links
<1> USE DEF self, disk
<1>1. Link(v, x) /\ Post(p)
  BY DEF Links, Posts
<1>2. at[v][x] \in Inode \union {NoFile} /\ NoFile \notin Inode
  BY RuntimeAssumption DEF TypeOK
<1>3. CASE CutOff(p) \/ Unlink(p)
  <2>1. at'[v][x] \in {NoFile, at[v][x]} /\ bytes' = bytes
    <3>1. CASE CutOff(p)
      <4>1. pc[p] = "fetch" => version[p] \in Version /\ asset[p] \in 0..Assets
        BY <1>1 DEF Post, TypeOK, Installing, OnAsset
      <4>2. \/ at' = at
            \/ pc[p] = "fetch" /\ at' = [at EXCEPT ![version[p]][<<asset[p], "tmp">>] = NoFile]
        BY <3>1 DEF CutOff, Writing
      <4>3. \A y \in Path : pc[p] = "fetch" /\ at' = [at EXCEPT ![version[p]][y] = NoFile] =>
                               at'[v][x] \in {NoFile, at[v][x]}
        BY <4>1 DEF TypeOK
      <4> QED  BY <3>1, <4>1, <4>2, <4>3, Names DEF CutOff, Writing
    <3>2. CASE Unlink(p)
      <4>1. version[p] \in Version
        BY <1>1, <3>2 DEF Post, Unlink
      <4>2. PICK y \in doomed[p] : at' = [at EXCEPT ![version[p]][y] = NoFile]
        BY <3>2 DEF Unlink
      <4> QED  BY <3>2, <4>1, <4>2 DEF Unlink, TypeOK
    <3> QED  BY <1>3, <3>1, <3>2
  <2> QED  BY <1>1, <2>1 DEF Link
<1>4. CASE OpenTmp(p)
  <2>1. PICK i \in Inode :
            /\ i = Tmp(p) \/ i = <<p, asset[p]>>
            /\ at' = [at EXCEPT ![version[p]][<<asset[p], "tmp">>] = i]
            /\ at'[version[p]][<<asset[p], "tmp">>] = i
            /\ bytes' = [bytes EXCEPT ![i] = "partial"]
    BY <1>4, OpenEffect
  <2>2. version[p] \in Version /\ asset[p] \in 0..Assets /\ <<asset[p], "tmp">> \in Path
    BY <1>4, OpenEffect, Numbers, Names
  <2>3. bytes'[i] = "partial" /\ \A j \in Inode : j # i => bytes'[j] = bytes[j]
    BY <2>1 DEF TypeOK
  <2>4. i[2] = asset[p]
    <3>1. CASE i = <<p, asset[p]>>
      BY <3>1
    <3>2. CASE i = Tmp(p)
      BY <1>2, <2>2, <3>2 DEF Links, Link, Tmp
    <3> QED  BY <2>1, <3>1, <3>2
  <2>5. CASE v = version[p] /\ x = <<asset[p], "tmp">>
    <3>1. at'[v][x] = i /\ x[1] = asset[p]
      BY <2>1, <2>5
    <3> QED  BY <1>2, <2>3, <2>4, <3>1 DEF Link
  <2>6. CASE v # version[p] \/ x # <<asset[p], "tmp">>
    <3>1. at'[v][x] = at[v][x]
      BY <2>1, <2>2, <2>6, Linking
    <3> QED  BY <1>1, <1>2, <2>3, <3>1 DEF Link
  <2> QED  BY <2>5, <2>6
<1>5. CASE Write(p)
  <2>1. \A j \in Inode : bytes'[j] \in {bytes[j], "whole"}
    BY <1>1, <1>5 DEF Write, Post, TypeOK
  <2>2. at' = at
    BY <1>5 DEF Write
  <2> QED  BY <1>1, <1>2, <2>1, <2>2 DEF Link
<1>6. CASE Rename(p)
  <2>1. bytes' = bytes
    BY <1>6 DEF Rename
  <2>2. asset[p] \in 0..Assets
    BY <1>6, RenameEffect, Numbers
  <2>3. CASE v = version[p] /\ x = <<asset[p], "tmp">>
    BY <1>6, <2>3, RenameEffect DEF Link
  <2>4. CASE v = version[p] /\ x = <<asset[p], "final">>
    <3>1. at'[v][x] = at[v][<<asset[p], "tmp">>] /\ x[1] = asset[p]
      BY <1>6, <2>4, RenameEffect DEF Tmp
    <3>2. Link(v, <<asset[p], "tmp">>)
      BY <2>2, Names DEF Links
    <3> QED  BY <2>1, <3>1, <3>2 DEF Link
  <2>5. CASE v # version[p] \/ x \notin {<<asset[p], "final">>, <<asset[p], "tmp">>}
    <3>1. at'[v][x] = at[v][x]
      BY <1>6, <2>5, RenameEffect
    <3> QED  BY <1>1, <2>1, <3>1 DEF Link
  <2> QED  BY <2>3, <2>4, <2>5
<1>7. CASE WriteManifest(p)
  <2>1. bytes' = bytes /\ version[p] \in Version /\ 0 \in 0..Assets
    BY <1>1, <1>7, Numbers DEF WriteManifest, Post
  <2>2. <<0, "final">> \in Path /\ <<p, 0>> \in Inode
    BY <2>1, Names DEF Inode
  <2>3. PICK i \in Inode :
            i[2] = 0 /\ at' = [at EXCEPT ![version[p]][<<0, "final">>] = i]
    <3> DEFINE i == IF at[version[p]][<<0, "final">>] = NoFile THEN <<p, 0>>
                    ELSE at[version[p]][<<0, "final">>]
    <3>1. at' = [at EXCEPT ![version[p]][<<0, "final">>] = i]
      BY <1>7 DEF WriteManifest
    <3>2. i \in Inode /\ i[2] = 0
      BY <2>1, <2>2, Standing DEF Links, Link
    <3> HIDE DEF i
    <3> QED  BY <3>1, <3>2
  <2>4. /\ at'[version[p]][<<0, "final">>] = i
        /\ \A w \in Version, y \in Path :
              w # version[p] \/ y # <<0, "final">> => at'[w][y] = at[w][y]
    <3>1. at \in [Version -> [Path -> Inode \union {NoFile}]] /\ i \in Inode \union {NoFile}
      BY DEF TypeOK
    <3> DEFINE y == <<0, "final">>
               B == [at EXCEPT ![version[p]][y] = i]
    <3>2. y \in Path /\ at' = B
      BY <2>2, <2>3
    <3> HIDE DEF y
    <3>3. /\ B[version[p]][y] = i
          /\ \A w \in Version, z \in Path : w # version[p] \/ z # y => B[w][z] = at[w][z]
      BY <2>1, <3>1, <3>2, Replacing
    <3> HIDE DEF B
    <3> QED  BY <3>2, <3>3 DEF y
  <2>5. CASE v = version[p] /\ x = <<0, "final">>
    <3>1. at'[v][x] = i /\ x[1] = 0
      BY <2>4, <2>5
    <3> QED  BY <2>3, <3>1 DEF Link
  <2>6. CASE v # version[p] \/ x # <<0, "final">>
    <3>1. at'[v][x] = at[v][x]
      BY <2>4, <2>6
    <3> QED  BY <1>1, <2>1, <3>1 DEF Link
  <2> QED  BY <2>5, <2>6
<1>8. CASE UNCHANGED <<at, bytes>>
  BY <1>1, <1>8 DEF Link
<1>9. \/ CutOff(p) \/ Unlink(p) \/ OpenTmp(p) \/ Write(p) \/ Rename(p) \/ WriteManifest(p)
      \/ UNCHANGED <<at, bytes>>
  BY DEF Step, Kill, Start, ReadSetting, FindLatest, MakeDir, Verify, Fetch, Chmod, FileGone,
         HandOver, TruncateSetting, FillSetting, List, Select, ReadDir, RemoveDir, Removed
<1> QED  BY <1>3, <1>4, <1>5, <1>6, <1>7, <1>8, <1>9

\* The types, the posts and the links of the invariant.
Shape == TypeOK /\ Posts /\ Links

\* A step keeps them, whoever takes it.
LEMMA ShapeKept ==
    ASSUME Shape, NEW p \in Proc, Step(p) \/ Kill(p), job' = job, crowded' \in SUBSET Proc
    PROVE  Shape' /\ Elsewhere(p)
<1>1. TypeOK' /\ Post(p)' /\ Elsewhere(p)
  BY StepTypes DEF Shape
<1>2. \A q \in Proc \ {p} : Post(q)'
  BY <1>1 DEF Shape, Posts, Post, Preparing, Elsewhere
<1>3. Posts'
  BY <1>1, <1>2 DEF Posts
<1>4. Links'
  BY StepLinks DEF Shape
<1> QED  BY <1>1, <1>3, <1>4 DEF Shape

-----------------------------------------------------------------------------
(* Alone with the cache.                                                     *)

\* A process at rest does nothing but start.
LEMMA RestEnds ==
    ASSUME TypeOK, NEW p \in Proc, Step(p) \/ Kill(p), pc[p] \in Resting
    PROVE  Start(p) /\ pc'[p] \notin Resting \union Installing
<1>1. Start(p)
  BY DEF Step, Kill, Start, ReadSetting, FindLatest, MakeDir, Verify, CutOff, Writing, Fetch,
         OpenTmp,
         Write, Chmod, Rename, FileGone, WriteManifest, HandOver, TruncateSetting, FillSetting,
         List, Select, ReadDir, Unlink, RemoveDir, Removed
<1> DEFINE to == CASE job[p].cmd = "run" -> "read"
                   [] job[p].cmd = "install" -> IF version[p] = Latest THEN "latest" ELSE "mkdir"
                   [] job[p].cmd = "use" -> "truncate"
                   [] job[p].cmd = "prune" -> "list"
                   [] job[p].cmd = "uninstall" -> "select"
<1>2. Goto(p, to)
  BY <1>1 DEF Start
<1>3. job[p] \in Job
  BY DEF TypeOK
<1>4. to \in {"read", "latest", "mkdir", "truncate", "list", "select"}
  BY <1>3 DEF Job
<1> HIDE DEF to
<1>5. pc'[p] = to
  BY <1>2, <1>4, Going DEF Places
<1> QED  BY <1>1, <1>4, <1>5

\* What is behind a process that is alone stays sound while it opens, writes and
\* renames the file of the asset it is at: inodes are made for one asset.
LEMMA SoundKept ==
    ASSUME Shape, NEW p \in Proc, OpenTmp(p) \/ Write(p) \/ Rename(p),
           NEW a \in Asset, a # asset[p], Sound(version[p], a)
    PROVE  Sound(version[p], a)'
<1>1. /\ version[p] \in Version /\ asset[p] \in Asset /\ version' = version
      /\ a \in 0..Assets /\ asset[p] \in 0..Assets
  BY Numbers DEF Shape, Posts, Post, OpenTmp, Write, Rename, self
<1>2. Final(version[p], a) \in Inode /\ Final(version[p], a)[2] = a
  <2>1. Final(version[p], a) # NoFile /\ <<a, "final">> \in Path
    BY <1>1, Names DEF Sound, IsWhole
  <2>2. Final(version[p], a) \in Inode \union {NoFile} /\ Link(version[p], <<a, "final">>)
    BY <1>1, <2>1, Standing DEF Shape, Links
  <2> QED  BY <2>1, <2>2 DEF Link, Final
<1>3. CASE OpenTmp(p)
  <2>1. PICK i \in Inode :
            /\ i = Tmp(p) \/ i = <<p, asset[p]>>
            /\ at' = [at EXCEPT ![version[p]][<<asset[p], "tmp">>] = i]
            /\ bytes' = [bytes EXCEPT ![i] = "partial"]
    BY <1>3, OpenEffect DEF Shape
  <2>2. i[2] = asset[p]
    <3>1. CASE i = <<p, asset[p]>>
      BY <3>1
    <3>2. CASE i = Tmp(p)
      <4>1. Link(version[p], <<asset[p], "tmp">>) /\ NoFile \notin Inode
        BY <1>1, Names, RuntimeAssumption DEF Shape, Links
      <4> QED  BY <3>2, <4>1 DEF Link, Tmp
    <3> QED  BY <2>1, <3>1, <3>2
  <2>3. bytes'[Final(version[p], a)] = bytes[Final(version[p], a)]
    BY <1>2, <2>1, <2>2 DEF Shape, TypeOK
  <2>4. at'[version[p]][<<a, "final">>] = at[version[p]][<<a, "final">>]
    <3>1. /\ <<a, "final">> \in Path /\ <<asset[p], "tmp">> \in Path
          /\ <<a, "final">> # <<asset[p], "tmp">>
      BY <1>1, Names
    <3> QED  BY <1>1, <2>1, <3>1, Linking DEF Shape
  <2>5. runnable' = runnable
    BY <1>3 DEF OpenTmp
  <2> QED  BY <1>1, <2>3, <2>4, <2>5 DEF Sound, IsWhole, Final
<1>4. CASE Write(p)
  <2>1. bytes'[Final(version[p], a)] = "whole"
    <3>1. bytes[Final(version[p], a)] = "whole" /\ fd[p] \in Inode
      BY <1>4 DEF Sound, IsWhole, Shape, Posts, Post, Write
    <3> QED  BY <1>2, <1>4, <3>1 DEF Write, Shape, TypeOK
  <2>2. at' = at /\ runnable' = runnable
    BY <1>4 DEF Write
  <2> QED  BY <1>1, <2>1, <2>2 DEF Sound, IsWhole, Final
<1>5. CASE Rename(p)
  <2>1. at'[version[p]][<<a, "final">>] = at[version[p]][<<a, "final">>]
    <3>1. /\ <<a, "final">> \in Path
          /\ <<a, "final">> \notin {<<asset[p], "final">>, <<asset[p], "tmp">>}
      BY <1>1, Names
    <3> QED  BY <1>1, <1>5, <3>1, RenameEffect DEF Shape
  <2>2. bytes' = bytes /\ runnable' = runnable
    BY <1>5 DEF Rename
  <2> QED  BY <1>1, <2>1, <2>2 DEF Sound, IsWhole, Final
<1> QED  BY <1>3, <1>4, <1>5

\* A step of a process that has the cache to itself.
LEMMA AloneStep ==
    ASSUME Shape, Shape', NEW p \in Proc, pc[p] \notin Resting, Undisturbed(p),
           Step(p) \/ Kill(p), job' = job
    PROVE  Served(p)' /\ (pc'[p] \notin Resting => Undisturbed(p)')
<1> USE Going DEF Places, self, disk
<1>1. /\ TypeOK /\ Post(p) /\ Post(p)' /\ job[p] \in Job /\ job'[p] = job[p]
      /\ Preparing(p)' <=> Preparing(p)
  BY DEF Shape, Posts, TypeOK, Preparing
<1>2. /\ version[p] \in Version => version[p] \in dirs \/ pc[p] \notin Installing
      /\ \A a \in Asset : Behind(p, a) => Sound(version[p], a)
      /\ pc[p] = "write" => Tmp(p) = fd[p] /\ p \notin shaken
      /\ pc[p] \in {"chmod", "rename"} => Tmp(p) # NoFile /\ bytes[Tmp(p)] = "whole"
      /\ pc[p] = "rename" /\ asset[p] \in Executable => Tmp(p) \in runnable
  BY DEF Undisturbed
<1>3. CASE pc[p] \in Installing /\ version[p] \notin dirs
  BY <1>3 DEF Undisturbed
<1>4. CASE /\ pc'[p] = "done" /\ (Preparing(p) => result'[p] \in {"ready", "cutoff", "refused"})
  BY <1>1, <1>4 DEF Served
<1>5. CASE pc'[p] \notin Installing \union {"done"}
  BY <1>5 DEF Served, Undisturbed, Behind
<1>6. CASE MakeDir(p)
  <2>1. pc'[p] = "checksum" /\ asset'[p] = 1 /\ version' = version /\ version[p] \in dirs'
    BY <1>1, <1>6 DEF MakeDir, TypeOK
  <2>2. \A a \in Asset : ~Behind(p, a)'
    BY <2>1, Numbers DEF Behind, Asset
  <2> QED  BY <2>1, <2>2 DEF Served, Undisturbed
<1>7. CASE Verify(p)
  <2>1. /\ version' = version /\ at' = at /\ bytes' = bytes
        /\ version[p] \in dirs /\ dirs \subseteq dirs' /\ runnable \subseteq runnable'
        /\ asset[p] \in Asset
    BY <1>1, <1>7 DEF Verify, Post, Undisturbed
  <2>2. \A a \in Asset : Sound(version[p], a) => Sound(version[p], a)'
    BY <2>1 DEF Sound, IsWhole, Final
  <2>3. CASE Cached(version[p], asset[p])
    <3>1. /\ runnable' = runnable \union
                {Final(version[p], a) : a \in {asset[p]} \intersect Executable}
          /\ NextAsset(p)
      BY <1>7, <2>3 DEF Verify
    <3>2. \A a \in Asset : a = asset[p] => Sound(version[p], a)'
      BY <2>1, <2>3, <3>1 DEF Sound, Cached, IsWhole, Final
    <3>3. /\ asset'[p] = IF asset[p] = Assets THEN 0 ELSE asset[p] + 1
          /\ pc'[p] \in {"checksum", "manifest"}
      BY <1>1, <3>1 DEF NextAsset, TypeOK
    <3>4. \A a \in Asset : Behind(p, a)' => Behind(p, a) \/ a = asset[p]
      <4>1. pc[p] = "checksum" /\ asset[p] # 0
        BY <1>7, <2>1, Numbers DEF Verify
      <4> QED  BY <2>1, <3>3, <4>1, Numbers DEF Behind, Asset
    <3>5. \A a \in Asset : Behind(p, a)' => Sound(version[p], a)'
      BY <1>2, <2>2, <3>2, <3>4
    <3> QED  BY <2>1, <3>3, <3>5 DEF Served, Undisturbed
  <2>4. CASE ~Cached(version[p], asset[p])
    <3>1. pc'[p] = "fetch" /\ asset' = asset /\ pc[p] = "checksum"
      BY <1>1, <1>7, <2>4 DEF Verify
    <3>2. \A a \in Asset : Behind(p, a)' => Sound(version[p], a)'
      BY <1>2, <2>2, <3>1 DEF Behind
    <3> QED  BY <2>1, <3>1, <3>2 DEF Served, Undisturbed
  <2> QED  BY <2>3, <2>4
<1>8. CASE Fetch(p)
  <2>1. /\ pc[p] = "fetch" /\ pc'[p] = "open"
        /\ UNCHANGED <<version, asset, dirs, at, bytes, runnable>>
    BY <1>1, <1>8 DEF Fetch
  <2>2. \A a \in Asset : Behind(p, a)' => Sound(version[p], a)'
    BY <1>2, <2>1 DEF Behind, Sound, IsWhole, Final
  <2> QED  BY <2>1, <2>2 DEF Served, Undisturbed
<1>9. CASE OpenTmp(p)
  <2>1. PICK i \in Inode :
            /\ i = Tmp(p) \/ i = <<p, asset[p]>>
            /\ at' = [at EXCEPT ![version[p]][<<asset[p], "tmp">>] = i]
            /\ at'[version[p]][<<asset[p], "tmp">>] = i
            /\ fd' = [fd EXCEPT ![p] = i]
            /\ bytes' = [bytes EXCEPT ![i] = "partial"]
            /\ shaken' = (shaken \ {p}) \union {q \in Proc \ {p} : pc[q] = "write" /\ fd[q] = i}
    BY <1>9, OpenEffect, Zenon DEF Shape
  <2>2. /\ pc[p] = "open" /\ pc'[p] = "write" /\ version' = version /\ asset' = asset
        /\ dirs' = dirs /\ version[p] \in dirs /\ version[p] \in Version /\ asset[p] \in Asset
    BY <1>1, <1>9 DEF OpenTmp, Post
  <2>3. Tmp(p)' = fd'[p] /\ p \notin shaken'
    <3>1. fd'[p] = i
      BY <1>1, <2>1 DEF TypeOK
    <3> QED  BY <2>1, <2>2, <3>1 DEF Tmp
  <2>4. \A a \in Asset : Behind(p, a)' => Sound(version[p], a)'
    <3>1. \A a \in Asset : Behind(p, a)' => Behind(p, a) /\ a # asset[p]
      BY <2>2, Numbers DEF Behind, Asset
    <3> QED  BY <1>2, <1>9, <3>1, SoundKept
  <2> QED  BY <2>2, <2>3, <2>4 DEF Served, Undisturbed
<1>10. CASE Write(p)
  <2>1. /\ pc[p] = "write" /\ UNCHANGED <<version, asset, dirs, at, fd, runnable>>
        /\ pc'[p] = IF asset[p] \in Executable THEN "chmod" ELSE "rename"
        /\ version[p] \in dirs /\ asset[p] \in Asset /\ fd[p] \in Inode
    BY <1>1, <1>10 DEF Write, Post, Undisturbed
  <2>2. bytes'[Tmp(p)'] = "whole" /\ Tmp(p)' # NoFile
    <3>1. Tmp(p)' = fd[p] /\ bytes' = [bytes EXCEPT ![fd[p]] = "whole"]
      BY <1>2, <1>10, <2>1 DEF Write, Tmp
    <3> QED  BY <1>1, <2>1, <3>1, RuntimeAssumption DEF TypeOK
  <2>3. \A a \in Asset : Behind(p, a)' => Sound(version[p], a)'
    <3>1. \A a \in Asset : Behind(p, a)' => Behind(p, a) /\ a # asset[p]
      BY <2>1, Numbers DEF Behind, Asset
    <3> QED  BY <1>2, <1>10, <3>1, SoundKept
  <2> QED  BY <2>1, <2>2, <2>3 DEF Served, Undisturbed
<1>11. CASE Chmod(p)
  <2>1. /\ pc[p] = "chmod" /\ pc'[p] = "rename" /\ UNCHANGED <<version, asset, dirs, at, bytes>>
        /\ runnable' = runnable \union {Tmp(p)} /\ Tmp(p)' = Tmp(p)
    BY <1>1, <1>11 DEF Chmod, Tmp
  <2>2. \A a \in Asset : Behind(p, a)' => Sound(version[p], a)'
    BY <1>2, <2>1 DEF Behind, Sound, IsWhole, Final
  <2> QED  BY <1>2, <2>1, <2>2 DEF Served, Undisturbed
<1>12. CASE Rename(p)
  <2>1. /\ pc[p] = "rename" /\ UNCHANGED <<version, dirs, bytes, runnable>> /\ NextAsset(p)
        /\ version[p] \in dirs /\ asset[p] \in Asset
    BY <1>1, <1>12 DEF Rename, Post, Undisturbed
  <2>2. /\ asset'[p] = IF asset[p] = Assets THEN 0 ELSE asset[p] + 1
        /\ pc'[p] \in {"checksum", "manifest"}
    BY <1>1, <2>1 DEF NextAsset, TypeOK
  <2>3. \A a \in Asset : a = asset[p] => Sound(version[p], a)'
    <3> SUFFICES ASSUME NEW a \in Asset, a = asset[p]
                 PROVE  Sound(version[p], a)'
      OBVIOUS
    <3>1. at'[version[p]][<<a, "final">>] = Tmp(p)
      BY <1>12, RenameEffect DEF Shape
    <3> QED  BY <1>2, <2>1, <3>1 DEF Sound, IsWhole, Final
  <2>4. \A a \in Asset : Behind(p, a)' => Sound(version[p], a)'
    <3>1. \A a \in Asset : Behind(p, a)' => a = asset[p] \/ (Behind(p, a) /\ a # asset[p])
      BY <2>1, <2>2, Numbers DEF Behind, Asset
    <3> QED  BY <1>2, <1>12, <2>3, <3>1, SoundKept
  <2> QED  BY <2>1, <2>2, <2>4 DEF Served, Undisturbed
<1>13. CASE FileGone(p)
  BY <1>1, <1>2, <1>3, <1>13 DEF FileGone, Post
<1>14. CASE WriteManifest(p)
  <2>1. /\ pc[p] = "manifest" /\ pc'[p] = "exec"
        /\ UNCHANGED <<version, asset, dirs, bytes, runnable>>
        /\ version[p] \in Version
    BY <1>1, <1>14 DEF WriteManifest, Post
  <2>2. \A a \in Asset : at'[version[p]][<<a, "final">>] = at[version[p]][<<a, "final">>]
    <3> SUFFICES ASSUME NEW a \in Asset
                 PROVE  at'[version[p]][<<a, "final">>] = at[version[p]][<<a, "final">>]
      OBVIOUS
    <3>1. a \in 0..Assets /\ <<a, "final">> \in Path /\ <<a, "final">> # <<0, "final">>
      BY Numbers, Names
    <3> QED  BY <1>1, <1>14, <2>1, <3>1 DEF WriteManifest, TypeOK
  <2>3. \A a \in Asset : Behind(p, a)' => Sound(version[p], a)'
    BY <1>2, <2>1, <2>2 DEF Behind, Sound, IsWhole, Final
  <2> QED  BY <1>3, <2>1, <2>3 DEF Served, Undisturbed
<1>15. CASE HandOver(p)
  <2>1. \A a \in Asset : Sound(version[p], a)
    BY <1>1, <1>2, <1>15 DEF HandOver, Post, Behind
  <2>2. Usable(version[p])
    BY <2>1 DEF Usable, Sound
  <2>3. Finish(p, "ready") /\ "ready" \in Result
    BY <1>15, <2>2 DEF HandOver, Result
  <2>4. pc'[p] = "done" /\ result'[p] = "ready"
    BY <1>1, <2>3
  <2> QED  BY <1>4, <2>4
<1>16. CASE /\ Step(p) \/ Kill(p)
            /\ ~ (MakeDir(p) \/ Verify(p) \/ Fetch(p) \/ OpenTmp(p) \/ Write(p) \/ Chmod(p)
                  \/ Rename(p) \/ FileGone(p) \/ WriteManifest(p) \/ HandOver(p))
  <2>1. \/ pc'[p] = "done" /\ (Preparing(p) => result'[p] \in {"ready", "cutoff", "refused"})
        \/ pc'[p] \notin Installing \union {"done"}
    <3>1. ~ Start(p)
      BY DEF Start
    <3>2. CASE Kill(p)
      BY <1>1, <3>2 DEF Kill, TypeOK
    <3>3. CASE ReadSetting(p) \/ FindLatest(p) \/ CutOff(p)
      BY <1>1, <3>3 DEF ReadSetting, FindLatest, CutOff, Writing, Result
    <3>4. CASE TruncateSetting(p) \/ FillSetting(p) \/ List(p)
      BY <1>1, <3>4 DEF TruncateSetting, FillSetting, List, Result
    <3>5. CASE Select(p) \/ ReadDir(p) \/ Unlink(p) \/ RemoveDir(p) \/ Removed(p)
      <4>1. ~ Preparing(p)
        BY <1>1, <3>5 DEF Post, Preparing, Select, ReadDir, Unlink, RemoveDir, Removed
      <4>2. pc'[p] \notin Installing
        BY <1>1, <3>5 DEF Select, ReadDir, Unlink, RemoveDir, Removed, Result
      <4> QED  BY <4>1, <4>2
    <3> QED  BY <1>16, <3>1, <3>2, <3>3, <3>4, <3>5 DEF Step
  <2> QED  BY <1>4, <1>5, <2>1
<1> QED  BY <1>6, <1>7, <1>8, <1>9, <1>10, <1>11, <1>12, <1>13, <1>14, <1>15, <1>16

\* What Next notes of who is beside whom.
Crowding == crowded' = crowded \union (IF Cardinality(Running') > 1 THEN Running' ELSE {})

\* Whoever is alone stays alone or is noted as crowded, and goes on undisturbed.
LEMMA AloneKept ==
    ASSUME Shape, Shape', Alone, NEW p \in Proc, Step(p) \/ Kill(p), job' = job, Elsewhere(p),
           Crowding
    PROVE  Alone'
<1>1. Running' \subseteq Running \union {p}
  BY DEF Running, Elsewhere
<1>2. IsFiniteSet(Running')
  BY <1>1, FS_AddElement, FS_Subset DEF Alone
<1>3. \A q \in Proc \ crowded' : q \in Running' => Running' = {q}
  <2> SUFFICES ASSUME NEW q \in Proc \ crowded', q \in Running', NEW r \in Running', r # q
               PROVE  FALSE
    OBVIOUS
  <2>1. ~ (Cardinality(Running') > 1)
    BY DEF Crowding
  <2>2. IsFiniteSet({q, r}) /\ Cardinality({q, r}) = 2
    <3>1. IsFiniteSet({q}) /\ Cardinality({q}) = 1
      BY FS_Singleton
    <3>2. IsFiniteSet({q} \union {r}) /\ Cardinality({q} \union {r}) = 2
      BY <3>1, FS_AddElement
    <3>3. {q} \union {r} = {q, r}
      OBVIOUS
    <3> QED  BY <3>2, <3>3
  <2>3. Cardinality({q, r}) <= Cardinality(Running')
    BY <1>2, FS_Subset
  <2>4. Cardinality(Running') \in Nat
    BY <1>2, FS_CardinalityType
  <2> QED  BY <2>1, <2>2, <2>3, <2>4
<1>4. ASSUME NEW q \in Proc \ crowded'
      PROVE  Served(q)' /\ (q \in Running' => Undisturbed(q)')
  <2>1. q \notin crowded
    BY DEF Crowding
  <2>2. Served(q) /\ (q \in Running => Running = {q} /\ Undisturbed(q))
    BY <2>1 DEF Alone
  <2>3. CASE q # p
    <3>1. Served(q)'
      BY <2>2, <2>3 DEF Served, Preparing, Elsewhere
    <3>2. q \notin Running'
      <4> SUFFICES ASSUME q \in Running' PROVE FALSE
        OBVIOUS
      <4>1. q \in Running /\ p \notin Running
        BY <1>1, <2>2, <2>3
      <4>2. pc[p] \in Resting
        BY <4>1 DEF Running
      <4>3. p \in Running'
        BY <4>2, RestEnds DEF Running, Shape
      <4> QED  BY <1>3, <2>3, <4>3
    <3> QED  BY <3>1, <3>2
  <2>4. CASE q = p
    <3>1. CASE pc[p] \in Resting
      <4>1. pc'[p] \notin Resting \union Installing
        BY <3>1, RestEnds DEF Shape
      <4> QED  BY <2>4, <4>1 DEF Served, Undisturbed, Behind
    <3>2. CASE pc[p] \notin Resting
      <4>1. p \in Running
        BY <3>2 DEF Running
      <4> QED  BY <2>2, <2>4, <3>2, <4>1, AloneStep DEF Running
    <3> QED  BY <3>1, <3>2
  <2> QED  BY <2>3, <2>4
<1> QED  BY <1>2, <1>3, <1>4 DEF Alone

-----------------------------------------------------------------------------
(* Racing for a version.                                                     *)

\* Where nobody has been killed, cut off or removed anything, nobody had been before.
LEMMA CalmBefore ==
    ASSUME Shape, Shape', NEW p \in Proc, Step(p) \/ Kill(p), job' = job, Elsewhere(p), Calm'
    PROVE  /\ Calm /\ Step(p) /\ ~ Kill(p) /\ ~ CutOff(p)
           /\ result'[p] # "cutoff" /\ pc[p] \notin Removing
<1>1. Post(p) /\ TypeOK
  BY DEF Shape, Posts
<1>2. ~ Kill(p) /\ ~ CutOff(p)
  BY <1>1, Going DEF Kill, CutOff, Writing, Calm, Result, TypeOK
<1>3. job[p].cmd \notin {"prune", "uninstall"}
  BY DEF Calm
<1>4. pc[p] # "dead" /\ pc[p] # "done"
  BY <1>1, RestEnds DEF Start
<1>5. result[p] # "cutoff"
  BY <1>1, <1>4 DEF Post
<1>6. Calm
  BY <1>3, <1>4, <1>5 DEF Calm, Elsewhere
<1> QED  BY <1>1, <1>2, <1>3, <1>6 DEF Post, Calm

\* Then nothing but a rename changes what stands under the name of an asset,
LEMMA FinalStands ==
    ASSUME Shape, NEW p \in Proc, Step(p), ~ CutOff(p), pc[p] \notin Removing,
           NEW v \in Version, NEW a \in Asset, ~ (Rename(p) /\ v = version[p] /\ a = asset[p])
    PROVE  at'[v][<<a, "final">>] = at[v][<<a, "final">>]
<1> USE DEF self, disk
<1>1. a \in 0..Assets /\ a # 0 /\ <<a, "final">> \in Path /\ Post(p)
  BY Numbers, Names DEF Shape, Posts
<1>2. CASE OpenTmp(p)
  <2>1. asset[p] \in 0..Assets /\ version[p] \in Version
    BY <1>2, OpenEffect, Numbers DEF Shape
  <2>2. PICK i \in Inode : at' = [at EXCEPT ![version[p]][<<asset[p], "tmp">>] = i]
    BY <1>2, OpenEffect DEF Shape
  <2>3. <<asset[p], "tmp">> \in Path /\ <<a, "final">> # <<asset[p], "tmp">>
    BY <2>1, Names
  <2> QED  BY <1>1, <2>1, <2>2, <2>3, Linking DEF Shape
<1>3. CASE Rename(p)
  <2>1. v # version[p] \/ <<a, "final">> \notin {<<asset[p], "final">>, <<asset[p], "tmp">>}
    BY <1>3
  <2> QED  BY <1>1, <1>3, <2>1, RenameEffect DEF Shape
<1>4. CASE WriteManifest(p)
  <2>1. version[p] \in Version /\ <<a, "final">> # <<0, "final">>
    BY <1>1, <1>4 DEF WriteManifest, Post
  <2> QED  BY <1>1, <1>4, <2>1 DEF WriteManifest, Shape, TypeOK
<1>5. CASE at' = at
  BY <1>5
<1>6. OpenTmp(p) \/ Rename(p) \/ WriteManifest(p) \/ at' = at
  BY DEF Step, Start, ReadSetting, FindLatest, MakeDir, Verify, Fetch, Write, Chmod, FileGone,
         HandOver, TruncateSetting, FillSetting, List, Select, ReadDir, Unlink, RemoveDir, Removed
<1> QED  BY <1>2, <1>3, <1>4, <1>5, <1>6

\* no file and no directory goes, and a temporary file that does is the asset now,
LEMMA NothingGoes ==
    ASSUME Shape, NEW p \in Proc, Step(p), ~ CutOff(p), pc[p] \notin Removing
    PROVE  /\ dirs \subseteq dirs'
           /\ \A v \in Version, a \in Asset :
                /\ There(v, a) => There(v, a)'
                /\ at[v][<<a, "tmp">>] # NoFile => at'[v][<<a, "tmp">>] # NoFile \/ There(v, a)'
<1> USE DEF self, disk
<1>1. dirs \subseteq dirs'
  BY DEF Step, Start, ReadSetting, FindLatest, MakeDir, Verify, Fetch, OpenTmp, Write, Chmod,
         Rename, FileGone, WriteManifest, HandOver, TruncateSetting, FillSetting, List, Select,
         ReadDir, Unlink, RemoveDir, Removed
<1>2. ASSUME NEW v \in Version, NEW a \in Asset
      PROVE  /\ There(v, a) => There(v, a)'
             /\ at[v][<<a, "tmp">>] # NoFile => at'[v][<<a, "tmp">>] # NoFile \/ There(v, a)'
  <2>1. a \in 0..Assets /\ a # 0 /\ <<a, "tmp">> \in Path /\ <<a, "tmp">> # <<a, "final">>
    BY Numbers, Names
  <2>2. NoFile \notin Inode /\ Post(p)
    BY RuntimeAssumption DEF Shape, Posts
  <2>3. CASE Rename(p) /\ v = version[p] /\ a = asset[p]
    BY <2>2, <2>3, RenameEffect DEF Shape, There, Final
  <2>4. CASE ~ (Rename(p) /\ v = version[p] /\ a = asset[p])
    <3>1. There(v, a) => There(v, a)'
      BY <2>4, FinalStands DEF There, Final
    <3>2. CASE OpenTmp(p)
      <4>1. asset[p] \in 0..Assets /\ version[p] \in Version
        BY <3>2, OpenEffect, Numbers DEF Shape
      <4>2. PICK i \in Inode : /\ at' = [at EXCEPT ![version[p]][<<asset[p], "tmp">>] = i]
                               /\ at'[version[p]][<<asset[p], "tmp">>] = i
        BY <3>2, OpenEffect DEF Shape
      <4>3. <<asset[p], "tmp">> \in Path
        BY <4>1, Names
      <4>4. \/ at'[v][<<a, "tmp">>] = i
            \/ at'[v][<<a, "tmp">>] = at[v][<<a, "tmp">>]
        BY <2>1, <4>1, <4>2, <4>3, Linking DEF Shape
      <4> QED  BY <2>2, <3>1, <4>4
    <3>3. CASE Rename(p)
      <4>1. v # version[p] \/ <<a, "tmp">> \notin {<<asset[p], "final">>, <<asset[p], "tmp">>}
        BY <2>4, <3>3
      <4> QED  BY <2>1, <3>1, <3>3, <4>1, RenameEffect DEF Shape
    <3>4. CASE WriteManifest(p)
      <4>1. version[p] \in Version /\ <<a, "tmp">> # <<0, "final">>
        BY <2>2, <3>4 DEF WriteManifest, Post
      <4>2. at'[v][<<a, "tmp">>] = at[v][<<a, "tmp">>]
        BY <2>1, <3>4, <4>1 DEF WriteManifest, Shape, TypeOK
      <4> QED  BY <3>1, <4>2
    <3>5. CASE at' = at
      BY <3>1, <3>5
    <3>6. OpenTmp(p) \/ Rename(p) \/ WriteManifest(p) \/ at' = at
      BY DEF Step, Start, ReadSetting, FindLatest, MakeDir, Verify, Fetch, Write, Chmod, FileGone,
             HandOver, TruncateSetting, FillSetting, List, Select, ReadDir, Unlink, RemoveDir,
             Removed
    <3> QED  BY <3>2, <3>3, <3>4, <3>5, <3>6
  <2> QED  BY <2>3, <2>4
<1> QED  BY <1>1, <1>2

\* what a process has behind it stays there, unless it finds a file gone,
LEMMA BehindStays ==
    ASSUME Shape, Shape', NEW p \in Proc, Step(p), job' = job, ~ CutOff(p), ~ FileGone(p),
           pc[p] \in Installing
    PROVE  /\ version' = version
           /\ \A a \in Asset : Behind(p, a) => Behind(p, a)' \/ HandedOver(p)'
<1> USE Going DEF Places, self, disk
<1>1. /\ TypeOK /\ Post(p) /\ Post(p)' /\ asset[p] \in 0..Assets
      /\ Preparing(p) /\ Preparing(p)'
  BY DEF Shape, Posts, Post, Preparing, TypeOK
<1>2. CASE Verify(p)
  <2>1. /\ pc[p] = "checksum" /\ asset[p] \in Asset /\ version' = version
        /\ \/ asset' = asset /\ pc'[p] = "fetch"
           \/ /\ asset'[p] = IF asset[p] = Assets THEN 0 ELSE asset[p] + 1
              /\ pc'[p] \in {"checksum", "manifest"}
    BY <1>1, <1>2 DEF Verify, NextAsset, Post, TypeOK
  <2> QED  BY <2>1, Numbers DEF Behind, Asset
<1>3. CASE Rename(p)
  <2>1. /\ pc[p] = "rename" /\ asset[p] \in Asset /\ version' = version
        /\ asset'[p] = IF asset[p] = Assets THEN 0 ELSE asset[p] + 1
        /\ pc'[p] \in {"checksum", "manifest"}
    BY <1>1, <1>3 DEF Rename, NextAsset, Post, TypeOK
  <2> QED  BY <2>1, Numbers DEF Behind, Asset
<1>4. CASE HandOver(p)
  <2>1. PICK r \in {"ready", "unusable"} : Finish(p, r)
    BY <1>4 DEF HandOver
  <2>2. pc'[p] = "done" /\ result'[p] = r /\ version' = version
    BY <1>1, <1>4, <2>1 DEF Result, HandOver
  <2> QED  BY <1>1, <2>2 DEF HandedOver
<1>5. CASE Fetch(p) \/ OpenTmp(p) \/ Write(p) \/ Chmod(p) \/ WriteManifest(p)
  <2>1. version' = version /\ asset' = asset
    BY <1>5 DEF Fetch, OpenTmp, Write, Chmod, WriteManifest
  <2>2. pc'[p] \in Installing
    BY <1>1, <1>5 DEF Fetch, OpenTmp, Write, Chmod, WriteManifest
  <2> QED  BY <2>1, <2>2 DEF Behind
<1> QED  BY <1>1, <1>2, <1>3, <1>4, <1>5
        DEF Step, Start, ReadSetting, FindLatest, MakeDir, FileGone,
            TruncateSetting, FillSetting, List, Select, ReadDir, Unlink, RemoveDir, Removed

\* and whoever carries an asset goes on or leaves it to another.
LEMMA CarriedKept ==
    ASSUME Shape, Shape', NEW p \in Proc, Step(p), job' = job, Elsewhere(p), ~ CutOff(p),
           pc[p] \notin Removing, \A q \in Proc : Progress(q), Carried
    PROVE  Carried'
<1> SUFFICES ASSUME NEW v \in Version, NEW a \in Asset, There(v, a)'
             PROVE  \E q \in Proc : Carries(q, v, a)'
  BY DEF Carried
<1> USE Going DEF Places, self, disk
<1>1. Post(p) /\ TypeOK
  BY DEF Shape, Posts
<1>2. \A q \in Proc \ {p}, b \in Asset : Carries(q, v, b) => Carries(q, v, b)'
  BY DEF Carries, Behind, HandedOver, Preparing, Elsewhere
<1>3. CASE There(v, a)
  <2>1. PICK q \in Proc : Carries(q, v, a)
    BY <1>3 DEF Carried
  <2>2. CASE q # p
    BY <1>2, <2>1, <2>2
  <2>3. CASE q = p /\ ~ FileGone(p)
    <3>1. pc[p] \notin Resting
      BY <1>1, <2>1, <2>3, RestEnds DEF Start, Carries, Behind, HandedOver
    <3>2. pc[p] \in Installing
      BY <2>1, <2>3, <3>1 DEF Carries, Behind, HandedOver
    <3>3. version' = version /\ (Behind(p, a) => Behind(p, a)' \/ HandedOver(p)')
      BY <2>3, <3>2, BehindStays
    <3> QED  BY <2>1, <2>3, <3>1, <3>3 DEF Carries, HandedOver, Preparing
  <2>4. CASE q = p /\ FileGone(p)
    <3>1. /\ pc[p] \in {"chmod", "rename"} /\ Tmp(p) = NoFile /\ asset[p] \in Asset
          /\ version[p] \in Version /\ version[p] = v
      BY <1>1, <2>1, <2>4 DEF FileGone, Progress, Post, Carries
    <3>2. There(v, asset[p])
      BY <3>1 DEF Progress
    <3>3. PICK r \in Proc : Carries(r, v, asset[p])
      BY <3>1, <3>2 DEF Carried
    <3>4. a < asset[p]
      BY <2>1, <2>4, <3>1, Numbers DEF Carries, Behind, HandedOver
    <3>5. r # p
      BY <3>1, <3>3, Numbers DEF Carries, Behind, HandedOver, Asset
    <3>6. Carries(r, v, a)
      BY <3>1, <3>3, <3>4, Numbers DEF Carries, Behind, Asset, Shape, TypeOK
    <3> QED  BY <1>2, <3>5, <3>6
  <2> QED  BY <2>2, <2>3, <2>4
<1>4. CASE ~ There(v, a)
  <2>1. Rename(p) /\ v = version[p] /\ a = asset[p]
    BY <1>4, FinalStands DEF There, Final
  <2>2. /\ asset'[p] = IF asset[p] = Assets THEN 0 ELSE asset[p] + 1
        /\ pc'[p] \in {"checksum", "manifest"} /\ version' = version /\ Preparing(p)
    BY <1>1, <2>1 DEF Rename, NextAsset, Post, TypeOK
  <2>3. Carries(p, v, a)'
    BY <2>1, <2>2, Numbers DEF Carries, Behind, Preparing, Asset
  <2> QED  BY <2>3
<1> QED  BY <1>3, <1>4

\* Whatever one process does, each has still done what brought it where it is.
LEMMA ProgressKept ==
    ASSUME Shape, Shape', NEW p \in Proc, Step(p), job' = job, Elsewhere(p), ~ CutOff(p),
           result'[p] # "cutoff", pc[p] \notin Removing,
           \A q \in Proc : Progress(q), NEW q \in Proc
    PROVE  Progress(q)'
<1> USE Going DEF Places, self, disk
<1>1. /\ Post(p) /\ Post(p)' /\ Post(q) /\ Post(q)' /\ TypeOK /\ Posts
      /\ Progress(p) /\ Progress(q)
  BY DEF Shape, Posts
<1>2. /\ dirs \subseteq dirs'
      /\ \A v \in Version, a \in Asset :
           /\ There(v, a) => There(v, a)'
           /\ at[v][<<a, "tmp">>] # NoFile => at'[v][<<a, "tmp">>] # NoFile \/ There(v, a)'
  BY NothingGoes
<1>3. CASE q # p
  <2>1. /\ pc'[q] = pc[q] /\ version'[q] = version[q] /\ asset'[q] = asset[q]
        /\ result'[q] = result[q] /\ job'[q] = job[q]
    BY <1>3 DEF Elsewhere
  <2>2. pc'[q] \in Installing => version'[q] \in dirs'
    BY <1>1, <1>2, <2>1 DEF Progress
  <2>3. \A a \in Asset : Behind(q, a)' \/ HandedOver(q)' => There(version[q], a)'
    BY <1>1, <1>2, <2>1 DEF Progress, Behind, HandedOver, Post, Preparing
  <2>4. pc'[q] \in {"write", "chmod", "rename"} =>
            at'[version[q]][<<asset[q], "tmp">>] # NoFile \/ There(version[q], asset[q])'
    BY <1>1, <1>2, <2>1 DEF Progress, Post, Tmp
  <2>5. (Preparing(q) /\ result[q] = "failed")' => \E a \in Asset : There(version[q], a)'
    BY <1>1, <1>2, <2>1 DEF Progress, Post, Preparing
  <2> QED  BY <2>1, <2>2, <2>3, <2>4, <2>5 DEF Progress, Tmp, There, Final
<1>4. CASE q = p
  <2> SUFFICES Progress(p)'
    BY <1>4
  <2>1. Preparing(p)' <=> Preparing(p)
    BY DEF Preparing
  <2>2. CASE pc'[p] \notin Installing \union {"done"}
    BY <1>1, <2>2 DEF Progress, Behind, HandedOver, Post
  <2>3. CASE pc'[p] = "done" /\ ~ Preparing(p)
    BY <2>1, <2>3 DEF Progress, Behind, HandedOver
  <2>4. CASE pc'[p] = "done" /\ result'[p] = "refused"
    BY <2>1, <2>4 DEF Progress, Behind, HandedOver
  <2>5. CASE MakeDir(p)
    <3>1. pc'[p] = "checksum" /\ asset'[p] = 1 /\ version' = version /\ version[p] \in dirs'
      BY <1>1, <2>5 DEF MakeDir, TypeOK
    <3>2. \A a \in Asset : ~ (Behind(p, a)' \/ HandedOver(p)')
      BY <3>1, Numbers DEF Behind, HandedOver, Asset
    <3> QED  BY <1>1, <3>1, <3>2 DEF Progress, Post
  <2>6. CASE FileGone(p)
    <3>1. /\ pc[p] \in {"chmod", "rename"} /\ Tmp(p) = NoFile /\ asset[p] \in Asset
          /\ version[p] \in Version /\ version' = version
      BY <1>1, <2>6 DEF FileGone, Progress, Post
    <3>2. There(version[p], asset[p])
      BY <1>1, <3>1 DEF Progress
    <3>3. \A a \in Asset : a = asset[p] => There(version[p], a)'
      <4> SUFFICES ASSUME NEW a \in Asset, a = asset[p]
                   PROVE  There(version[p], a)'
        OBVIOUS
      <4>1. There(version[p], a)
        BY <3>2
      <4>2. at'[version[p]][<<a, "final">>] # NoFile
        BY <1>2, <3>1, <4>1 DEF There, Final
      <4> QED  BY <3>1, <4>2 DEF There, Final
    <3>4. pc'[p] = "done" /\ result'[p] = "failed"
      BY <1>1, <2>6 DEF FileGone, Result
    <3> QED  BY <3>1, <3>3, <3>4 DEF Progress, Behind, HandedOver
  <2>7. CASE pc[p] \in Installing /\ ~ FileGone(p)
    <3>1. version[p] \in Version /\ version[p] \in dirs' /\ version' = version
      BY <1>1, <1>2, <2>7, BehindStays DEF Post, Progress
    <3>2. \A a \in Asset : Behind(p, a) => There(version[p], a)'
      BY <1>1, <1>2, <3>1 DEF Progress
    <3>3. CASE Verify(p)
      <4>1. /\ pc[p] = "checksum" /\ asset[p] \in Asset
            /\ \/ asset' = asset /\ pc'[p] = "fetch"
               \/ /\ asset'[p] = IF asset[p] = Assets THEN 0 ELSE asset[p] + 1
                  /\ pc'[p] \in {"checksum", "manifest"}
                  /\ There(version[p], asset[p])
        BY <1>1, <3>3 DEF Verify, NextAsset, Post, TypeOK, Cached, IsWhole, There
      <4>2. \A a \in Asset : Behind(p, a)' => There(version[p], a)'
        <5> SUFFICES ASSUME NEW a \in Asset, Behind(p, a)'
                     PROVE  There(version[p], a)'
          OBVIOUS
        <5>1. CASE Behind(p, a)
          BY <3>2, <5>1
        <5>2. CASE ~ Behind(p, a)
          <6>1. a = asset[p] /\ There(version[p], a)
            BY <4>1, <5>2, Numbers DEF Behind, Asset
          <6> QED  BY <1>2, <3>1, <6>1 DEF There, Final
        <5> QED  BY <5>1, <5>2
      <4>3. result'[p] = "none"
        BY <1>1, <4>1 DEF Post
      <4> QED  BY <3>1, <4>1, <4>2, <4>3 DEF Progress, HandedOver
    <3>4. CASE Rename(p)
      <4>1. /\ pc[p] = "rename" /\ asset[p] \in Asset
            /\ asset'[p] = IF asset[p] = Assets THEN 0 ELSE asset[p] + 1
            /\ pc'[p] \in {"checksum", "manifest"}
        BY <1>1, <3>4 DEF Rename, NextAsset, Post, TypeOK
      <4>2. \A a \in Asset : a = asset[p] => There(version[p], a)'
        <5>1. at'[version[p]][<<asset[p], "final">>] # NoFile
          <6>1. at'[version[p]][<<asset[p], "final">>] = Tmp(p) /\ Tmp(p) \in Inode
            BY <1>1, <3>4, RenameEffect
          <6> QED  BY <6>1, RuntimeAssumption
        <5> QED  BY <3>1, <5>1 DEF There, Final
      <4>3. \A a \in Asset : Behind(p, a)' => There(version[p], a)'
        BY <3>2, <4>1, <4>2, Numbers DEF Behind, Asset
      <4>4. result'[p] = "none"
        BY <1>1, <4>1 DEF Post
      <4> QED  BY <3>1, <4>1, <4>3, <4>4 DEF Progress, HandedOver
    <3>5. CASE HandOver(p)
      <4>1. PICK r \in {"ready", "unusable"} : Finish(p, r)
        BY <3>5 DEF HandOver
      <4>2. pc'[p] = "done" /\ result'[p] = r
        BY <1>1, <4>1 DEF Result
      <4>3. \A a \in Asset : Behind(p, a)
        BY <1>1, <3>5 DEF HandOver, Post, Behind
      <4> QED  BY <3>1, <3>2, <4>2, <4>3 DEF Progress
    <3>6. CASE Fetch(p) \/ OpenTmp(p) \/ Write(p) \/ Chmod(p) \/ WriteManifest(p)
      <4>1. asset' = asset /\ pc'[p] \in Installing
        BY <1>1, <3>6 DEF Fetch, OpenTmp, Write, Chmod, WriteManifest
      <4>2. \A a \in Asset : Behind(p, a)' => There(version[p], a)'
        BY <2>7, <3>2, <4>1 DEF Behind
      <4>3. result'[p] = "none"
        BY <1>1, <4>1 DEF Post
      <4>4. pc'[p] \in {"write", "chmod", "rename"} =>
               at'[version[p]][<<asset[p], "tmp">>] # NoFile \/ There(version[p], asset[p])'
        <5>1. CASE OpenTmp(p)
          <6>1. at'[version[p]][<<asset[p], "tmp">>] \in Inode
            BY <1>1, <5>1, OpenEffect
          <6> QED  BY <6>1, RuntimeAssumption
        <5>2. CASE Write(p) \/ Chmod(p)
          BY <1>1, <1>2, <3>1, <5>2 DEF Write, Chmod, Progress, Post, Tmp
        <5>3. CASE Fetch(p) \/ WriteManifest(p)
          BY <1>1, <5>3 DEF Fetch, WriteManifest
        <5> QED  BY <3>6, <5>1, <5>2, <5>3
      <4> QED  BY <3>1, <4>1, <4>2, <4>3, <4>4 DEF Progress, HandedOver, Tmp, There, Final
    <3> QED  BY <1>1, <2>7, <3>3, <3>4, <3>5, <3>6
            DEF Step, Start, ReadSetting, FindLatest, MakeDir,
                TruncateSetting, FillSetting, List, Select, ReadDir, Unlink, RemoveDir, Removed
  <2>8. CASE pc[p] \notin Installing /\ ~ MakeDir(p)
    <3>1. CASE ReadSetting(p) \/ FindLatest(p)
      <4>1. pc'[p] \in {"mkdir", "latest"} \/ (pc'[p] = "done" /\ result'[p] = "refused")
        BY <1>1, <3>1 DEF ReadSetting, FindLatest, Result
      <4> QED  BY <2>2, <2>4, <4>1
    <3>2. CASE TruncateSetting(p) \/ FillSetting(p)
      BY <1>1, <2>2, <2>3, <3>2 DEF TruncateSetting, FillSetting, Post, Preparing, Result
    <3>3. CASE Start(p)
      <4>1. pc'[p] \notin Resting \union Installing
        BY <1>1, <3>3, RestEnds DEF Start
      <4> QED  BY <2>2, <4>1
    <3> QED  BY <1>1, <2>8, <3>1, <3>2, <3>3 DEF Step, Verify, Fetch, OpenTmp, Write, Chmod, Rename,
                FileGone, WriteManifest, HandOver, List, Select, ReadDir, Unlink, RemoveDir, Removed
  <2> QED  BY <2>5, <2>6, <2>7, <2>8
<1> QED  BY <1>3, <1>4

\* Of several that write to one file the last to empty it will make it whole.
LEMMA TornKept ==
    ASSUME Shape, Shape', NEW p \in Proc, Step(p), Elsewhere(p), ~ CutOff(p), TornIsWritten
    PROVE  TornIsWritten'
<1> SUFFICES ASSUME NEW i \in Inode, bytes'[i] = "partial"
             PROVE  \E q \in Proc : pc'[q] = "write" /\ fd'[q] = i /\ q \notin shaken'
  BY DEF TornIsWritten
<1> USE DEF self, disk
<1>1. Post(p) /\ TypeOK
  BY DEF Shape, Posts
<1>2. CASE OpenTmp(p)
  <2>1. PICK j \in Inode :
            /\ fd' = [fd EXCEPT ![p] = j]
            /\ bytes' = [bytes EXCEPT ![j] = "partial"]
            /\ shaken' = (shaken \ {p}) \union {q \in Proc \ {p} : pc[q] = "write" /\ fd[q] = j}
    BY <1>2, OpenEffect DEF Shape
  <2>2. CASE i = j
    <3>1. fd'[p] = i /\ p \notin shaken'
      BY <1>1, <2>1, <2>2 DEF TypeOK
    <3>2. pc'[p] = "write"
      BY <1>1, <1>2, Going DEF OpenTmp, Places
    <3> QED  BY <3>1, <3>2
  <2>3. CASE i # j
    <3>1. bytes[i] = "partial"
      BY <1>1, <2>1, <2>3 DEF TypeOK
    <3>2. PICK q \in Proc : pc[q] = "write" /\ fd[q] = i /\ q \notin shaken
      BY <3>1 DEF TornIsWritten
    <3>3. q # p
      BY <1>2, <3>2 DEF OpenTmp
    <3>4. q \notin shaken'
      BY <2>1, <2>3, <3>2
    <3> QED  BY <3>2, <3>3, <3>4 DEF Elsewhere
  <2> QED  BY <2>2, <2>3
<1>3. CASE Write(p)
  <2>1. /\ pc[p] = "write" /\ fd[p] \in Inode /\ shaken' = shaken
        /\ bytes' = [bytes EXCEPT ![fd[p]] = "whole"] \/ (p \in shaken /\ bytes' = bytes)
    BY <1>1, <1>3 DEF Write, Post
  <2>2. bytes[i] = "partial" /\ (i = fd[p] => p \in shaken)
    BY <1>1, <2>1 DEF TypeOK
  <2>3. PICK q \in Proc : pc[q] = "write" /\ fd[q] = i /\ q \notin shaken
    BY <2>2 DEF TornIsWritten
  <2>4. q # p
    BY <2>2, <2>3
  <2> QED  BY <2>1, <2>3, <2>4 DEF Elsewhere
<1>4. CASE ~ OpenTmp(p) /\ ~ Write(p)
  <2>1. UNCHANGED <<bytes, shaken>> /\ pc[p] # "write"
    BY <1>4 DEF Step, Start, ReadSetting, FindLatest, MakeDir, Verify, CutOff, Writing, Fetch,
           Chmod,
           Rename, FileGone, WriteManifest, HandOver, TruncateSetting, FillSetting, List, Select,
           ReadDir, Unlink, RemoveDir, Removed
  <2>2. PICK q \in Proc : pc[q] = "write" /\ fd[q] = i /\ q \notin shaken
    BY <2>1 DEF TornIsWritten
  <2> QED  BY <2>1, <2>2 DEF Elsewhere
<1> QED  BY <1>2, <1>3, <1>4

\* So a race that was going well goes on well.
LEMMA RaceKept ==
    ASSUME Shape, Shape', Race, NEW p \in Proc, Step(p) \/ Kill(p), job' = job, Elsewhere(p)
    PROVE  Race'
<1> SUFFICES ASSUME Calm'
             PROVE  (TornIsWritten /\ (\A q \in Proc : Progress(q)) /\ Carried)'
  BY DEF Race
<1>1. /\ Calm /\ Step(p) /\ ~ CutOff(p) /\ result'[p] # "cutoff" /\ pc[p] \notin Removing
  BY CalmBefore
<1>2. TornIsWritten /\ (\A q \in Proc : Progress(q)) /\ Carried
  BY <1>1 DEF Race
<1>3. TornIsWritten'
  BY <1>1, <1>2, TornKept
<1>4. \A q \in Proc : Progress(q)'
  BY <1>1, <1>2, ProgressKept
<1>5. Carried'
  BY <1>1, <1>2, CarriedKept
<1> QED  BY <1>3, <1>4, <1>5

-----------------------------------------------------------------------------
(* The theorems.                                                             *)

\* The cache and the processes in it, at every step: paths lead to inodes of their
\* own assets; whoever nobody has been beside has all that it has behind it whole;
\* and where nobody was killed, cut off or removing, a torn file is being written and
\* every asset that is there is behind somebody who has not failed.
THEOREM CacheInvariant == Spec => []CacheInv
<1>1. Init => CacheInv
  <2> SUFFICES ASSUME Init PROVE CacheInv
    OBVIOUS
  <2>1. TypeOK /\ Posts /\ Links
    BY TypesBegin
  <2>2. Running = {} /\ \A p \in Proc : pc[p] = "idle" /\ result[p] = "none"
    BY DEF Init, Running
  <2>3. Alone
    BY <2>2, FS_EmptySet DEF Alone, Served
  <2>4. TornIsWritten /\ Carried /\ \A p \in Proc : Progress(p)
    <3>1. TornIsWritten
      BY DEF Init, TornIsWritten
    <3>2. Carried
      <4>1. \A a \in Asset : <<a, "final">> \in Path
        BY Numbers, Names
      <4> QED  BY <4>1 DEF Init, Carried, There, Final
    <3>3. \A p \in Proc : Progress(p)
      BY <2>2 DEF Progress, Behind, HandedOver
    <3> QED  BY <3>1, <3>2, <3>3
  <2> QED  BY <2>1, <2>3, <2>4 DEF CacheInv, Race
<1>2. CacheInv /\ [Next]_vars => CacheInv'
  <2> SUFFICES ASSUME CacheInv, [Next]_vars PROVE CacheInv'
    OBVIOUS
  <2>1. CASE UNCHANGED vars
    <3>1. TypeOK' /\ Posts' /\ Links'
      BY <2>1 DEF vars, CacheInv, TypeOK, Posts, Post, Preparing, Links, Link
    <3>2. Alone'
      BY <2>1 DEF vars, CacheInv, Alone, Running, Served, Preparing, Undisturbed, Behind, Sound,
                  IsWhole, Final, Tmp
    <3>3. Race'
      BY <2>1 DEF vars, CacheInv, Race, Calm, TornIsWritten, Progress, Carried, Carries, Behind,
                  HandedOver, Preparing, There, Final, Tmp
    <3> QED  BY <3>1, <3>2, <3>3 DEF CacheInv
  <2>2. ASSUME NEW p \in Proc, Step(p) \/ Kill(p), job' = job, Crowding
        PROVE  CacheInv'
    <3>1. Shape
      BY DEF CacheInv, Shape
    <3>2. crowded' \in SUBSET Proc
      BY <2>2 DEF Crowding, Running, CacheInv, TypeOK
    <3>3. Shape' /\ Elsewhere(p)
      BY <2>2, <3>1, <3>2, ShapeKept
    <3>4. Alone'
      BY <2>2, <3>1, <3>3, AloneKept DEF CacheInv
    <3>5. Race'
      BY <2>2, <3>1, <3>3, RaceKept DEF CacheInv
    <3> QED  BY <3>3, <3>4, <3>5 DEF CacheInv, Shape
  <2> QED  BY <2>1, <2>2 DEF Next, Crowding
<1> QED  BY <1>1, <1>2, PTL DEF Spec

\* Whoever has the cache to itself ends with a runtime that is whole, whatever was
\* left in it; of those who install a version at once not all fail, and every file
\* of it ends up whole.
THEOREM Serves == Spec => []CacheServes
<1>1. CacheInv => CacheServes
  <2> SUFFICES ASSUME CacheInv PROVE CacheServes
    OBVIOUS
  <2>1. ASSUME NEW p \in Proc, Preparing(p), pc[p] = "done", p \notin crowded
        PROVE  result[p] \in {"ready", "cutoff", "refused"}
    BY <2>1 DEF CacheInv, Alone, Served
  <2>2. ASSUME Over, \A p \in Proc : pc[p] = "done" /\ result[p] # "cutoff",
               \A p \in Proc : job[p].cmd \notin {"prune", "uninstall"},
               NEW p \in Proc, Preparing(p), result[p] # "refused"
        PROVE  /\ \A a \in Asset : IsWhole(version[p], a)
               /\ \E q \in Proc : /\ Preparing(q) /\ version[q] = version[p]
                                  /\ result[q] \in {"ready", "unusable"}
    <3>1. TornIsWritten /\ (\A q \in Proc : Progress(q)) /\ Carried /\ TypeOK /\ Posts /\ Links
      BY <2>2 DEF CacheInv, Race, Calm
    <3>2. PICK q \in Proc : HandedOver(q) /\ version[q] = version[p] /\ version[q] \in Version
      <4>1. CASE result[p] \in {"ready", "unusable"}
        BY <2>2, <3>1, <4>1 DEF HandedOver, Posts, Post
      <4>2. CASE result[p] = "failed"
        <5>1. PICK a \in Asset : There(version[p], a)
          BY <2>2, <3>1, <4>2 DEF Progress
        <5>2. version[p] \in Version
          BY <2>2, <3>1, <4>2 DEF Posts, Post
        <5>3. PICK q \in Proc : Carries(q, version[p], a)
          BY <3>1, <5>1, <5>2 DEF Carried
        <5> QED  BY <2>2, <5>2, <5>3 DEF Carries, Behind
      <4>3. result[p] # "none"
        BY <2>2, <3>1 DEF Posts, Post
      <4> QED  BY <2>2, <3>1, <4>1, <4>2, <4>3 DEF TypeOK, Result
    <3>3. ASSUME NEW a \in Asset PROVE IsWhole(version[p], a)
      <4>1. There(version[p], a) /\ version[p] \in Version
        BY <3>1, <3>2 DEF Progress
      <4>2. a \in 0..Assets /\ a # 0 /\ <<a, "final">> \in Path
        BY Numbers, Names
      <4>3. Final(version[p], a) \in Inode
        BY <3>1, <4>1, <4>2, Standing DEF There
      <4>4. bytes[Final(version[p], a)] # "none"
        BY <3>1, <4>1, <4>2 DEF Links, Link, There, Final
      <4>5. bytes[Final(version[p], a)] # "partial"
        BY <2>2, <3>1, <4>3 DEF TornIsWritten
      <4>6. bytes[Final(version[p], a)] \in {"none", "partial", "whole"}
        BY <3>1, <4>3 DEF TypeOK
      <4> QED  BY <4>1, <4>4, <4>5, <4>6 DEF IsWhole, There
    <3> QED  BY <3>2, <3>3 DEF HandedOver
  <2> QED  BY <2>1, <2>2 DEF CacheServes
<1> QED  BY <1>1, CacheInvariant, PTL
=============================================================================
