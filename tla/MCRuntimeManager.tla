------------------------- MODULE MCRuntimeManager -------------------------
(***************************************************************************)
(* Instances of RuntimeManager for TLC: two projects that share a cache of *)
(* two versions of two files each, the binary and the model.               *)
(***************************************************************************)
EXTENDS RuntimeManager

CONSTANTS p1, p2, p3, proj1, proj2

ThreeProcs  == {p1, p2, p3}
TwoProjects == {proj1, proj2}
TwoVersions == {1, 2}
OneOfThem   == {p2}

Do(c, j, v) == [cmd |-> c, project |-> j, version |-> v]
Cast(a, b, c, s1, s2) ==
    [job |-> [p \in Proc |-> CASE p = p1 -> a [] p = p2 -> b [] p = p3 -> c],
     setting |-> [j \in Project |-> CASE j = proj1 -> s1 [] j = proj2 -> s2]]

\* Three at one version, one of which may be killed; a selection that changes while
\* its version is installed and removed; two runs and a prune; two prunes.
AllCasts ==
    {Cast(Do("install", proj1, 2), Do("run", proj1, Latest), Do("run", proj2, Latest), Unset, 2),
     Cast(Do("install", proj1, 1), Do("use", proj1, 1), Do("uninstall", proj1, 1), Latest, Unset),
     Cast(Do("run", proj1, Latest), Do("run", proj2, Latest), Do("prune", proj1, Latest), 1, 2),
     Cast(Do("install", proj1, Latest), Do("prune", proj2, Latest), Do("prune", proj1, Latest), 1, Unset),
     Cast(Do("install", proj1, 1), Do("install", proj1, 2), Do("prune", proj1, Latest), 1, Unset)}
=============================================================================
