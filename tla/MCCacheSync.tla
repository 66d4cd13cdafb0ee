---------------------------- MODULE MCCacheSync ----------------------------
(***************************************************************************)
(* An instance of CacheSync for TLC: two facts, and casts of commands that *)
(* may meet.                                                               *)
(***************************************************************************)
EXTENDS CacheSync, TLC

CONSTANTS m1, m2, m3, r1, k1, k2    \* commands
CONSTANTS f1, f2                    \* documents
CONSTANTS old, mine, theirs         \* what they say

Alter(c) == [f \in Doc |-> IF f \in DOMAIN c THEN c[f] ELSE Keep]
Start0   == [f \in Doc |-> old]

\* A change of two documents at once, and one that removes a document and
\* leaves the other alone.
OneRemoval == {Alter([f \in {f1} |-> NoDoc])}
Changes    == {Alter([f \in {f1, f2} |-> mine])} \union OneRemoval

AllMutators == {m1, m2, m3}

\* Two mutations that may be killed; a mutation or a repair with two checks
\* before, after and between; a mutation and a repair.
AllCasts    == {{m2, m3}, {m1, k1, k2}, {r1, k1, k2}, {m1, r1}}
MayBeKilled == {m2, m3}
OneRepairer == {r1}
TwoCheckers == {k1, k2}
Nobody == {}
EveryWriter == Writer
Facts       == {f1, f2}
Contents    == {old, mine, theirs}

\* Which of two commands of one kind it is makes no difference.
Alike == Permutations({k1, k2}) \union Permutations({m2, m3})
=============================================================================
