--------------------------- MODULE MCConfinedArm ---------------------------
(* An arm over a corpus that can be seeded or one whose parents go round, with *)
(* one query, and exit codes of success, of failure, of a target killed and of *)
(* a shell that could not publish.                                             *)
EXTENDS ConfinedArm, TLC

CONSTANTS a, b

TheEntities == {a, b}
TheCorpora  == {(a :> NoParent) @@ (b :> a), (a :> b) @@ (b :> a)}
TheCodes    == {0, 1, 125, 137}
=============================================================================
