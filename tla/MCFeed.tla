------------------------------ MODULE MCFeed ------------------------------
(***************************************************************************)
(* An instance of Feed for TLC: two mutating commands, one viewer, and two *)
(* rebuilds that may overlap; the log is empty or has reached its limit.   *)
(***************************************************************************)
EXTENDS Feed

CONSTANTS k1, k2        \* commands
CONSTANTS c1            \* a viewer
CONSTANTS b1, b2        \* rebuilds

TwoCommands == {k1, k2}
OneViewer   == {c1}
TwoBuilders == {b1, b2}
ShortOrFull == {<<>>, [i \in 1..MaxLines + 1 |-> NoCmd]}
=============================================================================
