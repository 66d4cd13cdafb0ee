-------------------------- MODULE MCCoordinator --------------------------
(***************************************************************************)
(* Instances of Coordinator for TLC.  Four processes fill the pipeline of  *)
(* a leader whose channel holds one request: one command running, one      *)
(* request queued and one in the accept loop's hands.                      *)
(***************************************************************************)
EXTENDS Coordinator

CONSTANTS c1, c2, c3, c4

FourClients  == {c1, c2, c3, c4}
ThreeClients == {c1, c2, c3}
TwoOfThem    == {c1, c2}
OneOfThem    == {c1}
NoneOfThem   == {}
=============================================================================
