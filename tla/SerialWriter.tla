--------------------------- MODULE SerialWriter ---------------------------
(***************************************************************************)
(* What the write coordinator promises: commands run one at a time, each   *)
(* at most once, and a process reports a result only when it is the result *)
(* of its command.  A process whose transport failed, or that was killed,  *)
(* knows nothing: its command may have run, be running, or run later.      *)
(***************************************************************************)
CONSTANTS Client, NoClient

VARIABLES
    active,     \* whose command is running
    starts,     \* how often each command was started
    result,     \* what each command came to, "none" until it has ended
    outcome     \* what each process reported

vars == <<active, starts, result, outcome>>

Init ==
    /\ active = NoClient
    /\ starts = [c \in Client |-> 0]
    /\ result = [c \in Client |-> "none"]
    /\ outcome = [c \in Client |-> "none"]

\* A process that has its result, or was turned away, is not run afterwards.
Start(c) ==
    /\ active = NoClient
    /\ starts[c] = 0
    /\ outcome[c] \in {"none", "lost", "killed"}
    /\ active' = c
    /\ starts' = [starts EXCEPT ![c] = 1]
    /\ UNCHANGED <<result, outcome>>

Finish(c) ==
    /\ active = c
    /\ active' = NoClient
    /\ \E r \in {"ok", "err"} : result' = [result EXCEPT ![c] = r]
    /\ UNCHANGED <<starts, outcome>>

Report(c) ==
    /\ outcome[c] = "none"
    /\ \/ result[c] # "none" /\ outcome' = [outcome EXCEPT ![c] = result[c]]
       \/ starts[c] = 0 /\ outcome' = [outcome EXCEPT ![c] = "busy"]
       \/ outcome' = [outcome EXCEPT ![c] = "lost"]
    /\ UNCHANGED <<active, starts, result>>

\* Killing a process may cut short the command that is running, its own or
\* another's.
Killed(c) ==
    /\ outcome' = [outcome EXCEPT ![c] = IF @ = "none" THEN "killed" ELSE @]
    /\ active' \in {active, NoClient}
    /\ UNCHANGED <<starts, result>>

Next == \E c \in Client : Start(c) \/ Finish(c) \/ Report(c) \/ Killed(c)

Spec == Init /\ [][Next]_vars
=============================================================================
