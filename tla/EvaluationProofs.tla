------------------------- MODULE EvaluationProofs -------------------------
(***************************************************************************)
(* What TLAPS proves of the two evaluations.  Of retrieval (ConfinedArm),  *)
(* for every corpus, number of queries and set of exit codes: what an arm  *)
(* accepts is a whole run of its target, and an arm that returns has       *)
(* nothing left that could write.  Of facts against their specs            *)
(* (EvalEngine), for all files, facts, specs and edits: no fact is said to *)
(* hold whose code has gone.                                               *)
(***************************************************************************)
EXTENDS ConfinedArm, EvalEngine, TLAPS

-----------------------------------------------------------------------------
(* The inductive invariant.                                                  *)

Places   == {"open", "start", "resolve", "await", "observe", "authenticate", "sample", "join",
             "settle", "stop", "stopped", "joinAborted", "hardStop", "finalJoin", "abandon",
             "sweep", "rmdir", "returned"}
Stages   == {"off", "exited", "written", "published", "unpublished", "over"} \union Working
Outcomes == {"accepted", "failed", "fatal"}

Controls == [pc : Places, seen : Codes \union {None}, waitFirst : BOOLEAN,
             sample : Nat \union {None}, swept : Nat]
Clients  == [state : {"none", "running", "exited"}, rc : Int \union {None}]
Units    == [state : {"absent", "active", "gone", "failed"}, rc : Int \union {None},
             stopping : BOOLEAN]
Targets  == [stage : Stages, used : Nat, db : {"none", "seeded", "sealed"},
             rc : Codes \union {None}]
Pipes    == [sent : 0..Whole, kept : 0..Whole, flow : SUBSET Stream]
Dirs     == [there : BOOLEAN, temp : BOOLEAN, marker : Codes \union {None}]
Waits    == [state : {"none", "pending", "stamped", "closed"}, status : Int \union {None},
             failed : BOOLEAN]
Ends     == [outcome : Outcomes \union {None}, raw : (0..Whole) \union {None}]

TypeOK ==
    /\ ctl \in Controls /\ late \in BOOLEAN /\ client \in Clients /\ unit \in Units
    /\ target \in Targets /\ pipe \in Pipes /\ dir \in Dirs /\ wait \in Waits /\ end \in Ends

\* The unit is there while the shell runs, and is made once.
UnitHoldsShell ==
    /\ unit.state = "absent" <=> target.stage = "off"
    /\ unit.state = "active" <=> target.stage \notin {"off", "over"}
    /\ client.state = "none" => unit.state = "absent"

\* A target that ended well has sealed its database and sent its response.
GoodExitIsWhole ==
    /\ target.stage \in {"off"} \union Working => target.rc = None
    /\ target.stage = "encode" => target.db = "sealed"
    /\ target.rc = 0 => target.db = "sealed"

\* A marker, on the disk or in the controller's hands, is the exit code of a
\* target that does no more work.
MarkerIsFinal ==
    /\ dir.marker # None => target.stage \in {"published", "over"} /\ dir.marker = target.rc
    /\ ctl.seen # None => target.stage \in {"published", "over"} /\ ctl.seen = target.rc
    /\ ctl.pc \in {"observe", "authenticate", "sample", "join", "settle"} => ctl.seen # None
    /\ ctl.pc \in {"join", "settle"} => ctl.sample # None
    /\ ctl.sample # None => ctl.seen # None /\ ctl.sample = target.used

\* Wait has returned: the client is gone and no stream will carry anything more.
WaitIsFinal ==
    /\ wait.state \in {"none", "pending"} => wait.status = None
    /\ wait.state \in {"stamped", "closed"} =>
        /\ wait.failed <=> wait.status # 0
        /\ client.state = "exited"
        /\ pipe.flow = {} \/ Drained

\* What is returned was decided with Wait joined, or before anything was started.
DecidedWhenJoined ==
    /\ ctl.pc \in {"open", "start"} => client.state = "none"
    /\ ctl.pc = "settle" => wait.state = "closed"
    /\ end.outcome # None => ctl.pc \in {"sweep", "rmdir", "returned"}
    /\ end.outcome \in {"accepted", "failed"} => wait.state = "closed" \/ client.state = "none"
    /\ end.outcome = "accepted" => ctl.seen # None
    /\ end.raw # None => wait.state = "closed" /\ end.raw = pipe.kept

\* The shell has written its temporary file, or has tried to: it writes it once.
Wrote == target.stage \notin {"off", "exited"} \union Working

\* The directory is swept twice, with the decision taken in between: whatever
\* the shell wrote after the first sweep, the second finds it.
SweptTwice ==
    /\ dir.temp \/ dir.marker # None => Wrote
    /\ ctl.pc = "open" => ~dir.there
    /\ ctl.pc \notin {"abandon", "sweep", "rmdir", "returned"} => ctl.swept = 0
    /\ ctl.pc = "abandon" => ctl.swept = 1
    /\ ctl.pc = "sweep" => ctl.swept \in {0, 1} /\ (ctl.swept = 1 => end.outcome # None)
    /\ ctl.pc = "rmdir" => ctl.swept \in {1, 2} /\ (ctl.swept = 2 => end.outcome # None)
    /\ ctl.pc \in {"abandon", "sweep"} /\ ctl.swept = 1 /\ dir.there => Wrote
    /\ ctl.pc = "rmdir" /\ ctl.swept = 2 =>
          /\ dir.there => Wrote
          /\ ~dir.temp /\ dir.marker = None
    /\ ctl.pc = "returned" => ~dir.there /\ end.outcome # None

ArmInv ==
    /\ TypeOK /\ UnitHoldsShell /\ GoodExitIsWhole /\ MarkerIsFinal
    /\ WaitIsFinal /\ DecidedWhenJoined /\ SweptTwice /\ AcceptedIsWhole
-----------------------------------------------------------------------------
(* The invariant is inductive.                                               *)

\* The records stay of their kind under the updates that the actions make.
LEMMA ControlUpdates ==
    /\ \A k \in Controls, p \in Places : [k EXCEPT !.pc = p] \in Controls
    /\ \A k \in Controls, p \in Places, n \in Nat : [k EXCEPT !.pc = p, !.sample = n] \in Controls
    /\ \A k \in Controls : k.swept + 1 \in Nat
    /\ \A k \in Controls, p \in Places, n \in Nat : [k EXCEPT !.pc = p, !.swept = n] \in Controls
<1>1. \A k \in Controls, p \in Places : [k EXCEPT !.pc = p] \in Controls
    BY DEF Controls
<1>2. \A k \in Controls, p \in Places, n \in Nat : [k EXCEPT !.pc = p, !.sample = n] \in Controls
    BY DEF Controls
<1>3. \A k \in Controls : k.swept + 1 \in Nat
    BY DEF Controls
<1>4. \A k \in Controls, p \in Places, n \in Nat : [k EXCEPT !.pc = p, !.swept = n] \in Controls
    BY DEF Controls
<1> QED
    BY <1>1, <1>2, <1>3, <1>4

\* So do those of the target.
LEMMA TargetUpdates ==
    /\ \A t \in Targets, g \in Stages : [t EXCEPT !.stage = g] \in Targets
    /\ \A t \in Targets, g \in Stages, c \in Codes : [t EXCEPT !.stage = g, !.rc = c] \in Targets
    /\ \A t \in Targets : t.used \in Nat /\ t.rc \in Codes \union {None} /\ t.used + 1 \in Nat
    /\ \A t \in Targets, n \in Nat : [t EXCEPT !.used = n] \in Targets
    /\ \A t \in Targets, g \in Stages, n \in Nat, d \in {"seeded", "sealed"} :
           [t EXCEPT !.stage = g, !.used = n, !.db = d] \in Targets
<1>1. \A t \in Targets, g \in Stages : [t EXCEPT !.stage = g] \in Targets
    BY DEF Targets
<1>2. \A t \in Targets, g \in Stages, c \in Codes : [t EXCEPT !.stage = g, !.rc = c] \in Targets
    BY DEF Targets
<1>3. \A t \in Targets : t.used \in Nat /\ t.rc \in Codes \union {None} /\ t.used + 1 \in Nat
    BY DEF Targets
<1>4. \A t \in Targets, n \in Nat : [t EXCEPT !.used = n] \in Targets
    BY DEF Targets
<1>5. \A t \in Targets, g \in Stages, n \in Nat, d \in {"seeded", "sealed"} :
           [t EXCEPT !.stage = g, !.used = n, !.db = d] \in Targets
    BY DEF Targets
<1> QED
    BY <1>1, <1>2, <1>3, <1>4, <1>5

\* And that of the unit, whatever code it ends with.
LEMMA UnitUpdates ==
    \A u \in Units, g \in {"gone", "failed"}, c \in Int \union {None} :
           [u EXCEPT !.state = g, !.rc = c] \in Units
    BY DEF Units

\* So they do when the unit ends, whatever the code.
LEMMA UnitEndsUpdates ==
    ASSUME TypeOK, NEW c \in Int \union {None}, UnitEnds(c)
    PROVE  unit' \in Units /\ target' \in Targets
<1>1. target' \in Targets
    BY TargetUpdates DEF TypeOK, UnitEnds, Stages
<1>2. unit' = [unit EXCEPT !.state = IF c = 0 THEN "gone" ELSE "failed", !.rc = c]
    BY DEF UnitEnds
<1>3. (IF c = 0 THEN "gone" ELSE "failed") \in {"gone", "failed"}
    OBVIOUS
<1> QED
    BY <1>1, <1>2, <1>3, UnitUpdates DEF TypeOK

\* Every action leaves a record of the right kind, whatever fields it sets.
LEMMA TypeStep == TypeOK /\ Next => TypeOK'
<1> SUFFICES ASSUME TypeOK, Next PROVE TypeOK'
    OBVIOUS
<1>0. /\ 0 \in Codes /\ Unpublished \in Codes /\ Reaped \in Codes /\ Codes \subseteq Int
    BY ArmAssumption DEF Unpublished, Reaped
<1> USE DEF TypeOK, machine, AtStep, Goto
<1>1. ASSUME OpenEndpoint PROVE TypeOK'
  <2>1. ctl' \in Controls
    BY <1>0, <1>1 DEF OpenEndpoint, Controls, Places
  <2>2. dir' \in Dirs
    BY <1>0, <1>1 DEF OpenEndpoint, Dirs
  <2>3. end' \in Ends
    BY <1>0, <1>1 DEF OpenEndpoint, Ends, Outcomes
  <2> QED
    BY <1>1, <2>1, <2>2, <2>3 DEF OpenEndpoint
<1>2. ASSUME StartClient PROVE TypeOK'
  <2>1. ctl' \in Controls
    BY <1>0, <1>2 DEF StartClient, Controls, Places
  <2>2. client' \in Clients
    BY <1>0, <1>2 DEF StartClient, Clients
  <2>3. wait' \in Waits
    BY <1>0, <1>2 DEF StartClient, Waits
  <2>4. end' \in Ends
    BY <1>0, <1>2 DEF StartClient, Ends, Outcomes
  <2> QED
    BY <1>2, <2>1, <2>2, <2>3, <2>4 DEF StartClient
<1>3. ASSUME Resolve PROVE TypeOK'
  <2>1. ctl' \in Controls
    BY <1>0, <1>3 DEF Resolve, Controls, Places
  <2> QED
    BY <1>3, <2>1 DEF Resolve
<1>4. ASSUME readCompletionMarker PROVE TypeOK'
  <2>1. ctl' \in Controls
    BY <1>0, <1>4 DEF readCompletionMarker, Controls, Places, Dirs
  <2> QED
    BY <1>4, <2>1 DEF readCompletionMarker
<1>5. ASSUME ObserveMarker PROVE TypeOK'
  <2>1. ctl' \in Controls
    BY <1>0, <1>5 DEF ObserveMarker, Controls, Places
  <2> QED
    BY <1>5, <2>1 DEF ObserveMarker
<1>6. ASSUME Authenticate PROVE TypeOK'
  <2>1. ctl' \in Controls
    BY <1>0, <1>6 DEF Authenticate, Controls, Places
  <2> QED
    BY <1>6, <2>1 DEF Authenticate
<1>7. ASSUME AwaitFails PROVE TypeOK'
  <2>1. ctl' \in Controls
    BY <1>0, <1>7 DEF AwaitFails, Controls, Places
  <2> QED
    BY <1>7, <2>1 DEF AwaitFails
<1>8. ASSUME takeCompletionAccountingSnapshot PROVE TypeOK'
  <2>1. ctl' \in Controls
    <3>1. CASE ctl' = [ctl EXCEPT !.pc = "join", !.sample = target.used]
      BY ControlUpdates, TargetUpdates, <3>1 DEF Places
    <3>2. CASE Goto("stop")
      BY ControlUpdates, TargetUpdates, <3>2 DEF Places
    <3> QED
      BY <1>8, <3>1, <3>2 DEF takeCompletionAccountingSnapshot
  <2> QED
    BY <1>8, <2>1 DEF takeCompletionAccountingSnapshot
<1>9. ASSUME Join PROVE TypeOK'
  <2>1. ctl' \in Controls
    BY <1>0, <1>9 DEF Join, Controls, Places
  <2> QED
    BY <1>9, <2>1 DEF Join
<1>10. ASSUME Settle PROVE TypeOK'
  <2>1. ctl' \in Controls
    BY <1>0, <1>10 DEF Settle, validateCompletionOrdering, reconcileCompletionStatus, Controls,
        Places
  <2>2. end' \in Ends
    BY <1>0, <1>10 DEF Settle, validateCompletionOrdering, reconcileCompletionStatus, Ends,
        Outcomes, Pipes, Whole
  <2> QED
    BY <1>10, <2>1, <2>2 DEF Settle, validateCompletionOrdering, reconcileCompletionStatus
<1>11. ASSUME IssueStop PROVE TypeOK'
  <2>1. ctl' \in Controls
    BY <1>0, <1>11 DEF IssueStop, Controls, Places
  <2>2. unit' \in Units
    BY <1>0, <1>11 DEF IssueStop, Units
  <2> QED
    BY <1>11, <2>1, <2>2 DEF IssueStop
<1>12. ASSUME stopAndCleanTransientUnit PROVE TypeOK'
  <2>1. ctl' \in Controls
    BY <1>0, <1>12 DEF stopAndCleanTransientUnit, Controls, Places
  <2>2. unit' \in Units
    BY <1>0, <1>12 DEF stopAndCleanTransientUnit, Units
  <2> QED
    BY <1>12, <2>1, <2>2 DEF stopAndCleanTransientUnit
<1>13. ASSUME JoinAborted PROVE TypeOK'
  <2>1. ctl' \in Controls
    BY <1>0, <1>13 DEF JoinAborted, Controls, Places
  <2> QED
    BY <1>13, <2>1 DEF JoinAborted
<1>14. ASSUME HardStop PROVE TypeOK'
  <2>1. ctl' \in Controls
    BY <1>0, <1>14 DEF HardStop, Controls, Places
  <2>2. client' \in Clients
    BY <1>0, <1>14 DEF HardStop, Clients
  <2> QED
    BY <1>14, <2>1, <2>2 DEF HardStop
<1>15. ASSUME FinalJoin PROVE TypeOK'
  <2>1. ctl' \in Controls
    BY <1>0, <1>15 DEF FinalJoin, Controls, Places
  <2> QED
    BY <1>15, <2>1 DEF FinalJoin
<1>16. ASSUME Abandon PROVE TypeOK'
  <2>1. ctl' \in Controls
    BY <1>0, <1>16 DEF Abandon, Controls, Places
  <2>2. end' \in Ends
    BY <1>0, <1>16 DEF Abandon, Ends, Outcomes, Pipes, Whole
  <2> QED
    BY <1>16, <2>1, <2>2 DEF Abandon
<1>17. ASSUME Sweep PROVE TypeOK'
  <2>1. ctl' \in Controls
    BY ControlUpdates, <1>17 DEF Sweep, Places
  <2>2. dir' \in Dirs
    BY <1>0, <1>17 DEF Sweep, Dirs
  <2> QED
    BY <1>17, <2>1, <2>2 DEF Sweep
<1>18. ASSUME cleanupCompletionEndpoint PROVE TypeOK'
  <2>1. ctl' \in Controls
    BY <1>0, <1>18 DEF cleanupCompletionEndpoint, Controls, Places
  <2>2. dir' \in Dirs
    BY <1>0, <1>18 DEF cleanupCompletionEndpoint, Dirs
  <2> QED
    BY <1>18, <2>1, <2>2 DEF cleanupCompletionEndpoint
<1>19. ASSUME CopyStdout PROVE TypeOK'
  <2>1. pipe' \in Pipes
    BY <1>0, <1>19 DEF CopyStdout, Pipes, Whole, Stream
  <2> QED
    BY <1>19, <2>1 DEF CopyStdout
<1>20. ASSUME NEW s \in Stream, LimitReached(s) PROVE TypeOK'
  <2>1. pipe' \in Pipes
    BY <1>0, <1>20 DEF LimitReached, Pipes, Whole, Stream
  <2> QED
    BY <1>20, <2>1 DEF LimitReached
<1>21. ASSUME WaitReturns PROVE TypeOK'
  <2>1. wait' \in Waits
    BY <1>0, <1>21 DEF WaitReturns, Waits, completionStatusFromWaitError, Clients, Unknown
  <2> QED
    BY <1>21, <2>1 DEF WaitReturns
<1>22. ASSUME WaitCloses PROVE TypeOK'
  <2>1. wait' \in Waits
    BY <1>0, <1>22 DEF WaitCloses, Waits
  <2> QED
    BY <1>22, <2>1 DEF WaitCloses
<1>23. ASSUME Deadline PROVE TypeOK'
  <2>1. client' \in Clients
    BY <1>0, <1>23 DEF Deadline, Clients
  <2> QED
    BY <1>23, <2>1 DEF Deadline
<1>24. ASSUME CreateUnit PROVE TypeOK'
  <2>1. unit' \in Units
    BY <1>0, <1>24 DEF CreateUnit, Units
  <2>2. target' \in Targets
    BY <1>0, TargetUpdates, <1>24 DEF CreateUnit, Stages, Working
  <2> QED
    BY <1>24, <2>1, <2>2 DEF CreateUnit
<1>25. ASSUME ClientRefused PROVE TypeOK'
  <2>1. client' \in Clients
    BY <1>0, <1>25 DEF ClientRefused, Clients
  <2> QED
    BY <1>25, <2>1 DEF ClientRefused
<1>26. ASSUME UnitKilled PROVE TypeOK'
  <2>1. unit' \in Units
    BY <1>0, UnitEndsUpdates, TargetUpdates, <1>26 DEF UnitKilled
  <2>2. target' \in Targets
    BY <1>0, UnitEndsUpdates, TargetUpdates, <1>26 DEF UnitKilled
  <2> QED
    BY <1>26, <2>1, <2>2 DEF UnitKilled, UnitEnds
<1>27. ASSUME ClientExits PROVE TypeOK'
  <2>1. client' \in Clients
    BY <1>0, <1>27 DEF ClientExits, Clients, Units
  <2> QED
    BY <1>27, <2>1 DEF ClientExits
<1>28. ASSUME Seed PROVE TypeOK'
  <2>1. target' \in Targets
    BY <1>0, TargetUpdates, <1>28 DEF Seed, Stages, Working
  <2> QED
    BY <1>28, <2>1 DEF Seed
<1>29. ASSUME RunQueries PROVE TypeOK'
  <2>1. target' \in Targets
    BY <1>0, TargetUpdates, <1>29 DEF RunQueries, Stages, Working
  <2> QED
    BY <1>29, <2>1 DEF RunQueries
<1>30. ASSUME Encode PROVE TypeOK'
  <2>1. pipe' \in Pipes
    BY <1>0, <1>30 DEF Encode, Pipes, Whole, Stream
  <2>2. target' \in Targets
    BY <1>0, TargetUpdates, <1>30 DEF Encode, Stages, Working
  <2> QED
    BY <1>30, <2>1, <2>2 DEF Encode
<1>31. ASSUME NEW c \in Codes, TargetExits(c) PROVE TypeOK'
  <2>1. target' \in Targets
    BY <1>0, TargetUpdates, <1>31 DEF TargetExits, Stages, Working
  <2> QED
    BY <1>31, <2>1 DEF TargetExits
<1>32. ASSUME WriteTemp PROVE TypeOK'
  <2>1. target' \in Targets
    BY <1>0, TargetUpdates, <1>32 DEF WriteTemp, Stages, Working
  <2>2. dir' \in Dirs
    BY <1>0, <1>32 DEF WriteTemp, Dirs
  <2> QED
    BY <1>32, <2>1, <2>2 DEF WriteTemp
<1>33. ASSUME Publish PROVE TypeOK'
  <2>1. target' \in Targets
    <3>1. CASE target' = [target EXCEPT !.stage = "published"]
      BY TargetUpdates, <3>1 DEF Stages, Working
    <3>2. CASE target' = [target EXCEPT !.stage = "unpublished"]
      BY TargetUpdates, <3>2 DEF Stages, Working
    <3> QED
      BY <1>33, <3>1, <3>2 DEF Publish
  <2>2. dir' \in Dirs
    BY <1>0, <1>33 DEF Publish, Dirs, Targets
  <2> QED
    BY <1>33, <2>1, <2>2 DEF Publish
<1>34. ASSUME ShellExits PROVE TypeOK'
  <2>1. unit' \in Units
    BY <1>0, UnitEndsUpdates, TargetUpdates, <1>34 DEF ShellExits
  <2>2. target' \in Targets
    BY <1>0, UnitEndsUpdates, TargetUpdates, <1>34 DEF ShellExits
  <2>3. dir' \in Dirs
    BY <1>0, <1>34 DEF ShellExits, UnitEnds, Dirs
  <2> QED
    BY <1>34, <2>1, <2>2, <2>3 DEF ShellExits, UnitEnds
<1> QED
    BY <1>1, <1>2, <1>3, <1>4, <1>5, <1>6, <1>7, <1>8, <1>9, <1>10, <1>11, <1>12, <1>13,
               <1>14, <1>15, <1>16, <1>17, <1>18, <1>19, <1>20, <1>21, <1>22, <1>23, <1>24,
               <1>25, <1>26, <1>27, <1>28, <1>29, <1>30, <1>31, <1>32, <1>33, <1>34
       DEF Next, Controller, Environment

\* What the controller does keeps the invariant.
LEMMA ControllerKeeps == ArmInv /\ Controller => ArmInv'
<1> SUFFICES ASSUME ArmInv, Controller PROVE ArmInv'
    OBVIOUS
<1>0. TypeOK'
    BY TypeStep DEF ArmInv, Next
<1>1. ASSUME OpenEndpoint PROVE ArmInv'
  <2>1. /\ ctl.pc = "open"
        /\ \/ ctl'.pc = "start" /\ dir'.there /\ end' = end
           \/ ctl'.pc = "returned" /\ dir' = dir /\ end'.outcome = "failed"
        /\ ctl'.seen = ctl.seen /\ ctl'.waitFirst = ctl.waitFirst
        /\ ctl'.sample = ctl.sample /\ ctl'.swept = ctl.swept
        /\ dir'.temp = dir.temp /\ dir'.marker = dir.marker
        /\ end'.raw = end.raw
        /\ UNCHANGED <<client, unit, target, pipe, wait>>
    BY ArmAssumption, <1>1 DEF OpenEndpoint, AtStep, Goto, machine, ArmInv, TypeOK, Controls,
        Dirs, Ends
  <2>2. MarkerIsFinal'
    BY ArmAssumption, <2>1 DEF ArmInv, MarkerIsFinal
  <2>3. DecidedWhenJoined'
    BY ArmAssumption, <2>1 DEF ArmInv, DecidedWhenJoined
  <2>4. SweptTwice'
    BY ArmAssumption, <2>1 DEF ArmInv, SweptTwice, Wrote, Working
  <2>5. AcceptedIsWhole'
    BY ArmAssumption, <2>1 DEF ArmInv, AcceptedIsWhole
  <2>6. UnitHoldsShell' /\ GoodExitIsWhole' /\ WaitIsFinal'
    BY <2>1 DEF ArmInv, UnitHoldsShell, GoodExitIsWhole, WaitIsFinal, Drained
  <2> QED
    BY <1>0, <2>2, <2>3, <2>4, <2>5, <2>6 DEF ArmInv
<1>2. ASSUME StartClient PROVE ArmInv'
  <2>1. /\ ctl.pc = "start"
        /\ \/ /\ client'.state \in {"running", "exited"} /\ wait'.state = "pending"
              /\ ctl'.pc = "resolve" /\ end' = end
           \/ ctl'.pc = "sweep" /\ end'.outcome = "failed" /\ client' = client /\ wait' = wait
        /\ ctl'.seen = ctl.seen /\ ctl'.waitFirst = ctl.waitFirst
        /\ ctl'.sample = ctl.sample /\ ctl'.swept = ctl.swept
        /\ wait'.status = wait.status /\ wait'.failed = wait.failed
        /\ end'.raw = end.raw
        /\ UNCHANGED <<unit, target, pipe, dir>>
    <3>1. CASE /\ client' = [client EXCEPT !.state = IF late THEN "exited" ELSE "running",
                                        !.rc = IF late THEN Reaped ELSE None]
             /\ wait' = [wait EXCEPT !.state = "pending"] /\ Goto("resolve") /\ UNCHANGED end
      BY ArmAssumption, <1>2, <3>1 DEF StartClient, AtStep, Goto, machine, ArmInv, TypeOK,
        Clients, Controls, Ends, Waits
    <3>2. CASE /\ end' = [end EXCEPT !.outcome = "failed"]
             /\ Goto("sweep") /\ UNCHANGED <<client, wait>>
      BY ArmAssumption, <1>2, <3>2 DEF StartClient, AtStep, Goto, machine, ArmInv, TypeOK,
        Clients, Controls, Ends, Waits
    <3> QED
      BY <1>2, <3>1, <3>2 DEF StartClient
  <2>2. UnitHoldsShell'
    BY <2>1 DEF ArmInv, UnitHoldsShell, DecidedWhenJoined
  <2>3. MarkerIsFinal'
    BY ArmAssumption, <2>1 DEF ArmInv, MarkerIsFinal
  <2>4. WaitIsFinal'
    BY ArmAssumption, <2>1 DEF ArmInv, WaitIsFinal, Drained, DecidedWhenJoined, TypeOK, Waits
  <2>5. DecidedWhenJoined'
    BY ArmAssumption, <2>1 DEF ArmInv, DecidedWhenJoined, WaitIsFinal
  <2>6. SweptTwice'
    BY ArmAssumption, <2>1 DEF ArmInv, SweptTwice, Wrote, Working
  <2>7. AcceptedIsWhole'
    BY ArmAssumption, <2>1 DEF ArmInv, AcceptedIsWhole
  <2>8. GoodExitIsWhole'
    BY <2>1 DEF ArmInv, GoodExitIsWhole
  <2> QED
    BY <1>0, <2>2, <2>3, <2>4, <2>5, <2>6, <2>7, <2>8 DEF ArmInv
<1>3. ASSUME Resolve PROVE ArmInv'
  <2>1. /\ ctl.pc = "resolve"
        /\ ctl'.pc \in {"await", "stop"}
        /\ ctl'.seen = ctl.seen /\ ctl'.waitFirst = ctl.waitFirst
        /\ ctl'.sample = ctl.sample /\ ctl'.swept = ctl.swept
        /\ UNCHANGED <<client, unit, target, pipe, dir, wait, end>>
    BY ArmAssumption, <1>3 DEF Resolve, AtStep, Goto, machine, ArmInv, TypeOK, Controls
  <2>2. MarkerIsFinal'
    BY ArmAssumption, <2>1 DEF ArmInv, MarkerIsFinal
  <2>3. DecidedWhenJoined'
    BY ArmAssumption, <2>1 DEF ArmInv, DecidedWhenJoined
  <2>4. SweptTwice'
    BY ArmAssumption, <2>1 DEF ArmInv, SweptTwice, Wrote, Working
  <2>5. AcceptedIsWhole'
    BY ArmAssumption, <2>1 DEF ArmInv, AcceptedIsWhole
  <2>6. UnitHoldsShell' /\ GoodExitIsWhole' /\ WaitIsFinal'
    BY <2>1 DEF ArmInv, UnitHoldsShell, GoodExitIsWhole, WaitIsFinal, Drained
  <2> QED
    BY <1>0, <2>2, <2>3, <2>4, <2>5, <2>6 DEF ArmInv
<1>4. ASSUME readCompletionMarker PROVE ArmInv'
  <2>1. /\ ctl.pc = "await"
        /\ dir.marker # None
        /\ ctl'.pc = "observe"
        /\ ctl'.seen = dir.marker
        /\ ctl'.waitFirst = ctl.waitFirst /\ ctl'.sample = ctl.sample /\ ctl'.swept = ctl.swept
        /\ UNCHANGED <<client, unit, target, pipe, dir, wait, end>>
    BY ArmAssumption, <1>4 DEF readCompletionMarker, AtStep, Goto, machine, ArmInv, TypeOK,
        Controls
  <2>2. MarkerIsFinal'
    BY ArmAssumption, <2>1 DEF ArmInv, MarkerIsFinal
  <2>3. DecidedWhenJoined'
    BY ArmAssumption, <2>1 DEF ArmInv, DecidedWhenJoined
  <2>4. SweptTwice'
    BY ArmAssumption, <2>1 DEF ArmInv, SweptTwice, Wrote, Working
  <2>5. AcceptedIsWhole'
    BY ArmAssumption, <2>1 DEF ArmInv, AcceptedIsWhole
  <2>6. UnitHoldsShell' /\ GoodExitIsWhole' /\ WaitIsFinal'
    BY <2>1 DEF ArmInv, UnitHoldsShell, GoodExitIsWhole, WaitIsFinal, Drained
  <2> QED
    BY <1>0, <2>2, <2>3, <2>4, <2>5, <2>6 DEF ArmInv
<1>5. ASSUME ObserveMarker PROVE ArmInv'
  <2>1. /\ ctl.pc = "observe"
        /\ ctl'.pc = "authenticate"
        /\ ctl'.seen = ctl.seen /\ ctl'.sample = ctl.sample /\ ctl'.swept = ctl.swept
        /\ UNCHANGED <<client, unit, target, pipe, dir, wait, end>>
    BY ArmAssumption, <1>5 DEF ObserveMarker, AtStep, Goto, machine, ArmInv, TypeOK, Controls
  <2>2. MarkerIsFinal'
    BY ArmAssumption, <2>1 DEF ArmInv, MarkerIsFinal
  <2>3. DecidedWhenJoined'
    BY ArmAssumption, <2>1 DEF ArmInv, DecidedWhenJoined
  <2>4. SweptTwice'
    BY ArmAssumption, <2>1 DEF ArmInv, SweptTwice, Wrote, Working
  <2>5. AcceptedIsWhole'
    BY ArmAssumption, <2>1 DEF ArmInv, AcceptedIsWhole
  <2>6. UnitHoldsShell' /\ GoodExitIsWhole' /\ WaitIsFinal'
    BY <2>1 DEF ArmInv, UnitHoldsShell, GoodExitIsWhole, WaitIsFinal, Drained
  <2> QED
    BY <1>0, <2>2, <2>3, <2>4, <2>5, <2>6 DEF ArmInv
<1>6. ASSUME Authenticate PROVE ArmInv'
  <2>1. /\ ctl.pc = "authenticate"
        /\ ctl'.pc \in {"stop", "sample"}
        /\ ctl'.seen = ctl.seen /\ ctl'.waitFirst = ctl.waitFirst
        /\ ctl'.sample = ctl.sample /\ ctl'.swept = ctl.swept
        /\ UNCHANGED <<client, unit, target, pipe, dir, wait, end>>
    BY ArmAssumption, <1>6 DEF Authenticate, AtStep, Goto, machine, ArmInv, TypeOK, Controls
  <2>2. MarkerIsFinal'
    BY ArmAssumption, <2>1 DEF ArmInv, MarkerIsFinal
  <2>3. DecidedWhenJoined'
    BY ArmAssumption, <2>1 DEF ArmInv, DecidedWhenJoined
  <2>4. SweptTwice'
    BY ArmAssumption, <2>1 DEF ArmInv, SweptTwice, Wrote, Working
  <2>5. AcceptedIsWhole'
    BY ArmAssumption, <2>1 DEF ArmInv, AcceptedIsWhole
  <2>6. UnitHoldsShell' /\ GoodExitIsWhole' /\ WaitIsFinal'
    BY <2>1 DEF ArmInv, UnitHoldsShell, GoodExitIsWhole, WaitIsFinal, Drained
  <2> QED
    BY <1>0, <2>2, <2>3, <2>4, <2>5, <2>6 DEF ArmInv
<1>7. ASSUME AwaitFails PROVE ArmInv'
  <2>1. /\ ctl.pc = "await"
        /\ ctl'.pc = "stop"
        /\ ctl'.seen = ctl.seen /\ ctl'.waitFirst = ctl.waitFirst
        /\ ctl'.sample = ctl.sample /\ ctl'.swept = ctl.swept
        /\ UNCHANGED <<client, unit, target, pipe, dir, wait, end>>
    BY ArmAssumption, <1>7 DEF AwaitFails, AtStep, Goto, machine, ArmInv, TypeOK, Controls
  <2>2. MarkerIsFinal'
    BY ArmAssumption, <2>1 DEF ArmInv, MarkerIsFinal
  <2>3. DecidedWhenJoined'
    BY ArmAssumption, <2>1 DEF ArmInv, DecidedWhenJoined
  <2>4. SweptTwice'
    BY ArmAssumption, <2>1 DEF ArmInv, SweptTwice, Wrote, Working
  <2>5. AcceptedIsWhole'
    BY ArmAssumption, <2>1 DEF ArmInv, AcceptedIsWhole
  <2>6. UnitHoldsShell' /\ GoodExitIsWhole' /\ WaitIsFinal'
    BY <2>1 DEF ArmInv, UnitHoldsShell, GoodExitIsWhole, WaitIsFinal, Drained
  <2> QED
    BY <1>0, <2>2, <2>3, <2>4, <2>5, <2>6 DEF ArmInv
<1>8. ASSUME takeCompletionAccountingSnapshot PROVE ArmInv'
  <2>1. /\ ctl.pc = "sample"
        /\ \/ ctl'.pc = "join" /\ ctl'.sample = target.used
           \/ ctl'.pc = "stop" /\ ctl'.sample = ctl.sample
        /\ ctl'.seen = ctl.seen /\ ctl'.waitFirst = ctl.waitFirst /\ ctl'.swept = ctl.swept
        /\ UNCHANGED <<client, unit, target, pipe, dir, wait, end>>
    <3>1. CASE ctl' = [ctl EXCEPT !.pc = "join", !.sample = target.used]
      BY ArmAssumption, <1>8, <3>1 DEF takeCompletionAccountingSnapshot, AtStep, Goto, machine,
        ArmInv, TypeOK, Controls
    <3>2. CASE Goto("stop")
      BY ArmAssumption, <1>8, <3>2 DEF takeCompletionAccountingSnapshot, AtStep, Goto, machine,
        ArmInv, TypeOK, Controls
    <3> QED
      BY <1>8, <3>1, <3>2 DEF takeCompletionAccountingSnapshot
  <2>2. MarkerIsFinal'
    BY ArmAssumption, <2>1 DEF ArmInv, MarkerIsFinal, TypeOK, Targets
  <2>3. DecidedWhenJoined'
    BY ArmAssumption, <2>1 DEF ArmInv, DecidedWhenJoined
  <2>4. SweptTwice'
    BY ArmAssumption, <2>1 DEF ArmInv, SweptTwice, Wrote, Working
  <2>5. AcceptedIsWhole'
    BY ArmAssumption, <2>1 DEF ArmInv, AcceptedIsWhole, DecidedWhenJoined
  <2>6. UnitHoldsShell' /\ GoodExitIsWhole' /\ WaitIsFinal'
    BY <2>1 DEF ArmInv, UnitHoldsShell, GoodExitIsWhole, WaitIsFinal, Drained
  <2> QED
    BY <1>0, <2>2, <2>3, <2>4, <2>5, <2>6 DEF ArmInv
<1>9. ASSUME Join PROVE ArmInv'
  <2>1. /\ ctl.pc = "join"
        /\ \/ ctl'.pc = "settle" /\ wait.state = "closed"
           \/ ctl'.pc = "stop"
        /\ ctl'.seen = ctl.seen /\ ctl'.waitFirst = ctl.waitFirst
        /\ ctl'.sample = ctl.sample /\ ctl'.swept = ctl.swept
        /\ UNCHANGED <<client, unit, target, pipe, dir, wait, end>>
    BY ArmAssumption, <1>9 DEF Join, AtStep, Goto, machine, ArmInv, TypeOK, Controls
  <2>2. MarkerIsFinal'
    BY ArmAssumption, <2>1 DEF ArmInv, MarkerIsFinal
  <2>3. DecidedWhenJoined'
    BY ArmAssumption, <2>1 DEF ArmInv, DecidedWhenJoined
  <2>4. SweptTwice'
    BY ArmAssumption, <2>1 DEF ArmInv, SweptTwice, Wrote, Working
  <2>5. AcceptedIsWhole'
    BY ArmAssumption, <2>1 DEF ArmInv, AcceptedIsWhole
  <2>6. UnitHoldsShell' /\ GoodExitIsWhole' /\ WaitIsFinal'
    BY <2>1 DEF ArmInv, UnitHoldsShell, GoodExitIsWhole, WaitIsFinal, Drained
  <2> QED
    BY <1>0, <2>2, <2>3, <2>4, <2>5, <2>6 DEF ArmInv
<1>10. ASSUME Settle PROVE ArmInv'
  <2>1. /\ ctl.pc = "settle"
        /\ \/ ctl'.pc = "stop" /\ end' = end
           \/ /\ ctl'.pc = "sweep" /\ end'.raw = pipe.kept
              /\ \/ end'.outcome = "failed"
                 \/ /\ end'.outcome = "accepted" /\ pipe.kept = Whole
                    /\ wait.status = ctl.seen /\ ~wait.failed
        /\ ctl'.seen = ctl.seen /\ ctl'.waitFirst = ctl.waitFirst
        /\ ctl'.sample = ctl.sample /\ ctl'.swept = ctl.swept
        /\ UNCHANGED <<client, unit, target, pipe, dir, wait>>
    <3>1. CASE Goto("stop") /\ UNCHANGED end
      BY ArmAssumption, <1>10, <3>1 DEF Settle,
        validateCompletionOrdering, reconcileCompletionStatus, AtStep, Goto, machine, ArmInv,
        TypeOK, Controls, Ends
    <3>2. CASE /\ Goto("sweep")
             /\ end' = [raw |-> pipe.kept,
                        outcome |-> IF /\ reconcileCompletionStatus
                                       /\ ~wait.failed
                                       /\ ctl.sample > 0
                                       /\ pipe.kept = Whole
                                    THEN "accepted" ELSE "failed"]
      BY ArmAssumption, <1>10, <3>2 DEF Settle,
        validateCompletionOrdering, reconcileCompletionStatus, AtStep, Goto, machine, ArmInv,
        TypeOK, Controls, Ends
    <3> QED
      BY <1>10, <3>1, <3>2 DEF Settle, validateCompletionOrdering, reconcileCompletionStatus
  <2>2. MarkerIsFinal'
    BY ArmAssumption, <2>1 DEF ArmInv, MarkerIsFinal
  <2>3. DecidedWhenJoined'
    BY ArmAssumption, <2>1 DEF ArmInv, DecidedWhenJoined, MarkerIsFinal
  <2>4. SweptTwice'
    BY ArmAssumption, <2>1 DEF ArmInv, SweptTwice, Wrote, Working
  <2>5. AcceptedIsWhole'
    BY ArmAssumption, <2>1 DEF ArmInv, AcceptedIsWhole, MarkerIsFinal, WaitIsFinal,
        GoodExitIsWhole, DecidedWhenJoined
  <2>6. UnitHoldsShell' /\ GoodExitIsWhole' /\ WaitIsFinal'
    BY <2>1 DEF ArmInv, UnitHoldsShell, GoodExitIsWhole, WaitIsFinal, Drained
  <2> QED
    BY <1>0, <2>2, <2>3, <2>4, <2>5, <2>6 DEF ArmInv
<1>11. ASSUME IssueStop PROVE ArmInv'
  <2>1. /\ ctl.pc = "stop"
        /\ ctl'.pc = "stopped"
        /\ ctl'.seen = ctl.seen /\ ctl'.waitFirst = ctl.waitFirst
        /\ ctl'.sample = ctl.sample /\ ctl'.swept = ctl.swept
        /\ unit'.state = unit.state /\ unit'.rc = unit.rc
        /\ UNCHANGED <<client, target, pipe, dir, wait, end>>
    BY ArmAssumption, <1>11 DEF IssueStop, AtStep, Goto, machine, ArmInv, TypeOK, Controls,
        Units
  <2>2. UnitHoldsShell'
    BY <2>1 DEF ArmInv, UnitHoldsShell
  <2>3. MarkerIsFinal'
    BY ArmAssumption, <2>1 DEF ArmInv, MarkerIsFinal
  <2>4. WaitIsFinal'
    BY ArmAssumption, <2>1 DEF ArmInv, WaitIsFinal, Drained
  <2>5. DecidedWhenJoined'
    BY ArmAssumption, <2>1 DEF ArmInv, DecidedWhenJoined
  <2>6. SweptTwice'
    BY ArmAssumption, <2>1 DEF ArmInv, SweptTwice, Wrote, Working
  <2>7. AcceptedIsWhole'
    BY ArmAssumption, <2>1 DEF ArmInv, AcceptedIsWhole
  <2>8. GoodExitIsWhole'
    BY <2>1 DEF ArmInv, GoodExitIsWhole
  <2> QED
    BY <1>0, <2>2, <2>3, <2>4, <2>5, <2>6, <2>7, <2>8 DEF ArmInv
<1>12. ASSUME stopAndCleanTransientUnit PROVE ArmInv'
  <2>1. /\ ctl.pc = "stopped"
        /\ unit'.state # unit.state => unit.state = "failed" /\ unit'.state = "gone"
        /\ ctl'.pc = "joinAborted"
        /\ ctl'.seen = ctl.seen /\ ctl'.waitFirst = ctl.waitFirst
        /\ ctl'.sample = ctl.sample /\ ctl'.swept = ctl.swept
        /\ unit'.rc = unit.rc /\ unit'.stopping = unit.stopping
        /\ UNCHANGED <<client, target, pipe, dir, wait, end>>
    BY ArmAssumption, <1>12 DEF stopAndCleanTransientUnit, AtStep, Goto, machine, ArmInv,
        TypeOK, Controls, Units
  <2>2. UnitHoldsShell'
    BY <2>1 DEF ArmInv, UnitHoldsShell
  <2>3. MarkerIsFinal'
    BY ArmAssumption, <2>1 DEF ArmInv, MarkerIsFinal
  <2>4. WaitIsFinal'
    BY ArmAssumption, <2>1 DEF ArmInv, WaitIsFinal, Drained
  <2>5. DecidedWhenJoined'
    BY ArmAssumption, <2>1 DEF ArmInv, DecidedWhenJoined
  <2>6. SweptTwice'
    BY ArmAssumption, <2>1 DEF ArmInv, SweptTwice, Wrote, Working
  <2>7. AcceptedIsWhole'
    BY ArmAssumption, <2>1 DEF ArmInv, AcceptedIsWhole
  <2>8. GoodExitIsWhole'
    BY <2>1 DEF ArmInv, GoodExitIsWhole
  <2> QED
    BY <1>0, <2>2, <2>3, <2>4, <2>5, <2>6, <2>7, <2>8 DEF ArmInv
<1>13. ASSUME JoinAborted PROVE ArmInv'
  <2>1. /\ ctl.pc = "joinAborted"
        /\ ctl'.pc \in {"sweep", "hardStop"}
        /\ ctl'.seen = ctl.seen /\ ctl'.waitFirst = ctl.waitFirst
        /\ ctl'.sample = ctl.sample /\ ctl'.swept = ctl.swept
        /\ UNCHANGED <<client, unit, target, pipe, dir, wait, end>>
    BY ArmAssumption, <1>13 DEF JoinAborted, AtStep, Goto, machine, ArmInv, TypeOK, Controls
  <2>2. MarkerIsFinal'
    BY ArmAssumption, <2>1 DEF ArmInv, MarkerIsFinal
  <2>3. DecidedWhenJoined'
    BY ArmAssumption, <2>1 DEF ArmInv, DecidedWhenJoined
  <2>4. SweptTwice'
    BY ArmAssumption, <2>1 DEF ArmInv, SweptTwice, Wrote, Working
  <2>5. AcceptedIsWhole'
    BY ArmAssumption, <2>1 DEF ArmInv, AcceptedIsWhole
  <2>6. UnitHoldsShell' /\ GoodExitIsWhole' /\ WaitIsFinal'
    BY <2>1 DEF ArmInv, UnitHoldsShell, GoodExitIsWhole, WaitIsFinal, Drained
  <2> QED
    BY <1>0, <2>2, <2>3, <2>4, <2>5, <2>6 DEF ArmInv
<1>14. ASSUME HardStop PROVE ArmInv'
  <2>1. /\ ctl.pc = "hardStop"
        /\ client' # client => client'.state = "exited" /\ client.state = "running"
        /\ ctl'.pc = "finalJoin"
        /\ ctl'.seen = ctl.seen /\ ctl'.waitFirst = ctl.waitFirst
        /\ ctl'.sample = ctl.sample /\ ctl'.swept = ctl.swept
        /\ UNCHANGED <<unit, target, pipe, dir, wait, end>>
    BY ArmAssumption, <1>14 DEF HardStop, AtStep, Goto, machine, ArmInv, TypeOK, Clients,
        Controls
  <2>2. UnitHoldsShell'
    BY <2>1 DEF ArmInv, UnitHoldsShell
  <2>3. MarkerIsFinal'
    BY ArmAssumption, <2>1 DEF ArmInv, MarkerIsFinal
  <2>4. WaitIsFinal'
    BY ArmAssumption, <2>1 DEF ArmInv, WaitIsFinal, Drained
  <2>5. DecidedWhenJoined'
    BY ArmAssumption, <2>1 DEF ArmInv, DecidedWhenJoined
  <2>6. SweptTwice'
    BY ArmAssumption, <2>1 DEF ArmInv, SweptTwice, Wrote, Working
  <2>7. AcceptedIsWhole'
    BY ArmAssumption, <2>1 DEF ArmInv, AcceptedIsWhole
  <2>8. GoodExitIsWhole'
    BY <2>1 DEF ArmInv, GoodExitIsWhole
  <2> QED
    BY <1>0, <2>2, <2>3, <2>4, <2>5, <2>6, <2>7, <2>8 DEF ArmInv
<1>15. ASSUME FinalJoin PROVE ArmInv'
  <2>1. /\ ctl.pc = "finalJoin"
        /\ ctl'.pc = "sweep"
        /\ ctl'.seen = ctl.seen /\ ctl'.waitFirst = ctl.waitFirst
        /\ ctl'.sample = ctl.sample /\ ctl'.swept = ctl.swept
        /\ UNCHANGED <<client, unit, target, pipe, dir, wait, end>>
    BY ArmAssumption, <1>15 DEF FinalJoin, AtStep, Goto, machine, ArmInv, TypeOK, Controls
  <2>2. MarkerIsFinal'
    BY ArmAssumption, <2>1 DEF ArmInv, MarkerIsFinal
  <2>3. DecidedWhenJoined'
    BY ArmAssumption, <2>1 DEF ArmInv, DecidedWhenJoined
  <2>4. SweptTwice'
    BY ArmAssumption, <2>1 DEF ArmInv, SweptTwice, Wrote, Working
  <2>5. AcceptedIsWhole'
    BY ArmAssumption, <2>1 DEF ArmInv, AcceptedIsWhole
  <2>6. UnitHoldsShell' /\ GoodExitIsWhole' /\ WaitIsFinal'
    BY <2>1 DEF ArmInv, UnitHoldsShell, GoodExitIsWhole, WaitIsFinal, Drained
  <2> QED
    BY <1>0, <2>2, <2>3, <2>4, <2>5, <2>6 DEF ArmInv
<1>16. ASSUME Abandon PROVE ArmInv'
  <2>1. /\ ctl.pc = "abandon"
        /\ \/ wait.state = "closed" /\ end'.outcome = "failed" /\ end'.raw = pipe.kept
           \/ wait.state # "closed" /\ end'.outcome = "fatal" /\ end'.raw = None
        /\ ctl'.pc = "sweep"
        /\ ctl'.seen = ctl.seen /\ ctl'.waitFirst = ctl.waitFirst
        /\ ctl'.sample = ctl.sample /\ ctl'.swept = ctl.swept
        /\ UNCHANGED <<client, unit, target, pipe, dir, wait>>
    BY ArmAssumption, <1>16 DEF Abandon, AtStep, Goto, machine, ArmInv, TypeOK, Controls, Ends
  <2>2. MarkerIsFinal'
    BY ArmAssumption, <2>1 DEF ArmInv, MarkerIsFinal
  <2>3. DecidedWhenJoined'
    BY ArmAssumption, <2>1 DEF ArmInv, DecidedWhenJoined
  <2>4. SweptTwice'
    BY ArmAssumption, <2>1 DEF ArmInv, SweptTwice, Wrote, Working
  <2>5. AcceptedIsWhole'
    BY ArmAssumption, <2>1 DEF ArmInv, AcceptedIsWhole
  <2>6. UnitHoldsShell' /\ GoodExitIsWhole' /\ WaitIsFinal'
    BY <2>1 DEF ArmInv, UnitHoldsShell, GoodExitIsWhole, WaitIsFinal, Drained
  <2> QED
    BY <1>0, <2>2, <2>3, <2>4, <2>5, <2>6 DEF ArmInv
<1>17. ASSUME Sweep PROVE ArmInv'
  <2>1. /\ ctl.pc = "sweep"
        /\ ctl'.pc = "rmdir"
        /\ ctl'.swept = ctl.swept + 1
        /\ ctl'.seen = ctl.seen /\ ctl'.waitFirst = ctl.waitFirst /\ ctl'.sample = ctl.sample
        /\ dir'.temp = FALSE
        /\ dir'.marker = None
        /\ dir'.there = dir.there
        /\ UNCHANGED <<client, unit, target, pipe, wait, end>>
    BY ArmAssumption, <1>17 DEF Sweep, AtStep, Goto, machine, ArmInv, TypeOK, Controls, Dirs
  <2>2. MarkerIsFinal'
    BY ArmAssumption, <2>1 DEF ArmInv, MarkerIsFinal
  <2>3. DecidedWhenJoined'
    BY ArmAssumption, <2>1 DEF ArmInv, DecidedWhenJoined
  <2>4. SweptTwice'
    BY ArmAssumption, <2>1 DEF ArmInv, SweptTwice, Wrote, Working
  <2>5. AcceptedIsWhole'
    BY ArmAssumption, <2>1 DEF ArmInv, AcceptedIsWhole
  <2>6. UnitHoldsShell' /\ GoodExitIsWhole' /\ WaitIsFinal'
    BY <2>1 DEF ArmInv, UnitHoldsShell, GoodExitIsWhole, WaitIsFinal, Drained
  <2> QED
    BY <1>0, <2>2, <2>3, <2>4, <2>5, <2>6 DEF ArmInv
<1>18. ASSUME cleanupCompletionEndpoint PROVE ArmInv'
  <2>1. /\ ctl.pc = "rmdir"
        /\ dir'.there <=> dir.there /\ (dir.temp \/ dir.marker # None)
        /\ \/ ctl.swept = 2 /\ ctl'.pc = "returned"
           \/ ctl.swept # 2 /\ end.outcome = None /\ ctl'.pc = "abandon"
           \/ ctl.swept # 2 /\ end.outcome # None /\ ctl'.pc = "sweep"
        /\ ctl'.seen = ctl.seen /\ ctl'.waitFirst = ctl.waitFirst
        /\ ctl'.sample = ctl.sample /\ ctl'.swept = ctl.swept
        /\ dir'.temp = dir.temp /\ dir'.marker = dir.marker
        /\ UNCHANGED <<client, unit, target, pipe, wait, end>>
    BY ArmAssumption, <1>18 DEF cleanupCompletionEndpoint, AtStep, Goto, machine, ArmInv,
        TypeOK, Controls, Dirs
  <2>2. MarkerIsFinal'
    BY ArmAssumption, <2>1 DEF ArmInv, MarkerIsFinal
  <2>3. DecidedWhenJoined'
    BY ArmAssumption, <2>1 DEF ArmInv, DecidedWhenJoined
  <2>4. SweptTwice'
    BY ArmAssumption, <2>1 DEF ArmInv, SweptTwice, Wrote, Working
  <2>5. AcceptedIsWhole'
    BY ArmAssumption, <2>1 DEF ArmInv, AcceptedIsWhole
  <2>6. UnitHoldsShell' /\ GoodExitIsWhole' /\ WaitIsFinal'
    BY <2>1 DEF ArmInv, UnitHoldsShell, GoodExitIsWhole, WaitIsFinal, Drained
  <2> QED
    BY <1>0, <2>2, <2>3, <2>4, <2>5, <2>6 DEF ArmInv
<1> QED
    BY <1>1, <1>2, <1>3, <1>4, <1>5, <1>6, <1>7, <1>8, <1>9, <1>10, <1>11, <1>12, <1>13,
               <1>14, <1>15, <1>16, <1>17, <1>18 DEF Controller

\* What the unit, its client and the pipes do keeps the invariant.
LEMMA EnvironmentKeeps == ArmInv /\ Environment => ArmInv'
<1> SUFFICES ASSUME ArmInv, Environment PROVE ArmInv'
    OBVIOUS
<1>0. TypeOK'
    BY TypeStep DEF ArmInv, Next
<1>1. ASSUME CopyStdout PROVE ArmInv'
  <2>1. /\ "stdout" \in pipe.flow
        /\ pipe.kept # pipe.sent
        /\ pipe'.kept = pipe.sent
        /\ pipe'.sent = pipe.sent /\ pipe'.flow = pipe.flow
        /\ UNCHANGED <<ctl, client, unit, target, dir, wait, end>>
    BY ArmAssumption, <1>1 DEF CopyStdout, machine, ArmInv, TypeOK, Pipes
  <2>2. WaitIsFinal'
    BY ArmAssumption, <2>1 DEF ArmInv, WaitIsFinal, Drained
  <2>3. DecidedWhenJoined'
    BY ArmAssumption, <2>1 DEF ArmInv, DecidedWhenJoined, WaitIsFinal, Drained
  <2>4. UnitHoldsShell' /\ GoodExitIsWhole' /\ MarkerIsFinal' /\ SweptTwice' /\ AcceptedIsWhole'
    BY <2>1 DEF ArmInv, UnitHoldsShell, GoodExitIsWhole, MarkerIsFinal, SweptTwice,
                AcceptedIsWhole, Wrote
  <2> QED
    BY <1>0, <2>2, <2>3, <2>4 DEF ArmInv
<1>2. ASSUME NEW s \in Stream, LimitReached(s) PROVE ArmInv'
  <2>1. /\ target.stage \in Working
        /\ pipe'.flow \subseteq pipe.flow
        /\ pipe'.sent = pipe.sent /\ pipe'.kept = pipe.kept
        /\ UNCHANGED <<ctl, client, unit, target, dir, wait, end>>
    BY ArmAssumption, <1>2 DEF LimitReached, machine, ArmInv, TypeOK, Pipes, Working
  <2>2. WaitIsFinal'
    BY ArmAssumption, <2>1 DEF ArmInv, WaitIsFinal, Drained, Working
  <2>3. DecidedWhenJoined'
    BY ArmAssumption, <2>1 DEF ArmInv, DecidedWhenJoined, Working
  <2>4. UnitHoldsShell' /\ GoodExitIsWhole' /\ MarkerIsFinal' /\ SweptTwice' /\ AcceptedIsWhole'
    BY <2>1 DEF ArmInv, UnitHoldsShell, GoodExitIsWhole, MarkerIsFinal, SweptTwice,
                AcceptedIsWhole, Wrote
  <2> QED
    BY <1>0, <2>2, <2>3, <2>4 DEF ArmInv
<1>3. ASSUME WaitReturns PROVE ArmInv'
  <2>1. /\ wait.state = "pending"
        /\ client.state = "exited"
        /\ pipe.flow = {} \/ Drained
        /\ wait'.state = "stamped"
        /\ wait'.status = completionStatusFromWaitError
        /\ wait'.failed <=> wait'.status # 0
        /\ UNCHANGED <<ctl, client, unit, target, pipe, dir, end>>
    BY ArmAssumption, <1>3 DEF WaitReturns, machine, ArmInv, TypeOK, Waits
  <2>2. WaitIsFinal'
    BY ArmAssumption, <2>1 DEF ArmInv, WaitIsFinal, Drained
  <2>3. DecidedWhenJoined'
    BY ArmAssumption, <2>1 DEF ArmInv, DecidedWhenJoined
  <2>4. UnitHoldsShell' /\ GoodExitIsWhole' /\ MarkerIsFinal' /\ SweptTwice' /\ AcceptedIsWhole'
    BY <2>1 DEF ArmInv, UnitHoldsShell, GoodExitIsWhole, MarkerIsFinal, SweptTwice,
                AcceptedIsWhole, Wrote
  <2> QED
    BY <1>0, <2>2, <2>3, <2>4 DEF ArmInv
<1>4. ASSUME WaitCloses PROVE ArmInv'
  <2>1. /\ wait.state = "stamped"
        /\ wait'.state = "closed"
        /\ wait'.status = wait.status /\ wait'.failed = wait.failed
        /\ UNCHANGED <<ctl, client, unit, target, pipe, dir, end>>
    BY ArmAssumption, <1>4 DEF WaitCloses, machine, ArmInv, TypeOK, Waits
  <2>2. WaitIsFinal'
    BY ArmAssumption, <2>1 DEF ArmInv, WaitIsFinal, Drained
  <2>3. DecidedWhenJoined'
    BY ArmAssumption, <2>1 DEF ArmInv, DecidedWhenJoined
  <2>4. UnitHoldsShell' /\ GoodExitIsWhole' /\ MarkerIsFinal' /\ SweptTwice' /\ AcceptedIsWhole'
    BY <2>1 DEF ArmInv, UnitHoldsShell, GoodExitIsWhole, MarkerIsFinal, SweptTwice,
                AcceptedIsWhole, Wrote
  <2> QED
    BY <1>0, <2>2, <2>3, <2>4 DEF ArmInv
<1>5. ASSUME Deadline PROVE ArmInv'
  <2>1. /\ client' # client => client'.state = "exited" /\ client.state = "running"
        /\ UNCHANGED <<ctl, unit, target, pipe, dir, wait, end>>
    BY ArmAssumption, <1>5 DEF Deadline, machine, ArmInv, TypeOK, Clients
  <2>2. UnitHoldsShell'
    BY <2>1 DEF ArmInv, UnitHoldsShell
  <2>3. WaitIsFinal'
    BY ArmAssumption, <2>1 DEF ArmInv, WaitIsFinal, Drained
  <2>4. DecidedWhenJoined'
    BY ArmAssumption, <2>1 DEF ArmInv, DecidedWhenJoined
  <2>5. GoodExitIsWhole' /\ MarkerIsFinal' /\ SweptTwice' /\ AcceptedIsWhole'
    BY <2>1 DEF ArmInv, GoodExitIsWhole, MarkerIsFinal, SweptTwice, AcceptedIsWhole, Wrote
  <2> QED
    BY <1>0, <2>2, <2>3, <2>4, <2>5 DEF ArmInv
<1>6. ASSUME CreateUnit PROVE ArmInv'
  <2>1. /\ client.state = "running"
        /\ unit.state = "absent"
        /\ unit'.state = "active"
        /\ unit'.rc = unit.rc /\ unit'.stopping = unit.stopping
        /\ target'.stage = "seed"
        /\ target'.used = target.used /\ target'.db = target.db /\ target'.rc = target.rc
        /\ UNCHANGED <<ctl, client, pipe, dir, wait, end>>
    BY ArmAssumption, <1>6 DEF CreateUnit, machine, ArmInv, TypeOK, Targets, Units
  <2>2. UnitHoldsShell'
    BY <2>1 DEF ArmInv, UnitHoldsShell
  <2>3. GoodExitIsWhole'
    BY ArmAssumption, <2>1 DEF ArmInv, GoodExitIsWhole, UnitHoldsShell, Working
  <2>4. MarkerIsFinal'
    BY ArmAssumption, <2>1 DEF ArmInv, MarkerIsFinal, UnitHoldsShell
  <2>5. WaitIsFinal'
    BY ArmAssumption, <2>1 DEF ArmInv, WaitIsFinal, Drained
  <2>6. SweptTwice'
    BY ArmAssumption, <2>1 DEF ArmInv, SweptTwice, Wrote, UnitHoldsShell, Working
  <2>7. AcceptedIsWhole'
    BY ArmAssumption, <2>1 DEF ArmInv, AcceptedIsWhole
  <2>8. DecidedWhenJoined'
    BY <2>1 DEF ArmInv, DecidedWhenJoined
  <2> QED
    BY <1>0, <2>2, <2>3, <2>4, <2>5, <2>6, <2>7, <2>8 DEF ArmInv
<1>7. ASSUME ClientRefused PROVE ArmInv'
  <2>1. /\ client.state = "running"
        /\ client'.state = "exited"
        /\ client'.rc = 1
        /\ UNCHANGED <<ctl, unit, target, pipe, dir, wait, end>>
    BY ArmAssumption, <1>7 DEF ClientRefused, machine, ArmInv, TypeOK, Clients
  <2>2. UnitHoldsShell'
    BY <2>1 DEF ArmInv, UnitHoldsShell
  <2>3. WaitIsFinal'
    BY ArmAssumption, <2>1 DEF ArmInv, WaitIsFinal, Drained
  <2>4. DecidedWhenJoined'
    BY ArmAssumption, <2>1 DEF ArmInv, DecidedWhenJoined
  <2>5. GoodExitIsWhole' /\ MarkerIsFinal' /\ SweptTwice' /\ AcceptedIsWhole'
    BY <2>1 DEF ArmInv, GoodExitIsWhole, MarkerIsFinal, SweptTwice, AcceptedIsWhole, Wrote
  <2> QED
    BY <1>0, <2>2, <2>3, <2>4, <2>5 DEF ArmInv
<1>8. ASSUME UnitKilled PROVE ArmInv'
  <2>1. /\ unit.state = "active"
        /\ unit'.state \in {"gone", "failed"}
        /\ unit'.stopping = unit.stopping
        /\ target'.stage = "over"
        /\ target'.used = target.used /\ target'.db = target.db /\ target'.rc = target.rc
        /\ UNCHANGED <<ctl, client, pipe, dir, wait, end>>
    BY ArmAssumption, <1>8 DEF UnitKilled, UnitEnds, machine, ArmInv, TypeOK, Targets, Units
  <2>2. UnitHoldsShell'
    BY <2>1 DEF ArmInv, UnitHoldsShell
  <2>3. GoodExitIsWhole'
    BY ArmAssumption, <2>1 DEF ArmInv, GoodExitIsWhole, Working
  <2>4. MarkerIsFinal'
    BY ArmAssumption, <2>1 DEF ArmInv, MarkerIsFinal
  <2>5. WaitIsFinal'
    BY ArmAssumption, <2>1 DEF ArmInv, WaitIsFinal, Drained
  <2>6. SweptTwice'
    BY ArmAssumption, <2>1 DEF ArmInv, SweptTwice, Wrote, Working
  <2>7. AcceptedIsWhole'
    BY ArmAssumption, <2>1 DEF ArmInv, AcceptedIsWhole
  <2>8. DecidedWhenJoined'
    BY <2>1 DEF ArmInv, DecidedWhenJoined
  <2> QED
    BY <1>0, <2>2, <2>3, <2>4, <2>5, <2>6, <2>7, <2>8 DEF ArmInv
<1>9. ASSUME ClientExits PROVE ArmInv'
  <2>1. /\ client.state = "running"
        /\ client'.state = "exited"
        /\ client'.rc = unit.rc
        /\ UNCHANGED <<ctl, unit, target, pipe, dir, wait, end>>
    BY ArmAssumption, <1>9 DEF ClientExits, machine, ArmInv, TypeOK, Clients
  <2>2. UnitHoldsShell'
    BY <2>1 DEF ArmInv, UnitHoldsShell
  <2>3. WaitIsFinal'
    BY ArmAssumption, <2>1 DEF ArmInv, WaitIsFinal, Drained
  <2>4. DecidedWhenJoined'
    BY ArmAssumption, <2>1 DEF ArmInv, DecidedWhenJoined
  <2>5. GoodExitIsWhole' /\ MarkerIsFinal' /\ SweptTwice' /\ AcceptedIsWhole'
    BY <2>1 DEF ArmInv, GoodExitIsWhole, MarkerIsFinal, SweptTwice, AcceptedIsWhole, Wrote
  <2> QED
    BY <1>0, <2>2, <2>3, <2>4, <2>5 DEF ArmInv
<1>10. ASSUME Seed PROVE ArmInv'
  <2>1. /\ target.stage = "seed"
        /\ target'.stage = "query"
        /\ target'.used = 1
        /\ target'.db = "seeded"
        /\ target'.rc = target.rc
        /\ UNCHANGED <<ctl, client, unit, pipe, dir, wait, end>>
    BY ArmAssumption, <1>10 DEF Seed, machine, ArmInv, TypeOK, Targets
  <2>2. UnitHoldsShell'
    BY <2>1 DEF ArmInv, UnitHoldsShell
  <2>3. GoodExitIsWhole'
    BY ArmAssumption, <2>1 DEF ArmInv, GoodExitIsWhole, Working
  <2>4. MarkerIsFinal'
    BY ArmAssumption, <2>1 DEF ArmInv, MarkerIsFinal
  <2>5. SweptTwice'
    BY ArmAssumption, <2>1 DEF ArmInv, SweptTwice, Wrote, Working
  <2>6. AcceptedIsWhole'
    BY ArmAssumption, <2>1 DEF ArmInv, AcceptedIsWhole, MarkerIsFinal, DecidedWhenJoined
  <2>7. WaitIsFinal' /\ DecidedWhenJoined'
    BY <2>1 DEF ArmInv, WaitIsFinal, DecidedWhenJoined, Drained
  <2> QED
    BY <1>0, <2>2, <2>3, <2>4, <2>5, <2>6, <2>7 DEF ArmInv
<1>11. ASSUME RunQueries PROVE ArmInv'
  <2>1. /\ target.stage = "query"
        /\ \/ target'.stage = "query" /\ target'.db = target.db
           \/ target'.stage = "encode" /\ target'.db = "sealed"
        /\ target'.rc = target.rc
        /\ UNCHANGED <<ctl, client, unit, pipe, dir, wait, end>>
    BY ArmAssumption, <1>11 DEF RunQueries, machine, ArmInv, TypeOK, Targets
  <2>2. UnitHoldsShell'
    BY <2>1 DEF ArmInv, UnitHoldsShell
  <2>3. GoodExitIsWhole'
    BY ArmAssumption, <2>1 DEF ArmInv, GoodExitIsWhole, Working
  <2>4. MarkerIsFinal'
    BY ArmAssumption, <2>1 DEF ArmInv, MarkerIsFinal
  <2>5. SweptTwice'
    BY ArmAssumption, <2>1 DEF ArmInv, SweptTwice, Wrote, Working
  <2>6. AcceptedIsWhole'
    BY ArmAssumption, <2>1 DEF ArmInv, AcceptedIsWhole, MarkerIsFinal, DecidedWhenJoined
  <2>7. WaitIsFinal' /\ DecidedWhenJoined'
    BY <2>1 DEF ArmInv, WaitIsFinal, DecidedWhenJoined, Drained
  <2> QED
    BY <1>0, <2>2, <2>3, <2>4, <2>5, <2>6, <2>7 DEF ArmInv
<1>12. ASSUME Encode PROVE ArmInv'
  <2>1. /\ target.stage = "encode"
        /\ "stdout" \in pipe.flow
        /\ pipe'.kept = pipe.kept /\ pipe'.flow = pipe.flow
        /\ target'.stage = target.stage /\ target'.db = target.db /\ target'.rc = target.rc
        /\ UNCHANGED <<ctl, client, unit, dir, wait, end>>
    BY ArmAssumption, <1>12 DEF Encode, machine, ArmInv, TypeOK, Pipes, Targets
  <2>2. UnitHoldsShell'
    BY <2>1 DEF ArmInv, UnitHoldsShell
  <2>3. GoodExitIsWhole'
    BY ArmAssumption, <2>1 DEF ArmInv, GoodExitIsWhole, Working
  <2>4. MarkerIsFinal'
    BY ArmAssumption, <2>1 DEF ArmInv, MarkerIsFinal
  <2>5. WaitIsFinal'
    BY ArmAssumption, <2>1 DEF ArmInv, WaitIsFinal, Drained, UnitHoldsShell
  <2>6. DecidedWhenJoined'
    BY ArmAssumption, <2>1 DEF ArmInv, DecidedWhenJoined
  <2>7. SweptTwice'
    BY ArmAssumption, <2>1 DEF ArmInv, SweptTwice, Wrote, Working
  <2>8. AcceptedIsWhole'
    BY ArmAssumption, <2>1 DEF ArmInv, AcceptedIsWhole, MarkerIsFinal, DecidedWhenJoined
  <2> QED
    BY <1>0, <2>2, <2>3, <2>4, <2>5, <2>6, <2>7, <2>8 DEF ArmInv
<1>13. ASSUME NEW c \in Codes, TargetExits(c) PROVE ArmInv'
  <2>1. /\ target.stage \in Working
        /\ c = 0 => target.stage = "encode"
        /\ target'.stage = "exited"
        /\ target'.rc = c
        /\ target'.used = target.used /\ target'.db = target.db
        /\ UNCHANGED <<ctl, client, unit, pipe, dir, wait, end>>
    BY ArmAssumption, <1>13 DEF TargetExits, machine, ArmInv, TypeOK, Targets, Working
  <2>2. UnitHoldsShell'
    BY <2>1 DEF ArmInv, UnitHoldsShell, Working
  <2>3. GoodExitIsWhole'
    BY ArmAssumption, <2>1 DEF ArmInv, GoodExitIsWhole, Working
  <2>4. MarkerIsFinal'
    BY ArmAssumption, <2>1 DEF ArmInv, MarkerIsFinal, Working
  <2>5. SweptTwice'
    BY ArmAssumption, <2>1 DEF ArmInv, SweptTwice, Wrote, Working
  <2>6. AcceptedIsWhole'
    BY ArmAssumption, <2>1 DEF ArmInv, AcceptedIsWhole, MarkerIsFinal, DecidedWhenJoined,
        Working
  <2>7. WaitIsFinal' /\ DecidedWhenJoined'
    BY <2>1 DEF ArmInv, WaitIsFinal, DecidedWhenJoined, Drained
  <2> QED
    BY <1>0, <2>2, <2>3, <2>4, <2>5, <2>6, <2>7 DEF ArmInv
<1>14. ASSUME WriteTemp PROVE ArmInv'
  <2>1. /\ target.stage = "exited"
        /\ dir'.temp => dir.there
        /\ target'.stage \in {"written", "unpublished"}
        /\ target'.used = target.used /\ target'.db = target.db /\ target'.rc = target.rc
        /\ dir'.there = dir.there /\ dir'.marker = dir.marker
        /\ UNCHANGED <<ctl, client, unit, pipe, wait, end>>
    BY ArmAssumption, <1>14 DEF WriteTemp, machine, ArmInv, TypeOK, Dirs, Targets
  <2>2. UnitHoldsShell'
    BY <2>1 DEF ArmInv, UnitHoldsShell
  <2>3. GoodExitIsWhole'
    BY ArmAssumption, <2>1 DEF ArmInv, GoodExitIsWhole, Working
  <2>4. MarkerIsFinal'
    BY ArmAssumption, <2>1 DEF ArmInv, MarkerIsFinal
  <2>5. SweptTwice'
    BY ArmAssumption, <2>1 DEF ArmInv, SweptTwice, Wrote, Working
  <2>6. AcceptedIsWhole'
    BY ArmAssumption, <2>1 DEF ArmInv, AcceptedIsWhole
  <2>7. WaitIsFinal' /\ DecidedWhenJoined'
    BY <2>1 DEF ArmInv, WaitIsFinal, DecidedWhenJoined, Drained
  <2> QED
    BY <1>0, <2>2, <2>3, <2>4, <2>5, <2>6, <2>7 DEF ArmInv
<1>15. ASSUME Publish PROVE ArmInv'
  <2>1. /\ target.stage = "written"
        /\ \/ target'.stage = "published" /\ dir.temp /\ dir'.marker = target.rc /\ ~dir'.temp
           \/ target'.stage = "unpublished" /\ dir' = dir
        /\ target'.used = target.used /\ target'.db = target.db /\ target'.rc = target.rc
        /\ dir'.there = dir.there
        /\ UNCHANGED <<ctl, client, unit, pipe, wait, end>>
    <3>1. CASE /\ dir.there /\ dir.temp
             /\ dir' = [dir EXCEPT !.temp = FALSE, !.marker = target.rc]
             /\ target' = [target EXCEPT !.stage = "published"]
      BY ArmAssumption, <1>15, <3>1 DEF Publish, machine, ArmInv, TypeOK, Dirs, Targets
    <3>2. CASE UNCHANGED dir /\ target' = [target EXCEPT !.stage = "unpublished"]
      BY ArmAssumption, <1>15, <3>2 DEF Publish, machine, ArmInv, TypeOK, Dirs, Targets
    <3> QED
      BY <1>15, <3>1, <3>2 DEF Publish
  <2>2. UnitHoldsShell'
    BY <2>1 DEF ArmInv, UnitHoldsShell
  <2>3. GoodExitIsWhole'
    BY ArmAssumption, <2>1 DEF ArmInv, GoodExitIsWhole, Working
  <2>4. MarkerIsFinal'
    BY ArmAssumption, <2>1 DEF ArmInv, MarkerIsFinal
  <2>5. SweptTwice'
    BY ArmAssumption, <2>1 DEF ArmInv, SweptTwice, Wrote, Working
  <2>6. AcceptedIsWhole'
    BY ArmAssumption, <2>1 DEF ArmInv, AcceptedIsWhole
  <2>7. WaitIsFinal' /\ DecidedWhenJoined'
    BY <2>1 DEF ArmInv, WaitIsFinal, DecidedWhenJoined, Drained
  <2> QED
    BY <1>0, <2>2, <2>3, <2>4, <2>5, <2>6, <2>7 DEF ArmInv
<1>16. ASSUME ShellExits PROVE ArmInv'
  <2>1. /\ target.stage \in {"published", "unpublished"}
        /\ dir'.temp => dir.temp
        /\ unit'.state \in {"gone", "failed"}
        /\ unit'.stopping = unit.stopping
        /\ target'.stage = "over"
        /\ target'.used = target.used /\ target'.db = target.db /\ target'.rc = target.rc
        /\ dir'.there = dir.there /\ dir'.marker = dir.marker
        /\ UNCHANGED <<ctl, client, pipe, wait, end>>
    <3>1. CASE target.stage = "published" /\ UnitEnds(target.rc) /\ UNCHANGED dir
      BY ArmAssumption, <1>16, <3>1 DEF ShellExits, UnitEnds, machine, ArmInv, TypeOK, Dirs,
        Targets, Units
    <3>2. CASE /\ target.stage = "unpublished" /\ UnitEnds(Unpublished)
             /\ dir' = [dir EXCEPT !.temp = FALSE]
      BY ArmAssumption, <1>16, <3>2 DEF ShellExits, UnitEnds, machine, ArmInv, TypeOK, Dirs,
        Targets, Units
    <3> QED
      BY <1>16, <3>1, <3>2 DEF ShellExits, UnitEnds
  <2>2. UnitHoldsShell'
    BY <2>1 DEF ArmInv, UnitHoldsShell
  <2>3. GoodExitIsWhole'
    BY ArmAssumption, <2>1 DEF ArmInv, GoodExitIsWhole, Working
  <2>4. MarkerIsFinal'
    BY ArmAssumption, <2>1 DEF ArmInv, MarkerIsFinal, UnitHoldsShell
  <2>5. WaitIsFinal'
    BY ArmAssumption, <2>1 DEF ArmInv, WaitIsFinal, Drained
  <2>6. SweptTwice'
    BY ArmAssumption, <2>1 DEF ArmInv, SweptTwice, Wrote, Working
  <2>7. AcceptedIsWhole'
    BY ArmAssumption, <2>1 DEF ArmInv, AcceptedIsWhole
  <2>8. DecidedWhenJoined'
    BY <2>1 DEF ArmInv, DecidedWhenJoined
  <2> QED
    BY <1>0, <2>2, <2>3, <2>4, <2>5, <2>6, <2>7, <2>8 DEF ArmInv
<1> QED
    BY <1>1, <1>2, <1>3, <1>4, <1>5, <1>6, <1>7, <1>8, <1>9, <1>10, <1>11, <1>12, <1>13,
               <1>14, <1>15, <1>16 DEF Environment

\* An arm begins in the invariant.
LEMMA ArmBegins == Init => ArmInv
<1> SUFFICES ASSUME Init PROVE ArmInv
    OBVIOUS
<1>1. ctl \in Controls
    BY DEF Init, Controls, Places
<1>2. client \in Clients /\ unit \in Units /\ wait \in Waits
    BY DEF Init, Clients, Units, Waits
<1>3. target \in Targets /\ dir \in Dirs /\ end \in Ends /\ late \in BOOLEAN
    BY DEF Init, Targets, Stages, Dirs, Ends
<1>8. pipe \in Pipes
    BY DEF Init, Pipes, Whole
<1>4. UnitHoldsShell /\ GoodExitIsWhole /\ AcceptedIsWhole
    BY ArmAssumption DEF Init, UnitHoldsShell, GoodExitIsWhole, AcceptedIsWhole, Working
<1>5. MarkerIsFinal
    BY DEF Init, MarkerIsFinal
<1>6. WaitIsFinal /\ DecidedWhenJoined
    BY ArmAssumption DEF Init, WaitIsFinal, DecidedWhenJoined
<1>7. SweptTwice
    BY DEF Init, SweptTwice
<1> QED
    BY <1>1, <1>2, <1>3, <1>4, <1>5, <1>6, <1>7, <1>8 DEF ArmInv, TypeOK

\* The invariant holds of every arm, whatever fails and whenever.
THEOREM ArmInvariant == Spec => []ArmInv
<1>1. ArmInv /\ [Next]_vars => ArmInv'
  <2>1. ArmInv /\ Next => ArmInv'
    BY ControllerKeeps, EnvironmentKeeps DEF Next
  <2>2. ArmInv /\ UNCHANGED vars => ArmInv'
    BY DEF vars, ArmInv, TypeOK, UnitHoldsShell, GoodExitIsWhole, MarkerIsFinal, WaitIsFinal,
        Drained, DecidedWhenJoined, SweptTwice, Wrote, AcceptedIsWhole
  <2> QED
    BY <2>1, <2>2
<1> QED
    BY ArmBegins, <1>1, PTL DEF Spec

-----------------------------------------------------------------------------
(* What follows from it.                                                     *)

\* A response is accepted (invokeConfinedArmMeasured) only of a target that ended
\* by itself and well, with its database sealed, all of its response kept, and all
\* of its work accounted.
THEOREM AcceptedWhole == Spec => []AcceptedIsWhole
<1>1. ArmInv => AcceptedIsWhole
    BY DEF ArmInv
<1> QED
    BY ArmInvariant, <1>1, PTL

\* An arm that returns without a fatal failure (abortAndJoinCompletionPhased) has
\* left no client, no directory and nothing that could write to the output it
\* returns: the decision was taken with Wait joined, or with nothing started, and
\* the directory was swept once more after it.
THEOREM QuietReturn == Spec => []ReturnsQuiet
<1>1. ArmInv => ReturnsQuiet
  <2> SUFFICES ASSUME ArmInv, ctl.pc = "returned", end.outcome # "fatal"
               PROVE  /\ unit.state # "active" \/ pipe.flow = {}
                      /\ ~dir.there
                      /\ client.state # "running"
                      /\ end.raw # None => end.raw = pipe.kept
      BY DEF ReturnsQuiet
  <2>1. ~dir.there /\ end.outcome \in {"accepted", "failed"}
      BY DEF ArmInv, SweptTwice, TypeOK, Ends, Outcomes
  <2>2. wait.state = "closed" \/ client.state = "none"
      BY <2>1 DEF ArmInv, DecidedWhenJoined
  <2>3. CASE wait.state = "closed"
      BY <2>1, <2>3 DEF ArmInv, WaitIsFinal, Drained, DecidedWhenJoined
  <2>4. CASE client.state = "none"
      BY <2>1, <2>4 DEF ArmInv, UnitHoldsShell, DecidedWhenJoined
  <2> QED
      BY <2>2, <2>3, <2>4
<1> QED
    BY ArmInvariant, <1>1, PTL

-----------------------------------------------------------------------------
(* A fact whose code has gone is never said to hold.                         *)

\* The paths a glob fits, in some state of the files.
GlobbedIn(fs, g) == SelectSeq(Paths, LAMBDA p : p \in g /\ fs[p] # Absent)

\* All globs of a code binding fit a file.
Resolves(fs, globs) == \A i \in 1..Len(globs) : GlobbedIn(fs, globs[i]) # <<>>

\* Where no eval is on, nothing of one is left; and a manifest that can be compared
\* with a record is of files that the code binding resolved in, whatever the files
\* have become since.
EvalInv ==
    /\ roots \in [Fact -> Root \union {Absent}] /\ specs \in [Fact -> Specs]
    /\ records \in Seq(Range(records))
    /\ loaded = Nil => probe = Nil /\ todo = <<>>
    /\ probe # Nil /\ probe.manifest.ok =>
         Resolves(probe.of, loaded.specs[Head(todo)].code)

\* A sequence is one of the things in it.
LEMMA SeqOfItsOwn ==
    ASSUME NEW S, NEW s \in Seq(S)
    PROVE  s \in Seq(Range(s))
<1>1. Len(s) \in Nat /\ DOMAIN s = 1..Len(s) /\ s = [i \in 1..Len(s) |-> s[i]]
  OBVIOUS
<1>2. \A i \in 1..Len(s) : s[i] \in Range(s)
  BY <1>1 DEF Range
<1> HIDE DEF Range
<1> QED  BY <1>1, <1>2

\* With one thing more it ends in that.
LEMMA LastOfAppended ==
    ASSUME NEW s, s \in Seq(Range(s)), NEW x
    PROVE  /\ Last(Append(s, x)) = x
           /\ Append(s, x) \in Seq(Range(Append(s, x)))
<1> DEFINE S == Range(s) \union {x}
           t == Append(s, x)
<1> HIDE DEF S
<1>1. s \in Seq(S) /\ x \in S
  <2>1. Range(s) \subseteq S /\ x \in S
    BY DEF S
  <2> HIDE DEF Range
  <2> QED  BY <2>1
<1>2. t \in Seq(S) /\ Len(t) = Len(s) + 1 /\ t[Len(s) + 1] = x
  BY <1>1
<1>3. Last(t) = x
  BY <1>2 DEF Last
<1> HIDE DEF t
<1>4. t \in Seq(Range(t))
  BY <1>2, SeqOfItsOwn
<1> QED  BY <1>3, <1>4 DEF t

\* The guard of a code binding holds only if every glob fits a file.
LEMMA GuardResolves ==
    ASSUME NEW globs, Guard(globs).verdict = "holds"
    PROVE  Resolves(files, globs)
<1> DEFINE found == [i \in 1..Len(globs) |-> Items("path", globs[i], Globbed(globs[i]))]
<1>1. <<>> \notin Range(found)
  BY DEF Guard, Found
<1>2. ASSUME NEW i \in 1..Len(globs), Globbed(globs[i]) = <<>>
      PROVE  FALSE
  <2>1. Items("path", globs[i], Globbed(globs[i])) = <<>>
    BY <1>2 DEF Items
  <2>2. found[i] = <<>> /\ i \in DOMAIN found
    BY <2>1
  <2> QED  BY <1>1, <2>2 DEF Range
<1>3. \A i \in 1..Len(globs) : GlobbedIn(files, globs[i]) = Globbed(globs[i])
  BY DEF GlobbedIn, Globbed
<1> QED  BY <1>2, <1>3 DEF Resolves

\* Nothing is asked of a binding of no glob.
LEMMA NoGlobResolves ==
    ASSUME NEW fs
    PROVE  Resolves(fs, <<>>)
BY DEF Resolves

\* A spec has a manifest only if its code binding resolves.
LEMMA ManifestResolves ==
    ASSUME NEW s, Manifest(s).ok
    PROVE  Resolves(files, s.code)
<1>1. ~Bad.ok
  BY DEF Bad
<1>2. s.code = <<>> \/ Guard(s.code).verdict = "holds"
  BY <1>1 DEF Manifest
<1> QED  BY <1>2, GuardResolves, NoGlobResolves

\* A live run says that a fact holds only if its code binding resolves.
LEMMA RunResolves ==
    ASSUME NEW s, Run(s).verdict = "holds"
    PROVE  Resolves(files, s.code)
<1>1. s.code = <<>> \/ Guard(s.code).verdict = "holds"
  BY DEF Run
<1> QED  BY <1>1, GuardResolves, NoGlobResolves

\* Every step keeps the invariant: a manifest is of the files it was taken of, and
\* its spec is the one the eval has loaded.
LEMMA EvalKept == EvalInv /\ [EvalNext]_evalVars => EvalInv'
<1> SUFFICES ASSUME EvalInv, [EvalNext]_evalVars
             PROVE  EvalInv'
  OBVIOUS
<1>0. records \in Seq(Range(records)) /\ (loaded = Nil => probe = Nil /\ todo = <<>>)
  BY DEF EvalInv
<1>a. <<>> \in Seq(Range(<<>>))
  OBVIOUS
<1>1. ASSUME NEW p \in Path, EditFile(p) PROVE EvalInv'
  BY <1>1 DEF EditFile, MayEdit, EvalInv
<1>2. ASSUME NEW f \in Fact, EditFact(f) PROVE EvalInv'
  <2>1. roots' \in [Fact -> Root \union {Absent}]
    BY <1>2 DEF EditFact, EvalInv
  <2> QED  BY <1>2, <2>1 DEF EditFact, MayEdit, EvalInv
<1>3. ASSUME NEW f \in Fact, EditSpec(f) PROVE EvalInv'
  <2>1. SpecsOf[f] \subseteq Specs
    BY DEF Specs
  <2>2. specs' \in [Fact -> Specs]
    BY <1>3, <2>1 DEF EditSpec, EvalInv
  <2> QED  BY <1>3, <2>2 DEF EditSpec, MayEdit, EvalInv
<1>4. ASSUME NEW which, BeginEval(which) PROVE EvalInv'
  <2>1. loaded' = [roots |-> roots, specs |-> specs] /\ probe = Nil /\ probe' = probe
        /\ UNCHANGED <<roots, specs, records>>
    BY <1>4 DEF BeginEval, EvalInv, world
  <2>2. loaded' # Nil
    BY <2>1, EvalAssumption DEF EvalInv
  <2> QED  BY <2>1, <2>2 DEF EvalInv
<1>5. CASE DropRecords
  BY <1>5 DEF DropRecords, EvalInv, world
<1>6. CASE Probe
  <2>1. /\ todo # <<>> /\ probe' = [manifest |-> Manifest(loaded.specs[Head(todo)]), of |-> files]
        /\ UNCHANGED <<roots, specs, records, loaded, todo>>
    BY <1>6 DEF Probe, world
  <2>2. loaded # Nil
    BY <1>0, <2>1
  <2>3. probe'.manifest.ok => Resolves(probe'.of, loaded.specs[Head(todo)].code)
    BY <2>1, ManifestResolves
  <2> QED  BY <2>1, <2>2, <2>3 DEF EvalInv
<1>7. CASE Reuse \/ RunLive
  <2>1. PICK r : records' = Append(records, r) /\ probe' = Nil
                 /\ UNCHANGED <<roots, specs, loaded>> /\ probe # Nil
    BY <1>7 DEF Reuse, RunLive, Report, world
  <2>2. records' \in Seq(Range(records'))
    BY <1>0, <2>1, LastOfAppended
  <2>3. loaded' # Nil
    BY <1>0, <2>1
  <2> QED  BY <2>1, <2>2, <2>3 DEF EvalInv
<1>8. CASE Save \/ EvalKilled
  <2>1. EndEval /\ UNCHANGED <<roots, specs>>
    BY <1>8 DEF Save, EvalKilled, world
  <2> QED  BY <1>a, <2>1 DEF EndEval, EvalInv
<1>9. CASE UNCHANGED evalVars
  BY <1>9 DEF evalVars, world, EvalInv
<1> QED
  BY <1>1, <1>2, <1>3, <1>4, <1>5, <1>6, <1>7, <1>8, <1>9 DEF EvalNext

\* A new record that says a fact holds comes of files in which the fact's code
\* binding resolved.
LEMMA HoldsResolves ==
    ASSUME EvalInv, [EvalNext]_evalVars, records' # records, records' # <<>>,
           Last(records').verdict = "holds", probe.of = files
    PROVE  Resolves(files, loaded.specs[Head(todo)].code)
<1>0. records \in Seq(Range(records))
  BY DEF EvalInv
<1>1. CASE Reuse
  <2>1. probe # Nil /\ probe.manifest.ok
    BY <1>1 DEF Reuse, IsReusable
  <2> QED  BY <2>1 DEF EvalInv
<1>2. CASE RunLive
  <2> DEFINE f == Head(todo)
             v == Run(loaded.specs[f])
             r == Record(f, v, probe.manifest, probe.of # files)
  <2>1. records' = Append(records, r)
    BY <1>2 DEF RunLive, Report
  <2>2. Last(records') = r
    <3> HIDE DEF r
    <3> QED  BY <1>0, <2>1, LastOfAppended
  <2>3. r.verdict = v.verdict
    BY DEF Record
  <2>4. v.verdict = "holds"
    <3> HIDE DEF r, v
    <3> QED  BY <2>2, <2>3
  <2> QED  BY <2>4, RunResolves
<1>3. CASE Save \/ EvalKilled
  BY <1>3 DEF Save, EvalKilled, EndEval
<1>4. Reuse \/ RunLive \/ Save \/ EvalKilled
  BY DEF EvalNext, EditFile, EditFact, EditSpec, MayEdit, BeginEval, DropRecords, Probe, evalVars
<1> QED  BY <1>1, <1>2, <1>3, <1>4

\* What an eval may take from a record, and when, in every state of the project.
THEOREM EvalInvariant == EvalSpec => []EvalInv
<1>1. EvalInit => EvalInv
  <2> SUFFICES ASSUME EvalInit PROVE EvalInv
    OBVIOUS
  <2>1. <<>> \in Seq(Range(<<>>))
    OBVIOUS
  <2>2. roots \in [Fact -> Root \union {Absent}]
    BY DEF EvalInit
  <2> QED  BY <2>1, <2>2 DEF EvalInit, EvalInv
<1> QED  BY <1>1, EvalKept, PTL DEF EvalSpec

\* Whatever its pipeline would make of nothing, and whether the verdict is new or
\* used again, eval says that a fact holds only if each of its code globs fits a file
\* (NoVacuousHolds: the guards of Engine.Run and of ReusableManifest).
THEOREM NothingHoldsVacuously == EvalSpec => NoVacuousHolds
<1>1. EvalInv /\ [EvalNext]_evalVars =>
        (records' # records /\ records' # <<>> /\ Last(records').verdict = "holds"
           /\ probe.of = files =>
             LET s == loaded.specs[Head(todo)]
             IN  \A i \in 1..Len(s.code) : Globbed(s.code[i]) # <<>>)
  <2>1. \A g : GlobbedIn(files, g) = Globbed(g)
    BY DEF GlobbedIn, Globbed
  <2> QED  BY <2>1, HoldsResolves DEF Resolves
<1> QED  BY <1>1, EvalInvariant, PTL DEF EvalSpec, NoVacuousHolds

=============================================================================
