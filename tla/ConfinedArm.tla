---------------------------- MODULE ConfinedArm ----------------------------
(***************************************************************************)
(* One confined arm of the structural retrieval evaluation                 *)
(* (tools/structural-search-eval-v2/main.go): the controller starts a      *)
(* systemd-run client, which makes a transient unit, whose shell runs the  *)
(* target, publishes a marker with the target's exit code, keeps the       *)
(* cgroup for a moment and exits with that code.  The controller accounts  *)
(* for the target between the marker and the shell's end, joins the        *)
(* goroutine that waits for the client, and accepts the response only when *)
(* the marker and the client agree.  Whatever fails, it stops the unit,    *)
(* joins, kills the client, joins once more and removes the directory of   *)
(* the marker.                                                             *)
(*                                                                         *)
(* Time is not counted: a timeout may come at any moment.  systemd, the    *)
(* client and the pipes are external and do what systemd-run --wait --pipe *)
(* documents; a unit can be killed at any time (RuntimeMaxSec, memory,     *)
(* somebody's systemctl stop), and a unit stopped by SIGTERM counts as a   *)
(* success for the client.                                                 *)
(***************************************************************************)
EXTENDS Integers, FiniteSets

CONSTANTS
    Entity,             \* what a corpus may hold
    NoParent,
    Corpora,            \* corpora: the parent of each of their entities
    Queries,            \* number of queries of a request
    Codes,              \* exit codes that occur
    None

Stream      == {"stdout", "stderr"}
Whole       == 2                \* writes that make up a response
Unpublished == 125              \* exit code of a shell that could not publish
Reaped      == 137              \* 128 + SIGKILL
Unknown     == -1               \* status of a Wait that has no exit code

ASSUME ArmAssumption ==
    /\ Corpora \subseteq UNION {[E -> Entity \union {NoParent}] : E \in SUBSET Entity}
    /\ NoParent \notin Entity
    /\ IsFiniteSet(Entity)
    /\ Queries \in Nat
    /\ {0, Unpublished, Reaped} \subseteq Codes /\ Codes \subseteq 0..255
    /\ None \notin Int /\ None \notin {"accepted", "failed", "fatal"}

VARIABLES
    corpus,     \* the corpus of the request
    ctl,        \* the controller: place, marker it saw, whether Wait had returned
                \* by then, what it accounted, times it has swept the directory
    late,       \* the deadline of the controller has passed
    client,     \* the systemd-run client: state and exit code
    unit,       \* the transient unit: state, the code the client is told, and
                \* whether a stop has been asked for
    target,     \* the shell and its target: stage, work done, database, exit code
    pipe,       \* writes of the response sent and kept, streams still copied
    dir,        \* the completion directory: there or not, temporary file, marker
    wait,       \* the goroutine in command.Wait: state, status, error
    end         \* what the invocation returned

vars == <<corpus, ctl, late, client, unit, target, pipe, dir, wait, end>>
machine == <<client, unit, target, pipe>>

Working   == {"seed", "query", "encode"}
AtStep(p) == ctl.pc = p
Goto(p)   == ctl' = [ctl EXCEPT !.pc = p]

---------------------------------------------------------------------------
(* The corpus: entities go in parent first, sweep after sweep, until none  *)
(* is left or a sweep puts in nothing.                                     *)

insertEntitiesParentFirst(c) ==
    LET inserted[n \in 0..Cardinality(DOMAIN c)] ==
            IF n = 0 THEN {}
            ELSE {e \in DOMAIN c : c[e] = NoParent \/ c[e] \in inserted[n - 1]}
    IN  inserted[Cardinality(DOMAIN c)]

Seedable(c) == insertEntitiesParentFirst(c) = DOMAIN c

---------------------------------------------------------------------------
Init ==
    /\ corpus \in Corpora
    /\ ctl = [pc |-> "open", seen |-> None, waitFirst |-> FALSE, sample |-> None, swept |-> 0]
    /\ late = FALSE
    /\ client = [state |-> "none", rc |-> None]
    /\ unit = [state |-> "absent", rc |-> None, stopping |-> FALSE]
    /\ target = [stage |-> "off", used |-> 0, db |-> "none", rc |-> None]
    /\ pipe = [sent |-> 0, kept |-> 0, flow |-> Stream]
    /\ dir = [there |-> FALSE, temp |-> FALSE, marker |-> None]
    /\ wait = [state |-> "none", status |-> None, failed |-> FALSE]
    /\ end = [outcome |-> None, raw |-> None]

---------------------------------------------------------------------------
(* The controller.                                                         *)

OpenEndpoint ==
    /\ AtStep("open")
    /\ \/ dir' = [dir EXCEPT !.there = TRUE] /\ Goto("start") /\ UNCHANGED end
       \/ end' = [end EXCEPT !.outcome = "failed"] /\ Goto("returned") /\ UNCHANGED dir
    /\ UNCHANGED <<corpus, late, machine, wait>>

\* No bubblewrap, no systemd-run, an unusable runtime or a failed start: the
\* directory goes, and nothing has been started.
StartClient ==
    /\ AtStep("start")
    /\ \/ /\ client' = [client EXCEPT !.state = IF late THEN "exited" ELSE "running",
                                      !.rc = IF late THEN Reaped ELSE None]
          /\ wait' = [wait EXCEPT !.state = "pending"]
          /\ Goto("resolve")
          /\ UNCHANGED end
       \/ /\ end' = [end EXCEPT !.outcome = "failed"]
          /\ Goto("sweep")
          /\ UNCHANGED <<client, wait>>
    /\ UNCHANGED <<corpus, late, unit, target, pipe, dir>>

\* The control group is asked for again and again for two seconds.
Resolve ==
    /\ AtStep("resolve")
    /\ \/ unit.state = "active" /\ Goto("await")
       \/ Goto("stop")
    /\ UNCHANGED <<corpus, late, machine, dir, wait, end>>

readCompletionMarker ==
    /\ AtStep("await")
    /\ dir.marker # None
    /\ ctl' = [ctl EXCEPT !.pc = "observe", !.seen = dir.marker]
    /\ UNCHANGED <<corpus, late, machine, dir, wait, end>>

\* The time the marker is given, and then the question whether Wait was earlier.
ObserveMarker ==
    /\ AtStep("observe")
    /\ ctl' = [ctl EXCEPT !.pc = "authenticate", !.waitFirst = wait.state # "pending"]
    /\ UNCHANGED <<corpus, late, machine, dir, wait, end>>

Authenticate ==
    /\ AtStep("authenticate")
    /\ Goto(IF wait.state = "closed" /\ ctl.waitFirst THEN "stop" ELSE "sample")
    /\ UNCHANGED <<corpus, late, machine, dir, wait, end>>

\* The poll ends without a marker when Wait has returned or the wall is over.
AwaitFails ==
    /\ AtStep("await")
    /\ Goto("stop")
    /\ UNCHANGED <<corpus, late, machine, dir, wait, end>>

\* One direct read of the control group; nothing stands in for it.
takeCompletionAccountingSnapshot ==
    /\ AtStep("sample")
    /\ \/ /\ unit.state = "active"
          /\ ctl' = [ctl EXCEPT !.pc = "join", !.sample = target.used]
       \/ Goto("stop")
    /\ UNCHANGED <<corpus, late, machine, dir, wait, end>>

Join ==
    /\ AtStep("join")
    /\ \/ wait.state = "closed" /\ Goto("settle")
       \/ Goto("stop")
    /\ UNCHANGED <<corpus, late, machine, dir, wait, end>>

validateCompletionOrdering == ~ctl.waitFirst

\* Mutant of reconcileCompletionStatus: the client's word is enough.
reconcileClientOnly == wait.status # Unknown

reconcileCompletionStatus == wait.status = ctl.seen /\ wait.status # Unknown

\* Order, statuses, output, accounting and response, in that order.
Settle ==
    /\ AtStep("settle")
    /\ \/ /\ ~validateCompletionOrdering
          /\ Goto("stop")
          /\ UNCHANGED end
       \/ /\ validateCompletionOrdering
          /\ end' = [raw |-> pipe.kept,
                     outcome |-> IF /\ reconcileCompletionStatus
                                    /\ ~wait.failed
                                    /\ ctl.sample > 0
                                    /\ pipe.kept = Whole
                                 THEN "accepted" ELSE "failed"]
          /\ Goto("sweep")
    /\ UNCHANGED <<corpus, late, machine, dir, wait>>

---------------------------------------------------------------------------
(* Abort: stop, join, kill, join, sweep, and give up what is not joined.   *)

IssueStop ==
    /\ AtStep("stop")
    /\ unit' = [unit EXCEPT !.stopping = @ \/ unit.state = "active"]
    /\ Goto("stopped")
    /\ UNCHANGED <<corpus, late, client, target, pipe, dir, wait, end>>

\* stop and reset-failed have come back and show finds no unit; or one of the
\* three failed, or two seconds are over.
stopAndCleanTransientUnit ==
    /\ AtStep("stopped")
    /\ \/ /\ unit.state # "active"
          /\ unit' = [unit EXCEPT !.state = IF @ = "failed" THEN "gone" ELSE @]
       \/ UNCHANGED unit
    /\ Goto("joinAborted")
    /\ UNCHANGED <<corpus, late, client, target, pipe, dir, wait, end>>

JoinAborted ==
    /\ AtStep("joinAborted")
    /\ Goto(IF wait.state = "closed" THEN "sweep" ELSE "hardStop")
    /\ UNCHANGED <<corpus, late, machine, dir, wait, end>>

\* Kills the client, not what runs in the unit.
HardStop ==
    /\ AtStep("hardStop")
    /\ \/ /\ client.state = "running"
          /\ client' = [state |-> "exited", rc |-> Reaped]
       \/ UNCHANGED client
    /\ Goto("finalJoin")
    /\ UNCHANGED <<corpus, late, unit, target, pipe, dir, wait, end>>

\* Mutant of FinalJoin: after the kill, Wait is waited for as long as it takes.
FinalJoinUnbounded ==
    /\ AtStep("finalJoin") /\ wait.state = "closed"
    /\ Goto("sweep")
    /\ UNCHANGED <<corpus, late, machine, dir, wait, end>>

FinalJoin ==
    /\ AtStep("finalJoin")
    /\ Goto("sweep")
    /\ UNCHANGED <<corpus, late, machine, dir, wait, end>>

\* The directory is emptied and then removed, which fails when something has been
\* written into it meanwhile; the deferred guard does both a second time, last of all.
Sweep ==
    /\ AtStep("sweep")
    /\ dir' = [dir EXCEPT !.temp = FALSE, !.marker = None]
    /\ ctl' = [ctl EXCEPT !.pc = "rmdir", !.swept = @ + 1]
    /\ UNCHANGED <<corpus, late, machine, wait, end>>

cleanupCompletionEndpoint ==
    /\ AtStep("rmdir")
    /\ dir' = [dir EXCEPT !.there = @ /\ (dir.temp \/ dir.marker # None)]
    /\ Goto(IF ctl.swept = 2 THEN "returned"
            ELSE IF end.outcome = None THEN "abandon" ELSE "sweep")
    /\ UNCHANGED <<corpus, late, machine, wait, end>>

\* Mutant of Abandon: the output is read whether Wait has returned or not.
AbandonUnjoined ==
    /\ AtStep("abandon")
    /\ end' = [outcome |-> "failed", raw |-> pipe.kept]
    /\ Goto("sweep")
    /\ UNCHANGED <<corpus, late, machine, dir, wait>>

\* A Wait that is still alive makes the failure fatal: its output is not touched.
Abandon ==
    /\ AtStep("abandon")
    /\ end' = IF wait.state = "closed" THEN [outcome |-> "failed", raw |-> pipe.kept]
                                       ELSE [outcome |-> "fatal", raw |-> None]
    /\ Goto("sweep")
    /\ UNCHANGED <<corpus, late, machine, dir, wait>>

Controller ==
    \/ OpenEndpoint \/ StartClient \/ Resolve \/ readCompletionMarker \/ ObserveMarker
    \/ Authenticate \/ AwaitFails \/ takeCompletionAccountingSnapshot \/ Join \/ Settle
    \/ IssueStop \/ stopAndCleanTransientUnit \/ JoinAborted \/ HardStop \/ FinalJoin
    \/ Abandon \/ Sweep \/ cleanupCompletionEndpoint

---------------------------------------------------------------------------
(* The goroutine in command.Wait, and the goroutines that copy the pipes.  *)

CopyStdout ==
    /\ "stdout" \in pipe.flow /\ pipe.kept < pipe.sent
    /\ pipe' = [pipe EXCEPT !.kept = pipe.sent]
    /\ UNCHANGED <<corpus, ctl, late, client, unit, target, dir, wait, end>>

\* limitedBuffer refuses a write: the copy ends, and with it the reading end.
LimitReached(s) ==
    /\ s \in pipe.flow
    /\ target.stage \in Working
    /\ s = "stdout" => pipe.kept < pipe.sent
    /\ pipe' = [pipe EXCEPT !.flow = @ \ {s}]
    /\ UNCHANGED <<corpus, ctl, late, client, unit, target, dir, wait, end>>

\* Every copy has ended: at its limit, or at the end of what the unit can write.
Drained == unit.state # "active" /\ ("stdout" \in pipe.flow => pipe.kept = pipe.sent)

completionStatusFromWaitError ==
    IF client.rc # 0 THEN client.rc ELSE IF pipe.flow # Stream THEN Unknown ELSE 0

WaitReturns ==
    /\ wait.state = "pending"
    /\ client.state = "exited"
    /\ pipe.flow = {} \/ Drained
    /\ wait' = [state |-> "stamped", status |-> completionStatusFromWaitError,
                failed |-> completionStatusFromWaitError # 0]
    /\ UNCHANGED <<corpus, ctl, late, machine, dir, end>>

WaitCloses ==
    /\ wait.state = "stamped"
    /\ wait' = [wait EXCEPT !.state = "closed"]
    /\ UNCHANGED <<corpus, ctl, late, machine, dir, end>>

\* The deadline kills the client, through exec.CommandContext.
Deadline ==
    /\ ~late /\ ctl.pc # "returned"
    /\ late' = TRUE
    /\ client' = IF client.state = "running" THEN [state |-> "exited", rc |-> Reaped] ELSE client
    /\ UNCHANGED <<corpus, ctl, unit, target, pipe, dir, wait, end>>

---------------------------------------------------------------------------
(* The client and the unit.                                                *)

CreateUnit ==
    /\ client.state = "running" /\ unit.state = "absent"
    /\ unit' = [unit EXCEPT !.state = "active"]
    /\ target' = [target EXCEPT !.stage = "seed"]
    /\ UNCHANGED <<corpus, ctl, late, client, pipe, dir, wait, end>>

ClientRefused ==
    /\ client.state = "running" /\ unit.state = "absent"
    /\ client' = [state |-> "exited", rc |-> 1]
    /\ UNCHANGED <<corpus, ctl, late, unit, target, pipe, dir, wait, end>>

\* The unit ends with code c: every process of it is gone, and what is left of a
\* failure is a unit in the failed state.
UnitEnds(c) ==
    /\ unit' = [unit EXCEPT !.state = IF c = 0 THEN "gone" ELSE "failed", !.rc = c]
    /\ target' = [target EXCEPT !.stage = "over"]

UnitKilled ==
    /\ unit.state = "active"
    /\ \E c \in Codes : UnitEnds(c)
    /\ UNCHANGED <<corpus, ctl, late, client, pipe, dir, wait, end>>

ClientExits ==
    /\ client.state = "running" /\ unit.state \in {"gone", "failed"}
    /\ client' = [state |-> "exited", rc |-> unit.rc]
    /\ UNCHANGED <<corpus, ctl, late, unit, target, pipe, dir, wait, end>>

---------------------------------------------------------------------------
(* The target: one transaction that seeds the store, the queries, the      *)
(* checkpoint and the close, and then the response.                        *)

Seed ==
    /\ target.stage = "seed" /\ Seedable(corpus)
    /\ target' = [target EXCEPT !.stage = "query", !.used = 1, !.db = "seeded"]
    /\ UNCHANGED <<corpus, ctl, late, client, unit, pipe, dir, wait, end>>

RunQueries ==
    /\ target.stage = "query"
    /\ target' = IF target.used <= Queries
                 THEN [target EXCEPT !.used = @ + 1]
                 ELSE [target EXCEPT !.stage = "encode", !.used = @ + 1, !.db = "sealed"]
    /\ UNCHANGED <<corpus, ctl, late, client, unit, pipe, dir, wait, end>>

Encode ==
    /\ target.stage = "encode" /\ pipe.sent < Whole /\ "stdout" \in pipe.flow
    /\ pipe' = [pipe EXCEPT !.sent = @ + 1]
    /\ target' = [target EXCEPT !.used = @ + 1]
    /\ UNCHANGED <<corpus, ctl, late, client, unit, dir, wait, end>>

\* It may fail anywhere, and has to where the corpus cannot be seeded or the
\* response not be written.
TargetExits(c) ==
    /\ target.stage \in Working
    /\ c = 0 => target.stage = "encode" /\ pipe.sent = Whole
    /\ target' = [target EXCEPT !.stage = "exited", !.rc = c]
    /\ UNCHANGED <<corpus, ctl, late, client, unit, pipe, dir, wait, end>>

(* The shell around it.                                                    *)

WriteTemp ==
    /\ target.stage = "exited"
    /\ target' = [target EXCEPT !.stage = IF dir.there THEN "written" ELSE "unpublished"]
    /\ dir' = [dir EXCEPT !.temp = dir.there]
    /\ UNCHANGED <<corpus, ctl, late, client, unit, pipe, wait, end>>

Publish ==
    /\ target.stage = "written"
    /\ IF dir.there /\ dir.temp
       THEN /\ dir' = [dir EXCEPT !.temp = FALSE, !.marker = target.rc]
            /\ target' = [target EXCEPT !.stage = "published"]
       ELSE /\ UNCHANGED dir
            /\ target' = [target EXCEPT !.stage = "unpublished"]
    /\ UNCHANGED <<corpus, ctl, late, client, unit, pipe, wait, end>>

\* After a quarter of a second.
ShellExits ==
    /\ \/ target.stage = "published" /\ UnitEnds(target.rc) /\ UNCHANGED dir
       \/ /\ target.stage = "unpublished" /\ UnitEnds(Unpublished)
          /\ dir' = [dir EXCEPT !.temp = FALSE]
    /\ UNCHANGED <<corpus, ctl, late, client, pipe, wait, end>>

Environment ==
    \/ CopyStdout \/ (\E s \in Stream : LimitReached(s)) \/ WaitReturns \/ WaitCloses \/ Deadline
    \/ CreateUnit \/ ClientRefused \/ UnitKilled \/ ClientExits
    \/ Seed \/ RunQueries \/ Encode \/ (\E c \in Codes : TargetExits(c))
    \/ WriteTemp \/ Publish \/ ShellExits

Next == Controller \/ Environment
Spec == Init /\ [][Next]_vars

\* Only the controller runs for certain: every wait of its has a deadline.
FairSpec == Spec /\ WF_vars(Controller)

---------------------------------------------------------------------------
(* Properties.                                                             *)

\* What is accepted is a whole run of the target: it ended by itself and without
\* an error, its database is sealed, all of its response was kept, and what was
\* accounted is all the work it did (invokeConfinedArmMeasured).
AcceptedIsWhole ==
    end.outcome = "accepted" =>
        /\ target.rc = 0 /\ target.db = "sealed"
        /\ end.raw = Whole
        /\ ctl.sample = target.used

\* An arm that returns leaves nothing behind that could still write: no process
\* in the unit, no marker or directory of one, and the output it returns is all
\* there will ever be.  A fatal failure says that it could not see to that; and
\* with both streams over their limit nothing is left that Wait could wait for
\* but the client (abortAndJoinCompletionPhased).
ReturnsQuiet ==
    ctl.pc = "returned" /\ end.outcome # "fatal" =>
        /\ unit.state # "active" \/ pipe.flow = {}
        /\ ~dir.there
        /\ client.state # "running"
        /\ end.raw # None => end.raw = pipe.kept

\* Every arm returns, whatever the target, the unit, the client and Wait do.
ArmReturns == <>(ctl.pc = "returned")
=============================================================================
