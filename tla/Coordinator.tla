---------------------------- MODULE Coordinator ----------------------------
(***************************************************************************)
(* The write coordinator of one .c3 directory (cli/internal/coord and      *)
(* runThroughCoordinator in cli/main.go).                                  *)
(*                                                                         *)
(* Every process of Client is one run of a mutating c3x command.  It first *)
(* tries to forward its request to a leader listening on the socket; when  *)
(* nobody listens it tries to become the leader itself, by taking the lock *)
(* file, and then serves its own request and those forwarded to it until   *)
(* it has been idle for a while.  A process can be killed at any step: the *)
(* kernel then frees its lock and closes its connections, and the socket   *)
(* path it leaves behind is stale.                                         *)
(***************************************************************************)
EXTENDS Integers, Sequences, FiniteSets

CONSTANTS
    Client,     \* processes, each running one mutating command
    NoClient,   \* "nobody": lock free, no socket path, nothing in hand
    QueueCap,   \* capacity of the channel between accept loop and handler
    Denied,     \* processes refused a bind (EPERM, EACCES); their dials may be too
    Killable    \* processes that may be killed

ASSUME ClientAssumption == NoClient \notin Client
ASSUME QueueAssumption  == QueueCap \in Nat \ {0}
ASSUME SubsetAssumption == Denied \subseteq Client /\ Killable \subseteq Client

VARIABLES
    pc,         \* where each process is
    lock,       \* holder of the flock
    socket,     \* process whose listener the socket path was bound by
    listening,  \* processes whose listener is open
    backlog,    \* per leader: connections the kernel holds, not yet accepted
    held,       \* per leader: connection in the accept loop's hands
    queue,      \* per leader: the requests channel
    running,    \* per process: whose command it is running
    sent,       \* clients whose request is written on their connection
    reply,      \* per client: what the leader's side of the connection holds
    starts,     \* per client: how often its command was started
    result,     \* per client: what its command came to
    outcome     \* per client: what the process reported to its user

clientVars  == <<sent, reply>>
serverVars  == <<backlog, held, queue>>
effectVars  == <<running, starts, result>>
vars == <<pc, lock, socket, listening, backlog, held, queue, running, sent,
          reply, starts, result, outcome>>

Forwarding == {"dial", "encode", "await", "retry", "retryDenied"}
Electing   == {"elect", "clear", "bind"}
Serving    == {"exec", "respond", "select"}
Closing    == {"close", "unlink", "unlock"}

Results  == {"ok", "err"}
Outcomes == Results \union {"lost", "busy", "killed"}

\* What a process holds the flock during.
Holding == {"clear", "bind"} \union Serving \union Closing

TypeOK ==
    /\ pc \in [Client -> Forwarding \union Electing \union Serving
                           \union Closing \union {"solo", "done"}]
    /\ lock \in Client \union {NoClient}
    /\ socket \in Client \union {NoClient}
    /\ listening \subseteq Client
    /\ backlog \in [Client -> Seq(Client)]
    /\ held \in [Client -> Client \union {NoClient}]
    /\ queue \in [Client -> Seq(Client)]
    /\ running \in [Client -> Client \union {NoClient}]
    /\ sent \subseteq Client
    /\ reply \in [Client -> Results \union {"none", "eof"}]
    /\ starts \in [Client -> Nat]
    /\ result \in [Client -> Results \union {"none"}]
    /\ outcome \in [Client -> Outcomes \union {"none"}]

Init ==
    /\ pc = [c \in Client |-> "dial"]
    /\ lock = NoClient
    /\ socket = NoClient
    /\ listening = {}
    /\ backlog = [c \in Client |-> <<>>]
    /\ held = [c \in Client |-> NoClient]
    /\ queue = [c \in Client |-> <<>>]
    /\ running = [c \in Client |-> NoClient]
    /\ sent = {}
    /\ reply = [c \in Client |-> "none"]
    /\ starts = [c \in Client |-> 0]
    /\ result = [c \in Client |-> "none"]
    /\ outcome = [c \in Client |-> "none"]

-----------------------------------------------------------------------------
Goto(c, from, to) == pc[c] = from /\ pc' = [pc EXCEPT ![c] = to]

\* A process that ends its run and says why.
Exit(c, why) ==
    /\ pc' = [pc EXCEPT ![c] = "done"]
    /\ outcome' = [outcome EXCEPT ![c] = why]

\* The connections a process has at hand on the server side.
InHand(p) ==
    {backlog[p][i] : i \in DOMAIN backlog[p]}
        \union {queue[p][i] : i \in DOMAIN queue[p]}
        \union ({held[p], running[p]} \ {NoClient, p})

\* The far end of connection c is gone: c reads EOF unless it was answered.
HangUp(conns) ==
    reply' = [c \in Client |->
                IF c \in conns /\ reply[c] = "none" THEN "eof" ELSE reply[c]]

-----------------------------------------------------------------------------
(* The client side: TryForward and ForwardWithRetry.                        *)

DialTo(c, p) ==
    /\ pc[c] \in {"dial", "retry", "retryDenied"}
    /\ socket = p
    /\ p \in listening
    /\ pc' = [pc EXCEPT ![c] = "encode"]
    /\ backlog' = [backlog EXCEPT ![p] = Append(@, c)]
    /\ UNCHANGED <<lock, socket, listening, held, queue, clientVars,
                   effectVars, outcome>>

Dial(c) == \E p \in Client : DialTo(c, p)

\* Only the first dial leads anywhere; in ForwardWithRetry a failed one is
\* tried again.
DialFail(c) ==
    /\ socket \notin listening \/ c \in Denied
    /\ Goto(c, "dial", "elect")
    /\ UNCHANGED <<lock, socket, listening, serverVars, clientVars,
                   effectVars, outcome>>

Encode(c) ==
    /\ reply[c] = "none"
    /\ Goto(c, "encode", "await")
    /\ sent' = sent \union {c}
    /\ UNCHANGED <<lock, socket, listening, serverVars, reply, effectVars,
                   outcome>>

\* Once connected, every error of the exchange is final: the caller is told
\* the request was handled, and never runs the command itself.
EncodeFail(c) ==
    /\ pc[c] = "encode"
    /\ reply[c] # "none"
    /\ Exit(c, "lost")
    /\ UNCHANGED <<lock, socket, listening, serverVars, clientVars, effectVars>>

\* (Mutant: whatever the connection ends with is taken for a response.)
ReceiveAnything(c) ==
    /\ pc[c] = "await"
    /\ reply[c] # "none"
    /\ Exit(c, reply[c])
    /\ UNCHANGED <<lock, socket, listening, serverVars, clientVars, effectVars>>

ReceiveReply(c) ==
    /\ pc[c] = "await"
    /\ reply[c] \in Results
    /\ Exit(c, reply[c])
    /\ UNCHANGED <<lock, socket, listening, serverVars, clientVars, effectVars>>

\* (Mutant: a failed exchange counts as not handled.)
ForwardErrorElects(c) ==
    /\ reply[c] \notin Results
    /\ Goto(c, "await", "elect")
    /\ UNCHANGED <<lock, socket, listening, serverVars, clientVars,
                   effectVars, outcome>>

\* EOF from the leader, or the ten-second deadline.
ForwardError(c) ==
    /\ pc[c] = "await"
    /\ reply[c] \notin Results
    /\ Exit(c, "lost")
    /\ UNCHANGED <<lock, socket, listening, serverVars, clientVars, effectVars>>

\* (Mutant: a process that got nowhere runs its command by itself.)
RetryTimeoutSolo(c) ==
    /\ Goto(c, "retry", "solo")
    /\ running' = [running EXCEPT ![c] = c]
    /\ starts' = [starts EXCEPT ![c] = @ + 1]
    /\ UNCHANGED <<lock, socket, listening, serverVars, clientVars, result,
                   outcome>>

\* ForwardWithRetry gives up two seconds after it began.  The deadline of the
\* caller's loop began earlier, so it has passed as well and the loop never
\* comes round to NewLeader again.
RetryTimeout(c) ==
    /\ pc[c] = "retry"
    /\ Exit(c, "busy")
    /\ UNCHANGED <<lock, socket, listening, serverVars, clientVars, effectVars>>

StartSolo(c) ==
    /\ Goto(c, "retryDenied", "solo")
    /\ running' = [running EXCEPT ![c] = c]
    /\ starts' = [starts EXCEPT ![c] = @ + 1]
    /\ UNCHANGED <<lock, socket, listening, serverVars, clientVars, result,
                   outcome>>

FinishSolo(c) ==
    /\ pc[c] = "solo"
    /\ running' = [running EXCEPT ![c] = NoClient]
    /\ \E r \in Results :
        /\ result' = [result EXCEPT ![c] = r]
        /\ Exit(c, r)
    /\ UNCHANGED <<lock, socket, listening, serverVars, clientVars, starts>>

-----------------------------------------------------------------------------
(* Election: NewLeader.                                                      *)

\* (Mutant: the lock file is opened, but its flock is not asked for.)
AcquireLockFile(c) ==
    /\ Goto(c, "elect", "clear")
    /\ lock' = c
    /\ UNCHANGED <<socket, listening, serverVars, clientVars, effectVars,
                   outcome>>

AcquireLock(c) ==
    /\ lock = NoClient
    /\ Goto(c, "elect", "clear")
    /\ lock' = c
    /\ UNCHANGED <<socket, listening, serverVars, clientVars, effectVars,
                   outcome>>

LockBusy(c) ==
    /\ lock # NoClient
    /\ Goto(c, "elect", "retry")
    /\ UNCHANGED <<lock, socket, listening, serverVars, clientVars,
                   effectVars, outcome>>

RemoveStaleSocket(c) ==
    /\ Goto(c, "clear", "bind")
    /\ socket' = NoClient
    /\ UNCHANGED <<lock, listening, serverVars, clientVars, effectVars, outcome>>

\* Serve starts the accept loop and runs the leader's own request first.
ListenAndServe(c) ==
    /\ c \notin Denied
    /\ Goto(c, "bind", "exec")
    /\ socket' = c
    /\ listening' = listening \union {c}
    /\ running' = [running EXCEPT ![c] = c]
    /\ starts' = [starts EXCEPT ![c] = @ + 1]
    /\ UNCHANGED <<lock, serverVars, clientVars, result, outcome>>

ListenDenied(c) ==
    /\ c \in Denied
    /\ Goto(c, "bind", "retryDenied")
    /\ lock' = NoClient
    /\ UNCHANGED <<socket, listening, serverVars, clientVars, effectVars,
                   outcome>>

-----------------------------------------------------------------------------
(* The leader: the accept loop, a goroutine of its own ...                   *)

Accept(p) ==
    /\ p \in listening
    /\ held[p] = NoClient
    /\ backlog[p] # <<>>
    /\ held' = [held EXCEPT ![p] = Head(backlog[p])]
    /\ backlog' = [backlog EXCEPT ![p] = Tail(@)]
    /\ UNCHANGED <<pc, lock, socket, listening, queue, clientVars, effectVars,
                   outcome>>

Enqueue(p) ==
    /\ held[p] \in sent
    /\ Len(queue[p]) < QueueCap
    /\ queue' = [queue EXCEPT ![p] = Append(@, held[p])]
    /\ held' = [held EXCEPT ![p] = NoClient]
    /\ UNCHANGED <<pc, lock, socket, listening, backlog, clientVars,
                   effectVars, outcome>>

\* The request did not arrive in five seconds, or Serve has returned and the
\* loop takes the done branch of its select.
DropConnection(p) ==
    /\ held[p] # NoClient
    /\ held[p] \notin sent \/ pc[p] \in Closing
    /\ HangUp({held[p]})
    /\ held' = [held EXCEPT ![p] = NoClient]
    /\ UNCHANGED <<pc, lock, socket, listening, backlog, queue, sent,
                   effectVars, outcome>>

-----------------------------------------------------------------------------
(* ... and Serve, on the main goroutine.                                     *)

FinishHandler(p) ==
    /\ pc[p] = "exec"
    /\ \E r \in Results : result' = [result EXCEPT ![running[p]] = r]
    /\ pc' = [pc EXCEPT ![p] = IF running[p] = p THEN "select" ELSE "respond"]
    /\ running' = [running EXCEPT ![p] = IF @ = p THEN NoClient ELSE @]
    /\ UNCHANGED <<lock, socket, listening, serverVars, clientVars, starts,
                   outcome>>

\* (Mutant: the leader answers with its own response.)
RespondWithOwn(p) ==
    /\ Goto(p, "respond", "select")
    /\ reply' = [reply EXCEPT ![running[p]] = result[p]]
    /\ running' = [running EXCEPT ![p] = NoClient]
    /\ UNCHANGED <<lock, socket, listening, serverVars, sent, starts, result,
                   outcome>>

Respond(p) ==
    /\ Goto(p, "respond", "select")
    /\ reply' = [reply EXCEPT ![running[p]] = result[running[p]]]
    /\ running' = [running EXCEPT ![p] = NoClient]
    /\ UNCHANGED <<lock, socket, listening, serverVars, sent, starts, result,
                   outcome>>

Dequeue(p) ==
    /\ queue[p] # <<>>
    /\ Goto(p, "select", "exec")
    /\ running' = [running EXCEPT ![p] = Head(queue[p])]
    /\ starts' = [starts EXCEPT ![Head(queue[p])] = @ + 1]
    /\ queue' = [queue EXCEPT ![p] = Tail(@)]
    /\ UNCHANGED <<lock, socket, listening, backlog, held, clientVars, result,
                   outcome>>

\* (Mutant: the leader serves others and forgets to print its own response.)
IdleTimeoutSilent(p) ==
    /\ Goto(p, "select", "close")
    /\ UNCHANGED <<lock, socket, listening, serverVars, clientVars, effectVars,
                   outcome>>

\* A select with both branches ready takes either: requests may be queued.
\* The leader prints its own response before it closes anything.
IdleTimeout(p) ==
    /\ Goto(p, "select", "close")
    /\ outcome' = [outcome EXCEPT ![p] = result[p]]
    /\ UNCHANGED <<lock, socket, listening, serverVars, clientVars, effectVars>>

\* (Mutant: the lock is let go before the socket path is removed.)
CloseListenerAndLock(p) ==
    /\ Goto(p, "close", "unlink")
    /\ listening' = listening \ {p}
    /\ socket' = NoClient
    /\ lock' = NoClient
    /\ HangUp({backlog[p][i] : i \in DOMAIN backlog[p]})
    /\ backlog' = [backlog EXCEPT ![p] = <<>>]
    /\ UNCHANGED <<held, queue, sent, effectVars, outcome>>

\* listener.Close removes the path it bound and resets what it never accepted.
CloseListener(p) ==
    /\ Goto(p, "close", "unlink")
    /\ listening' = listening \ {p}
    /\ socket' = NoClient
    /\ HangUp({backlog[p][i] : i \in DOMAIN backlog[p]})
    /\ backlog' = [backlog EXCEPT ![p] = <<>>]
    /\ UNCHANGED <<lock, held, queue, sent, effectVars, outcome>>

UnlinkSocket(p) ==
    /\ Goto(p, "unlink", "unlock")
    /\ socket' = NoClient
    /\ UNCHANGED <<lock, listening, serverVars, clientVars, effectVars, outcome>>

\* The process ends as soon as the lock is released; connections it never
\* answered end with it.
ReleaseLock(p) ==
    /\ Goto(p, "unlock", "done")
    /\ lock' = NoClient
    /\ HangUp(InHand(p))
    /\ held' = [held EXCEPT ![p] = NoClient]
    /\ queue' = [queue EXCEPT ![p] = <<>>]
    /\ UNCHANGED <<socket, listening, backlog, sent, effectVars, outcome>>

-----------------------------------------------------------------------------
\* (Mutant: the lock is a file that exists, not one the kernel lets go.)
KillKeepsLock(c) ==
    /\ c \in Killable
    /\ pc[c] # "done"
    /\ pc' = [pc EXCEPT ![c] = "done"]
    /\ outcome' = [outcome EXCEPT ![c] = IF @ = "none" THEN "killed" ELSE @]
    /\ listening' = listening \ {c}
    /\ HangUp(InHand(c))
    /\ backlog' = [backlog EXCEPT ![c] = <<>>]
    /\ held' = [held EXCEPT ![c] = NoClient]
    /\ queue' = [queue EXCEPT ![c] = <<>>]
    /\ running' = [running EXCEPT ![c] = NoClient]
    /\ UNCHANGED <<lock, socket, sent, starts, result>>

\* The kernel releases what the process held; the socket path stays.
Kill(c) ==
    /\ c \in Killable
    /\ pc[c] # "done"
    /\ pc' = [pc EXCEPT ![c] = "done"]
    /\ outcome' = [outcome EXCEPT ![c] = IF @ = "none" THEN "killed" ELSE @]
    /\ lock' = IF lock = c THEN NoClient ELSE lock
    /\ listening' = listening \ {c}
    /\ HangUp(InHand(c))
    /\ backlog' = [backlog EXCEPT ![c] = <<>>]
    /\ held' = [held EXCEPT ![c] = NoClient]
    /\ queue' = [queue EXCEPT ![c] = <<>>]
    /\ running' = [running EXCEPT ![c] = NoClient]
    /\ UNCHANGED <<socket, sent, starts, result>>

ClientStep(c) ==
    \/ Dial(c) \/ DialFail(c) \/ Encode(c) \/ EncodeFail(c)
    \/ ReceiveReply(c) \/ ForwardError(c) \/ RetryTimeout(c)
    \/ StartSolo(c) \/ FinishSolo(c)

ElectionStep(c) ==
    \/ AcquireLock(c) \/ LockBusy(c) \/ RemoveStaleSocket(c)
    \/ ListenAndServe(c) \/ ListenDenied(c)

AcceptStep(p) == Accept(p) \/ Enqueue(p) \/ DropConnection(p)

ServeStep(p) ==
    \/ FinishHandler(p) \/ Respond(p) \/ Dequeue(p) \/ IdleTimeout(p)
    \/ CloseListener(p) \/ UnlinkSocket(p) \/ ReleaseLock(p)

\* All processes have ended: the only state without a further step.
AllDone == (\A c \in Client : pc[c] = "done") /\ UNCHANGED vars

Next ==
    \/ \E c \in Client : \/ ClientStep(c) \/ ElectionStep(c)
                         \/ AcceptStep(c) \/ ServeStep(c) \/ Kill(c)
    \/ AllDone

\* Every goroutine is scheduled and every timer fires; no process has to be
\* killed.
Fairness == \A c \in Client :
    /\ WF_vars(ClientStep(c))
    /\ WF_vars(ElectionStep(c))
    /\ WF_vars(AcceptStep(c))
    /\ WF_vars(ServeStep(c))

Spec == Init /\ [][Next]_vars /\ Fairness

-----------------------------------------------------------------------------
(* Correctness.                                                              *)

\* Two coordinated processes never run commands at the same time, and the one
\* that does holds the lock.  (NewLeader, Serve and the order inside Close.)
WriterExclusion ==
    \A p \in Client : pc[p] \in Serving =>
        /\ lock = p
        /\ \A q \in Client \ {p} : pc[q] \notin Serving

\* While a leader serves, the socket path leads to it: nobody else's election
\* or shutdown removes or rebinds the path.  (NewLeader removes the path it
\* finds without asking whose it is; Close removes it twice.)
LeaderReachable ==
    \A p \in Client : pc[p] \in Serving => socket = p /\ p \in listening

\* No command is started twice, whichever side of a connection fails and
\* whoever is killed: a forwarded request is never also run by its sender.
AtMostOnce == \A c \in Client : starts[c] <= 1

\* What a process reports is what happened: "ok" and "err" are the result of
\* its own command, and one that gave up as busy never ran and never will.
HonestOutcome ==
    \A c \in Client :
        /\ outcome[c] \in Results => result[c] = outcome[c]
        /\ outcome[c] = "busy" => starts[c] = 0

\* Every process reports to its user in the end, whatever happens to the
\* leader it forwarded to.
EveryRunReports == \A c \in Client : <>(outcome[c] # "none")

\* A leader that is not killed lets go: the lock does not stay with it.
LockComesFree == \A c \in Client : lock = c ~> lock # c


\* The coordinator implements a serial executor of commands (SerialWriter).
Executing == {p \in Client : pc[p] = "exec"}

Active == IF Executing = {} THEN NoClient
          ELSE running[CHOOSE p \in Executing : TRUE]

Serial == INSTANCE SerialWriter WITH active <- Active

ImplementsSerialWriter == Serial!Spec
=============================================================================
