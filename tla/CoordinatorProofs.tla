------------------------- MODULE CoordinatorProofs -------------------------
(***************************************************************************)
(* What TLAPS proves of Coordinator, for every set of processes, every     *)
(* queue capacity and whoever is denied sockets or killed: there is one    *)
(* writer and it can be reached, each command runs at most once, what is   *)
(* reported happened, and where all may use sockets the coordinator        *)
(* implements the serial executor of SerialWriter.                         *)
(***************************************************************************)
EXTENDS Coordinator, SequencesExt, SequenceTheorems, TLAPS

\* The union of the sets of variables, for steps that change none of them.
USE DEF clientVars, serverVars, effectVars

-----------------------------------------------------------------------------
(* Types.                                                                    *)

\* Every step of every process preserves the types.
LEMMA TypeStep == TypeOK /\ [Next]_vars => TypeOK'
<1> SUFFICES ASSUME TypeOK, [Next]_vars PROVE TypeOK'
    OBVIOUS
<1> USE DEF TypeOK, Forwarding, Electing, Serving, Closing, Results, Outcomes
<1>1. ASSUME NEW c \in Client, Dial(c) PROVE TypeOK'
    BY <1>1 DEF Dial, DialTo
<1>2. ASSUME NEW c \in Client, DialFail(c) PROVE TypeOK'
    BY <1>2 DEF DialFail, Goto
<1>3. ASSUME NEW c \in Client, Encode(c) PROVE TypeOK'
    BY <1>3 DEF Encode, Goto
<1>4. ASSUME NEW c \in Client, EncodeFail(c) PROVE TypeOK'
    BY <1>4 DEF EncodeFail, Exit
<1>5. ASSUME NEW c \in Client, ReceiveReply(c) PROVE TypeOK'
    BY <1>5 DEF ReceiveReply, Exit
<1>6. ASSUME NEW c \in Client, ForwardError(c) PROVE TypeOK'
    BY <1>6 DEF ForwardError, Exit
<1>7. ASSUME NEW c \in Client, RetryTimeout(c) PROVE TypeOK'
    BY <1>7 DEF RetryTimeout, Exit
<1>8. ASSUME NEW c \in Client, StartSolo(c) PROVE TypeOK'
    BY <1>8 DEF StartSolo, Goto
<1>9. ASSUME NEW c \in Client, FinishSolo(c) PROVE TypeOK'
    BY <1>9 DEF FinishSolo, Exit
<1>10. ASSUME NEW c \in Client, AcquireLock(c) PROVE TypeOK'
    BY <1>10 DEF AcquireLock, Goto
<1>11. ASSUME NEW c \in Client, LockBusy(c) PROVE TypeOK'
    BY <1>11 DEF LockBusy, Goto
<1>12. ASSUME NEW c \in Client, RemoveStaleSocket(c) PROVE TypeOK'
    BY <1>12 DEF RemoveStaleSocket, Goto
<1>13. ASSUME NEW c \in Client, ListenAndServe(c) PROVE TypeOK'
  <2>1. /\ pc' \in [Client -> Forwarding \union Electing \union Serving
                                 \union Closing \union {"solo", "done"}]
        /\ running' \in [Client -> Client \union {NoClient}]
    BY <1>13 DEF ListenAndServe, Goto
  <2>2. starts' \in [Client -> Nat]
    BY <1>13 DEF ListenAndServe
  <2>3. socket' \in Client \union {NoClient} /\ listening' \subseteq Client
    BY <1>13 DEF ListenAndServe
  <2> QED
    BY <1>13, <2>1, <2>2, <2>3 DEF ListenAndServe
<1>14. ASSUME NEW c \in Client, ListenDenied(c) PROVE TypeOK'
    BY <1>14 DEF ListenDenied, Goto
<1>15. ASSUME NEW c \in Client, Accept(c) PROVE TypeOK'
  <2>1. backlog[c] \in Seq(Client) /\ backlog[c] # <<>>
    BY <1>15 DEF Accept
  <2>2. Head(backlog[c]) \in Client /\ Tail(backlog[c]) \in Seq(Client)
    BY <2>1
  <2>3. /\ held' \in [Client -> Client \union {NoClient}]
        /\ backlog' \in [Client -> Seq(Client)]
    BY <1>15, <2>2 DEF Accept
  <2> QED
    BY <1>15, <2>3 DEF Accept
<1>16. ASSUME NEW c \in Client, Enqueue(c) PROVE TypeOK'
    BY <1>16 DEF Enqueue
<1>17. ASSUME NEW c \in Client, DropConnection(c) PROVE TypeOK'
    BY <1>17 DEF DropConnection, HangUp
<1>18. ASSUME NEW c \in Client, FinishHandler(c) PROVE TypeOK'
    BY <1>18 DEF FinishHandler
<1>19. ASSUME NEW c \in Client, Respond(c) PROVE TypeOK'
    BY <1>19 DEF Respond, Goto
<1>20. ASSUME NEW c \in Client, Dequeue(c) PROVE TypeOK'
  <2>1. queue[c] \in Seq(Client) /\ queue[c] # <<>>
    BY <1>20 DEF Dequeue
  <2>2. Head(queue[c]) \in Client /\ Tail(queue[c]) \in Seq(Client)
    BY <2>1
  <2>3. /\ pc' \in [Client -> Forwarding \union Electing \union Serving
                                 \union Closing \union {"solo", "done"}]
        /\ running' \in [Client -> Client \union {NoClient}]
    BY <1>20, <2>2 DEF Dequeue, Goto
  <2>4. starts' \in [Client -> Nat]
    <3> DEFINE first == Head(queue[c])
    <3>1. starts' = [starts EXCEPT ![first] = @ + 1]
      BY <1>20 DEF Dequeue
    <3>2. first \in Client
      BY <2>2
    <3> HIDE DEF first
    <3> QED
      BY <3>1, <3>2
  <2>5. queue' \in [Client -> Seq(Client)]
    BY <1>20, <2>2 DEF Dequeue
  <2> QED
    BY <1>20, <2>3, <2>4, <2>5 DEF Dequeue
<1>21. ASSUME NEW c \in Client, IdleTimeout(c) PROVE TypeOK'
    BY <1>21 DEF IdleTimeout, Goto
<1>22. ASSUME NEW c \in Client, CloseListener(c) PROVE TypeOK'
    BY <1>22 DEF CloseListener, Goto, HangUp
<1>23. ASSUME NEW c \in Client, UnlinkSocket(c) PROVE TypeOK'
    BY <1>23 DEF UnlinkSocket, Goto
<1>24. ASSUME NEW c \in Client, ReleaseLock(c) PROVE TypeOK'
    BY <1>24 DEF ReleaseLock, Goto, HangUp
<1>25. ASSUME NEW c \in Client, Kill(c) PROVE TypeOK'
    BY <1>25 DEF Kill, HangUp
<1>26. CASE UNCHANGED vars
    BY <1>26 DEF vars
<1> QED
    BY <1>1, <1>2, <1>3, <1>4, <1>5, <1>6, <1>7, <1>8, <1>9, <1>10, <1>11, <1>12, <1>13, <1>14, <1>15, <1>16, <1>17, <1>18, <1>19, <1>20, <1>21, <1>22, <1>23, <1>24, <1>25, <1>26
       DEF Next, AllDone, ClientStep, ElectionStep, AcceptStep, ServeStep

\* Every variable stays in its type, in every behaviour of the coordinator.
THEOREM TypeCorrect == Spec => []TypeOK
<1>1. Init => TypeOK
    BY DEF Init, TypeOK, Forwarding
<1> QED
    BY <1>1, TypeStep, PTL DEF Spec

-----------------------------------------------------------------------------
(* Exclusion.                                                                *)

\* A process owns the flock exactly while its pc says so, its listener is open
\* from the bind to the close, and the socket path is its own while it serves.
LockOwned      == \A p \in Client : pc[p] \in Holding <=> lock = p
ListenerOpen   == \A p \in Client : p \in listening <=> pc[p] \in Serving \union {"close"}
SocketOwned    == \A p \in Client : pc[p] \in Serving => socket = p

\* What makes exclusion inductive: nobody touches the socket path or runs a
\* command without the lock, so "serving" and "lock" have to be tied at every
\* point of an election and a shutdown, not only while commands run.
Election == TypeOK /\ LockOwned /\ ListenerOpen /\ SocketOwned

\* Every step preserves the three parts.
LEMMA ElectionStepInvariant == Election /\ [Next]_vars => Election'
<1> SUFFICES ASSUME Election, [Next]_vars
             PROVE  LockOwned' /\ ListenerOpen' /\ SocketOwned'
    BY TypeStep DEF Election
<1>0. TypeOK'
    BY TypeStep DEF Election
<1> USE ClientAssumption
    DEF Election, TypeOK, LockOwned, ListenerOpen, SocketOwned, Holding,
        Forwarding, Electing, Serving, Closing
<1>1. ASSUME NEW c \in Client, Dial(c)
       PROVE  LockOwned' /\ ListenerOpen' /\ SocketOwned'
  <2>1. /\ pc[c] \in {"dial", "retry", "retryDenied"}
        /\ pc' = [pc EXCEPT ![c] = "encode"]
        /\ UNCHANGED <<lock, socket, listening>>
    BY <1>1 DEF Dial, DialTo
  <2>2. \A p \in Client : pc'[p] \in Holding <=> pc[p] \in Holding
    BY <2>1
  <2>3. \A p \in Client : pc'[p] \in Serving \union {"close"}
                          <=> pc[p] \in Serving \union {"close"}
    BY <2>1
  <2>4. \A p \in Client : pc'[p] \in Serving => pc[p] \in Serving
    BY <2>1
  <2> QED
    BY <2>1, <2>2, <2>3, <2>4
<1>2. ASSUME NEW c \in Client, DialFail(c)
       PROVE  LockOwned' /\ ListenerOpen' /\ SocketOwned'
    BY <1>2 DEF DialFail, Goto
<1>3. ASSUME NEW c \in Client, Encode(c)
       PROVE  LockOwned' /\ ListenerOpen' /\ SocketOwned'
    BY <1>3 DEF Encode, Goto
<1>4. ASSUME NEW c \in Client, EncodeFail(c)
       PROVE  LockOwned' /\ ListenerOpen' /\ SocketOwned'
    BY <1>4 DEF EncodeFail, Exit
<1>5. ASSUME NEW c \in Client, ReceiveReply(c)
       PROVE  LockOwned' /\ ListenerOpen' /\ SocketOwned'
    BY <1>5 DEF ReceiveReply, Exit
<1>6. ASSUME NEW c \in Client, ForwardError(c)
       PROVE  LockOwned' /\ ListenerOpen' /\ SocketOwned'
    BY <1>6 DEF ForwardError, Exit
<1>7. ASSUME NEW c \in Client, RetryTimeout(c)
       PROVE  LockOwned' /\ ListenerOpen' /\ SocketOwned'
    BY <1>7 DEF RetryTimeout, Exit
<1>8. ASSUME NEW c \in Client, StartSolo(c)
       PROVE  LockOwned' /\ ListenerOpen' /\ SocketOwned'
    BY <1>8 DEF StartSolo, Goto
<1>9. ASSUME NEW c \in Client, FinishSolo(c)
       PROVE  LockOwned' /\ ListenerOpen' /\ SocketOwned'
  <2>1. /\ pc[c] = "solo"
        /\ pc' = [pc EXCEPT ![c] = "done"]
        /\ UNCHANGED <<lock, socket, listening>>
    BY <1>9 DEF FinishSolo, Exit
  <2> QED
    BY <2>1
<1>10. ASSUME NEW c \in Client, AcquireLock(c)
       PROVE  LockOwned' /\ ListenerOpen' /\ SocketOwned'
    BY <1>10 DEF AcquireLock, Goto
<1>11. ASSUME NEW c \in Client, LockBusy(c)
       PROVE  LockOwned' /\ ListenerOpen' /\ SocketOwned'
    BY <1>11 DEF LockBusy, Goto
<1>12. ASSUME NEW c \in Client, RemoveStaleSocket(c)
       PROVE  LockOwned' /\ ListenerOpen' /\ SocketOwned'
    BY <1>12 DEF RemoveStaleSocket, Goto
<1>13. ASSUME NEW c \in Client, ListenAndServe(c)
       PROVE  LockOwned' /\ ListenerOpen' /\ SocketOwned'
    BY <1>13 DEF ListenAndServe, Goto
<1>14. ASSUME NEW c \in Client, ListenDenied(c)
       PROVE  LockOwned' /\ ListenerOpen' /\ SocketOwned'
    BY <1>14 DEF ListenDenied, Goto
<1>15. ASSUME NEW c \in Client, Accept(c)
       PROVE  LockOwned' /\ ListenerOpen' /\ SocketOwned'
    BY <1>15 DEF Accept
<1>16. ASSUME NEW c \in Client, Enqueue(c)
       PROVE  LockOwned' /\ ListenerOpen' /\ SocketOwned'
    BY <1>16 DEF Enqueue
<1>17. ASSUME NEW c \in Client, DropConnection(c)
       PROVE  LockOwned' /\ ListenerOpen' /\ SocketOwned'
    BY <1>17 DEF DropConnection
<1>18. ASSUME NEW c \in Client, FinishHandler(c)
       PROVE  LockOwned' /\ ListenerOpen' /\ SocketOwned'
    BY <1>18 DEF FinishHandler
<1>19. ASSUME NEW c \in Client, Respond(c)
       PROVE  LockOwned' /\ ListenerOpen' /\ SocketOwned'
    BY <1>19 DEF Respond, Goto
<1>20. ASSUME NEW c \in Client, Dequeue(c)
       PROVE  LockOwned' /\ ListenerOpen' /\ SocketOwned'
    BY <1>20 DEF Dequeue, Goto
<1>21. ASSUME NEW c \in Client, IdleTimeout(c)
       PROVE  LockOwned' /\ ListenerOpen' /\ SocketOwned'
    BY <1>21 DEF IdleTimeout, Goto
<1>22. ASSUME NEW c \in Client, CloseListener(c)
       PROVE  LockOwned' /\ ListenerOpen' /\ SocketOwned'
    BY <1>22 DEF CloseListener, Goto
<1>23. ASSUME NEW c \in Client, UnlinkSocket(c)
       PROVE  LockOwned' /\ ListenerOpen' /\ SocketOwned'
    BY <1>23 DEF UnlinkSocket, Goto
<1>24. ASSUME NEW c \in Client, ReleaseLock(c)
       PROVE  LockOwned' /\ ListenerOpen' /\ SocketOwned'
    BY <1>24 DEF ReleaseLock, Goto
<1>25. ASSUME NEW c \in Client, Kill(c)
       PROVE  LockOwned' /\ ListenerOpen' /\ SocketOwned'
    BY <1>25 DEF Kill
<1>26. CASE UNCHANGED vars
    BY <1>26 DEF vars
<1> QED
    BY <1>1, <1>2, <1>3, <1>4, <1>5, <1>6, <1>7, <1>8, <1>9, <1>10, <1>11, <1>12, <1>13, <1>14, <1>15, <1>16, <1>17, <1>18, <1>19, <1>20, <1>21, <1>22, <1>23, <1>24, <1>25, <1>26
       DEF Next, AllDone, ClientStep, ElectionStep, AcceptStep, ServeStep

\* The three parts hold in every behaviour.
THEOREM ElectionInvariant == Spec => []Election
<1>1. Init => Election
    BY ClientAssumption
       DEF Init, Election, TypeOK, LockOwned, ListenerOpen, SocketOwned, Holding,
           Forwarding, Serving, Closing
<1> QED
    BY <1>1, ElectionStepInvariant, PTL DEF Spec

\* One writer at a time: of all processes at most one runs commands under the
\* coordinator, and it holds the lock (NewLeader, Serve, Close in coord.go).
THEOREM ExclusiveWriter == Spec => []WriterExclusion
<1>1. Election => WriterExclusion
    BY DEF Election, LockOwned, WriterExclusion, Holding
<1> QED
    BY <1>1, ElectionInvariant, PTL

\* A leader that serves can be reached: the socket path is bound to its open
\* listener, whatever other processes clear, bind or remove (NewLeader, Close).
THEOREM ReachableLeader == Spec => []LeaderReachable
<1>1. Election => LeaderReachable
    BY DEF Election, ListenerOpen, SocketOwned, LeaderReachable
<1> QED
    BY <1>1, ElectionInvariant, PTL

-----------------------------------------------------------------------------
(* What becomes of a request: the inductive invariant.                       *)

\* Clients whose connection is with leader p and has not been run.
Waiting(p) == ToSet(backlog[p]) \union ToSet(queue[p]) \union ({held[p]} \ {NoClient})

\* Only a leader that serves, or is closing, has connections.
OnlyLeadersAreAsked ==
    \A p \in Client :
        /\ pc[p] \notin Serving \union Closing => held[p] = NoClient /\ queue[p] = <<>>
        /\ p \notin listening => backlog[p] = <<>>

\* A connection is in one place.
OncePerClient ==
    \A p \in Client :
        /\ IsInjective(backlog[p])
        /\ IsInjective(queue[p])
        /\ ToSet(backlog[p]) \intersect ToSet(queue[p]) = {}
        /\ held[p] \notin ToSet(backlog[p]) \union ToSet(queue[p])

\* A client that has a connection has not been run, and has left the part of
\* its own program in which it could still decide to run by itself.
WaitingIsUnrun ==
    \A p, c \in Client : c \in Waiting(p) =>
        starts[c] = 0 /\ pc[c] \in {"encode", "await", "done"}

\* Nor was any process run that still looks for a leader, or gave up looking.
SeekingIsUnrun ==
    \A c \in Client :
        /\ pc[c] \in {"dial", "retry", "retryDenied"} \union Electing => starts[c] = 0
        /\ outcome[c] = "busy" =>
              pc[c] = "done" /\ starts[c] = 0 /\ \A p \in Client : c \notin Waiting(p)

\* What the process with a command in hand is doing with it.
RunningIsCurrent ==
    \A p \in Client :
        /\ running[p] # NoClient <=> pc[p] \in {"exec", "respond", "solo"}
        /\ pc[p] = "solo" => running[p] = p
        /\ pc[p] = "respond" => running[p] # p /\ result[running[p]] \in Results
        /\ pc[p] \in {"exec", "solo"} =>
              result[running[p]] = "none" /\ starts[running[p]] = 1
        /\ running[p] \notin {p, NoClient} =>
              pc[running[p]] \in {"encode", "await", "done"}

\* A leader is done with its own command before it runs anybody else's.
OwnFirst ==
    \A p \in Client :
        \/ pc[p] \in {"respond", "select"} \union Closing
        \/ pc[p] = "exec" /\ running[p] # p
        => result[p] \in Results

\* Commands are counted, and an answer is the result of the asker's command.
AnswersAreTrue ==
    \A c \in Client :
        /\ starts[c] \in {0, 1}
        /\ result[c] # "none" => starts[c] = 1
        /\ reply[c] \in Results => result[c] = reply[c]

\* What is reported, and when.
ReportsAreTrue ==
    \A c \in Client :
        /\ outcome[c] \in Results => result[c] = outcome[c]
        /\ pc[c] \in Closing => outcome[c] # "none"
        /\ pc[c] \notin Closing \union {"done"} => outcome[c] = "none"

\* Only a process that was refused a socket runs without the lock.
SoloIsDenied == \A c \in Client : pc[c] \in {"retryDenied", "solo"} => c \in Denied

Delivery ==
    /\ OnlyLeadersAreAsked /\ OncePerClient
    /\ WaitingIsUnrun /\ SeekingIsUnrun
    /\ RunningIsCurrent /\ OwnFirst
    /\ AnswersAreTrue /\ ReportsAreTrue
    /\ SoloIsDenied

-----------------------------------------------------------------------------
(* Sequences without repetition.                                             *)

\* Appending adds one element, and keeps a sequence free of repetition when
\* the element is new.
LEMMA AppendedElements ==
    ASSUME NEW S, NEW s \in Seq(S), NEW e \in S
    PROVE  /\ Append(s, e) \in Seq(S)
           /\ ToSet(Append(s, e)) = ToSet(s) \union {e}
           /\ IsInjective(s) /\ e \notin ToSet(s) => IsInjective(Append(s, e))
<1>1. /\ Append(s, e) \in Seq(S)
      /\ DOMAIN Append(s, e) = 1..(Len(s) + 1)
      /\ DOMAIN s = 1..Len(s) /\ Len(s) \in Nat
      /\ \A i \in 1..Len(s) : Append(s, e)[i] = s[i]
      /\ Append(s, e)[Len(s) + 1] = e
    BY AppendProperties, LenProperties
<1>2. \A i \in 1..(Len(s) + 1) : i \in 1..Len(s) \/ i = Len(s) + 1
    BY <1>1
<1>3. ToSet(Append(s, e)) = ToSet(s) \union {e}
    BY <1>1, <1>2 DEF ToSet
<1>4. ASSUME IsInjective(s), e \notin ToSet(s) PROVE IsInjective(Append(s, e))
    BY <1>1, <1>2, <1>4 DEF ToSet, IsInjective
<1> QED
    BY <1>1, <1>3, <1>4

\* Taking the head away removes one element, which does not come again in a
\* sequence free of repetition.
LEMMA HeadAndTailElements ==
    ASSUME NEW S, NEW s \in Seq(S), s # <<>>
    PROVE  /\ Head(s) \in S /\ Tail(s) \in Seq(S)
           /\ ToSet(s) = ToSet(Tail(s)) \union {Head(s)}
           /\ IsInjective(s) => IsInjective(Tail(s)) /\ Head(s) \notin ToSet(Tail(s))
<1>1. /\ Head(s) \in S /\ Tail(s) \in Seq(S)
      /\ Len(s) \in Nat \ {0}
      /\ DOMAIN s = 1..Len(s)
      /\ DOMAIN Tail(s) = 1..(Len(s) - 1)
      /\ \A i \in 1..(Len(s) - 1) : Tail(s)[i] = s[i + 1]
      /\ Head(s) = s[1]
    BY HeadTailProperties, LenProperties, EmptySeq
<1>3. \A i \in 1..(Len(s) - 1) : i + 1 \in 1..Len(s) /\ i + 1 # 1
    BY <1>1
<1>4. ToSet(s) = ToSet(Tail(s)) \union {Head(s)}
  <2>1. ASSUME NEW e \in ToSet(s) PROVE e \in ToSet(Tail(s)) \union {Head(s)}
    <3>1. PICK i \in 1..Len(s) : e = s[i]
      BY <1>1, <2>1 DEF ToSet
    <3>2. CASE i = 1
      BY <1>1, <3>1, <3>2
    <3>3. CASE i # 1
      <4>1. i - 1 \in 1..(Len(s) - 1) /\ Tail(s)[i - 1] = e
        BY <1>1, <3>1, <3>3
      <4> QED
        BY <1>1, <4>1 DEF ToSet
    <3> QED
      BY <3>2, <3>3
  <2>2. ASSUME NEW e \in ToSet(Tail(s)) \union {Head(s)} PROVE e \in ToSet(s)
    BY <1>1, <1>3, <2>2 DEF ToSet
  <2> QED
    BY <2>1, <2>2
<1>5. ASSUME IsInjective(s)
      PROVE  IsInjective(Tail(s)) /\ Head(s) \notin ToSet(Tail(s))
    BY <1>1, <1>3, <1>5 DEF ToSet, IsInjective
<1> QED
    BY <1>1, <1>4, <1>5

\* The empty sequence.
LEMMA NoElements == ToSet(<<>>) = {} /\ IsInjective(<<>>)
    BY DEF ToSet, IsInjective

\* What a sequence holds is of its type.
LEMMA SequenceElements ==
    ASSUME NEW S, NEW s \in Seq(S)
    PROVE  ToSet(s) \subseteq S
    BY LenProperties, ElementOfSeq DEF ToSet

-----------------------------------------------------------------------------
(* The invariant is inductive.                                               *)

\* Every step of every process preserves the nine parts.
LEMMA DeliveryStep == Election /\ Delivery /\ [Next]_vars => Delivery'
<1> SUFFICES ASSUME Election, Delivery, [Next]_vars PROVE Delivery'
    OBVIOUS
<1>0. \A p \in Client : running[p] \in Client \union {NoClient}
    BY DEF Election, TypeOK
<1> USE ClientAssumption
    DEF Election, TypeOK, LockOwned, ListenerOpen, Holding, Delivery,
        Forwarding, Electing, Serving, Closing, Results, Outcomes,
        clientVars, serverVars, effectVars
<1>1. ASSUME NEW c \in Client, Dial(c) PROVE Delivery'
  <2>1. PICK p \in Client : DialTo(c, p)
    BY <1>1 DEF Dial
  <2>2. /\ backlog' = [backlog EXCEPT ![p] = Append(@, c)]
        /\ pc[c] \in {"dial", "retry", "retryDenied"} /\ p \in listening
        /\ pc'[c] = "encode" /\ \A q \in Client \ {c} : pc'[q] = pc[q]
        /\ UNCHANGED <<listening, held, queue, running, starts, reply, result, outcome>>
    BY <2>1 DEF DialTo
  <2>3. \A q \in Client : c \notin Waiting(q)
    BY <2>2 DEF WaitingIsUnrun
  <2>4. /\ ToSet(backlog'[p]) = ToSet(backlog[p]) \union {c}
        /\ IsInjective(backlog[p]) => IsInjective(backlog'[p])
        /\ \A q \in Client \ {p} : backlog'[q] = backlog[q]
    BY <2>2, <2>3, AppendedElements DEF Waiting
  <2> HIDE DEF TypeOK, Election, LockOwned, ListenerOpen
  <2>5. \A q \in Client : Waiting(q)' \subseteq Waiting(q) \union {c}
    BY <2>2, <2>4 DEF Waiting
  <2>6. OnlyLeadersAreAsked'
    BY <2>2, <2>4 DEF OnlyLeadersAreAsked
  <2>7. OncePerClient'
    BY <2>2, <2>3, <2>4 DEF Waiting, OncePerClient
  <2>8. WaitingIsUnrun'
    BY <2>2, <2>5 DEF WaitingIsUnrun, SeekingIsUnrun
  <2>9. SeekingIsUnrun'
    BY <2>2, <2>5 DEF SeekingIsUnrun
  <2>10. RunningIsCurrent'
    BY <1>0, <2>2 DEF RunningIsCurrent
  <2>11. OwnFirst'
    BY <2>2 DEF OwnFirst
  <2>12. AnswersAreTrue'
    BY <2>2 DEF AnswersAreTrue
  <2>13. ReportsAreTrue'
    BY <2>2 DEF ReportsAreTrue
  <2>14. SoloIsDenied'
    BY <2>2 DEF SoloIsDenied
  <2> QED
    BY <2>6, <2>7, <2>8, <2>9, <2>10, <2>11, <2>12, <2>13, <2>14
<1>2. ASSUME NEW c \in Client, DialFail(c) PROVE Delivery'
  <2>1. /\ pc[c] = "dial" /\ pc'[c] = "elect" /\ \A q \in Client \ {c} : pc'[q] = pc[q]
        /\ UNCHANGED <<listening, backlog, held, queue, running, starts, reply, result, outcome>>
    BY <1>2 DEF DialFail, Goto
  <2> HIDE DEF TypeOK, Election, LockOwned, ListenerOpen
  <2>2. \A q \in Client : Waiting(q)' \subseteq Waiting(q)
    BY <2>1 DEF Waiting
  <2>3. OnlyLeadersAreAsked'
    BY <2>1 DEF OnlyLeadersAreAsked
  <2>4. OncePerClient'
    BY <2>1 DEF OncePerClient
  <2>5. WaitingIsUnrun'
    BY <2>1, <2>2 DEF WaitingIsUnrun
  <2>6. SeekingIsUnrun'
    BY <2>1, <2>2 DEF SeekingIsUnrun
  <2>7. RunningIsCurrent'
    BY <1>0, <2>1 DEF RunningIsCurrent
  <2>8. OwnFirst'
    BY <2>1 DEF OwnFirst
  <2>9. AnswersAreTrue'
    BY <2>1 DEF AnswersAreTrue
  <2>10. ReportsAreTrue'
    BY <2>1 DEF ReportsAreTrue
  <2>11. SoloIsDenied'
    BY <2>1 DEF SoloIsDenied
  <2> QED
    BY <2>3, <2>4, <2>5, <2>6, <2>7, <2>8, <2>9, <2>10, <2>11
<1>3. ASSUME NEW c \in Client, Encode(c) PROVE Delivery'
  <2>1. /\ pc[c] = "encode" /\ pc'[c] = "await" /\ \A q \in Client \ {c} : pc'[q] = pc[q]
        /\ UNCHANGED <<listening, backlog, held, queue, running, starts, reply, result, outcome>>
    BY <1>3 DEF Encode, Goto
  <2> HIDE DEF TypeOK, Election, LockOwned, ListenerOpen
  <2>2. \A q \in Client : Waiting(q)' \subseteq Waiting(q)
    BY <2>1 DEF Waiting
  <2>3. OnlyLeadersAreAsked'
    BY <2>1 DEF OnlyLeadersAreAsked
  <2>4. OncePerClient'
    BY <2>1 DEF OncePerClient
  <2>5. WaitingIsUnrun'
    BY <2>1, <2>2 DEF WaitingIsUnrun
  <2>6. SeekingIsUnrun'
    BY <2>1, <2>2 DEF SeekingIsUnrun
  <2>7. RunningIsCurrent'
    BY <1>0, <2>1 DEF RunningIsCurrent
  <2>8. OwnFirst'
    BY <2>1 DEF OwnFirst
  <2>9. AnswersAreTrue'
    BY <2>1 DEF AnswersAreTrue
  <2>10. ReportsAreTrue'
    BY <2>1 DEF ReportsAreTrue
  <2>11. SoloIsDenied'
    BY <2>1 DEF SoloIsDenied
  <2> QED
    BY <2>3, <2>4, <2>5, <2>6, <2>7, <2>8, <2>9, <2>10, <2>11
<1>4. ASSUME NEW c \in Client, EncodeFail(c) PROVE Delivery'
  <2>1. /\ pc[c] = "encode" /\ pc'[c] = "done" /\ \A q \in Client \ {c} : pc'[q] = pc[q]
        /\ outcome'[c] = "lost" /\ \A q \in Client \ {c} : outcome'[q] = outcome[q]
        /\ UNCHANGED <<listening, backlog, held, queue, running, starts, reply, result>>
    BY <1>4 DEF EncodeFail, Exit
  <2> HIDE DEF TypeOK, Election, LockOwned, ListenerOpen
  <2>2. \A q \in Client : Waiting(q)' \subseteq Waiting(q)
    BY <2>1 DEF Waiting
  <2>3. OnlyLeadersAreAsked'
    BY <2>1 DEF OnlyLeadersAreAsked
  <2>4. OncePerClient'
    BY <2>1 DEF OncePerClient
  <2>5. WaitingIsUnrun'
    BY <2>1, <2>2 DEF WaitingIsUnrun
  <2>6. SeekingIsUnrun'
    BY <2>1, <2>2 DEF SeekingIsUnrun
  <2>7. RunningIsCurrent'
    BY <1>0, <2>1 DEF RunningIsCurrent
  <2>8. OwnFirst'
    BY <2>1 DEF OwnFirst
  <2>9. AnswersAreTrue'
    BY <2>1 DEF AnswersAreTrue
  <2>10. ReportsAreTrue'
    BY <2>1 DEF ReportsAreTrue
  <2>11. SoloIsDenied'
    BY <2>1 DEF SoloIsDenied
  <2> QED
    BY <2>3, <2>4, <2>5, <2>6, <2>7, <2>8, <2>9, <2>10, <2>11
<1>5. ASSUME NEW c \in Client, ReceiveReply(c) PROVE Delivery'
  <2>1. /\ pc[c] = "await" /\ pc'[c] = "done" /\ \A q \in Client \ {c} : pc'[q] = pc[q]
        /\ reply[c] \in Results
        /\ outcome'[c] = reply[c] /\ \A q \in Client \ {c} : outcome'[q] = outcome[q]
        /\ UNCHANGED <<listening, backlog, held, queue, running, starts, reply, result>>
    BY <1>5 DEF ReceiveReply, Exit
  <2> HIDE DEF TypeOK, Election, LockOwned, ListenerOpen
  <2>2. \A q \in Client : Waiting(q)' \subseteq Waiting(q)
    BY <2>1 DEF Waiting
  <2>3. OnlyLeadersAreAsked'
    BY <2>1 DEF OnlyLeadersAreAsked
  <2>4. OncePerClient'
    BY <2>1 DEF OncePerClient
  <2>5. WaitingIsUnrun'
    BY <2>1, <2>2 DEF WaitingIsUnrun
  <2>6. SeekingIsUnrun'
    BY <2>1, <2>2 DEF SeekingIsUnrun
  <2>7. RunningIsCurrent'
    BY <1>0, <2>1 DEF RunningIsCurrent
  <2>8. OwnFirst'
    BY <2>1 DEF OwnFirst
  <2>9. AnswersAreTrue'
    BY <2>1 DEF AnswersAreTrue
  <2>10. ReportsAreTrue'
    BY <2>1 DEF ReportsAreTrue, AnswersAreTrue
  <2>11. SoloIsDenied'
    BY <2>1 DEF SoloIsDenied
  <2> QED
    BY <2>3, <2>4, <2>5, <2>6, <2>7, <2>8, <2>9, <2>10, <2>11
<1>6. ASSUME NEW c \in Client, ForwardError(c) PROVE Delivery'
  <2>1. /\ pc[c] = "await" /\ pc'[c] = "done" /\ \A q \in Client \ {c} : pc'[q] = pc[q]
        /\ outcome'[c] = "lost" /\ \A q \in Client \ {c} : outcome'[q] = outcome[q]
        /\ UNCHANGED <<listening, backlog, held, queue, running, starts, reply, result>>
    BY <1>6 DEF ForwardError, Exit
  <2> HIDE DEF TypeOK, Election, LockOwned, ListenerOpen
  <2>2. \A q \in Client : Waiting(q)' \subseteq Waiting(q)
    BY <2>1 DEF Waiting
  <2>3. OnlyLeadersAreAsked'
    BY <2>1 DEF OnlyLeadersAreAsked
  <2>4. OncePerClient'
    BY <2>1 DEF OncePerClient
  <2>5. WaitingIsUnrun'
    BY <2>1, <2>2 DEF WaitingIsUnrun
  <2>6. SeekingIsUnrun'
    BY <2>1, <2>2 DEF SeekingIsUnrun
  <2>7. RunningIsCurrent'
    BY <1>0, <2>1 DEF RunningIsCurrent
  <2>8. OwnFirst'
    BY <2>1 DEF OwnFirst
  <2>9. AnswersAreTrue'
    BY <2>1 DEF AnswersAreTrue
  <2>10. ReportsAreTrue'
    BY <2>1 DEF ReportsAreTrue
  <2>11. SoloIsDenied'
    BY <2>1 DEF SoloIsDenied
  <2> QED
    BY <2>3, <2>4, <2>5, <2>6, <2>7, <2>8, <2>9, <2>10, <2>11
<1>7. ASSUME NEW c \in Client, RetryTimeout(c) PROVE Delivery'
  <2>1. /\ pc[c] = "retry" /\ pc'[c] = "done" /\ \A q \in Client \ {c} : pc'[q] = pc[q]
        /\ outcome'[c] = "busy" /\ \A q \in Client \ {c} : outcome'[q] = outcome[q]
        /\ UNCHANGED <<listening, backlog, held, queue, running, starts, reply, result>>
    BY <1>7 DEF RetryTimeout, Exit
  <2> HIDE DEF TypeOK, Election, LockOwned, ListenerOpen
  <2>2. \A q \in Client : c \notin Waiting(q)
    BY <2>1 DEF WaitingIsUnrun
  <2>3. \A q \in Client : Waiting(q)' \subseteq Waiting(q)
    BY <2>1 DEF Waiting
  <2>4. OnlyLeadersAreAsked'
    BY <2>1 DEF OnlyLeadersAreAsked
  <2>5. OncePerClient'
    BY <2>1 DEF OncePerClient
  <2>6. WaitingIsUnrun'
    BY <2>1, <2>3 DEF WaitingIsUnrun
  <2>7. SeekingIsUnrun'
    BY <2>1, <2>2, <2>3 DEF SeekingIsUnrun
  <2>8. RunningIsCurrent'
    BY <1>0, <2>1 DEF RunningIsCurrent
  <2>9. OwnFirst'
    BY <2>1 DEF OwnFirst
  <2>10. AnswersAreTrue'
    BY <2>1 DEF AnswersAreTrue
  <2>11. ReportsAreTrue'
    BY <2>1 DEF ReportsAreTrue
  <2>12. SoloIsDenied'
    BY <2>1 DEF SoloIsDenied
  <2> QED
    BY <2>4, <2>5, <2>6, <2>7, <2>8, <2>9, <2>10, <2>11, <2>12
<1>8. ASSUME NEW c \in Client, StartSolo(c) PROVE Delivery'
  <2>1. /\ pc[c] = "retryDenied" /\ pc'[c] = "solo" /\ \A q \in Client \ {c} : pc'[q] = pc[q]
        /\ running'[c] = c /\ \A q \in Client \ {c} : running'[q] = running[q]
        /\ starts'[c] = starts[c] + 1 /\ \A q \in Client \ {c} : starts'[q] = starts[q]
        /\ UNCHANGED <<listening, backlog, held, queue, reply, result, outcome>>
    BY <1>8 DEF StartSolo, Goto
  <2> HIDE DEF TypeOK, Election, LockOwned, ListenerOpen
  <2>2. starts[c] = 0 /\ result[c] = "none"
    BY <2>1 DEF SeekingIsUnrun, AnswersAreTrue
  <2>3. \A q \in Client \ {c} : running[q] # c
    BY <2>1 DEF RunningIsCurrent
  <2>4. \A q \in Client : Waiting(q)' \subseteq Waiting(q)
    BY <2>1 DEF Waiting
  <2>5. OnlyLeadersAreAsked'
    BY <2>1 DEF OnlyLeadersAreAsked
  <2>6. OncePerClient'
    BY <2>1 DEF OncePerClient
  <2>7. WaitingIsUnrun'
    BY <2>1, <2>4 DEF WaitingIsUnrun
  <2>8. SeekingIsUnrun'
    BY <2>1, <2>4 DEF SeekingIsUnrun
  <2>9. RunningIsCurrent'
    BY <1>0, <2>1, <2>2, <2>3 DEF RunningIsCurrent
  <2>10. OwnFirst'
    BY <2>1 DEF OwnFirst
  <2>11. AnswersAreTrue'
    BY <2>1, <2>2 DEF AnswersAreTrue
  <2>12. ReportsAreTrue'
    BY <2>1 DEF ReportsAreTrue
  <2>13. SoloIsDenied'
    BY <2>1 DEF SoloIsDenied
  <2> QED
    BY <2>5, <2>6, <2>7, <2>8, <2>9, <2>10, <2>11, <2>12, <2>13
<1>9. ASSUME NEW c \in Client, FinishSolo(c) PROVE Delivery'
  <2>1. /\ pc[c] = "solo" /\ pc'[c] = "done" /\ \A q \in Client \ {c} : pc'[q] = pc[q]
        /\ running'[c] = NoClient /\ \A q \in Client \ {c} : running'[q] = running[q]
        /\ result'[c] \in Results /\ \A q \in Client \ {c} : result'[q] = result[q]
        /\ outcome'[c] = result'[c] /\ \A q \in Client \ {c} : outcome'[q] = outcome[q]
        /\ UNCHANGED <<listening, backlog, held, queue, starts, reply>>
    BY <1>9 DEF FinishSolo, Exit
  <2> HIDE DEF TypeOK, Election, LockOwned, ListenerOpen
  <2>2. running[c] = c /\ result[c] = "none" /\ starts[c] = 1
    BY <2>1 DEF RunningIsCurrent
  <2>3. \A q \in Client \ {c} : running[q] # c
    BY <2>1 DEF RunningIsCurrent
  <2>4. \A q \in Client : Waiting(q)' \subseteq Waiting(q)
    BY <2>1 DEF Waiting
  <2>5. OnlyLeadersAreAsked'
    BY <2>1 DEF OnlyLeadersAreAsked
  <2>6. OncePerClient'
    BY <2>1 DEF OncePerClient
  <2>7. WaitingIsUnrun'
    BY <2>1, <2>4 DEF WaitingIsUnrun
  <2>8. SeekingIsUnrun'
    BY <2>1, <2>4 DEF SeekingIsUnrun
  <2>9. RunningIsCurrent'
    BY <1>0, <2>1, <2>3 DEF RunningIsCurrent
  <2>10. OwnFirst'
    BY <2>1 DEF OwnFirst
  <2>11. AnswersAreTrue'
    BY <2>1, <2>2 DEF AnswersAreTrue
  <2>12. ReportsAreTrue'
    BY <2>1 DEF ReportsAreTrue
  <2>13. SoloIsDenied'
    BY <2>1 DEF SoloIsDenied
  <2> QED
    BY <2>5, <2>6, <2>7, <2>8, <2>9, <2>10, <2>11, <2>12, <2>13
<1>10. ASSUME NEW c \in Client, AcquireLock(c) PROVE Delivery'
  <2>1. /\ pc[c] = "elect" /\ pc'[c] = "clear" /\ \A q \in Client \ {c} : pc'[q] = pc[q]
        /\ UNCHANGED <<listening, backlog, held, queue, running, starts, reply, result, outcome>>
    BY <1>10 DEF AcquireLock, Goto
  <2> HIDE DEF TypeOK, Election, LockOwned, ListenerOpen
  <2>2. \A q \in Client : Waiting(q)' \subseteq Waiting(q)
    BY <2>1 DEF Waiting
  <2>3. OnlyLeadersAreAsked'
    BY <2>1 DEF OnlyLeadersAreAsked
  <2>4. OncePerClient'
    BY <2>1 DEF OncePerClient
  <2>5. WaitingIsUnrun'
    BY <2>1, <2>2 DEF WaitingIsUnrun
  <2>6. SeekingIsUnrun'
    BY <2>1, <2>2 DEF SeekingIsUnrun
  <2>7. RunningIsCurrent'
    BY <1>0, <2>1 DEF RunningIsCurrent
  <2>8. OwnFirst'
    BY <2>1 DEF OwnFirst
  <2>9. AnswersAreTrue'
    BY <2>1 DEF AnswersAreTrue
  <2>10. ReportsAreTrue'
    BY <2>1 DEF ReportsAreTrue
  <2>11. SoloIsDenied'
    BY <2>1 DEF SoloIsDenied
  <2> QED
    BY <2>3, <2>4, <2>5, <2>6, <2>7, <2>8, <2>9, <2>10, <2>11
<1>11. ASSUME NEW c \in Client, LockBusy(c) PROVE Delivery'
  <2>1. /\ pc[c] = "elect" /\ pc'[c] = "retry" /\ \A q \in Client \ {c} : pc'[q] = pc[q]
        /\ UNCHANGED <<listening, backlog, held, queue, running, starts, reply, result, outcome>>
    BY <1>11 DEF LockBusy, Goto
  <2> HIDE DEF TypeOK, Election, LockOwned, ListenerOpen
  <2>2. \A q \in Client : Waiting(q)' \subseteq Waiting(q)
    BY <2>1 DEF Waiting
  <2>3. OnlyLeadersAreAsked'
    BY <2>1 DEF OnlyLeadersAreAsked
  <2>4. OncePerClient'
    BY <2>1 DEF OncePerClient
  <2>5. WaitingIsUnrun'
    BY <2>1, <2>2 DEF WaitingIsUnrun
  <2>6. SeekingIsUnrun'
    BY <2>1, <2>2 DEF SeekingIsUnrun
  <2>7. RunningIsCurrent'
    BY <1>0, <2>1 DEF RunningIsCurrent
  <2>8. OwnFirst'
    BY <2>1 DEF OwnFirst
  <2>9. AnswersAreTrue'
    BY <2>1 DEF AnswersAreTrue
  <2>10. ReportsAreTrue'
    BY <2>1 DEF ReportsAreTrue
  <2>11. SoloIsDenied'
    BY <2>1 DEF SoloIsDenied
  <2> QED
    BY <2>3, <2>4, <2>5, <2>6, <2>7, <2>8, <2>9, <2>10, <2>11
<1>12. ASSUME NEW c \in Client, RemoveStaleSocket(c) PROVE Delivery'
  <2>1. /\ pc[c] = "clear" /\ pc'[c] = "bind" /\ \A q \in Client \ {c} : pc'[q] = pc[q]
        /\ UNCHANGED <<listening, backlog, held, queue, running, starts, reply, result, outcome>>
    BY <1>12 DEF RemoveStaleSocket, Goto
  <2> HIDE DEF TypeOK, Election, LockOwned, ListenerOpen
  <2>2. \A q \in Client : Waiting(q)' \subseteq Waiting(q)
    BY <2>1 DEF Waiting
  <2>3. OnlyLeadersAreAsked'
    BY <2>1 DEF OnlyLeadersAreAsked
  <2>4. OncePerClient'
    BY <2>1 DEF OncePerClient
  <2>5. WaitingIsUnrun'
    BY <2>1, <2>2 DEF WaitingIsUnrun
  <2>6. SeekingIsUnrun'
    BY <2>1, <2>2 DEF SeekingIsUnrun
  <2>7. RunningIsCurrent'
    BY <1>0, <2>1 DEF RunningIsCurrent
  <2>8. OwnFirst'
    BY <2>1 DEF OwnFirst
  <2>9. AnswersAreTrue'
    BY <2>1 DEF AnswersAreTrue
  <2>10. ReportsAreTrue'
    BY <2>1 DEF ReportsAreTrue
  <2>11. SoloIsDenied'
    BY <2>1 DEF SoloIsDenied
  <2> QED
    BY <2>3, <2>4, <2>5, <2>6, <2>7, <2>8, <2>9, <2>10, <2>11
<1>13. ASSUME NEW c \in Client, ListenAndServe(c) PROVE Delivery'
  <2>1. /\ pc[c] = "bind" /\ pc'[c] = "exec" /\ \A q \in Client \ {c} : pc'[q] = pc[q]
        /\ listening' = listening \union {c}
        /\ running'[c] = c /\ \A q \in Client \ {c} : running'[q] = running[q]
        /\ starts'[c] = starts[c] + 1 /\ \A q \in Client \ {c} : starts'[q] = starts[q]
        /\ UNCHANGED <<backlog, held, queue, reply, result, outcome>>
    BY <1>13 DEF ListenAndServe, Goto
  <2> HIDE DEF TypeOK, Election, LockOwned, ListenerOpen
  <2>2. starts[c] = 0 /\ result[c] = "none"
    BY <2>1 DEF SeekingIsUnrun, AnswersAreTrue
  <2>3. \A q \in Client \ {c} : running[q] # c
    BY <2>1 DEF RunningIsCurrent
  <2>4. \A q \in Client : Waiting(q)' \subseteq Waiting(q)
    BY <2>1 DEF Waiting
  <2>5. OnlyLeadersAreAsked'
    BY <2>1 DEF OnlyLeadersAreAsked
  <2>6. OncePerClient'
    BY <2>1 DEF OncePerClient
  <2>7. WaitingIsUnrun'
    BY <2>1, <2>4 DEF WaitingIsUnrun
  <2>8. SeekingIsUnrun'
    BY <2>1, <2>4 DEF SeekingIsUnrun
  <2>9. RunningIsCurrent'
    BY <1>0, <2>1, <2>2, <2>3 DEF RunningIsCurrent
  <2>10. OwnFirst'
    BY <2>1 DEF OwnFirst
  <2>11. AnswersAreTrue'
    BY <2>1, <2>2 DEF AnswersAreTrue
  <2>12. ReportsAreTrue'
    BY <2>1 DEF ReportsAreTrue
  <2>13. SoloIsDenied'
    BY <2>1 DEF SoloIsDenied
  <2> QED
    BY <2>5, <2>6, <2>7, <2>8, <2>9, <2>10, <2>11, <2>12, <2>13
<1>14. ASSUME NEW c \in Client, ListenDenied(c) PROVE Delivery'
  <2>1. /\ pc[c] = "bind" /\ pc'[c] = "retryDenied" /\ \A q \in Client \ {c} : pc'[q] = pc[q]
        /\ c \in Denied
        /\ UNCHANGED <<listening, backlog, held, queue, running, starts, reply, result, outcome>>
    BY <1>14 DEF ListenDenied, Goto
  <2> HIDE DEF TypeOK, Election, LockOwned, ListenerOpen
  <2>2. \A q \in Client : Waiting(q)' \subseteq Waiting(q)
    BY <2>1 DEF Waiting
  <2>3. OnlyLeadersAreAsked'
    BY <2>1 DEF OnlyLeadersAreAsked
  <2>4. OncePerClient'
    BY <2>1 DEF OncePerClient
  <2>5. WaitingIsUnrun'
    BY <2>1, <2>2 DEF WaitingIsUnrun
  <2>6. SeekingIsUnrun'
    BY <2>1, <2>2 DEF SeekingIsUnrun
  <2>7. RunningIsCurrent'
    BY <1>0, <2>1 DEF RunningIsCurrent
  <2>8. OwnFirst'
    BY <2>1 DEF OwnFirst
  <2>9. AnswersAreTrue'
    BY <2>1 DEF AnswersAreTrue
  <2>10. ReportsAreTrue'
    BY <2>1 DEF ReportsAreTrue
  <2>11. SoloIsDenied'
    BY <2>1 DEF SoloIsDenied
  <2> QED
    BY <2>3, <2>4, <2>5, <2>6, <2>7, <2>8, <2>9, <2>10, <2>11
<1>15. ASSUME NEW c \in Client, Accept(c) PROVE Delivery'
  <2>1. /\ held[c] = NoClient /\ backlog[c] \in Seq(Client) /\ backlog[c] # <<>>
        /\ held' = [held EXCEPT ![c] = Head(backlog[c])]
        /\ backlog' = [backlog EXCEPT ![c] = Tail(backlog[c])]
        /\ c \in listening /\ pc[c] \in Serving \union Closing
        /\ UNCHANGED <<pc, listening, queue, running, starts, reply, result, outcome>>
    BY <1>15 DEF Accept
  <2>2. /\ held'[c] \in Client
        /\ ToSet(backlog[c]) = ToSet(backlog'[c]) \union {held'[c]}
        /\ IsInjective(backlog[c]) => IsInjective(backlog'[c]) /\ held'[c] \notin ToSet(backlog'[c])
        /\ \A q \in Client \ {c} : backlog'[q] = backlog[q] /\ held'[q] = held[q]
    BY <2>1, HeadAndTailElements
  <2> HIDE DEF TypeOK, Election, LockOwned, ListenerOpen
  <2>3. \A q \in Client : Waiting(q)' = Waiting(q)
    <3>1. Waiting(c)' = Waiting(c)
      BY <2>1, <2>2 DEF Waiting
    <3>2. \A q \in Client \ {c} : Waiting(q)' = Waiting(q)
      BY <2>1, <2>2 DEF Waiting
    <3> QED
      BY <3>1, <3>2
  <2>4. OnlyLeadersAreAsked'
    BY <2>1, <2>2 DEF OnlyLeadersAreAsked
  <2>5. OncePerClient'
    <3>1. ASSUME NEW q \in Client \ {c}
          PROVE  /\ backlog'[q] = backlog[q] /\ queue'[q] = queue[q] /\ held'[q] = held[q]
      BY <2>1, <2>2
    <3>2. /\ IsInjective(backlog'[c]) /\ IsInjective(queue'[c])
          /\ ToSet(backlog'[c]) \intersect ToSet(queue'[c]) = {}
          /\ held'[c] \notin ToSet(backlog'[c]) \union ToSet(queue'[c])
      BY <2>1, <2>2 DEF OncePerClient
    <3> QED
      BY <3>1, <3>2 DEF OncePerClient
  <2>6. WaitingIsUnrun'
    BY <2>1, <2>3 DEF WaitingIsUnrun
  <2>7. SeekingIsUnrun'
    BY <2>1, <2>3 DEF SeekingIsUnrun
  <2>8. RunningIsCurrent' /\ OwnFirst'
    BY <2>1 DEF RunningIsCurrent, OwnFirst
  <2>9. AnswersAreTrue' /\ ReportsAreTrue' /\ SoloIsDenied'
    BY <2>1 DEF AnswersAreTrue, ReportsAreTrue, SoloIsDenied
  <2> QED
    BY <2>4, <2>5, <2>6, <2>7, <2>8, <2>9
<1>16. ASSUME NEW c \in Client, Enqueue(c) PROVE Delivery'
  <2>1. /\ held[c] \in Client /\ queue[c] \in Seq(Client)
        /\ held' = [held EXCEPT ![c] = NoClient]
        /\ queue' = [queue EXCEPT ![c] = Append(queue[c], held[c])]
        /\ UNCHANGED <<pc, listening, backlog, running, starts, reply, result, outcome>>
    BY <1>16 DEF Enqueue
  <2>2. /\ held'[c] = NoClient
        /\ ToSet(queue'[c]) = ToSet(queue[c]) \union {held[c]}
        /\ held[c] \notin ToSet(queue[c]) /\ IsInjective(queue[c]) => IsInjective(queue'[c])
        /\ \A q \in Client \ {c} : queue'[q] = queue[q] /\ held'[q] = held[q]
    BY <2>1, AppendedElements
  <2>3. NoClient \notin ToSet(backlog[c]) /\ NoClient \notin ToSet(queue'[c])
    BY <2>1, <2>2, SequenceElements
  <2> HIDE DEF TypeOK, Election, LockOwned, ListenerOpen
  <2>4. \A q \in Client : Waiting(q)' = Waiting(q)
    BY <2>1, <2>2 DEF Waiting
  <2>5. OnlyLeadersAreAsked'
    BY <2>1, <2>2 DEF OnlyLeadersAreAsked
  <2>6. OncePerClient'
    <3>1. ASSUME NEW q \in Client \ {c}
          PROVE  backlog'[q] = backlog[q] /\ queue'[q] = queue[q] /\ held'[q] = held[q]
      BY <2>1, <2>2
    <3>2. /\ IsInjective(backlog'[c]) /\ IsInjective(queue'[c])
          /\ ToSet(backlog'[c]) \intersect ToSet(queue'[c]) = {}
          /\ held'[c] \notin ToSet(backlog'[c]) \union ToSet(queue'[c])
      BY <2>1, <2>2, <2>3 DEF OncePerClient
    <3> QED
      BY <3>1, <3>2 DEF OncePerClient
  <2>7. WaitingIsUnrun'
    BY <2>1, <2>4 DEF WaitingIsUnrun
  <2>8. SeekingIsUnrun'
    BY <2>1, <2>4 DEF SeekingIsUnrun
  <2>9. RunningIsCurrent' /\ OwnFirst'
    BY <2>1 DEF RunningIsCurrent, OwnFirst
  <2>10. AnswersAreTrue' /\ ReportsAreTrue' /\ SoloIsDenied'
    BY <2>1 DEF AnswersAreTrue, ReportsAreTrue, SoloIsDenied
  <2> QED
    BY <2>5, <2>6, <2>7, <2>8, <2>9, <2>10
<1>17. ASSUME NEW c \in Client, DropConnection(c) PROVE Delivery'
  <2>1. /\ held'[c] = NoClient /\ \A q \in Client \ {c} : held'[q] = held[q]
        /\ \A q \in Client : reply'[q] \in {reply[q], "eof"}
        /\ UNCHANGED <<pc, listening, backlog, queue, running, starts, result, outcome>>
    BY <1>17 DEF DropConnection, HangUp
  <2>2. NoClient \notin ToSet(backlog[c]) /\ NoClient \notin ToSet(queue[c])
    BY SequenceElements
  <2> HIDE DEF TypeOK, Election, LockOwned, ListenerOpen
  <2>3. \A q \in Client : Waiting(q)' \subseteq Waiting(q)
    BY <2>1 DEF Waiting
  <2>4. OnlyLeadersAreAsked'
    BY <2>1 DEF OnlyLeadersAreAsked
  <2>5. OncePerClient'
    BY <2>1, <2>2 DEF OncePerClient
  <2>6. WaitingIsUnrun'
    BY <2>1, <2>3 DEF WaitingIsUnrun
  <2>7. SeekingIsUnrun'
    BY <2>1, <2>3 DEF SeekingIsUnrun
  <2>8. RunningIsCurrent' /\ OwnFirst'
    BY <2>1 DEF RunningIsCurrent, OwnFirst
  <2>9. AnswersAreTrue' /\ ReportsAreTrue' /\ SoloIsDenied'
    BY <2>1 DEF AnswersAreTrue, ReportsAreTrue, SoloIsDenied
  <2> QED
    BY <2>4, <2>5, <2>6, <2>7, <2>8, <2>9
<1>18. ASSUME NEW c \in Client, FinishHandler(c) PROVE Delivery'
  <2>1. PICK r \in Results : result' = [result EXCEPT ![running[c]] = r]
    BY <1>18 DEF FinishHandler
  <2>2. /\ pc[c] = "exec" /\ pc' = [pc EXCEPT ![c] = IF running[c] = c THEN "select" ELSE "respond"]
        /\ running' = [running EXCEPT ![c] = IF @ = c THEN NoClient ELSE @]
        /\ UNCHANGED <<starts, reply, outcome>>
    BY <1>18 DEF FinishHandler
  <2>3. running[c] \in Client /\ result[running[c]] = "none" /\ starts[running[c]] = 1
    BY <2>2 DEF RunningIsCurrent
  <2>4. \A q \in Client \ {c} : running[q] # running[c] /\ pc[q] \notin {"exec", "respond"}
    <3> SUFFICES ASSUME NEW q \in Client \ {c}
                 PROVE  running[q] # running[c] /\ pc[q] \notin {"exec", "respond"}
      OBVIOUS
    <3>1. pc[q] \notin {"exec", "respond"}
      BY <2>2
    <3>2. ASSUME running[q] = running[c] PROVE FALSE
      <4>1. pc[q] = "solo" /\ running[c] = q
        BY <2>3, <3>1, <3>2 DEF RunningIsCurrent
      <4>2. running[c] \notin {c, NoClient} => pc[running[c]] \in {"encode", "await", "done"}
        BY DEF RunningIsCurrent
      <4> QED
        BY <2>3, <4>1, <4>2
    <3> QED
      BY <3>1, <3>2
  <2>5. /\ pc'[c] = (IF running[c] = c THEN "select" ELSE "respond")
        /\ \A q \in Client \ {c} : pc'[q] = pc[q]
        /\ running'[c] = (IF running[c] = c THEN NoClient ELSE running[c])
        /\ \A q \in Client \ {c} : running'[q] = running[q]
        /\ result'[running[c]] \in Results
        /\ \A d \in Client \ {running[c]} : result'[d] = result[d]
        /\ UNCHANGED <<listening, backlog, held, queue>>
    BY <1>18, <2>1, <2>2, <2>3 DEF FinishHandler
  <2> HIDE DEF TypeOK, Election, LockOwned, ListenerOpen
  <2>6. \A q \in Client : Waiting(q)' = Waiting(q)
    BY <2>5 DEF Waiting
  <2>7. OnlyLeadersAreAsked'
    BY <2>2, <2>5 DEF OnlyLeadersAreAsked
  <2>8. OncePerClient'
    BY <2>5 DEF OncePerClient
  <2>9. WaitingIsUnrun'
    BY <2>2, <2>5, <2>6 DEF WaitingIsUnrun
  <2>10. SeekingIsUnrun'
    BY <2>2, <2>5, <2>6 DEF SeekingIsUnrun
  <2>11. RunningIsCurrent'
    BY <1>0, <2>2, <2>3, <2>4, <2>5 DEF RunningIsCurrent
  <2>12. OwnFirst'
    BY <2>2, <2>3, <2>5 DEF OwnFirst
  <2>13. AnswersAreTrue'
    BY <2>2, <2>3, <2>5 DEF AnswersAreTrue
  <2>14. ReportsAreTrue'
    BY <2>2, <2>3, <2>5 DEF ReportsAreTrue
  <2>15. SoloIsDenied'
    BY <2>2, <2>5 DEF SoloIsDenied
  <2> QED
    BY <2>7, <2>8, <2>9, <2>10, <2>11, <2>12, <2>13, <2>14, <2>15
<1>19. ASSUME NEW c \in Client, Respond(c) PROVE Delivery'
  <2>1. /\ pc[c] = "respond" /\ pc'[c] = "select" /\ \A q \in Client \ {c} : pc'[q] = pc[q]
        /\ running'[c] = NoClient /\ \A q \in Client \ {c} : running'[q] = running[q]
        /\ reply'[running[c]] = result[running[c]] /\ \A q \in Client \ {running[c]} : reply'[q] = reply[q]
        /\ UNCHANGED <<listening, backlog, held, queue, starts, result, outcome>>
    BY <1>19 DEF Respond, Goto, RunningIsCurrent
  <2> HIDE DEF TypeOK, Election, LockOwned, ListenerOpen
  <2>2. \A q \in Client : Waiting(q)' \subseteq Waiting(q)
    BY <2>1 DEF Waiting
  <2>3. OnlyLeadersAreAsked'
    BY <2>1 DEF OnlyLeadersAreAsked
  <2>4. OncePerClient'
    BY <2>1 DEF OncePerClient
  <2>5. WaitingIsUnrun'
    BY <2>1, <2>2 DEF WaitingIsUnrun
  <2>6. SeekingIsUnrun'
    BY <2>1, <2>2 DEF SeekingIsUnrun
  <2>7. RunningIsCurrent'
    BY <1>0, <2>1 DEF RunningIsCurrent
  <2>8. OwnFirst'
    BY <2>1 DEF OwnFirst
  <2>9. AnswersAreTrue'
    BY <2>1 DEF AnswersAreTrue
  <2>10. ReportsAreTrue'
    BY <2>1 DEF ReportsAreTrue
  <2>11. SoloIsDenied'
    BY <2>1 DEF SoloIsDenied
  <2> QED
    BY <2>3, <2>4, <2>5, <2>6, <2>7, <2>8, <2>9, <2>10, <2>11
<1>20. ASSUME NEW c \in Client, Dequeue(c) PROVE Delivery'
  <2> DEFINE h == Head(queue[c])
  <2>1. /\ pc[c] = "select" /\ queue[c] \in Seq(Client) /\ queue[c] # <<>>
        /\ queue' = [queue EXCEPT ![c] = Tail(queue[c])]
        /\ UNCHANGED <<lock, listening, backlog, held, reply, result, outcome>>
    BY <1>20 DEF Dequeue, Goto
  <2>2. /\ h \in Client
        /\ ToSet(queue[c]) = ToSet(queue'[c]) \union {h}
        /\ IsInjective(queue[c]) => IsInjective(queue'[c]) /\ h \notin ToSet(queue'[c])
        /\ \A p \in Client \ {c} : queue'[p] = queue[p]
    BY <2>1, HeadAndTailElements
  <2>3. /\ pc'[c] = "exec" /\ \A p \in Client \ {c} : pc'[p] = pc[p]
        /\ running'[c] = h /\ \A p \in Client \ {c} : running'[p] = running[p]
        /\ starts'[h] = starts[h] + 1 /\ \A d \in Client \ {h} : starts'[d] = starts[d]
    BY <1>20, <2>2 DEF Dequeue, Goto
  <2>4. \A p \in Client \ {c} : pc[p] \notin Serving \union Closing /\ p \notin listening
    BY <2>1
  <2> HIDE DEF h, TypeOK, Election, LockOwned, ListenerOpen
  <2>5. h \in Waiting(c) /\ starts[h] = 0 /\ pc[h] \in {"encode", "await", "done"} /\ h # c
    BY <2>1, <2>2 DEF Waiting, WaitingIsUnrun
  <2>6. \A p \in Client : Waiting(p)' \subseteq Waiting(p) \ {h}
    <3>1. Waiting(c)' \subseteq Waiting(c) \ {h}
      BY <2>1, <2>2 DEF Waiting, OncePerClient
    <3>2. ASSUME NEW p \in Client \ {c} PROVE Waiting(p)' = {}
      <4>1. backlog[p] = <<>> /\ queue[p] = <<>> /\ held[p] = NoClient
        BY <2>4 DEF OnlyLeadersAreAsked
      <4> QED
        BY <2>1, <2>2, <4>1, NoElements DEF Waiting
    <3> QED
      BY <3>1, <3>2
  <2>7. result[h] = "none" /\ reply[h] \notin Results /\ outcome[h] # "busy"
    BY <2>2, <2>5 DEF AnswersAreTrue, SeekingIsUnrun
  <2>8. OnlyLeadersAreAsked'
    BY <2>1, <2>2, <2>3 DEF OnlyLeadersAreAsked
  <2>9. OncePerClient'
    <3>1. ASSUME NEW p \in Client \ {c}
          PROVE  backlog'[p] = backlog[p] /\ queue'[p] = queue[p] /\ held'[p] = held[p]
      BY <2>1, <2>2
    <3>2. /\ IsInjective(backlog'[c]) /\ IsInjective(queue'[c])
          /\ ToSet(backlog'[c]) \intersect ToSet(queue'[c]) = {}
          /\ held'[c] \notin ToSet(backlog'[c]) \union ToSet(queue'[c])
      BY <2>1, <2>2 DEF OncePerClient
    <3> QED
      BY <3>1, <3>2 DEF OncePerClient
  <2>10. WaitingIsUnrun'
    <3> SUFFICES ASSUME NEW p \in Client, NEW d \in Client, d \in Waiting(p)'
                 PROVE  starts'[d] = 0 /\ pc'[d] \in {"encode", "await", "done"}
      BY DEF WaitingIsUnrun
    <3>1. d \in Waiting(p) /\ d # h
      BY <2>6
    <3>2. starts[d] = 0 /\ pc[d] \in {"encode", "await", "done"}
      BY <3>1 DEF WaitingIsUnrun
    <3> QED
      BY <2>1, <2>3, <3>1, <3>2
  <2>11. SeekingIsUnrun'
    <3> SUFFICES ASSUME NEW d \in Client
                 PROVE  /\ pc'[d] \in {"dial", "retry", "retryDenied"} \union Electing => starts'[d] = 0
                        /\ outcome'[d] = "busy" =>
                             /\ pc'[d] = "done" /\ starts'[d] = 0
                             /\ \A p \in Client : d \notin Waiting(p)'
      BY DEF SeekingIsUnrun
    <3>1. CASE d = h
      BY <2>1, <2>3, <2>5, <2>7, <3>1
    <3>2. CASE d # h
      BY <2>1, <2>3, <2>6, <3>2 DEF SeekingIsUnrun
    <3> QED
      BY <3>1, <3>2
  <2>12. RunningIsCurrent'
    <3>1. ASSUME NEW p \in Client \ {c} PROVE running[p] # h
      BY <2>2, <2>4, <2>5, <3>1 DEF RunningIsCurrent
    <3> QED
      BY <1>0, <2>1, <2>2, <2>3, <2>5, <2>7, <3>1 DEF RunningIsCurrent
  <2>13. OwnFirst'
    BY <2>1, <2>3 DEF OwnFirst
  <2>14. AnswersAreTrue'
    BY <2>1, <2>2, <2>3, <2>5, <2>7 DEF AnswersAreTrue
  <2>15. ReportsAreTrue'
    BY <2>1, <2>3 DEF ReportsAreTrue
  <2>16. SoloIsDenied'
    BY <2>1, <2>3 DEF SoloIsDenied
  <2> QED
    BY <2>8, <2>9, <2>10, <2>11, <2>12, <2>13, <2>14, <2>15, <2>16
<1>21. ASSUME NEW c \in Client, IdleTimeout(c) PROVE Delivery'
  <2>1. /\ pc[c] = "select" /\ pc'[c] = "close" /\ \A q \in Client \ {c} : pc'[q] = pc[q]
        /\ result[c] # "busy"
        /\ outcome'[c] = result[c] /\ \A q \in Client \ {c} : outcome'[q] = outcome[q]
        /\ UNCHANGED <<listening, backlog, held, queue, running, starts, reply, result>>
    BY <1>21 DEF IdleTimeout, Goto
  <2> HIDE DEF TypeOK, Election, LockOwned, ListenerOpen
  <2>2. \A q \in Client : Waiting(q)' \subseteq Waiting(q)
    BY <2>1 DEF Waiting
  <2>3. OnlyLeadersAreAsked'
    BY <2>1 DEF OnlyLeadersAreAsked
  <2>4. OncePerClient'
    BY <2>1 DEF OncePerClient
  <2>5. WaitingIsUnrun'
    BY <2>1, <2>2 DEF WaitingIsUnrun
  <2>6. SeekingIsUnrun'
    BY <2>1, <2>2 DEF SeekingIsUnrun
  <2>7. RunningIsCurrent'
    BY <1>0, <2>1 DEF RunningIsCurrent
  <2>8. OwnFirst'
    BY <2>1 DEF OwnFirst
  <2>9. AnswersAreTrue'
    BY <2>1 DEF AnswersAreTrue
  <2>10. ReportsAreTrue'
    BY <2>1 DEF ReportsAreTrue, OwnFirst
  <2>11. SoloIsDenied'
    BY <2>1 DEF SoloIsDenied
  <2> QED
    BY <2>3, <2>4, <2>5, <2>6, <2>7, <2>8, <2>9, <2>10, <2>11
<1>22. ASSUME NEW c \in Client, CloseListener(c) PROVE Delivery'
  <2>1. /\ pc[c] = "close" /\ pc'[c] = "unlink" /\ \A q \in Client \ {c} : pc'[q] = pc[q]
        /\ listening' = listening \ {c}
        /\ backlog'[c] = <<>> /\ \A q \in Client \ {c} : backlog'[q] = backlog[q]
        /\ \A q \in Client : reply'[q] \in {reply[q], "eof"}
        /\ UNCHANGED <<held, queue, running, starts, result, outcome>>
    BY <1>22 DEF CloseListener, Goto, HangUp
  <2> HIDE DEF TypeOK, Election, LockOwned, ListenerOpen
  <2>2. \A q \in Client : Waiting(q)' \subseteq Waiting(q)
    BY <2>1, NoElements DEF Waiting
  <2>3. OnlyLeadersAreAsked'
    BY <2>1 DEF OnlyLeadersAreAsked
  <2>4. OncePerClient'
    BY <2>1, NoElements DEF OncePerClient
  <2>5. WaitingIsUnrun'
    BY <2>1, <2>2 DEF WaitingIsUnrun
  <2>6. SeekingIsUnrun'
    BY <2>1, <2>2 DEF SeekingIsUnrun
  <2>7. RunningIsCurrent'
    BY <1>0, <2>1 DEF RunningIsCurrent
  <2>8. OwnFirst'
    BY <2>1 DEF OwnFirst
  <2>9. AnswersAreTrue'
    BY <2>1 DEF AnswersAreTrue
  <2>10. ReportsAreTrue'
    BY <2>1 DEF ReportsAreTrue
  <2>11. SoloIsDenied'
    BY <2>1 DEF SoloIsDenied
  <2> QED
    BY <2>3, <2>4, <2>5, <2>6, <2>7, <2>8, <2>9, <2>10, <2>11
<1>23. ASSUME NEW c \in Client, UnlinkSocket(c) PROVE Delivery'
  <2>1. /\ pc[c] = "unlink" /\ pc'[c] = "unlock" /\ \A q \in Client \ {c} : pc'[q] = pc[q]
        /\ UNCHANGED <<listening, backlog, held, queue, running, starts, reply, result, outcome>>
    BY <1>23 DEF UnlinkSocket, Goto
  <2> HIDE DEF TypeOK, Election, LockOwned, ListenerOpen
  <2>2. \A q \in Client : Waiting(q)' \subseteq Waiting(q)
    BY <2>1 DEF Waiting
  <2>3. OnlyLeadersAreAsked'
    BY <2>1 DEF OnlyLeadersAreAsked
  <2>4. OncePerClient'
    BY <2>1 DEF OncePerClient
  <2>5. WaitingIsUnrun'
    BY <2>1, <2>2 DEF WaitingIsUnrun
  <2>6. SeekingIsUnrun'
    BY <2>1, <2>2 DEF SeekingIsUnrun
  <2>7. RunningIsCurrent'
    BY <1>0, <2>1 DEF RunningIsCurrent
  <2>8. OwnFirst'
    BY <2>1 DEF OwnFirst
  <2>9. AnswersAreTrue'
    BY <2>1 DEF AnswersAreTrue
  <2>10. ReportsAreTrue'
    BY <2>1 DEF ReportsAreTrue
  <2>11. SoloIsDenied'
    BY <2>1 DEF SoloIsDenied
  <2> QED
    BY <2>3, <2>4, <2>5, <2>6, <2>7, <2>8, <2>9, <2>10, <2>11
<1>24. ASSUME NEW c \in Client, ReleaseLock(c) PROVE Delivery'
  <2>1. /\ pc[c] = "unlock" /\ pc'[c] = "done" /\ \A q \in Client \ {c} : pc'[q] = pc[q]
        /\ held'[c] = NoClient /\ \A q \in Client \ {c} : held'[q] = held[q]
        /\ queue'[c] = <<>> /\ \A q \in Client \ {c} : queue'[q] = queue[q]
        /\ \A q \in Client : reply'[q] \in {reply[q], "eof"}
        /\ UNCHANGED <<listening, backlog, running, starts, result, outcome>>
    BY <1>24 DEF ReleaseLock, Goto, HangUp
  <2>2. NoClient \notin ToSet(backlog[c])
    BY SequenceElements
  <2> HIDE DEF TypeOK, Election, LockOwned, ListenerOpen
  <2>3. \A q \in Client : Waiting(q)' \subseteq Waiting(q)
    BY <2>1, NoElements DEF Waiting
  <2>4. OnlyLeadersAreAsked'
    BY <2>1 DEF OnlyLeadersAreAsked
  <2>5. OncePerClient'
    BY <2>1, NoElements, <2>2 DEF OncePerClient
  <2>6. WaitingIsUnrun'
    BY <2>1, <2>3 DEF WaitingIsUnrun
  <2>7. SeekingIsUnrun'
    BY <2>1, <2>3 DEF SeekingIsUnrun
  <2>8. RunningIsCurrent'
    BY <1>0, <2>1 DEF RunningIsCurrent
  <2>9. OwnFirst'
    BY <2>1 DEF OwnFirst
  <2>10. AnswersAreTrue'
    BY <2>1 DEF AnswersAreTrue
  <2>11. ReportsAreTrue'
    BY <2>1 DEF ReportsAreTrue
  <2>12. SoloIsDenied'
    BY <2>1 DEF SoloIsDenied
  <2> QED
    BY <2>4, <2>5, <2>6, <2>7, <2>8, <2>9, <2>10, <2>11, <2>12
<1>25. ASSUME NEW c \in Client, Kill(c) PROVE Delivery'
  <2>1. /\ pc'[c] = "done" /\ \A q \in Client \ {c} : pc'[q] = pc[q]
        /\ listening' = listening \ {c}
        /\ backlog'[c] = <<>> /\ \A q \in Client \ {c} : backlog'[q] = backlog[q]
        /\ held'[c] = NoClient /\ \A q \in Client \ {c} : held'[q] = held[q]
        /\ queue'[c] = <<>> /\ \A q \in Client \ {c} : queue'[q] = queue[q]
        /\ running'[c] = NoClient /\ \A q \in Client \ {c} : running'[q] = running[q]
        /\ \A q \in Client : reply'[q] \in {reply[q], "eof"}
        /\ outcome'[c] = (IF outcome[c] = "none" THEN "killed" ELSE outcome[c]) /\ \A q \in Client \ {c} : outcome'[q] = outcome[q]
        /\ UNCHANGED <<starts, result>>
    BY <1>25 DEF Kill, HangUp
  <2> HIDE DEF TypeOK, Election, LockOwned, ListenerOpen
  <2>2. \A q \in Client : Waiting(q)' \subseteq Waiting(q)
    BY <2>1, NoElements DEF Waiting
  <2>3. OnlyLeadersAreAsked'
    BY <2>1 DEF OnlyLeadersAreAsked
  <2>4. OncePerClient'
    BY <2>1, NoElements DEF OncePerClient
  <2>5. WaitingIsUnrun'
    BY <2>1, <2>2 DEF WaitingIsUnrun
  <2>6. SeekingIsUnrun'
    BY <2>1, <2>2 DEF SeekingIsUnrun
  <2>7. RunningIsCurrent'
    BY <1>0, <2>1 DEF RunningIsCurrent
  <2>8. OwnFirst'
    BY <2>1 DEF OwnFirst
  <2>9. AnswersAreTrue'
    BY <2>1 DEF AnswersAreTrue
  <2>10. ReportsAreTrue'
    BY <2>1 DEF ReportsAreTrue
  <2>11. SoloIsDenied'
    BY <2>1 DEF SoloIsDenied
  <2> QED
    BY <2>3, <2>4, <2>5, <2>6, <2>7, <2>8, <2>9, <2>10, <2>11
<1>26. CASE UNCHANGED vars
    BY <1>26 DEF vars, OnlyLeadersAreAsked, OncePerClient, WaitingIsUnrun, SeekingIsUnrun,
                 RunningIsCurrent, OwnFirst, AnswersAreTrue, ReportsAreTrue, SoloIsDenied, Waiting
<1> HIDE DEF Delivery
<1> QED
    BY <1>1, <1>2, <1>3, <1>4, <1>5, <1>6, <1>7, <1>8, <1>9, <1>10, <1>11, <1>12, <1>13, <1>14, <1>15, <1>16, <1>17, <1>18, <1>19, <1>20, <1>21, <1>22, <1>23, <1>24, <1>25, <1>26
   DEF Next, AllDone, ClientStep, ElectionStep, AcceptStep, ServeStep

\* The nine parts hold in every behaviour.
THEOREM DeliveryInvariant == Spec => [](Election /\ Delivery)
<1>1. Init => Delivery
  <2> SUFFICES ASSUME Init PROVE Delivery
    OBVIOUS
  <2> USE ClientAssumption, NoElements
      DEF Init, Forwarding, Electing, Serving, Closing, Results
  <2>1. OnlyLeadersAreAsked /\ OncePerClient
    BY DEF OnlyLeadersAreAsked, OncePerClient
  <2>2. \A p \in Client : Waiting(p) = {}
    BY DEF Waiting
  <2>3. WaitingIsUnrun /\ SeekingIsUnrun
    BY <2>2 DEF WaitingIsUnrun, SeekingIsUnrun
  <2>4. RunningIsCurrent /\ OwnFirst /\ SoloIsDenied
    BY DEF RunningIsCurrent, OwnFirst, SoloIsDenied
  <2>5. AnswersAreTrue /\ ReportsAreTrue
    BY DEF AnswersAreTrue, ReportsAreTrue
  <2> QED
    BY <2>1, <2>3, <2>4, <2>5 DEF Delivery
<1> QED
    BY <1>1, ElectionInvariant, DeliveryStep, PTL DEF Spec

\* No command is started twice, whichever side of a connection fails and
\* whoever is killed (TryForward, ForwardWithRetry, Serve, runThroughCoordinator).
THEOREM StartedOnce == Spec => []AtMostOnce
<1>1. Delivery => AtMostOnce
    BY DEF Delivery, AnswersAreTrue, AtMostOnce
<1> QED
    BY <1>1, DeliveryInvariant, PTL

\* What a process reports is what happened to its own command, and one that
\* gave up as busy was never run (Serve answers the connection it took the
\* request from; ForwardWithRetry gives up only unconnected).
THEOREM HonestReports == Spec => []HonestOutcome
<1>1. Delivery => HonestOutcome
    BY DEF Delivery, ReportsAreTrue, SeekingIsUnrun, HonestOutcome
<1> QED
    BY <1>1, DeliveryInvariant, PTL

-----------------------------------------------------------------------------
(* Refinement of SerialWriter.                                               *)

\* The command of the serial executor is the one the serving leader runs.
ActiveIsCurrent ==
    /\ \A p \in Client : pc[p] = "exec" => Active = running[p]
    /\ (\A p \in Client : pc[p] # "exec") => Active = NoClient

\* The lock makes it the only one.
LEMMA ActiveIsRunning == LockOwned => ActiveIsCurrent
<1> SUFFICES ASSUME LockOwned PROVE ActiveIsCurrent
    OBVIOUS
<1>1. \A p, q \in Executing : p = q
    BY DEF LockOwned, Executing, Holding, Serving
<1>2. ASSUME NEW p \in Client, pc[p] = "exec" PROVE Active = running[p]
  <2>1. p \in Executing
    BY <1>2 DEF Executing
  <2>2. (CHOOSE q \in Executing : TRUE) = p
    BY <1>1, <2>1
  <2> QED
    BY <2>1, <2>2 DEF Active
<1>3. ASSUME \A p \in Client : pc[p] # "exec" PROVE Active = NoClient
    BY <1>3 DEF Active, Executing
<1> QED
    BY <1>2, <1>3 DEF ActiveIsCurrent

\* Every step of the coordinator is a step of the serial executor or leaves it
\* alone: a run starts in ListenAndServe and Dequeue, ends in FinishHandler, is
\* reported by the client or by the idle leader, and may be cut short by Kill.
LEMMA SerialStep ==
    Denied = {} /\ Election /\ Delivery /\ [Next]_vars => [Serial!Next]_(Serial!vars)
<1> SUFFICES ASSUME Denied = {}, Election, Delivery, [Next]_vars
             PROVE  Serial!Next \/ UNCHANGED <<Active, starts, result, outcome>>
    BY DEF Serial!vars
<1>1. ActiveIsCurrent
    BY ActiveIsRunning DEF Election
<1>2. LockOwned' => ActiveIsCurrent'
    BY ActiveIsRunning, PTL
<1>3. LockOwned'
    BY ElectionStepInvariant DEF Election
<1>4. ActiveIsCurrent'
    BY <1>2, <1>3
<1> USE ClientAssumption
    DEF Election, TypeOK, LockOwned, Holding, Delivery, Forwarding, Electing,
        Serving, Closing, Results, Outcomes, clientVars, serverVars, effectVars
\* Who executes what is all that Active depends on.
<1>5. ASSUME \A p \in Client : pc'[p] = "exec" <=> pc[p] = "exec",
             \A p \in Client : pc[p] = "exec" => running'[p] = running[p]
      PROVE  Active' = Active
  <2>1. CASE \E p \in Client : pc[p] = "exec"
    <3>1. PICK p \in Client : pc[p] = "exec"
      BY <2>1
    <3>2. Active = running[p]
      BY <1>1, <3>1 DEF ActiveIsCurrent
    <3>3. Active' = running'[p]
      BY <1>4, <1>5, <3>1 DEF ActiveIsCurrent
    <3> QED
      BY <1>5, <3>1, <3>2, <3>3
  <2>2. CASE \A p \in Client : pc[p] # "exec"
    BY <1>1, <1>4, <1>5, <2>2 DEF ActiveIsCurrent
  <2> QED
    BY <2>1, <2>2
\* Steps the serial executor does not see.
<1> DEFINE Silent == UNCHANGED <<Active, starts, result, outcome>>
<1>6. ASSUME NEW c \in Client, Dial(c) PROVE Silent
    BY <1>5, <1>6 DEF Dial, DialTo
<1>7. ASSUME NEW c \in Client, DialFail(c) PROVE Silent
    BY <1>5, <1>7 DEF DialFail, Goto
<1>8. ASSUME NEW c \in Client, Encode(c) PROVE Silent
    BY <1>5, <1>8 DEF Encode, Goto
<1>9. ASSUME NEW c \in Client, AcquireLock(c) PROVE Silent
    BY <1>5, <1>9 DEF AcquireLock, Goto
<1>10. ASSUME NEW c \in Client, LockBusy(c) PROVE Silent
    BY <1>5, <1>10 DEF LockBusy, Goto
<1>11. ASSUME NEW c \in Client, RemoveStaleSocket(c) PROVE Silent
    BY <1>5, <1>11 DEF RemoveStaleSocket, Goto
<1>12. ASSUME NEW c \in Client, ListenDenied(c) PROVE Silent
    BY <1>5, <1>12 DEF ListenDenied, Goto
<1>13. ASSUME NEW c \in Client, Accept(c) PROVE Silent
    BY <1>5, <1>13 DEF Accept
<1>14. ASSUME NEW c \in Client, Enqueue(c) PROVE Silent
    BY <1>5, <1>14 DEF Enqueue
<1>15. ASSUME NEW c \in Client, DropConnection(c) PROVE Silent
    BY <1>5, <1>15 DEF DropConnection
<1>16. ASSUME NEW c \in Client, Respond(c) PROVE Silent
    BY <1>5, <1>16 DEF Respond, Goto
<1>17. ASSUME NEW c \in Client, CloseListener(c) PROVE Silent
    BY <1>5, <1>17 DEF CloseListener, Goto
<1>18. ASSUME NEW c \in Client, UnlinkSocket(c) PROVE Silent
    BY <1>5, <1>18 DEF UnlinkSocket, Goto
<1>19. ASSUME NEW c \in Client, ReleaseLock(c) PROVE Silent
    BY <1>5, <1>19 DEF ReleaseLock, Goto
\* Reports.
<1>20. ASSUME NEW c \in Client, EncodeFail(c) PROVE Serial!Report(c)
  <2>1. Active' = Active
    BY <1>5, <1>20 DEF EncodeFail, Exit
  <2>2. outcome[c] = "none"
    BY <1>20 DEF EncodeFail, ReportsAreTrue
  <2> QED
    BY <1>20, <2>1, <2>2 DEF EncodeFail, Exit, ReportsAreTrue, Serial!Report
<1>21. ASSUME NEW c \in Client, ForwardError(c) PROVE Serial!Report(c)
  <2>1. Active' = Active
    BY <1>5, <1>21 DEF ForwardError, Exit
  <2>2. outcome[c] = "none"
    BY <1>21 DEF ForwardError, ReportsAreTrue
  <2> QED
    BY <1>21, <2>1, <2>2 DEF ForwardError, Exit, ReportsAreTrue, Serial!Report
<1>22. ASSUME NEW c \in Client, RetryTimeout(c) PROVE Serial!Report(c)
  <2>1. Active' = Active
    BY <1>5, <1>22 DEF RetryTimeout, Exit
  <2>2. outcome[c] = "none"
    BY <1>22 DEF RetryTimeout, ReportsAreTrue
  <2> QED
    BY <1>22, <2>1, <2>2 DEF RetryTimeout, Exit, ReportsAreTrue, SeekingIsUnrun, Serial!Report
<1>23. ASSUME NEW c \in Client, ReceiveReply(c) PROVE Serial!Report(c)
  <2>1. Active' = Active
    BY <1>5, <1>23 DEF ReceiveReply, Exit
  <2>2. outcome[c] = "none"
    BY <1>23 DEF ReceiveReply, ReportsAreTrue
  <2> QED
    BY <1>23, <2>1, <2>2 DEF ReceiveReply, Exit, ReportsAreTrue, AnswersAreTrue, Serial!Report
<1>24. ASSUME NEW c \in Client, IdleTimeout(c) PROVE Serial!Report(c)
  <2>1. Active' = Active
    BY <1>5, <1>24 DEF IdleTimeout, Goto
  <2>2. outcome[c] = "none"
    BY <1>24 DEF IdleTimeout, Goto, ReportsAreTrue
  <2> QED
    BY <1>24, <2>1, <2>2 DEF IdleTimeout, Goto, ReportsAreTrue, OwnFirst, Serial!Report
\* Starts.
<1>25. ASSUME NEW c \in Client, ListenAndServe(c) PROVE Serial!Start(c)
  <2>1. Active = NoClient
    BY <1>1, <1>25 DEF ListenAndServe, Goto, ActiveIsCurrent
  <2>2. Active' = c
    BY <1>4, <1>25 DEF ListenAndServe, Goto, ActiveIsCurrent
  <2>3. starts[c] = 0 /\ outcome[c] = "none"
    BY <1>25 DEF ListenAndServe, Goto, SeekingIsUnrun, ReportsAreTrue
  <2> QED
    BY <1>25, <2>1, <2>2, <2>3 DEF ListenAndServe, Serial!Start
<1>26. ASSUME NEW c \in Client, Dequeue(c) PROVE Serial!Next
  <2> DEFINE h == Head(queue[c])
  <2>1. /\ pc[c] = "select" /\ pc' = [pc EXCEPT ![c] = "exec"]
        /\ queue[c] \in Seq(Client) /\ queue[c] # <<>>
        /\ running' = [running EXCEPT ![c] = h] /\ starts' = [starts EXCEPT ![h] = @ + 1]
        /\ UNCHANGED <<result, outcome>>
    BY <1>26 DEF Dequeue, Goto
  <2>2. h \in Client /\ h \in Waiting(c)
    BY <2>1, HeadAndTailElements DEF Waiting
  <2> HIDE DEF h
  <2>3. Active = NoClient
    BY <1>1, <2>1 DEF ActiveIsCurrent
  <2>4. Active' = h
    BY <1>4, <2>1, <2>2 DEF ActiveIsCurrent
  <2>5. starts[h] = 0 /\ result[h] = "none" /\ outcome[h] # "busy"
    BY <2>2 DEF WaitingIsUnrun, AnswersAreTrue, SeekingIsUnrun
  <2>6. outcome[h] \in {"none", "lost", "killed"}
    BY <2>2, <2>5 DEF ReportsAreTrue
  <2>7. Serial!Start(h)
    BY <2>1, <2>2, <2>3, <2>4, <2>5, <2>6 DEF Serial!Start
  <2> QED
    BY <2>2, <2>7 DEF Serial!Next
\* The end of a run.
<1>27. ASSUME NEW c \in Client, FinishHandler(c) PROVE Serial!Next
  <2> DEFINE d == running[c]
  <2>1. /\ pc[c] = "exec" /\ pc' = [pc EXCEPT ![c] = IF d = c THEN "select" ELSE "respond"]
        /\ \E r \in Results : result' = [result EXCEPT ![d] = r]
        /\ UNCHANGED <<starts, outcome>>
    BY <1>27 DEF FinishHandler
  <2>2. d \in Client
    BY <2>1 DEF RunningIsCurrent
  <2>3. Active = d
    BY <1>1, <2>1 DEF ActiveIsCurrent
  <2>4. \A p \in Client : pc'[p] # "exec"
    BY <2>1
  <2>5. Active' = NoClient
    BY <1>4, <2>4 DEF ActiveIsCurrent
  <2> HIDE DEF d
  <2>6. Serial!Finish(d)
    BY <2>1, <2>3, <2>5 DEF Serial!Finish
  <2> QED
    BY <2>2, <2>6 DEF Serial!Next
\* A kill, which may cut the run short.
<1>28. ASSUME NEW c \in Client, Kill(c) PROVE Serial!Killed(c)
  <2>1. Active' \in {Active, NoClient}
    <3>1. CASE pc[c] = "exec"
      <4>1. \A p \in Client : pc'[p] # "exec"
        BY <1>28, <3>1 DEF Kill
      <4> QED
        BY <1>4, <4>1 DEF ActiveIsCurrent
    <3>2. CASE pc[c] # "exec"
      BY <1>5, <1>28, <3>2 DEF Kill
    <3> QED
      BY <3>1, <3>2
  <2> QED
    BY <1>28, <2>1 DEF Kill, Serial!Killed
\* Nobody is denied a socket, so nobody runs alone.
<1>29. ASSUME NEW c \in Client, StartSolo(c) PROVE FALSE
    BY <1>29 DEF StartSolo, Goto, SoloIsDenied
<1>30. ASSUME NEW c \in Client, FinishSolo(c) PROVE FALSE
    BY <1>30 DEF FinishSolo, SoloIsDenied
<1>31. CASE UNCHANGED vars
    BY <1>5, <1>31 DEF vars
<1> QED
    BY <1>6, <1>7, <1>8, <1>9, <1>10, <1>11, <1>12, <1>13, <1>14, <1>15, <1>16, <1>17, <1>18, <1>19, <1>20, <1>21, <1>22, <1>23, <1>24, <1>25, <1>26, <1>27, <1>28, <1>29, <1>30, <1>31
   DEF Next, AllDone, ClientStep, ElectionStep, AcceptStep, ServeStep, Serial!Next

\* Where nobody is refused a socket, the coordinator implements the serial
\* executor.  (A process that is refused one runs its command by itself, next to
\* whoever holds the lock: the fallback runThroughCoordinator documents.)
THEOREM SerialRefinement == Denied = {} => (Spec => ImplementsSerialWriter)
<1> SUFFICES ASSUME Denied = {} PROVE Spec => ImplementsSerialWriter
    OBVIOUS
<1>1. Init => Serial!Init
    BY ClientAssumption DEF Init, Serial!Init, Active, Executing
<1>2. Election /\ Delivery /\ [Next]_vars => [Serial!Next]_(Serial!vars)
    BY SerialStep
<1> QED
    BY <1>1, <1>2, DeliveryInvariant, PTL DEF Spec, ImplementsSerialWriter, Serial!Spec
=============================================================================
