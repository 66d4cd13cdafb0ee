--------------------------- MODULE ExplorerProofs ---------------------------
(***************************************************************************)
(* What TLAPS proves of Feed, for every set of commands, viewers and       *)
(* rebuilds and every capacity of a viewer's channel: a stream that has    *)
(* dropped nothing has no hole.  And of Explorer, for every store there    *)
(* may be and any number of commands beside the build: whatever is built   *)
(* passes the gate, and its buildings stand as far down their sectors as   *)
(* their dependencies reach.                                               *)
(***************************************************************************)
EXTENDS Feed, Explorer, SequenceTheorems, FunctionTheorems, FiniteSetTheorems,
        WellFoundedInduction, TLAPS

-----------------------------------------------------------------------------
(* The inductive invariant.                                                  *)

CmdPlaces    == {"idle", "mutate", "stat", "rotate", "append", "over"}
Builds       == [at : {"idle", "read", "set", "send", "warn"}, shows : Payload]
ViewerPlaces == {"away", "page", "added", "on"}

TypeOK ==
    /\ cmdAt \in [Cmd -> CmdPlaces] /\ entry \in [Cmd -> Entry] /\ lines \in [Cmd -> Seq(Entry)]
    /\ stored \in Payload /\ log \in Seq(Entry)
    /\ server \in {"down", "starting", "up"} /\ latest \in Payload
    /\ offset \in Nat /\ timer \in BOOLEAN /\ rebuild \in [Builder -> Builds]
    /\ viewerAt \in [Viewer -> ViewerPlaces] /\ shown \in [Viewer -> Payload]
    /\ queue \in [Viewer -> Seq(Frame)]
    /\ behind \subseteq Viewer /\ history \subseteq Excuse

\* A channel keeps to its capacity, and is new when it is registered.
QueuesAreBounded ==
    \A c \in Viewer :
        /\ Len(queue[c]) <= QueueLen
        /\ viewerAt[c] \in {"away", "page"} => queue[c] = <<>>

\* Before the server is there nobody rebuilds and nobody looks.
NothingBeforeServer ==
    server = "down" =>
        /\ ~timer
        /\ \A b \in Builder : rebuild[b].at = "idle"
        /\ \A c \in Viewer : viewerAt[c] = "away"

\* Unless it was noted that rebuilds overlapped, there is one at a time.
OneRebuild ==
    "overlap" \notin history =>
        \A a, b \in Builder : rebuild[a].at # "idle" /\ rebuild[b].at # "idle" => a = b

\* What is about to be sent is what the hub holds.
SentIsLatest ==
    "overlap" \notin history =>
        \A b \in Builder : rebuild[b].at = "send" => rebuild[b].shows = latest

\* From the moment its channel is registered a viewer is not left behind: what is
\* in the channel ends with the latest payload, or the page shows it, or the first
\* frame will bring it.
NoHoleSinceRegistered ==
    "overlap" \notin history /\ (\A b \in Builder : rebuild[b].at # "send") =>
        \A c \in Viewer \ behind :
            /\ viewerAt[c] = "on" => LastPayloadIs(c, latest)
            /\ viewerAt[c] = "added" => Payloads(c) = {} \/ LastPayloadIs(c, latest)

FeedInv ==
    /\ TypeOK /\ QueuesAreBounded /\ NothingBeforeServer
    /\ OneRebuild /\ SentIsLatest /\ NoHoleSinceRegistered
-----------------------------------------------------------------------------
(* Channels.                                                                 *)

\* Of the frames for a viewer, a channel takes as many as fit behind what it holds.
LEMMA Truncated ==
    ASSUME NEW S, NEW s \in Seq(S), NEW f \in Seq(S), NEW n \in Nat, Len(s) <= n,
           NEW r, r = SubSeq(s \o f, 1, IF Len(s \o f) < n THEN Len(s \o f) ELSE n)
    PROVE  /\ r \in Seq(S)
           /\ Len(s) <= Len(r) /\ Len(r) <= n
           /\ Len(r) = IF Len(s) + Len(f) < n THEN Len(s) + Len(f) ELSE n
           /\ \A i \in 1..Len(s) : r[i] = s[i]
           /\ \A i \in 1..Len(r) : i > Len(s) => i - Len(s) \in 1..Len(f) /\ r[i] = f[i - Len(s)]
<1>1. /\ Len(s) \in Nat /\ Len(f) \in Nat
      /\ s \o f \in Seq(S) /\ Len(s \o f) = Len(s) + Len(f)
      /\ \A i \in 1..(Len(s) + Len(f)) :
             (s \o f)[i] = IF i <= Len(s) THEN s[i] ELSE f[i - Len(s)]
    BY ConcatProperties, LenProperties
<1> DEFINE m == IF Len(s) + Len(f) < n THEN Len(s) + Len(f) ELSE n
<1>2. m \in Nat /\ m <= Len(s) + Len(f) /\ Len(s) <= m /\ m <= n /\ r = SubSeq(s \o f, 1, m)
    BY <1>1
<1>3. \A i \in 1..m : (s \o f)[i] \in S
    BY <1>1, <1>2, ElementOfSeq
<1> HIDE DEF m
<1>4. /\ r \in Seq(S) /\ Len(r) = m
      /\ \A i \in 1..m : r[i] = (s \o f)[i]
  <2>1. /\ SubSeq(s \o f, 1, m) \in Seq(S)
        /\ Len(SubSeq(s \o f, 1, m)) = IF 1 <= m THEN m - 1 + 1 ELSE 0
        /\ \A i \in 1..(m - 1 + 1) : SubSeq(s \o f, 1, m)[i] = (s \o f)[1 + i - 1]
      BY <1>2, <1>3, SubSeqProperties
  <2>2. /\ m - 1 + 1 = m /\ (IF 1 <= m THEN m ELSE 0) = m
        /\ \A i \in 1..m : 1 + i - 1 = i
      BY <1>2
  <2> QED
      BY <1>2, <2>1, <2>2
<1>5. \A i \in 1..Len(s) : r[i] = s[i]
    BY <1>1, <1>2, <1>4
<1>6. ASSUME NEW i \in 1..m, i > Len(s)
      PROVE  i - Len(s) \in 1..Len(f) /\ r[i] = f[i - Len(s)]
  <2>1. i \in 1..(Len(s) + Len(f)) /\ ~(i <= Len(s)) /\ i - Len(s) \in 1..Len(f)
      BY <1>1, <1>2, <1>6
  <2> QED
      BY <1>1, <1>4, <2>1
<1> QED
    BY <1>2, <1>4, <1>5, <1>6 DEF m

\* What a broadcast does to the channels.
LEMMA BroadcastToAll ==
    ASSUME TypeOK, QueuesAreBounded, NEW frames \in Seq(Frame), Broadcast(frames)
    PROVE  /\ queue' \in [Viewer -> Seq(Frame)]
           /\ \A c \in Viewer :
                 /\ Len(queue'[c]) <= QueueLen
                 /\ c \notin Registered => queue'[c] = queue[c]
                 /\ c \in Registered =>
                       /\ Len(queue[c]) <= Len(queue'[c])
                       /\ Len(queue'[c]) = IF Len(queue[c]) + Len(frames) < QueueLen
                                           THEN Len(queue[c]) + Len(frames) ELSE QueueLen
                       /\ \A i \in 1..Len(queue[c]) : queue'[c][i] = queue[c][i]
                       /\ \A i \in 1..Len(queue'[c]) : i > Len(queue[c]) =>
                             /\ i - Len(queue[c]) \in 1..Len(frames)
                             /\ queue'[c][i] = frames[i - Len(queue[c])]
<1> DEFINE sent(d) == LET all == queue[d] \o frames
                      IN  SubSeq(all, 1, IF Len(all) < QueueLen THEN Len(all) ELSE QueueLen)
<1>1. queue' = [d \in Viewer |-> IF d \in Registered THEN sent(d) ELSE queue[d]]
    BY DEF Broadcast
<1>2. ASSUME NEW d \in Viewer
      PROVE  /\ sent(d) \in Seq(Frame)
             /\ Len(queue[d]) <= Len(sent(d)) /\ Len(sent(d)) <= QueueLen
             /\ Len(sent(d)) = IF Len(queue[d]) + Len(frames) < QueueLen
                               THEN Len(queue[d]) + Len(frames) ELSE QueueLen
             /\ \A i \in 1..Len(queue[d]) : sent(d)[i] = queue[d][i]
             /\ \A i \in 1..Len(sent(d)) : i > Len(queue[d]) =>
                    i - Len(queue[d]) \in 1..Len(frames) /\ sent(d)[i] = frames[i - Len(queue[d])]
  <2>1. queue[d] \in Seq(Frame) /\ QueueLen \in Nat /\ Len(queue[d]) <= QueueLen
      BY FeedAssumption DEF TypeOK, QueuesAreBounded
  <2>2. sent(d) = SubSeq(queue[d] \o frames, 1, IF Len(queue[d] \o frames) < QueueLen
                                                THEN Len(queue[d] \o frames) ELSE QueueLen)
      OBVIOUS
  <2> HIDE DEF sent
  <2>3. PICK s : s = queue[d]
      OBVIOUS
  <2>4. PICK r : r = sent(d)
      OBVIOUS
  <2>5. /\ r \in Seq(Frame)
        /\ Len(s) <= Len(r) /\ Len(r) <= QueueLen
        /\ Len(r) = IF Len(s) + Len(frames) < QueueLen THEN Len(s) + Len(frames) ELSE QueueLen
        /\ \A i \in 1..Len(s) : r[i] = s[i]
        /\ \A i \in 1..Len(r) : i > Len(s) =>
               i - Len(s) \in 1..Len(frames) /\ r[i] = frames[i - Len(s)]
      BY <2>1, <2>2, <2>3, <2>4, Truncated
  <2> QED
      BY <2>3, <2>4, <2>5
<1>3. queue \in [Viewer -> Seq(Frame)] /\ \A c \in Viewer : Len(queue[c]) <= QueueLen
    BY DEF TypeOK, QueuesAreBounded
<1> HIDE DEF sent
<1> QED
    BY <1>1, <1>2, <1>3

\* A frame that is not a payload changes nothing in what is the last payload sent.
LEMMA OtherFrames ==
    ASSUME TypeOK, QueuesAreBounded, NEW frames \in Seq(Frame), Broadcast(frames),
           \A i \in 1..Len(frames) : frames[i].kind # "payload",
           UNCHANGED <<shown, latest>>,
           NEW c \in Viewer
    PROVE  /\ Payloads(c)' = Payloads(c)
           /\ LastPayloadIs(c, latest)' <=> LastPayloadIs(c, latest)
<1>1. Len(queue[c]) \in Nat /\ Len(queue'[c]) \in Nat
    BY BroadcastToAll, LenProperties DEF TypeOK
<1>2. Payloads(c)' = Payloads(c) /\ \A i \in Payloads(c) : queue'[c][i] = queue[c][i]
  <2>1. CASE c \in Registered
    <3>1. ASSUME NEW i \in 1..Len(queue'[c]), i \notin 1..Len(queue[c])
          PROVE  queue'[c][i].kind # "payload"
      <4>1. i > Len(queue[c])
          BY <1>1, <3>1
      <4>2. i - Len(queue[c]) \in 1..Len(frames) /\ queue'[c][i] = frames[i - Len(queue[c])]
          BY <2>1, <4>1, BroadcastToAll
      <4> QED
          BY <4>2
    <3>2. \A i \in 1..Len(queue[c]) : i \in 1..Len(queue'[c]) /\ queue'[c][i] = queue[c][i]
        BY <1>1, <2>1, BroadcastToAll
    <3> QED
        BY <3>1, <3>2 DEF Payloads
  <2>2. CASE c \notin Registered
      BY <2>2, BroadcastToAll DEF Payloads
  <2> QED
      BY <2>1, <2>2
<1> QED
    BY <1>2 DEF LastPayloadIs

\* A payload that finds room is the last one sent.
LEMMA PayloadFrame ==
    ASSUME TypeOK, QueuesAreBounded, NEW p \in Payload,
           Broadcast(<<[kind |-> "payload", shows |-> p]>>),
           NEW c \in Registered, Len(queue[c]) # QueueLen
    PROVE  Payloads(c)' # {} /\ LastPayloadIs(c, p)'
<1> DEFINE f == [kind |-> "payload", shows |-> p]
<1>1. f \in Frame /\ <<f>> \in Seq(Frame) /\ Len(<<f>>) = 1 /\ <<f>>[1] = f
    BY DEF Frame
<1>2. c \in Viewer /\ Broadcast(<<f>>)
    BY DEF Registered
<1> HIDE DEF f
<1>3. Len(queue[c]) \in Nat /\ Len(queue[c]) < QueueLen /\ QueueLen \in Nat
    BY <1>2, FeedAssumption, LenProperties DEF TypeOK, QueuesAreBounded
<1>4. /\ Len(queue'[c]) = Len(queue[c]) + 1
      /\ queue'[c][Len(queue[c]) + 1] = f
  <2>1. /\ Len(queue'[c]) = IF Len(queue[c]) + Len(<<f>>) < QueueLen
                            THEN Len(queue[c]) + Len(<<f>>) ELSE QueueLen
        /\ \A i \in 1..Len(queue'[c]) : i > Len(queue[c]) =>
               queue'[c][i] = <<f>>[i - Len(queue[c])]
      BY <1>1, <1>2, BroadcastToAll
  <2>2. Len(queue'[c]) = Len(queue[c]) + 1
      BY <1>1, <1>3, <2>1
  <2>3. /\ Len(queue[c]) + 1 \in 1..Len(queue'[c]) /\ Len(queue[c]) + 1 > Len(queue[c])
        /\ Len(queue[c]) + 1 - Len(queue[c]) = 1
      BY <1>3, <2>2
  <2> QED
      BY <1>1, <2>1, <2>2, <2>3
<1>5. f.kind = "payload" /\ f.shows = p
    BY DEF f
<1>6. Len(queue'[c]) \in Payloads(c)' /\ \A j \in Payloads(c)' : j <= Len(queue'[c])
    BY <1>3, <1>4, <1>5 DEF Payloads
<1> QED
    BY <1>4, <1>5, <1>6 DEF LastPayloadIs

\* A frame that is delivered takes its place: a payload that is the last is shown.
LEMMA Delivered ==
    ASSUME TypeOK, NEW c \in Viewer, Deliver(c), NEW p, LastPayloadIs(c, p)
    PROVE  LastPayloadIs(c, p)'
<1>1. /\ queue[c] \in Seq(Frame) /\ queue[c] # <<>>
      /\ queue'[c] = Tail(queue[c])
      /\ shown'[c] = IF Head(queue[c]).kind = "payload" THEN Head(queue[c]).shows ELSE shown[c]
    BY DEF TypeOK, Deliver
<1>2. /\ Len(queue[c]) \in Nat \ {0} /\ Len(queue'[c]) = Len(queue[c]) - 1
      /\ \A i \in 1..(Len(queue[c]) - 1) : queue'[c][i] = queue[c][i + 1]
      /\ Head(queue[c]) = queue[c][1]
    BY <1>1, HeadTailProperties, EmptySeq
<1>3. /\ \A i \in Payloads(c)' : i + 1 \in Payloads(c) /\ i \in Nat \ {0}
      /\ \A i \in Payloads(c) : i = 1 \/ i - 1 \in Payloads(c)'
      /\ \A i \in Payloads(c) : i \in Nat \ {0}
    BY <1>2 DEF Payloads
<1>4. CASE Payloads(c) = {}
  <2>1. Head(queue[c]).kind # "payload"
      BY <1>2, <1>4 DEF Payloads
  <2> QED
      BY <1>1, <1>3, <1>4, <2>1 DEF LastPayloadIs
<1>5. CASE Payloads(c) # {}
  <2>1. PICK i \in Payloads(c) : queue[c][i].shows = p /\ \A j \in Payloads(c) : j <= i
      BY <1>5 DEF LastPayloadIs
  <2>2. CASE i = 1
    <3>1. \A j \in Payloads(c)' : FALSE
        BY <1>3, <2>1, <2>2
    <3>2. shown'[c] = p
        BY <1>1, <1>2, <2>1, <2>2 DEF Payloads
    <3> QED
        BY <3>1, <3>2 DEF LastPayloadIs
  <2>3. CASE i # 1
    <3>1. i - 1 \in Payloads(c)' /\ \A j \in Payloads(c)' : j <= i - 1
        BY <1>3, <2>1, <2>3
    <3>2. queue'[c][i - 1].shows = p
        BY <1>2, <2>1, <2>3 DEF Payloads
    <3> QED
        BY <3>1, <3>2 DEF LastPayloadIs
  <2> QED
      BY <2>2, <2>3
<1> QED
    BY <1>4, <1>5

-----------------------------------------------------------------------------
(* The invariant is inductive.                                               *)

\* Nothing in the feed changes when a command does something, or a history grows.
LEMMA FeedUntouched ==
    ASSUME FeedInv, history \subseteq history', server' = "down" => server = "down",
           UNCHANGED <<latest, timer, rebuild, viewerAt, shown, queue, behind>>
    PROVE  /\ QueuesAreBounded' /\ NothingBeforeServer'
           /\ OneRebuild' /\ SentIsLatest' /\ NoHoleSinceRegistered'
<1>1. QueuesAreBounded' /\ NothingBeforeServer'
    BY DEF FeedInv, QueuesAreBounded, NothingBeforeServer
<1>2. OneRebuild' /\ SentIsLatest'
    BY DEF FeedInv, OneRebuild, SentIsLatest
<1>3. NoHoleSinceRegistered'
    BY DEF FeedInv, NoHoleSinceRegistered, LastPayloadIs, Payloads
<1> QED
    BY <1>1, <1>2, <1>3

\* What a command does keeps every variable in its type.
LEMMA CommandTypes ==
    ASSUME TypeOK, NEW k \in Cmd, Mutate(k) \/ Look(k) \/ CmdStep(k)
    PROVE  /\ TypeOK' /\ history \subseteq history'
           /\ UNCHANGED <<server, latest, timer, rebuild, viewerAt, shown, queue, behind>>
<1> USE DEF TypeOK, CmdPlaces, Excuses, Excuse, viewers
<1>1. CASE Mutate(k)
    BY <1>1 DEF Mutate, Payload
<1>2. CASE Look(k)
    BY <1>2 DEF Look
<1>3. CASE EndMutation(k)
  <2>1. entry' \in [Cmd -> Entry]
      BY <1>3 DEF EndMutation, Entry
  <2> QED
      BY <1>3, <2>1 DEF EndMutation, Payload
<1>4. CASE Stat(k)
  <2>1. lines' \in [Cmd -> Seq(Entry)]
    <3>1. CASE Len(log) > MaxLines
      <4>1. /\ Len(log) \in Nat /\ KeepLines \in Nat /\ KeepLines <= Len(log)
          BY <3>1, FeedAssumption, LenProperties
      <4>2. \A i \in (Len(log) - KeepLines + 1)..Len(log) : log[i] \in Entry
          BY <4>1, ElementOfSeq
      <4>3. SubSeq(log, Len(log) - KeepLines + 1, Len(log)) \in Seq(Entry)
          BY <4>1, <4>2, SubSeqProperties
      <4> QED
          BY <1>4, <3>1, <4>3 DEF Stat
    <3>2. CASE ~(Len(log) > MaxLines)
        BY <1>4, <3>2 DEF Stat
    <3> QED
        BY <3>1, <3>2
  <2>2. cmdAt' \in [Cmd -> CmdPlaces]
      BY <1>4 DEF Stat
  <2> QED
      BY <1>4, <2>1, <2>2 DEF Stat
<1>5. CASE Rotate(k)
  <2>1. log' \in Seq(Entry) /\ lines' \in [Cmd -> Seq(Entry)]
      BY <1>5, EmptySeq DEF Rotate
  <2>2. history' \subseteq Excuse /\ history \subseteq history'
      BY <1>5 DEF Rotate
  <2> QED
      BY <1>5, <2>1, <2>2 DEF Rotate
<1>6. CASE AppendActivity(k)
  <2>1. log' \in Seq(Entry)
      BY <1>6, AppendProperties DEF AppendActivity
  <2> QED
      BY <1>6, <2>1 DEF AppendActivity
<1> QED
    BY <1>1, <1>2, <1>3, <1>4, <1>5, <1>6 DEF CmdStep

\* The frames that tell of unread entries are frames, and none is a payload.
LEMMA TickFrames ==
    ASSUME TypeOK, NEW frames, frames = [i \in 1..Len(Unread) |-> [kind |-> "action"]]
    PROVE  /\ frames \in Seq(Frame)
           /\ \A i \in 1..Len(frames) : frames[i].kind # "payload"
<1>1. Unread \in Seq(Entry)
  <2>1. CASE Len(log) < offset
      BY <2>1 DEF TypeOK, Unread
  <2>2. CASE ~(Len(log) < offset)
    <3>1. Len(log) \in Nat /\ offset \in Nat /\ offset + 1 \in Int
        BY LenProperties DEF TypeOK
    <3>2. \A i \in (offset + 1)..Len(log) : log[i] \in Entry
        BY <3>1, ElementOfSeq DEF TypeOK
    <3>3. SubSeq(log, offset + 1, Len(log)) \in Seq(Entry)
        BY <3>1, <3>2, SubSeqProperties
    <3> QED
        BY <2>2, <3>3 DEF Unread
  <2> QED
      BY <2>1, <2>2
<1>2. Len(Unread) \in Nat /\ [kind |-> "action"] \in Frame
    BY <1>1, LenProperties DEF Frame
<1>3. frames \in Seq(Frame) /\ Len(frames) = Len(Unread)
    BY <1>2
<1> QED
    BY <1>2, <1>3

\* What the server does keeps the invariant.
LEMMA ServerKeeps ==
    ASSUME FeedInv,
           \/ StartServer \/ StartTail \/ Tick
           \/ \E b \in Builder : TimerFires(b) \/ BuildStep(b)
    PROVE  FeedInv'
<1>0. TypeOK /\ QueuesAreBounded
    BY DEF FeedInv
<1>1. CASE StartServer
  <2>1. /\ server = "down" /\ server' = "starting" /\ latest' = stored
        /\ UNCHANGED <<cmdAt, entry, lines, stored, log, offset, timer, rebuild, viewerAt, shown,
                       queue, behind, history>>
      BY <1>1 DEF StartServer, commands, viewers
  <2>2. TypeOK'
      BY <1>0, <2>1 DEF TypeOK
  <2>3. \A c \in Viewer : viewerAt[c] = "away"
      BY <2>1 DEF FeedInv, NothingBeforeServer
  <2>4. QueuesAreBounded' /\ NothingBeforeServer' /\ OneRebuild'
      BY <2>1 DEF FeedInv, QueuesAreBounded, NothingBeforeServer, OneRebuild
  <2>5. SentIsLatest'
      BY <2>1 DEF FeedInv, NothingBeforeServer, SentIsLatest
  <2>6. NoHoleSinceRegistered'
      BY <2>1, <2>3 DEF NoHoleSinceRegistered
  <2> QED
      BY <2>2, <2>4, <2>5, <2>6 DEF FeedInv
<1>2. CASE StartTail
  <2>1. /\ server' = "up" /\ offset' = Len(log) /\ history \subseteq history'
        /\ history' \subseteq history \union {"gap"}
        /\ UNCHANGED <<cmdAt, entry, lines, stored, log, latest, timer, rebuild, viewerAt, shown,
                       queue, behind>>
      BY <1>2 DEF StartTail, commands, viewers, Excuses
  <2>2. TypeOK'
      BY <1>0, <2>1, LenProperties DEF TypeOK, Excuse
  <2> QED
      BY <2>1, <2>2, FeedUntouched DEF FeedInv
<1>3. CASE Tick
  <2> DEFINE frames == [i \in 1..Len(Unread) |-> [kind |-> "action"]]
  <2>1. /\ server = "up" /\ offset' = Len(log) /\ Broadcast(frames)
        /\ timer' \in BOOLEAN
        /\ UNCHANGED <<cmdAt, entry, lines, stored, log, server, latest, rebuild, viewerAt, shown,
                       behind, history>>
      BY <1>0, <1>3 DEF Tick, commands, TypeOK
  <2>2. frames \in Seq(Frame) /\ \A i \in 1..Len(frames) : frames[i].kind # "payload"
      BY <1>0, TickFrames
  <2> HIDE DEF frames
  <2>3. queue' \in [Viewer -> Seq(Frame)]
      BY <1>0, <2>1, <2>2, BroadcastToAll DEF TypeOK
  <2>4. TypeOK'
      BY <1>0, <2>1, <2>3, LenProperties DEF TypeOK
  <2>5. QueuesAreBounded'
    <3>1. \A c \in Viewer : viewerAt[c] \in {"away", "page"} => c \notin Registered
        BY DEF Registered
    <3> QED
        BY <1>0, <2>1, <2>2, <3>1, BroadcastToAll DEF QueuesAreBounded
  <2>6. NothingBeforeServer' /\ OneRebuild' /\ SentIsLatest'
      BY <2>1 DEF FeedInv, NothingBeforeServer, OneRebuild, SentIsLatest
  <2>7. NoHoleSinceRegistered'
    <3>1. \A c \in Viewer : /\ Payloads(c)' = Payloads(c)
                            /\ LastPayloadIs(c, latest)' <=> LastPayloadIs(c, latest)
        BY <1>0, <2>1, <2>2, OtherFrames
    <3> QED
        BY <2>1, <3>1 DEF FeedInv, NoHoleSinceRegistered
  <2> QED
      BY <2>4, <2>5, <2>6, <2>7 DEF FeedInv
<1>4. ASSUME NEW b \in Builder, TimerFires(b) PROVE FeedInv'
  <2>1. /\ timer /\ ~timer' /\ timer' \in BOOLEAN
        /\ rebuild' = [rebuild EXCEPT ![b].at = "read"]
        /\ history' = history \/ history' = history \union {"overlap"}
        /\ "overlap" \notin history' => "overlap" \notin history /\ Busy = {}
        /\ UNCHANGED <<cmdAt, entry, lines, stored, log, server, latest, offset, viewerAt, shown,
                       queue, behind>>
      BY <1>4 DEF TimerFires, commands, viewers, Excuses
  <2>2. rebuild' \in [Builder -> Builds]
      BY <1>0, <2>1 DEF TypeOK, Builds
  <2>3. /\ rebuild'[b].at = "read"
        /\ \A a \in Builder \ {b} : rebuild'[a] = rebuild[a]
      BY <1>0, <2>1 DEF TypeOK, Builds
  <2>4. TypeOK'
      BY <1>0, <2>1, <2>2 DEF TypeOK, Excuse
  <2>5. QueuesAreBounded' /\ NothingBeforeServer'
      BY <2>1 DEF FeedInv, QueuesAreBounded, NothingBeforeServer
  <2>6. OneRebuild' /\ SentIsLatest'
      BY <2>1, <2>3 DEF FeedInv, OneRebuild, SentIsLatest, Busy
  <2>7. NoHoleSinceRegistered'
      BY <2>1, <2>3 DEF FeedInv, NoHoleSinceRegistered, LastPayloadIs, Payloads, Busy
  <2> QED
      BY <2>4, <2>5, <2>6, <2>7 DEF FeedInv
<1>5. ASSUME NEW b \in Builder, Rebuild(b) PROVE FeedInv'
  <2>1. /\ rebuild[b].at = "read"
        /\ \/ rebuild' = [rebuild EXCEPT ![b] = [at |-> "set", shows |-> stored]]
           \/ rebuild' = [rebuild EXCEPT ![b].at = "warn"]
        /\ history \subseteq history' /\ history' \subseteq history \union {"failed"}
        /\ UNCHANGED <<cmdAt, entry, lines, stored, log, server, latest, offset, timer, viewerAt,
                       shown, queue, behind>>
      BY <1>5 DEF Rebuild, commands, viewers, Excuses
  <2>2. rebuild' \in [Builder -> Builds]
    <3>1. [at |-> "set", shows |-> stored] \in Builds
        BY <1>0 DEF TypeOK, Builds
    <3>2. [rebuild[b] EXCEPT !.at = "warn"] \in Builds
        BY <1>0 DEF TypeOK, Builds
    <3> QED
        BY <1>0, <2>1, <3>1, <3>2 DEF TypeOK
  <2>3. /\ rebuild'[b].at \in {"set", "warn"}
        /\ \A a \in Builder \ {b} : rebuild'[a] = rebuild[a]
      BY <1>0, <2>1 DEF TypeOK, Builds
  <2>4. TypeOK'
      BY <1>0, <2>1, <2>2 DEF TypeOK, Excuse
  <2>5. QueuesAreBounded' /\ NothingBeforeServer'
      BY <2>1 DEF FeedInv, QueuesAreBounded, NothingBeforeServer
  <2>6. OneRebuild' /\ SentIsLatest'
      BY <2>1, <2>3 DEF FeedInv, OneRebuild, SentIsLatest
  <2>7. NoHoleSinceRegistered'
      BY <2>1, <2>3 DEF FeedInv, NoHoleSinceRegistered, LastPayloadIs, Payloads
  <2> QED
      BY <2>4, <2>5, <2>6, <2>7 DEF FeedInv
<1>6. ASSUME NEW b \in Builder, SetLatest(b) PROVE FeedInv'
  <2>1. /\ rebuild[b].at = "set" /\ latest' = rebuild[b].shows
        /\ rebuild' = [rebuild EXCEPT ![b].at = "send"]
        /\ UNCHANGED <<cmdAt, entry, lines, stored, log, server, offset, timer, viewerAt,
                       shown, queue, behind, history>>
      BY <1>6 DEF SetLatest, commands, viewers
  <2>2. rebuild' \in [Builder -> Builds] /\ latest' \in Payload
      BY <1>0, <2>1 DEF TypeOK, Builds
  <2>3. /\ rebuild'[b].at = "send" /\ rebuild'[b].shows = rebuild[b].shows
        /\ \A a \in Builder \ {b} : rebuild'[a] = rebuild[a]
      BY <1>0, <2>1 DEF TypeOK, Builds
  <2>4. TypeOK'
      BY <1>0, <2>1, <2>2 DEF TypeOK
  <2>5. QueuesAreBounded' /\ NothingBeforeServer'
      BY <2>1 DEF FeedInv, QueuesAreBounded, NothingBeforeServer
  <2>6. OneRebuild' /\ SentIsLatest'
      BY <2>1, <2>3 DEF FeedInv, OneRebuild, SentIsLatest
  <2>7. NoHoleSinceRegistered'
      BY <2>3 DEF NoHoleSinceRegistered
  <2> QED
      BY <2>4, <2>5, <2>6, <2>7 DEF FeedInv
<1>7. ASSUME NEW b \in Builder, Send(b) PROVE FeedInv'
  <2> DEFINE f == [kind |-> "payload", shows |-> rebuild[b].shows]
  <2>1. /\ rebuild[b].at = "send" /\ Broadcast(<<f>>)
        /\ behind' = behind \union {c \in Registered : Len(queue[c]) = QueueLen}
        /\ rebuild' = [rebuild EXCEPT ![b] = [at |-> "idle", shows |-> {}]]
        /\ UNCHANGED <<cmdAt, entry, lines, stored, log, server, latest, offset, timer, viewerAt,
                       shown, history>>
      BY <1>7 DEF Send, commands
  <2>2. /\ rebuild' \in [Builder -> Builds] /\ rebuild'[b].at = "idle"
        /\ \A a \in Builder \ {b} : rebuild'[a] = rebuild[a]
        /\ rebuild[b].shows \in Payload
      BY <1>0, <2>1 DEF TypeOK, Builds, Payload
  <2>3. <<f>> \in Seq(Frame)
      BY <2>2 DEF Frame
  <2>4. queue' \in [Viewer -> Seq(Frame)]
      BY <1>0, <2>1, <2>3, BroadcastToAll DEF TypeOK
  <2>5. TypeOK'
      BY <1>0, <2>1, <2>2, <2>4 DEF TypeOK, Registered
  <2>6. QueuesAreBounded'
    <3>1. \A c \in Viewer : viewerAt[c] \in {"away", "page"} => c \notin Registered
        BY DEF Registered
    <3> QED
        BY <1>0, <2>1, <2>3, <3>1, BroadcastToAll DEF QueuesAreBounded
  <2>7. NothingBeforeServer' /\ OneRebuild' /\ SentIsLatest'
      BY <2>1, <2>2 DEF FeedInv, NothingBeforeServer, OneRebuild, SentIsLatest
  <2>8. NoHoleSinceRegistered'
    <3> SUFFICES ASSUME "overlap" \notin history, NEW c \in Viewer, c \notin behind',
                        viewerAt[c] \in {"on", "added"}
                 PROVE  LastPayloadIs(c, latest)'
        BY <2>1 DEF NoHoleSinceRegistered
    <3>1. c \in Registered /\ Len(queue[c]) # QueueLen
        BY <2>1 DEF Registered
    <3>2. PICK p \in Payload : p = rebuild[b].shows
        BY <2>2
    <3>3. LastPayloadIs(c, p)'
        BY <1>0, <2>1, <3>1, <3>2, PayloadFrame
    <3>4. p = latest'
        BY <2>1, <3>2 DEF FeedInv, SentIsLatest
    <3> QED
        BY <3>3, <3>4
  <2> QED
      BY <2>5, <2>6, <2>7, <2>8 DEF FeedInv
<1>8. ASSUME NEW b \in Builder, Warn(b) PROVE FeedInv'
  <2> DEFINE f == [kind |-> "invalid"]
  <2>1. /\ rebuild[b].at = "warn" /\ Broadcast(<<f>>)
        /\ rebuild' = [rebuild EXCEPT ![b].at = "idle"]
        /\ UNCHANGED <<cmdAt, entry, lines, stored, log, server, latest, offset, timer, viewerAt,
                       shown, behind, history>>
      BY <1>8 DEF Warn, commands
  <2>2. /\ rebuild' \in [Builder -> Builds] /\ rebuild'[b].at = "idle"
        /\ \A a \in Builder \ {b} : rebuild'[a] = rebuild[a]
      BY <1>0, <2>1 DEF TypeOK, Builds
  <2>3. <<f>> \in Seq(Frame) /\ \A i \in 1..Len(<<f>>) : <<f>>[i].kind # "payload"
      BY DEF Frame
  <2>4. queue' \in [Viewer -> Seq(Frame)]
      BY <1>0, <2>1, <2>3, BroadcastToAll DEF TypeOK
  <2>5. TypeOK'
      BY <1>0, <2>1, <2>2, <2>4 DEF TypeOK
  <2>6. QueuesAreBounded'
    <3>1. \A c \in Viewer : viewerAt[c] \in {"away", "page"} => c \notin Registered
        BY DEF Registered
    <3> QED
        BY <1>0, <2>1, <2>3, <3>1, BroadcastToAll DEF QueuesAreBounded
  <2>7. NothingBeforeServer' /\ OneRebuild' /\ SentIsLatest'
      BY <2>1, <2>2 DEF FeedInv, NothingBeforeServer, OneRebuild, SentIsLatest
  <2>8. NoHoleSinceRegistered'
    <3>1. \A c \in Viewer : /\ Payloads(c)' = Payloads(c)
                            /\ LastPayloadIs(c, latest)' <=> LastPayloadIs(c, latest)
        BY <1>0, <2>1, <2>3, OtherFrames
    <3> QED
        BY <2>1, <2>2, <3>1 DEF FeedInv, NoHoleSinceRegistered
  <2> QED
      BY <2>5, <2>6, <2>7, <2>8 DEF FeedInv
<1> QED
    BY <1>1, <1>2, <1>3, <1>4, <1>5, <1>6, <1>7, <1>8 DEF BuildStep

\* What the viewers do keeps the invariant.
LEMMA ViewersKeep ==
    ASSUME FeedInv, NEW c \in Viewer, LoadPage(c) \/ ViewerStep(c) \/ Disconnect(c)
    PROVE  FeedInv'
<1>0. TypeOK /\ QueuesAreBounded
    BY DEF FeedInv
<1>1. CASE LoadPage(c)
  <2>1. /\ server # "down" /\ viewerAt[c] = "away"
        /\ viewerAt' = [viewerAt EXCEPT ![c] = "page"]
        /\ shown' = [shown EXCEPT ![c] = latest]
        /\ UNCHANGED <<cmdAt, entry, lines, stored, log, server, latest, offset, timer, rebuild,
                       queue, behind, history>>
      BY <1>1 DEF LoadPage, commands
  <2>2. TypeOK'
      BY <1>0, <2>1 DEF TypeOK, ViewerPlaces
  <2>3. /\ viewerAt'[c] = "page"
        /\ \A d \in Viewer \ {c} : viewerAt'[d] = viewerAt[d] /\ shown'[d] = shown[d]
      BY <1>0, <2>1 DEF TypeOK
  <2>4. QueuesAreBounded' /\ NothingBeforeServer' /\ OneRebuild' /\ SentIsLatest'
      BY <2>1, <2>3 DEF FeedInv, QueuesAreBounded, NothingBeforeServer, OneRebuild, SentIsLatest
  <2>5. NoHoleSinceRegistered'
      BY <2>1, <2>3 DEF FeedInv, NoHoleSinceRegistered, LastPayloadIs, Payloads
  <2> QED
      BY <2>2, <2>4, <2>5 DEF FeedInv
<1>2. CASE Register(c)
  <2>1. /\ viewerAt[c] = "page"
        /\ viewerAt' = [viewerAt EXCEPT ![c] = "added"]
        /\ UNCHANGED <<cmdAt, entry, lines, stored, log, server, latest, offset, timer, rebuild,
                       shown, queue, behind, history>>
      BY <1>2 DEF Register, commands
  <2>2. TypeOK'
      BY <1>0, <2>1 DEF TypeOK, ViewerPlaces
  <2>3. /\ viewerAt'[c] = "added"
        /\ \A d \in Viewer \ {c} : viewerAt'[d] = viewerAt[d]
      BY <1>0, <2>1 DEF TypeOK
  <2>4. QueuesAreBounded' /\ NothingBeforeServer' /\ OneRebuild' /\ SentIsLatest'
      BY <2>1, <2>3 DEF FeedInv, QueuesAreBounded, NothingBeforeServer, OneRebuild, SentIsLatest
  <2>5. Payloads(c)' = {}
      BY <1>0, <2>1, EmptySeq DEF QueuesAreBounded, Payloads
  <2>6. NoHoleSinceRegistered'
      BY <2>1, <2>3, <2>5 DEF FeedInv, NoHoleSinceRegistered, LastPayloadIs, Payloads
  <2> QED
      BY <2>2, <2>4, <2>6 DEF FeedInv
<1>3. CASE FirstFrame(c)
  <2>1. /\ viewerAt[c] = "added"
        /\ viewerAt' = [viewerAt EXCEPT ![c] = "on"]
        /\ shown' = [shown EXCEPT ![c] = latest]
        /\ UNCHANGED <<cmdAt, entry, lines, stored, log, server, latest, offset, timer, rebuild,
                       queue, behind, history>>
      BY <1>3 DEF FirstFrame, commands
  <2>2. TypeOK'
      BY <1>0, <2>1 DEF TypeOK, ViewerPlaces
  <2>3. /\ viewerAt'[c] = "on" /\ shown'[c] = latest
        /\ \A d \in Viewer \ {c} : viewerAt'[d] = viewerAt[d] /\ shown'[d] = shown[d]
      BY <1>0, <2>1 DEF TypeOK
  <2>4. QueuesAreBounded' /\ NothingBeforeServer' /\ OneRebuild' /\ SentIsLatest'
      BY <2>1, <2>3 DEF FeedInv, QueuesAreBounded, NothingBeforeServer, OneRebuild, SentIsLatest
  <2>5. NoHoleSinceRegistered'
      BY <2>1, <2>3 DEF FeedInv, NoHoleSinceRegistered, LastPayloadIs, Payloads
  <2> QED
      BY <2>2, <2>4, <2>5 DEF FeedInv
<1>4. CASE Deliver(c)
  <2>1. /\ viewerAt[c] = "on" /\ queue[c] # <<>> /\ queue[c] \in Seq(Frame)
        /\ queue' = [queue EXCEPT ![c] = Tail(queue[c])]
        /\ shown' = [shown EXCEPT ![c] = IF Head(queue[c]).kind = "payload"
                                         THEN Head(queue[c]).shows ELSE shown[c]]
        /\ UNCHANGED <<cmdAt, entry, lines, stored, log, server, latest, offset, timer, rebuild,
                       viewerAt, behind, history>>
      BY <1>0, <1>4 DEF Deliver, commands, TypeOK
  <2>2. /\ Tail(queue[c]) \in Seq(Frame) /\ Head(queue[c]) \in Frame
        /\ Len(Tail(queue[c])) = Len(queue[c]) - 1 /\ Len(queue[c]) \in Nat
      BY <2>1, HeadTailProperties, LenProperties
  <2>3. Head(queue[c]).kind = "payload" => Head(queue[c]).shows \in Payload
      BY <2>2 DEF Frame
  <2>4. queue' \in [Viewer -> Seq(Frame)] /\ shown' \in [Viewer -> Payload]
      BY <1>0, <2>1, <2>2, <2>3 DEF TypeOK
  <2>5. TypeOK'
      BY <1>0, <2>1, <2>4 DEF TypeOK
  <2>6. /\ queue'[c] = Tail(queue[c])
        /\ \A d \in Viewer \ {c} : queue'[d] = queue[d] /\ shown'[d] = shown[d]
      BY <1>0, <2>1 DEF TypeOK
  <2>7. QueuesAreBounded'
    <3>1. Len(queue'[c]) <= QueueLen
        BY <1>0, <2>2, <2>6, FeedAssumption DEF QueuesAreBounded
    <3> QED
        BY <1>0, <2>1, <2>6, <3>1 DEF QueuesAreBounded
  <2>8. NothingBeforeServer' /\ OneRebuild' /\ SentIsLatest'
      BY <2>1 DEF FeedInv, NothingBeforeServer, OneRebuild, SentIsLatest
  <2>9. NoHoleSinceRegistered'
    <3>1. PICK p : p = latest
        OBVIOUS
    <3>2. LastPayloadIs(c, latest) => LastPayloadIs(c, latest)'
      <4>1. LastPayloadIs(c, p) => LastPayloadIs(c, p)'
          BY <1>0, <1>4, Delivered
      <4> QED
          BY <2>1, <3>1, <4>1
    <3>3. \A d \in Viewer \ {c} : /\ Payloads(d)' = Payloads(d)
                                  /\ LastPayloadIs(d, latest)' <=> LastPayloadIs(d, latest)
        BY <2>1, <2>6 DEF LastPayloadIs, Payloads
    <3> QED
        BY <2>1, <3>2, <3>3 DEF FeedInv, NoHoleSinceRegistered
  <2> QED
      BY <2>5, <2>7, <2>8, <2>9 DEF FeedInv
<1>5. CASE Disconnect(c)
  <2>1. /\ viewerAt[c] \in {"added", "on"}
        /\ viewerAt' = [viewerAt EXCEPT ![c] = "page"]
        /\ queue' = [queue EXCEPT ![c] = <<>>]
        /\ behind' = behind \ {c}
        /\ UNCHANGED <<cmdAt, entry, lines, stored, log, server, latest, offset, timer, rebuild,
                       shown, history>>
      BY <1>5 DEF Disconnect, commands
  <2>2. TypeOK'
      BY <1>0, <2>1, EmptySeq DEF TypeOK, ViewerPlaces
  <2>3. /\ viewerAt'[c] = "page" /\ queue'[c] = <<>>
        /\ \A d \in Viewer \ {c} : viewerAt'[d] = viewerAt[d] /\ queue'[d] = queue[d]
      BY <1>0, <2>1 DEF TypeOK
  <2>4. QueuesAreBounded'
      BY <1>0, <2>1, <2>3, FeedAssumption, EmptySeq DEF QueuesAreBounded
  <2>5. NothingBeforeServer' /\ OneRebuild' /\ SentIsLatest'
      BY <2>1, <2>3 DEF FeedInv, NothingBeforeServer, OneRebuild, SentIsLatest
  <2>6. NoHoleSinceRegistered'
      BY <2>1, <2>3 DEF FeedInv, NoHoleSinceRegistered, LastPayloadIs, Payloads
  <2> QED
      BY <2>2, <2>4, <2>5, <2>6 DEF FeedInv
<1> QED
    BY <1>1, <1>2, <1>3, <1>4, <1>5 DEF ViewerStep

\* The feed begins in the invariant.
LEMMA FeedBegins == FeedInit => FeedInv
<1> SUFFICES ASSUME FeedInit PROVE FeedInv
    OBVIOUS
<1>1. log \in Seq(Entry)
  <2>1. log \in Seq({NoCmd}) /\ {NoCmd} \subseteq Entry
      BY FeedAssumption DEF FeedInit, Entry
  <2> QED
      BY <2>1, SeqMonotonic
<1>2. TypeOK
    BY <1>1, EmptySeq DEF FeedInit, TypeOK, CmdPlaces, Entry, Payload, Builds, ViewerPlaces, Excuse
<1>3. QueuesAreBounded /\ NothingBeforeServer
    BY FeedAssumption, EmptySeq DEF FeedInit, QueuesAreBounded, NothingBeforeServer
<1>4. OneRebuild /\ SentIsLatest /\ NoHoleSinceRegistered
    BY DEF FeedInit, OneRebuild, SentIsLatest, NoHoleSinceRegistered
<1> QED
    BY <1>2, <1>3, <1>4 DEF FeedInv

\* The invariant holds through every interleaving of commands, rebuilds and viewers.
THEOREM FeedInvariant == FeedSpec => []FeedInv
<1>1. FeedInv /\ [FeedNext]_feedVars => FeedInv'
  <2> SUFFICES ASSUME FeedInv, [FeedNext]_feedVars PROVE FeedInv'
      OBVIOUS
  <2>1. ASSUME NEW k \in Cmd, Mutate(k) \/ Look(k) \/ CmdStep(k) PROVE FeedInv'
      BY <2>1, CommandTypes, FeedUntouched DEF FeedInv
  <2>2. CASE UNCHANGED feedVars
    <3>1. TypeOK'
        BY <2>2 DEF feedVars, FeedInv, TypeOK
    <3> QED
        BY <2>2, <3>1, FeedUntouched DEF feedVars, FeedInv
  <2> QED
      BY <2>1, <2>2, ServerKeeps, ViewersKeep DEF FeedNext
<1> QED
    BY FeedBegins, <1>1, PTL DEF FeedSpec

-----------------------------------------------------------------------------
(* What follows from it.                                                     *)

\* Whenever a viewer joined (handleEvents), and however frames were queued since,
\* the last payload it has been sent is the latest there is, unless a frame was
\* dropped or two rebuilds overlapped.
THEOREM NoHole == FeedSpec => []StreamHasNoHole
<1>1. FeedInv => StreamHasNoHole
    BY DEF FeedInv, NoHoleSinceRegistered, StreamHasNoHole
<1> QED
    BY FeedInvariant, <1>1, PTL

-----------------------------------------------------------------------------
(* The timeline.                                                             *)

\* A set of naturals that is not empty has a least member.
LEMMA LeastOf ==
    ASSUME NEW T \in SUBSET Nat, T # {}
    PROVE  \E n \in T : \A m \in T : n <= m
<1> DEFINE Less == {x \in Nat \X Nat : x[1] < x[2]}
<1>1. IsWellFoundedOn(Less, Nat)
  BY NatLessThanWellFounded, Zenon DEF OpToRel
<1>2. PICK n \in T : \A m \in T : ~ (<<m, n>> \in Less)
  <2> HIDE DEF Less
  <2> QED  BY <1>1, WFMin, Zenon
<1>3. \A m \in T : ~(m < n)
  BY <1>2
<1> QED  BY <1>3

\* Decisions and their dates are numbers.
LEMMA Dated == Decision \subseteq Nat /\ \A a \in Decision : DateOf[a] \in Nat
<1>1. Node \subseteq Nat /\ DateOf \in [Decision -> Nat]
  BY ExplorerAssumption
<1> QED  BY <1>1 DEF Decision

\* Of any events one is the first.
LEMMA FirstEvent ==
    ASSUME NEW S \in SUBSET Decision, S # {}
    PROVE  \E a \in S : \A b \in S \ {a} : Earlier(a, b) /\ ~Earlier(b, a)
<1> DEFINE T == {DateOf[b] : b \in S}
<1>1. T \in SUBSET Nat /\ T # {}
  BY Dated
<1>2. PICK d \in T : \A m \in T : d <= m
  <2> HIDE DEF T
  <2> QED  BY <1>1, LeastOf
<1> DEFINE U == {b \in S : DateOf[b] = d}
<1>3. U \in SUBSET Nat /\ U # {}
  BY <1>2, Dated
<1>4. PICK a \in U : \A b \in U : a <= b
  <2> HIDE DEF U
  <2> QED  BY <1>3, LeastOf
<1>5. ASSUME NEW b \in S \ {a}
      PROVE  Earlier(a, b) /\ ~Earlier(b, a)
  <2>1. DateOf[a] = d /\ d <= DateOf[b] /\ a \in Nat /\ b \in Nat /\ DateOf[b] \in Nat /\ d \in Nat
    BY <1>1, <1>2, <1>4, Dated
  <2>2. DateOf[b] = d => a <= b
    BY <1>4
  <2> QED  BY <2>1, <2>2 DEF Earlier
<1> QED  BY <1>4, <1>5

\* What validateExplorePayload asks of the events E about the nodes P.
Replays(E, P) ==
    /\ DOMAIN E # {}
    /\ \A a \in DOMAIN E : E[a].creates \union E[a].modifies \subseteq P
    /\ \A n \in P : TypeOf[n] # "adr" =>
         \E a \in DOMAIN E :
            /\ n \in E[a].creates
            /\ \A b \in DOMAIN E \ {a} : n \notin E[b].creates
                                         /\ (n \in E[b].modifies => Earlier(a, b))

\* The events of any store replay to the nodes of any payload.
LEMMA EventsReplay ==
    Replays(BuildEvents, build.present)
<1> DEFINE facts   == {n \in build.present : TypeOf[n] # "adr"}
           events  == Decision \intersect store.live
           targets == [a \in events |-> (store.patched[a] \union store.topology[a]) \intersect facts]
           born    == [a \in events |-> Born(facts, events, targets, a)]
           E       == [a \in events |-> [creates |-> born[a], modifies |-> targets[a] \ born[a]]]
           G       == [genesis \in {0} |-> [creates |-> facts, modifies |-> {}]]
           before(a) == {b \in events : Earlier(b, a)}
           orphans == facts \ UNION {targets[b] : b \in events}
<1>1. BuildEvents = IF events = {} THEN G ELSE E
  BY DEF BuildEvents
<1>2. CASE events = {}
  <2>1. DOMAIN G = {0} /\ G[0].creates = facts /\ G[0].modifies = {}
    OBVIOUS
  <2> HIDE DEF G
  <2> QED  BY <1>1, <1>2, <2>1 DEF Replays
<1>3. CASE events # {}
  <2>1. events \in SUBSET Decision
    OBVIOUS
  <2>2. /\ DOMAIN E = events
        /\ \A a \in events : E[a].creates = born[a] /\ E[a].modifies = targets[a] \ born[a]
    OBVIOUS
  <2>3. \A a \in events : targets[a] \subseteq facts
    OBVIOUS
  <2>4. \A a \in events : born[a] = (targets[a] \ UNION {targets[b] : b \in before(a)})
                                      \union IF before(a) = {} THEN orphans ELSE {}
    BY DEF Born
  <2>5. PICK first \in events : \A b \in events \ {first} : Earlier(first, b) /\ ~Earlier(b, first)
    <3> HIDE DEF events
    <3> QED  BY <1>3, <2>1, FirstEvent
  <2>6. \A a \in events : ~Earlier(a, a)
    BY Dated DEF Earlier
  <2>7. before(first) = {} /\ \A b \in events \ {first} : before(b) # {}
    BY <2>5, <2>6
  <2> HIDE DEF E, born, targets, events, facts
  <2>8. \A a \in events : born[a] \subseteq facts
    BY <2>3, <2>4
  <2>9. ASSUME NEW n \in facts
        PROVE  \E a \in events : /\ n \in born[a]
                                 /\ \A b \in events \ {a} :
                                      n \notin born[b] /\ (n \in targets[b] => Earlier(a, b))
    <3> DEFINE S == {b \in events : n \in targets[b]}
    <3>1. CASE S = {}
      <4>1. n \in orphans
        BY <3>1
      <4>2. n \in born[first]
        BY <2>4, <2>7, <4>1
      <4>3. ASSUME NEW b \in events \ {first}
            PROVE  n \notin born[b] /\ n \notin targets[b]
        BY <2>4, <2>7, <3>1
      <4> QED  BY <4>2, <4>3
    <3>2. CASE S # {}
      <4>1. S \in SUBSET Decision
        BY <2>1
      <4>2. PICK a \in S : \A b \in S \ {a} : Earlier(a, b) /\ ~Earlier(b, a)
        <5> HIDE DEF S
        <5> QED  BY <3>2, <4>1, FirstEvent
      <4>3. n \notin UNION {targets[b] : b \in before(a)}
        BY <2>6, <4>2
      <4>4. n \in born[a]
        BY <2>4, <4>2, <4>3
      <4>5. n \notin orphans
        BY <4>2
      <4>6. ASSUME NEW b \in events \ {a}
            PROVE  n \notin born[b] /\ (n \in targets[b] => Earlier(a, b))
        <5>1. n \in targets[b] => a \in before(b) /\ Earlier(a, b)
          BY <4>2
        <5>2. n \in targets[b] => n \in UNION {targets[c] : c \in before(b)}
          BY <4>2, <5>1
        <5> QED  BY <2>4, <4>5, <5>1, <5>2
      <4> QED  BY <4>2, <4>4, <4>6
    <3> QED  BY <3>1, <3>2
  <2>10. \A a \in events : E[a].creates \union E[a].modifies \subseteq build.present
    BY <2>2, <2>3, <2>8 DEF facts
  <2>11. \A n \in build.present : TypeOf[n] # "adr" => n \in facts
    BY DEF facts
  <2>12. \A n \in build.present : TypeOf[n] # "adr" =>
           \E a \in DOMAIN E :
              /\ n \in E[a].creates
              /\ \A b \in DOMAIN E \ {a} : n \notin E[b].creates
                                           /\ (n \in E[b].modifies => Earlier(a, b))
    BY <2>2, <2>9, <2>11
  <2> QED  BY <1>1, <1>3, <2>2, <2>10, <2>12 DEF Replays
<1> QED  BY <1>2, <1>3

-----------------------------------------------------------------------------
(* The steps of a flow.                                                      *)

\* Induction on naturals.
LEMMA Induction ==
    ASSUME NEW T \in SUBSET Nat, 0 \in T, \A n \in T : n + 1 \in T
    PROVE  T = Nat
<1> SUFFICES ASSUME T # Nat PROVE FALSE
  OBVIOUS
<1>1. Nat \ T \in SUBSET Nat /\ Nat \ T # {}
  OBVIOUS
<1>2. PICK n \in Nat \ T : \A m \in Nat \ T : n <= m
  BY <1>1, LeastOf
<1>3. n # 0 /\ n - 1 \in Nat /\ ~(n <= n - 1)
  BY <1>2
<1>4. n - 1 \in T
  BY <1>2, <1>3
<1>5. (n - 1) + 1 \in T
  BY <1>4
<1> QED  BY <1>2, <1>3, <1>5

\* A finite set of numbered things has one in each place, from 1 on, by what they are
\* numbered and then by themselves.
LEMMA Places ==
    ASSUME NEW S \in SUBSET Nat, IsFiniteSet(S), NEW q \in [S -> Int]
    PROVE  /\ Cardinality(S) \in Nat
           /\ \A k \in 1..Cardinality(S) : \E i \in S :
                Cardinality({j \in S : q[j] < q[i] \/ (q[j] = q[i] /\ j <= i)}) = k
<1> DEFINE n == Cardinality(S)
           UpTo(i) == {j \in S : q[j] < q[i] \/ (q[j] = q[i] /\ j <= i)}
           f == [i \in S |-> Cardinality(UpTo(i))]
<1>1. n \in Nat
  BY FS_CardinalityType
<1>2. \A i \in S : UpTo(i) \in SUBSET S /\ i \in UpTo(i)
  OBVIOUS
<1>3. ASSUME NEW i \in S
      PROVE  IsFiniteSet(UpTo(i)) /\ Cardinality(UpTo(i)) \in 1..n
  <2>1. IsFiniteSet(UpTo(i)) /\ Cardinality(UpTo(i)) <= n
    <3> HIDE DEF UpTo
    <3> QED  BY <1>2, FS_Subset
  <2>2. Cardinality(UpTo(i)) \in Nat /\ (Cardinality(UpTo(i)) = 0 <=> UpTo(i) = {})
    <3> HIDE DEF UpTo
    <3> QED  BY <2>1, FS_CardinalityType, FS_EmptySet
  <2>3. UpTo(i) # {}
    BY <1>2
  <2> QED  BY <1>1, <2>1, <2>2, <2>3
<1>4. ASSUME NEW i \in S, NEW j \in S, f[i] = f[j], UpTo(i) \in SUBSET UpTo(j)
      PROVE  i = j
  <2>1. UpTo(i) = UpTo(j)
    <3>1. Cardinality(UpTo(i)) = Cardinality(UpTo(j)) /\ IsFiniteSet(UpTo(j))
      BY <1>3, <1>4
    <3> HIDE DEF UpTo, f
    <3> QED  BY <1>4, <3>1, FS_Subset
  <2>2. i \in UpTo(j) /\ j \in UpTo(i)
    BY <1>2, <2>1
  <2>3. q[i] \in Int /\ q[j] \in Int /\ i \in Nat /\ j \in Nat
    OBVIOUS
  <2>4. q[i] < q[j] \/ (q[i] = q[j] /\ i <= j)
    BY <2>2
  <2>5. q[j] < q[i] \/ (q[j] = q[i] /\ j <= i)
    BY <2>2
  <2> HIDE DEF UpTo, f
  <2> QED  BY <2>3, <2>4, <2>5
<1>5. ASSUME NEW i \in S, NEW j \in S
      PROVE  UpTo(i) \in SUBSET UpTo(j) \/ UpTo(j) \in SUBSET UpTo(i)
  <2>1. \A k \in S : q[k] \in Int /\ k \in Nat
    OBVIOUS
  <2>2. CASE q[i] < q[j] \/ (q[i] = q[j] /\ i <= j)
    <3>1. ASSUME NEW k \in UpTo(i) PROVE k \in UpTo(j)
      <4>1. k \in S /\ q[k] \in Int /\ q[i] \in Int /\ q[j] \in Int
            /\ (q[k] < q[i] \/ (q[k] = q[i] /\ k <= i)) /\ k \in Nat /\ i \in Nat /\ j \in Nat
        BY <2>1, <3>1
      <4>2. q[k] < q[j] \/ (q[k] = q[j] /\ k <= j)
        BY <2>2, <4>1
      <4> QED  BY <4>1, <4>2
    <3> QED  BY <3>1
  <2>3. CASE q[j] < q[i] \/ (q[i] = q[j] /\ j <= i)
    <3>1. ASSUME NEW k \in UpTo(j) PROVE k \in UpTo(i)
      <4>1. k \in S /\ q[k] \in Int /\ q[i] \in Int /\ q[j] \in Int
            /\ (q[k] < q[j] \/ (q[k] = q[j] /\ k <= j)) /\ k \in Nat /\ i \in Nat /\ j \in Nat
        BY <2>1, <3>1
      <4>2. q[k] < q[i] \/ (q[k] = q[i] /\ k <= i)
        BY <2>3, <4>1
      <4> QED  BY <4>1, <4>2
    <3> QED  BY <3>1
  <2> QED  BY <2>1, <2>2, <2>3
<1>6. f \in Injection(S, 1..n)
  <2>1. f \in [S -> 1..n]
    BY <1>3
  <2>2. \A i, j \in S : f[i] = f[j] => i = j
    <3> SUFFICES ASSUME NEW i \in S, NEW j \in S, f[i] = f[j] PROVE i = j
      OBVIOUS
    <3> QED  BY <1>4, <1>5
  <2> HIDE DEF f
  <2> QED  BY <2>1, <2>2, Fun_IsInj, Zenon
<1>7. IsFiniteSet(1..n) /\ Cardinality(1..n) = n
  BY <1>1, FS_Interval
<1>8. f \in Surjection(S, 1..n)
  <2> HIDE DEF f
  <2> QED  BY <1>6, <1>7, FS_Injection, Zenon
<1>9. \A k \in 1..n : \E i \in S : f[i] = k
  <2> HIDE DEF f
  <2> QED  BY <1>8 DEF Surjection
<1> QED  BY <1>1, <1>9

\* Rising makes of any numbers numbers that rise.
LEMMA RisingRises ==
    ASSUME NEW n \in Nat, NEW g \in [1..n -> Int]
    PROVE  /\ Rising(g) \in [1..n -> Int]
           /\ \A k \in 2..n : Rising(g)[k - 1] < Rising(g)[k]
<1> DEFINE Next(b, k) == IF k > 1 /\ g[k] <= b[k - 1] THEN b[k - 1] + 1 ELSE g[k]
           Good(m, b) == b \in [1..m -> Int] /\ \A k \in 1..m : b[k] = Next(b, k)
           T == {m \in Nat : m <= n => \E b : Good(m, b)}
<1>1. 0 \in T
  <2>1. Good(0, [k \in 1..0 |-> 0])
    OBVIOUS
  <2> QED  BY <2>1
<1>2. ASSUME NEW m \in T
      PROVE  m + 1 \in T
  <2> SUFFICES ASSUME m + 1 <= n PROVE \E b : Good(m + 1, b)
    <3> HIDE DEF Good
    <3> QED  OBVIOUS
  <2>1. PICK b : Good(m, b)
    <3> HIDE DEF Good
    <3> QED  BY <1>2
  <2> DEFINE c == [k \in 1..m + 1 |-> IF k = m + 1 THEN Next(b, m + 1) ELSE b[k]]
  <2>2. Next(b, m + 1) \in Int
    <3>1. m + 1 \in 1..n /\ (m + 1 > 1 => (m + 1) - 1 \in 1..m)
      OBVIOUS
    <3>2. g[m + 1] \in Int /\ (m + 1 > 1 => b[(m + 1) - 1] \in Int)
      BY <2>1, <3>1
    <3> QED  BY <3>2
  <2>3. c \in [1..m + 1 -> Int]
    <3>1. \A k \in 1..m + 1 : k # m + 1 => k \in 1..m
      OBVIOUS
    <3> QED  BY <2>1, <2>2, <3>1
  <2>4. \A k \in 1..m : c[k] = b[k] /\ Next(c, k) = Next(b, k)
    <3> TAKE k \in 1..m
    <3>1. k \in 1..m + 1 /\ k # m + 1 /\ (k > 1 => k - 1 \in 1..m + 1 /\ k - 1 # m + 1)
      OBVIOUS
    <3>2. c[k] = b[k] /\ (k > 1 => c[k - 1] = b[k - 1])
      BY <3>1
    <3> QED  BY <3>2
  <2>5. c[m + 1] = Next(b, m + 1) /\ Next(c, m + 1) = Next(b, m + 1)
    <3>1. m + 1 > 1 => (m + 1) - 1 \in 1..m
      OBVIOUS
    <3> QED  BY <2>4, <3>1
  <2>6. \A k \in 1..m + 1 : c[k] = Next(c, k)
    <3>1. \A k \in 1..m + 1 : k # m + 1 => k \in 1..m
      OBVIOUS
    <3> HIDE DEF c, Next
    <3> QED  BY <2>1, <2>4, <2>5, <3>1
  <2> QED  BY <2>3, <2>6
<1>3. T = Nat
  <2>1. T \in SUBSET Nat
    OBVIOUS
  <2> HIDE DEF T
  <2> QED  BY <1>1, <1>2, <2>1, Induction
<1>4. PICK b : Good(n, b)
  <2> HIDE DEF Good
  <2>1. n \in T
    BY <1>3
  <2> QED  BY <2>1
<1>5. b = [k \in 1..n |-> Next(b, k)]
  BY <1>4
<1> DEFINE d == Rising(g)
<1>6. d = [k \in 1..n |-> Next(d, k)]
  BY <1>5 DEF Rising
<1> HIDE DEF d
<1> DEFINE S == {m \in Nat : m \in 1..n => d[m] \in Int}
<1>7. S = Nat
  <2>1. 0 \in S
    OBVIOUS
  <2>2. ASSUME NEW m \in S
        PROVE  m + 1 \in S
    <3> SUFFICES ASSUME m + 1 \in 1..n PROVE d[m + 1] \in Int
      OBVIOUS
    <3>1. d[m + 1] = Next(d, m + 1) /\ g[m + 1] \in Int
      BY <1>6
    <3>2. m + 1 > 1 => d[(m + 1) - 1] \in Int
      OBVIOUS
    <3> QED  BY <3>1, <3>2
  <2>3. S \in SUBSET Nat
    OBVIOUS
  <2> HIDE DEF S
  <2> QED  BY <2>1, <2>2, <2>3, Induction
<1>8. d \in [1..n -> Int]
  <2>1. \A k \in 1..n : d[k] \in Int
    BY <1>7
  <2>2. DOMAIN d = 1..n /\ d = [k \in 1..n |-> d[k]]
    <3> DEFINE e == [k \in 1..n |-> Next(d, k)]
    <3>1. DOMAIN e = 1..n /\ e = [k \in 1..n |-> e[k]]
      OBVIOUS
    <3>2. d = e
      BY <1>6
    <3> HIDE DEF e
    <3> QED  BY <3>1, <3>2
  <2> QED  BY <2>1, <2>2
<1>9. ASSUME NEW k \in 2..n
      PROVE  d[k - 1] < d[k]
  <2>1. k \in 1..n /\ k - 1 \in 1..n /\ k > 1
    OBVIOUS
  <2>2. d[k] = Next(d, k) /\ d[k - 1] \in Int /\ g[k] \in Int
    BY <1>6, <1>8, <2>1
  <2> QED  BY <2>1, <2>2
<1> QED  BY <1>8, <1>9 DEF d

\* The steps of a flow are between nodes of the payload, and their numbers rise.
LEMMA StepsRise ==
    ASSUME store \in Store, NEW f \in Flow
    PROVE  \E m \in Nat :
              /\ FlowSteps(f) \in [1..m -> [seq : Int, from : build.present, to : build.present]]
              /\ \A k \in 2..m : FlowSteps(f)[k - 1].seq < FlowSteps(f)[k].seq
<1> DEFINE rows   == store.rows[f]
           number == [i \in DOMAIN rows |-> IF rows[i].seq = 0 THEN i ELSE rows[i].seq]
           kept   == {i \in DOMAIN rows : Resolves(rows[i].from) /\ Resolves(rows[i].to)}
           q      == [i \in kept |-> number[i]]
           upTo(i) == {j \in kept : number[j] < number[i] \/ (number[j] = number[i] /\ j <= i)}
           m      == Cardinality(kept)
           row    == [k \in 1..m |-> CHOOSE i \in kept : Cardinality(upTo(i)) = k]
           g      == [k \in DOMAIN row |-> number[row[k]]]
<1>1. rows \in Rows
  BY DEF Store
<1>2. /\ Len(rows) \in Nat /\ DOMAIN rows = 1..Len(rows)
      /\ \A i \in 1..Len(rows) : rows[i].seq \in Int
  <2> DEFINE R == [seq : Int, from : Node \union {0}, to : Node \union {0}]
  <2>1. rows \in Seq(R) /\ \A r \in R : r.seq \in Int
    BY <1>1 DEF Rows
  <2> HIDE DEF rows, R
  <2>2. Len(rows) \in Nat /\ DOMAIN rows = 1..Len(rows) /\ \A i \in 1..Len(rows) : rows[i] \in R
    BY <2>1
  <2> QED  BY <2>1, <2>2
<1> HIDE DEF rows
<1>3. kept \in SUBSET Nat /\ kept \in SUBSET (DOMAIN rows) /\ IsFiniteSet(DOMAIN rows)
  <2> DEFINE n == Len(rows)
  <2>1. IsFiniteSet(1..n)
    <3>1. n \in Int /\ 1 \in Int
      BY <1>2
    <3> HIDE DEF n
    <3> QED  BY <3>1, FS_Interval
  <2> QED  BY <1>2, <2>1
<1>4. IsFiniteSet(kept)
  <2> HIDE DEF kept
  <2> QED  BY <1>3, FS_Subset
<1>5. \A i \in kept : number[i] \in Int
  BY <1>2, <1>3
<1>6. \A i \in kept : /\ Resolves(rows[i].from) /\ Resolves(rows[i].to)
                      /\ rows[i].from \in build.present /\ rows[i].to \in build.present
  BY DEF Resolves
<1> HIDE DEF kept, number
<1>7. q \in [kept -> Int]
  BY <1>5
<1>8. m \in Nat /\ \A k \in 1..m : \E i \in kept :
        Cardinality({j \in kept : q[j] < q[i] \/ (q[j] = q[i] /\ j <= i)}) = k
  <2> HIDE DEF q, m
  <2> QED  BY <1>3, <1>4, <1>7, Places DEF m
<1>9. \A i \in kept : upTo(i) = {j \in kept : q[j] < q[i] \/ (q[j] = q[i] /\ j <= i)}
  OBVIOUS
<1>10. \A k \in 1..m : \E i \in kept : Cardinality(upTo(i)) = k
  <2> HIDE DEF upTo, q, m
  <2> QED  BY <1>8, <1>9
<1> HIDE DEF upTo, m
<1>11. row \in [1..m -> kept]
  BY <1>10
<1>12. DOMAIN row = 1..m
  OBVIOUS
<1> HIDE DEF row
<1>13. g \in [1..m -> Int]
  BY <1>5, <1>11, <1>12
<1> HIDE DEF g
<1>14. Rising(g) \in [1..m -> Int] /\ \A k \in 2..m : Rising(g)[k - 1] < Rising(g)[k]
  BY <1>8, <1>13, RisingRises
<1> DEFINE steps == [k \in DOMAIN row |-> [seq |-> Rising(g)[k], from |-> rows[row[k]].from,
                                           to |-> rows[row[k]].to]]
<1>15. FlowSteps(f) = steps
  BY DEF FlowSteps, rows, number, kept, upTo, m, row, g
<1>16. steps \in [1..m -> [seq : Int, from : build.present, to : build.present]]
  BY <1>6, <1>11, <1>12, <1>14
<1>17. \A k \in 2..m : steps[k - 1].seq < steps[k].seq
  BY <1>8, <1>12, <1>14
<1> QED  BY <1>8, <1>15, <1>16, <1>17

-----------------------------------------------------------------------------
(* Districts and routes.                                                     *)

\* The container above a node is one of the sectors, if there is one.
LEMMA ContainerIsSector ==
    ASSUME NEW p, NEW n, IsFiniteSet(p.nodes)
    PROVE  NearestContainer(p, n) \in Sectors(p) \union {Governance}
<1> DEFINE above[k \in Nat] ==
              IF k = 0 THEN n
              ELSE LET m == above[k - 1] IN IF m \in p.nodes THEN p.parent[m] ELSE m
           found == {k \in 1..Cardinality(p.nodes) : above[k] \in Sectors(p)}
<1>1. NearestContainer(p, n) = IF found = {} THEN Governance ELSE above[Min(found)]
  BY DEF NearestContainer
<1> HIDE DEF above
<1>2. Cardinality(p.nodes) \in Nat
  BY FS_CardinalityType
<1>3. found \in SUBSET Nat /\ \A k \in found : above[k] \in Sectors(p)
  BY <1>2
<1> HIDE DEF found
<1>4. ASSUME found # {} PROVE Min(found) \in found
  <2>1. \E k \in found : \A m \in found : k <= m
    BY <1>3, <1>4, LeastOf
  <2> QED  BY <2>1 DEF Min
<1> QED  BY <1>1, <1>3, <1>4

\* Every node that is a building is in a district that there is.
LEMMA EveryBuildingHasDistrict ==
    ASSUME NEW p, NEW c, IsFiniteSet(p.nodes),
           c.district = [n \in p.nodes |-> District(p, n)],
           NEW n \in p.nodes, p.type[n] \notin {"boundary", "flow"}
    PROVE  c.district[n] \in Sectors(p) \union {d \in {HQ, Governance} : InDistrict(p, c, d) # {}}
<1>1. c.district[n] = District(p, n)
  OBVIOUS
<1>2. District(p, n) \in Sectors(p) \union {HQ, Governance}
  BY ContainerIsSector DEF District, Sectors, Nodes
<1>3. n \in InDistrict(p, c, c.district[n])
  BY DEF InDistrict
<1> QED  BY <1>1, <1>2, <1>3

\* One route for each edge that gets its own.
OneEach(routes, own) ==
    /\ \A r \in routes : r.edge \in own
    /\ \A e \in own : \E r \in routes : r.edge = e
    /\ \A r, q \in routes : r.edge = q.edge => r = q

\* Routing gives every edge that has a route of its own one route.
LEMMA RoutesOneEach ==
    ASSUME NEW p, NEW c, DOMAIN c = DOMAIN NoCity
    PROVE  OneEach(RouteEdges(p, c).routes, OwnRouteEdges(p))
<1> DEFINE points == Crossings(c) \union {Projection(d) : d \in c.docks}
           from(e) == CHOOSE d \in DockFor(c, e, e.from) : TRUE
           to(e)   == CHOOSE d \in DockFor(c, e, e.to) : TRUE
           route(e) == [edge |-> e, from |-> from(e), to |-> to(e),
                        found |-> Projection(to(e)) \in Reached(c, {Projection(from(e))}, points)]
           R == {route(e) : e \in OwnRouteEdges(p)}
<1>1. RouteEdges(p, c) = [c EXCEPT !.routes = R]
  BY DEF RouteEdges
<1>2. "routes" \in DOMAIN c
  BY DEF NoCity
<1>3. RouteEdges(p, c).routes = R
  <2> HIDE DEF R
  <2> QED  BY <1>1, <1>2
<1>4. \A e : route(e).edge = e
  OBVIOUS
<1> HIDE DEF route
<1> QED  BY <1>3, <1>4 DEF OneEach

\* What validateExplorePayload asks of the routes.
LEMMA OneEachIsSound ==
    ASSUME NEW p, NEW routes, OneEach(routes, OwnRouteEdges(p)),
           \A e \in p.edges : /\ {e.from, e.to} \subseteq p.nodes
                              /\ e.kind # "flow_step" => e = Edge(e.from, e.to, e.kind),
           NEW e \in p.edges, e.kind \notin Unrouted
    PROVE  LET shared == IF SharedBy(p, e) = {} THEN {e} ELSE SharedBy(p, e)
           IN  Cardinality({r \in routes : r.edge \in shared}) = 1
<1> DEFINE shared == IF SharedBy(p, e) = {} THEN {e} ELSE SharedBy(p, e)
<1>1. PICK d : shared = {d} /\ d \in OwnRouteEdges(p)
  <2>1. CASE SharedBy(p, e) = {}
    BY <2>1 DEF OwnRouteEdges
  <2>2. CASE SharedBy(p, e) # {}
    <3>1. PICK d : d \in SharedBy(p, e)
      BY <2>2
    <3>2. \A x \in SharedBy(p, e) : /\ x \in p.edges /\ x.kind = "depends_on"
                                    /\ x.from = e.from /\ x.to = e.to
      BY DEF SharedBy, Depends
    <3>3. \A x \in SharedBy(p, e) : x = Edge(e.from, e.to, "depends_on")
      BY <3>2
    <3>4. SharedBy(p, e) = {d}
      BY <3>1, <3>3
    <3>5. SharedBy(p, d) = {}
      BY <3>1, <3>2 DEF SharedBy
    <3>6. d \in OwnRouteEdges(p)
      BY <3>1, <3>2, <3>5 DEF OwnRouteEdges, Unrouted
    <3> QED  BY <2>2, <3>4, <3>6
  <2> QED  BY <2>1, <2>2
<1>2. PICK r \in routes : r.edge = d
  BY <1>1 DEF OneEach
<1>3. {q \in routes : q.edge \in shared} = {r}
  BY <1>1, <1>2 DEF OneEach
<1>4. Cardinality({r}) = 1
  BY FS_Singleton
<1> QED  BY <1>3, <1>4

-----------------------------------------------------------------------------
(* The inductive invariant.                                                  *)

BuildPlaces == {"begin", "staging", "boundaries", "edges", "events", "built"}

IsBuild(b) ==
    b = [at |-> b.at, all |-> b.all, present |-> b.present, parent |-> b.parent,
         staged |-> b.staged, boundaries |-> b.boundaries, todo |-> b.todo, edges |-> b.edges,
         flows |-> b.flows, events |-> b.events]

\* An edge that is no step of a flow, and one that is.
Plain(b, e) ==
    /\ e = Edge(e.from, e.to, e.kind) /\ e.kind # "flow_step"
    /\ {e.from, e.to} \subseteq b.present
Step(b, e) ==
    /\ e.kind = "flow_step" /\ e.flow \in DOMAIN b.flows
    /\ {e.from, e.to} \subseteq b.present

EdgesMade(b) ==
    \A e \in b.edges : Plain(b, e) \/ (b.at \in {"events", "built"} /\ Step(b, e))
BoundariesMade(b) ==
    \A x \in DOMAIN b.boundaries :
        b.boundaries[x].members \union {b.boundaries[x].parent} \subseteq b.present \union {0}
FlowsMade(b) ==
    /\ DOMAIN b.flows \subseteq Node
    /\ \A f \in DOMAIN b.flows : \A k \in DOMAIN b.flows[f] :
          /\ {b.flows[f][k].from, b.flows[f][k].to} \subseteq b.present
          /\ k > 1 => b.flows[f][k - 1].seq < b.flows[f][k].seq

\* What has been read is about the entities that were read first, whatever the store
\* has become since.
BuildInv ==
    /\ store \in Store
    /\ IsBuild(build) /\ build.at \in BuildPlaces /\ build.present \subseteq Node
    /\ build.at \in {"begin", "staging", "boundaries"} => build.edges = {}
    /\ build.at = "edges" => build.todo \subseteq build.present
    /\ EdgesMade(build)
    /\ build.at \in {"edges", "events", "built"} => BoundariesMade(build)
    /\ build.at \in {"events", "built"} => FlowsMade(build)
    /\ build.at = "built" => Replays(build.events, build.present)

\* Nothing has been read to begin with.
LEMMA BuildInit == ExplorerInit => BuildInv
<1> SUFFICES ASSUME ExplorerInit PROVE BuildInv
  OBVIOUS
<1>1. store \in Store
  BY ExplorerAssumption DEF ExplorerInit
<1>2. IsBuild(NoBuild) /\ NoBuild.at = "begin" /\ NoBuild.present = {} /\ NoBuild.edges = {}
  BY DEF IsBuild, NoBuild
<1>3. build = NoBuild
  BY DEF ExplorerInit
<1> QED  BY <1>1, <1>2, <1>3 DEF BuildInv, BuildPlaces, EdgesMade

\* Other commands leave a store, and the build alone.
LEMMA EditKeepsStore ==
    ASSUME store \in Store, Edit
    PROVE  store' \in Store /\ UNCHANGED <<adrs, build, city>> /\ Reading
<1> USE DEF Change
<1>1. ASSUME NEW n \in Spare, InsertEntity(n)
      PROVE  store' \in Store /\ UNCHANGED <<adrs, build, city>> /\ Reading
  <2>1. PICK q \in store.live \union {0} :
          Change([store EXCEPT !.live = @ \union {n}, !.parent[n] = q])
    BY <1>1 DEF InsertEntity
  <2>2. n \in Node /\ q \in Node \union {0}
    BY ExplorerAssumption DEF Store
  <2>3. [store EXCEPT !.live = @ \union {n}, !.parent[n] = q] \in Store
    BY <2>2 DEF Store
  <2> QED  BY <2>1, <2>3
<1>2. ASSUME NEW n \in Node, DeleteEntity(n)
      PROVE  store' \in Store /\ UNCHANGED <<adrs, build, city>> /\ Reading
  <2> DEFINE s == [store EXCEPT !.live = @ \ {n},
                            !.parent = [m \in Node |-> IF m = n \/ @[m] = n THEN 0 ELSE @[m]],
                            !.rels = {r \in @ : n \notin {r.from, r.to}}]
  <2>1. s \in Store
    BY DEF Store
  <2>2. Change(s)
    BY <1>2 DEF DeleteEntity
  <2> HIDE DEF s
  <2> QED  BY <2>1, <2>2
<1>3. ASSUME NEW r \in Links, AddRelationship(r) \/ RemoveRelationship(r)
      PROVE  store' \in Store /\ UNCHANGED <<adrs, build, city>> /\ Reading
  <2>1. r \in Edges
    BY ExplorerAssumption
  <2> DEFINE s == [store EXCEPT !.rels = @ \union {r}]
             u == [store EXCEPT !.rels = @ \ {r}]
  <2>2. s \in Store /\ u \in Store
    BY <2>1 DEF Store
  <2>3. Change(s) \/ Change(u)
    BY <1>3 DEF AddRelationship, RemoveRelationship
  <2> HIDE DEF s, u
  <2> QED  BY <2>2, <2>3
<1>4. ASSUME NEW a \in Decision, UpdateStatus(a)
      PROVE  store' \in Store /\ UNCHANGED <<adrs, build, city>> /\ Reading
  <2>1. PICK x \in Status : Change([store EXCEPT !.status[a] = x])
    BY <1>4 DEF UpdateStatus
  <2>2. [store EXCEPT !.status[a] = x] \in Store
    BY DEF Store
  <2> QED  BY <2>1, <2>2
<1>5. ASSUME NEW a \in Decision, NEW n \in Targets, WritePatch(a, n)
      PROVE  store' \in Store /\ UNCHANGED <<adrs, build, city>> /\ Reading
  <2>1. n \in Node
    BY ExplorerAssumption
  <2> DEFINE s == [store EXCEPT !.patched[a] = @ \union {n}]
  <2>2. s \in Store
    BY <2>1 DEF Store
  <2>3. Change(s)
    BY <1>5 DEF WritePatch
  <2> HIDE DEF s
  <2> QED  BY <2>2, <2>3
<1> QED  BY <1>1, <1>2, <1>3, <1>4, <1>5 DEF Edit

\* Each query adds to what has been read.
LEMMA BuildKept == BuildInv /\ [ExplorerNext]_explorerVars => BuildInv'
<1> SUFFICES ASSUME BuildInv, [ExplorerNext]_explorerVars
             PROVE  BuildInv'
  OBVIOUS
<1>0. /\ store \in Store /\ IsBuild(build) /\ build.present \subseteq Node
      /\ EdgesMade(build)
      /\ 0 \notin Node /\ 0 \notin build.present
  BY ExplorerAssumption DEF BuildInv
<1>1. CASE Edit
  <2>1. store' \in Store /\ build' = build
    BY <1>0, <1>1, EditKeepsStore
  <2> QED  BY <2>1 DEF BuildInv
<1>2. CASE LoadEntities
  <2>1. /\ store' = store /\ build.at = "begin" /\ build'.at = "staging"
        /\ build'.present = {n \in store.live : TypeOf[n] = "adr" => adrs}
        /\ build'.edges = build.edges /\ IsBuild(build')
    BY <1>0, <1>2 DEF LoadEntities, IsBuild
  <2>2. build'.present \subseteq Node
    BY <1>0, <2>1 DEF Store
  <2>3. build'.edges = {}
    BY <2>1 DEF BuildInv
  <2> QED  BY <1>0, <2>1, <2>2, <2>3 DEF BuildInv, EdgesMade, BuildPlaces
<1>3. CASE CollectStaging
  <2>1. /\ store' = store /\ build.at = "staging" /\ build'.at = "boundaries"
        /\ build'.present = build.present /\ build'.edges = build.edges /\ IsBuild(build')
    BY <1>0, <1>3 DEF CollectStaging, IsBuild
  <2>2. build'.edges = {}
    BY <2>1 DEF BuildInv
  <2> QED  BY <1>0, <2>1, <2>2 DEF BuildInv, EdgesMade, BuildPlaces
<1>4. CASE CollectBoundaries
  <2> DEFINE B == [b \in {n \in build.present : TypeOf[n] = "boundary"} |->
                    [parent  |-> IF build.parent[b] \in build.present THEN build.parent[b] ELSE 0,
                     members |-> {r.to : r \in {q \in RelationshipsFrom(b) :
                                    q.kind = "encloses" /\ q.to \in build.present}}]]
  <2>1. /\ store' = store /\ build.at = "boundaries"
        /\ build' = [build EXCEPT !.at = "edges", !.boundaries = B, !.todo = build.present]
    BY <1>4 DEF CollectBoundaries
  <2>2. \A b \in DOMAIN B : B[b].members \union {B[b].parent} \subseteq build.present \union {0}
    OBVIOUS
  <2> HIDE DEF B
  <2>3. /\ build'.at = "edges" /\ build'.present = build.present /\ build'.edges = build.edges
        /\ build'.todo = build.present /\ build'.boundaries = B /\ IsBuild(build')
    BY <1>0, <2>1 DEF IsBuild
  <2>4. build'.edges = {}
    BY <2>1, <2>3 DEF BuildInv
  <2>5. BoundariesMade(build')
    BY <2>2, <2>3 DEF BoundariesMade
  <2> QED  BY <1>0, <2>1, <2>3, <2>4, <2>5 DEF BuildInv, EdgesMade, BuildPlaces
<1>5. CASE ReadEdges
  <2> DEFINE n    == Min(build.todo)
             more == MembershipEdges(n) \union RelationshipEdges(n)
  <2>1. /\ store' = store /\ build.at = "edges" /\ build.todo # {}
        /\ build' = [build EXCEPT !.todo = @ \ {n},
                                  !.edges = @ \union MembershipEdges(n) \union RelationshipEdges(n)]
    BY <1>5 DEF ReadEdges
  <2>2. n \in build.present
    <3>1. build.todo \in SUBSET Nat /\ build.todo \subseteq build.present
      BY <1>0, <2>1, ExplorerAssumption DEF BuildInv
    <3>2. \E m \in build.todo : \A k \in build.todo : m <= k
      BY <2>1, <3>1, LeastOf
    <3> QED  BY <3>1, <3>2 DEF Min
  <2> HIDE DEF n
  <2>3. \A e \in more : Plain(build, e)
    <3>1. \A e \in MembershipEdges(n) : Plain(build, e)
      BY <2>2 DEF MembershipEdges, Edge, Plain
    <3>2. \A r \in RelationshipsFrom(n) : r.from = n /\ r.kind # "flow_step"
      BY <1>0 DEF RelationshipsFrom, Store, Edges
    <3>3. \A e \in RelationshipEdges(n) : Plain(build, e)
      BY <2>2, <3>2 DEF RelationshipEdges, Edge, Plain
    <3> QED  BY <3>1, <3>3
  <2>4. /\ build'.at = "edges" /\ build'.present = build.present
        /\ build'.edges = build.edges \union more
        /\ build'.todo = build.todo \ {n} /\ build'.boundaries = build.boundaries /\ IsBuild(build')
    BY <1>0, <2>1 DEF IsBuild
  <2> HIDE DEF more
  <2>5. EdgesMade(build')
    <3>1. \A e \in build.edges : Plain(build, e)
      BY <1>0, <2>1 DEF EdgesMade
    <3> QED  BY <2>3, <2>4, <3>1 DEF EdgesMade, Plain
  <2>6. BoundariesMade(build') /\ build'.todo \subseteq build'.present
    BY <2>1, <2>4 DEF BuildInv, BoundariesMade
  <2> QED  BY <1>0, <2>1, <2>4, <2>5, <2>6 DEF BuildInv, BuildPlaces
<1>6. CASE CollectFlows
  <2> DEFINE flows == [f \in Flow \intersect build.present |->
                        IF f \in store.live THEN FlowSteps(f) ELSE <<>>]
             steps == UNION {{[from |-> flows[f][k].from, to |-> flows[f][k].to,
                               kind |-> "flow_step", flow |-> f, seq |-> flows[f][k].seq] :
                                 k \in DOMAIN flows[f]} : f \in DOMAIN flows}
  <2>1. /\ store' = store /\ build.at = "edges"
        /\ build' = [build EXCEPT !.at = "events", !.flows = flows, !.edges = @ \union steps]
    BY <1>6 DEF CollectFlows
  <2>2. /\ DOMAIN flows = Flow \intersect build.present
        /\ \A f \in Flow \intersect build.present :
             flows[f] = IF f \in store.live THEN FlowSteps(f) ELSE <<>>
    OBVIOUS
  <2> HIDE DEF flows
  <2>3. ASSUME NEW f \in DOMAIN flows, NEW k \in DOMAIN flows[f]
        PROVE  /\ {flows[f][k].from, flows[f][k].to} \subseteq build.present
               /\ k > 1 => flows[f][k - 1].seq < flows[f][k].seq
    <3>1. f \in Flow
      BY <2>2
    <3>2. flows[f] # <<>>
      BY <2>3
    <3>3. flows[f] = FlowSteps(f)
      BY <2>2, <3>2
    <3>4. PICK m \in Nat :
            /\ FlowSteps(f) \in [1..m -> [seq : Int, from : build.present, to : build.present]]
            /\ \A i \in 2..m : FlowSteps(f)[i - 1].seq < FlowSteps(f)[i].seq
      BY <1>0, <3>1, StepsRise
    <3>5. k \in 1..m /\ FlowSteps(f)[k] \in [seq : Int, from : build.present, to : build.present]
      BY <2>3, <3>3, <3>4
    <3> QED  BY <3>3, <3>4, <3>5
  <2>4. ASSUME NEW e \in steps
        PROVE  /\ e.kind = "flow_step" /\ e.flow \in DOMAIN flows
               /\ {e.from, e.to} \subseteq build.present
    <3>1. PICK f \in DOMAIN flows : \E k \in DOMAIN flows[f] :
            e = [from |-> flows[f][k].from, to |-> flows[f][k].to,
                 kind |-> "flow_step", flow |-> f, seq |-> flows[f][k].seq]
      OBVIOUS
    <3>2. PICK k \in DOMAIN flows[f] :
            e = [from |-> flows[f][k].from, to |-> flows[f][k].to,
                 kind |-> "flow_step", flow |-> f, seq |-> flows[f][k].seq]
      BY <3>1
    <3>3. {flows[f][k].from, flows[f][k].to} \subseteq build.present
      BY <2>3
    <3> QED  BY <3>2, <3>3
  <2> HIDE DEF steps
  <2>5. /\ build'.at = "events" /\ build'.present = build.present
        /\ build'.edges = build.edges \union steps
        /\ build'.flows = flows /\ build'.boundaries = build.boundaries /\ IsBuild(build')
    BY <1>0, <2>1 DEF IsBuild
  <2>6. EdgesMade(build')
    <3>1. \A e \in build.edges : Plain(build, e)
      BY <1>0, <2>1 DEF EdgesMade
    <3>2. \A e \in build.edges : Plain(build', e)
      BY <2>5, <3>1 DEF Plain
    <3>3. \A e \in steps : Step(build', e)
      BY <2>4, <2>5 DEF Step
    <3> QED  BY <2>5, <3>2, <3>3 DEF EdgesMade
  <2>7. BoundariesMade(build')
    BY <2>1, <2>5 DEF BuildInv, BoundariesMade
  <2>8. FlowsMade(build')
    <3>1. DOMAIN flows \subseteq Node
      BY <2>2 DEF Flow
    <3> QED  BY <2>3, <2>5, <3>1 DEF FlowsMade
  <2> QED  BY <1>0, <2>1, <2>5, <2>6, <2>7, <2>8 DEF BuildInv, BuildPlaces
<1>7. CASE ReadEvents
  <2>1. /\ store' = store /\ build.at = "events"
        /\ build' = [build EXCEPT !.at = "built", !.events = BuildEvents,
                                  !.edges = @ \union AffectsEdges]
    BY <1>7 DEF ReadEvents
  <2>2. \A e \in AffectsEdges : Plain(build, e)
    BY DEF AffectsEdges, Edge, Plain
  <2>3. /\ build'.at = "built" /\ build'.present = build.present
        /\ build'.edges = build.edges \union AffectsEdges /\ build'.events = BuildEvents
        /\ build'.flows = build.flows /\ build'.boundaries = build.boundaries /\ IsBuild(build')
    BY <1>0, <2>1 DEF IsBuild
  <2>4. EdgesMade(build')
    <3>1. \A e : Plain(build, e) => Plain(build', e)
      BY <2>3 DEF Plain
    <3>2. \A e : Step(build, e) => Step(build', e)
      BY <2>3 DEF Step
    <3> QED  BY <1>0, <2>2, <2>3, <3>1, <3>2 DEF EdgesMade
  <2>5. BoundariesMade(build') /\ FlowsMade(build')
    <3>1. BoundariesMade(build) /\ FlowsMade(build)
      BY <2>1 DEF BuildInv
    <3> QED  BY <2>3, <3>1 DEF BoundariesMade, FlowsMade
  <2>6. Replays(build'.events, build'.present)
    BY <2>3, EventsReplay
  <2> QED  BY <1>0, <2>1, <2>3, <2>4, <2>5, <2>6 DEF BuildInv, BuildPlaces
<1>8. CASE LayoutCity \/ UNCHANGED explorerVars
  <2>1. store' = store /\ build' = build
    BY <1>8 DEF LayoutCity, LayOut, explorerVars
  <2> QED  BY <2>1 DEF BuildInv
<1> QED  BY <1>1, <1>2, <1>3, <1>4, <1>5, <1>6, <1>7, <1>8 DEF ExplorerNext

-----------------------------------------------------------------------------
(* The city.                                                                 *)

\* The steps of layoutCity that come after the districts, and after the buildings.
HasLand      == {"buildings", "roads", "zones", "docks", "signposts", "ready", "laid out"}
HasDistricts == {"districts", "layers", "plans", "grid"} \union HasLand

\* Each sector has had its layering, which looks at nothing of the layout but districts.
Layered(p, c) == c.layer = [s \in Sectors(p) |-> LayerSector(p, Buildings(p, c, s))]

\* So a layout with the same districts and rows has them layered as well.
LEMMA LayeredAlike ==
    ASSUME NEW p, NEW c, NEW d, c.layer = d.layer, c.district = d.district, Layered(p, c)
    PROVE  Layered(p, d)
BY DEF Layered, Buildings

\* The city is of the payload, districts first, then the land of each, then the routes.
CityInv ==
    /\ city.done \in {"none"} \union HasDistricts
    /\ DOMAIN city = DOMAIN NoCity
    /\ build.at # "built" => city.done = "none"
    /\ city.done \in HasDistricts =>
         city.district = [n \in build.present |-> District(CityInput, n)]
    /\ city.done \in HasLand =>
         DOMAIN city.land = Sectors(CityInput)
                              \union {d \in {HQ, Governance} : InDistrict(CityInput, city, d) # {}}
    /\ city.done \in HasDistricts \ {"districts"} => Layered(CityInput, city)
    /\ city.done = "laid out" => OneEach(city.routes, OwnRouteEdges(CityInput))

\* There is no layout to begin with.
LEMMA CityInit == ExplorerInit => CityInv
BY DEF ExplorerInit, CityInv, NoCity, NoBuild, HasLand, HasDistricts

\* A step that leaves districts and land alone leaves what has been said of them.
LEMMA CityStep ==
    ASSUME CityInv, NEW before, NEW after, NEW c, LayOut(before, after, c),
           DOMAIN c = DOMAIN city, c.district = city.district, c.land = city.land,
           before \in HasDistricts, after \in HasDistricts \ {"laid out"},
           before \in HasLand <=> after \in HasLand,
           after # "districts",
           Layered(CityInput, c) \/ (before # "districts" /\ c.layer = city.layer)
    PROVE  CityInv'
<1>1. /\ build' = build /\ build.at = "built" /\ city.done = before
      /\ city' = [c EXCEPT !.done = after]
  BY DEF LayOut
<1>2. /\ city'.done = after /\ DOMAIN city' = DOMAIN NoCity
      /\ city'.district = city.district /\ city'.land = city.land /\ city'.layer = c.layer
  BY <1>1 DEF CityInv, NoCity
<1>3. CityInput' = CityInput
  BY <1>1 DEF CityInput
<1>4. \A d : InDistrict(CityInput, city', d) = InDistrict(CityInput, city, d)
  BY <1>2 DEF InDistrict
<1>5. Layered(CityInput, city')
  <2>1. CASE Layered(CityInput, c)
    BY <1>2, <2>1, LayeredAlike
  <2>2. CASE before # "districts" /\ c.layer = city.layer
    <3>1. Layered(CityInput, city)
      BY <1>1, <2>2 DEF CityInv
    <3> QED  BY <1>2, <2>2, <3>1, LayeredAlike
  <2> QED  BY <2>1, <2>2
<1> QED  BY <1>1, <1>2, <1>3, <1>4, <1>5 DEF CityInv

\* Each step of the layout adds what the later ones lean on, and keeps what is there.
LEMMA CityKept == CityInv /\ [ExplorerNext]_explorerVars => CityInv'
<1> SUFFICES ASSUME CityInv, [ExplorerNext]_explorerVars
             PROVE  CityInv'
  OBVIOUS
<1>0. DOMAIN city = DOMAIN NoCity /\ (build.at # "built" => city.done = "none")
  BY DEF CityInv
<1>1. CASE /\ city' = city /\ city.done = "none"
  BY <1>0, <1>1 DEF CityInv, HasDistricts, HasLand
<1>2. CASE UNCHANGED <<build, city>>
  <2>1. CityInput' = CityInput
    BY <1>2 DEF CityInput
  <2>2. Layered(CityInput, city) => Layered(CityInput, city)'
    <3>1. Layered(CityInput, city) => Layered(CityInput, city')
      BY <1>2
    <3> QED  BY <2>1, <3>1
  <2>3. \A d : InDistrict(CityInput, city', d) = InDistrict(CityInput, city, d)
    BY <1>2 DEF InDistrict
  <2>4. city' = city /\ build' = build
    BY <1>2
  <2>5. city'.done \in HasDistricts =>
          city'.district = [n \in build'.present |-> District(CityInput', n)]
    BY <2>1, <2>4 DEF CityInv
  <2>6. city'.done \in HasLand =>
          DOMAIN city'.land = Sectors(CityInput')
                 \union {d \in {HQ, Governance} : InDistrict(CityInput', city', d) # {}}
    BY <2>1, <2>3, <2>4 DEF CityInv
  <2>7. city'.done \in HasDistricts \ {"districts"} => Layered(CityInput, city)'
    BY <2>2, <2>4 DEF CityInv
  <2>8. city'.done = "laid out" => OneEach(city'.routes, OwnRouteEdges(CityInput'))
    BY <2>1, <2>4 DEF CityInv
  <2>9. /\ city'.done \in {"none"} \union HasDistricts /\ DOMAIN city' = DOMAIN NoCity
        /\ build'.at # "built" => city'.done = "none"
    BY <2>4 DEF CityInv
  <2> QED  BY <2>5, <2>6, <2>7, <2>8, <2>9 DEF CityInv
<1>3. CASE LayOut("none", "districts", AssignDistricts(CityInput, city))
  <2> DEFINE c == AssignDistricts(CityInput, city)
  <2>1. /\ build' = build /\ build.at = "built" /\ city' = [c EXCEPT !.done = "districts"]
    BY <1>3 DEF LayOut
  <2>2. c.district = [n \in build.present |-> District(CityInput, n)] /\ DOMAIN c = DOMAIN NoCity
    BY <1>0 DEF AssignDistricts, CityInput, NoCity
  <2> HIDE DEF c
  <2>3. city'.district = c.district /\ DOMAIN city' = DOMAIN NoCity /\ city'.done = "districts"
    BY <2>1, <2>2 DEF NoCity
  <2>4. CityInput' = CityInput
    BY <2>1 DEF CityInput
  <2> QED  BY <2>1, <2>2, <2>3, <2>4 DEF CityInv, HasDistricts, HasLand
<1>4. CASE LayOut("layers", "plans", PlanSectors(CityInput, city))
  <2> DEFINE c == PlanSectors(CityInput, city)
  <2>1. DOMAIN c = DOMAIN city /\ c.district = city.district /\ c.land = city.land
        /\ c.layer = city.layer
    BY <1>0 DEF PlanSectors, NoCity
  <2>2. LayOut("layers", "plans", c)
    BY <1>4
  <2> HIDE DEF c
  <2> QED  BY <2>1, <2>2, CityStep DEF HasDistricts, HasLand
<1>5. CASE LayOut("districts", "layers", LayerSectors(CityInput, city))
  <2> DEFINE c == LayerSectors(CityInput, city)
  <2>1. DOMAIN c = DOMAIN city /\ c.district = city.district /\ c.land = city.land
        /\ Layered(CityInput, c)
    BY <1>0 DEF LayerSectors, NoCity, Layered, Buildings
  <2>2. LayOut("districts", "layers", c)
    BY <1>5
  <2> HIDE DEF c
  <2> QED  BY <2>1, <2>2, CityStep DEF HasDistricts, HasLand
<1>6. CASE LayOut("plans", "grid", GridSectors(CityInput, city))
  <2> DEFINE c == GridSectors(CityInput, city)
  <2>1. /\ build' = build /\ build.at = "built" /\ city.done = "plans"
        /\ city' = [c EXCEPT !.done = "grid"]
    BY <1>6 DEF LayOut
  <2>2. c.district = city.district /\ DOMAIN c = DOMAIN NoCity /\ c.layer = city.layer
    BY <1>0 DEF GridSectors, NoCity
  <2> HIDE DEF c
  <2>3. /\ city'.district = city.district /\ city'.layer = city.layer
        /\ DOMAIN city' = DOMAIN NoCity /\ city'.done = "grid"
    BY <2>1, <2>2 DEF NoCity
  <2>4. CityInput' = CityInput
    BY <2>1 DEF CityInput
  <2>5. Layered(CityInput, city')
    BY <2>1, <2>3, LayeredAlike DEF CityInv, HasDistricts, HasLand
  <2> QED  BY <2>1, <2>3, <2>4, <2>5 DEF CityInv, HasDistricts, HasLand
<1>7. CASE LayOut("grid", "buildings", PlaceBuildings(CityInput, city))
  <2> DEFINE c == PlaceBuildings(CityInput, city)
             rows == {d \in {HQ, Governance} : InDistrict(CityInput, city, d) # {}}
  <2>1. /\ build' = build /\ build.at = "built" /\ city.done = "grid"
        /\ city' = [c EXCEPT !.done = "buildings"]
    BY <1>7 DEF LayOut
  <2>2. /\ c.district = city.district /\ DOMAIN c = DOMAIN NoCity /\ c.layer = city.layer
        /\ DOMAIN c.land = Sectors(CityInput) \union rows
    BY <1>0 DEF PlaceBuildings, NoCity
  <2> HIDE DEF c
  <2>3. /\ city'.district = city.district /\ DOMAIN city' = DOMAIN NoCity
        /\ city'.done = "buildings" /\ city'.land = c.land /\ city'.layer = city.layer
    BY <2>1, <2>2 DEF NoCity
  <2>4. CityInput' = CityInput
    BY <2>1 DEF CityInput
  <2>5. \A d : InDistrict(CityInput, city', d) = InDistrict(CityInput, city, d)
    BY <2>3 DEF InDistrict
  <2>6. Layered(CityInput, city')
    BY <2>1, <2>3, LayeredAlike DEF CityInv, HasDistricts, HasLand
  <2> QED  BY <2>1, <2>2, <2>3, <2>4, <2>5, <2>6 DEF CityInv, HasDistricts, HasLand
<1>8. CASE LayOut("buildings", "roads", BuildRoads(CityInput, city))
  <2> DEFINE c == BuildRoads(CityInput, city)
  <2>1. DOMAIN c = DOMAIN city /\ c.district = city.district /\ c.land = city.land
        /\ c.layer = city.layer
    BY <1>0 DEF BuildRoads, NoCity
  <2>2. LayOut("buildings", "roads", c)
    BY <1>8
  <2> HIDE DEF c
  <2> QED  BY <2>1, <2>2, CityStep DEF HasDistricts, HasLand
<1>9. CASE LayOut("roads", "zones", PlaceZones(CityInput, city))
  <2> DEFINE c == PlaceZones(CityInput, city)
  <2>1. DOMAIN c = DOMAIN city /\ c.district = city.district /\ c.land = city.land
        /\ c.layer = city.layer
    BY <1>0 DEF PlaceZones, NoCity
  <2>2. LayOut("roads", "zones", c)
    BY <1>9
  <2> HIDE DEF c
  <2> QED  BY <2>1, <2>2, CityStep DEF HasDistricts, HasLand
<1>10. CASE \/ LayOut("zones", "docks", DockNodes(CityInput, city, build.present \ SignpostNodes))
            \/ LayOut("signposts", "ready", DockNodes(CityInput, city, SignpostNodes))
  <2> DEFINE c(S) == DockNodes(CityInput, city, S)
  <2>1. ASSUME NEW S
        PROVE  DOMAIN c(S) = DOMAIN city /\ c(S).district = city.district /\ c(S).land = city.land
           /\ c(S).layer = city.layer
    BY <1>0 DEF DockNodes, NoCity
  <2> HIDE DEF c
  <2>2. CASE LayOut("zones", "docks", c(build.present \ SignpostNodes))
    BY <2>1, <2>2, CityStep DEF HasDistricts, HasLand
  <2>3. CASE LayOut("signposts", "ready", c(SignpostNodes))
    BY <2>1, <2>3, CityStep DEF HasDistricts, HasLand
  <2> QED  BY <1>10, <2>2, <2>3 DEF c
<1>11. CASE LayOut("docks", "signposts", PlaceFlowNodes(CityInput, city))
  <2> DEFINE c == PlaceFlowNodes(CityInput, city)
  <2>1. DOMAIN c = DOMAIN city /\ c.district = city.district /\ c.land = city.land
        /\ c.layer = city.layer
    BY <1>0 DEF PlaceFlowNodes, NoCity
  <2>2. LayOut("docks", "signposts", c)
    BY <1>11
  <2> HIDE DEF c
  <2> QED  BY <2>1, <2>2, CityStep DEF HasDistricts, HasLand
<1>12. CASE LayOut("ready", "laid out", RouteEdges(CityInput, city))
  <2> DEFINE c == RouteEdges(CityInput, city)
  <2>1. /\ build' = build /\ build.at = "built" /\ city.done = "ready"
        /\ city' = [c EXCEPT !.done = "laid out"]
    BY <1>12 DEF LayOut
  <2>2. /\ c.district = city.district /\ DOMAIN c = DOMAIN NoCity /\ c.land = city.land
        /\ c.layer = city.layer
    BY <1>0 DEF RouteEdges, NoCity
  <2>3. OneEach(c.routes, OwnRouteEdges(CityInput))
    BY <1>0, RoutesOneEach
  <2> HIDE DEF c
  <2>4. /\ city'.district = city.district /\ DOMAIN city' = DOMAIN NoCity /\ city'.land = city.land
        /\ city'.done = "laid out" /\ city'.routes = c.routes /\ city'.layer = city.layer
    BY <2>1, <2>2 DEF NoCity
  <2>5. CityInput' = CityInput
    BY <2>1 DEF CityInput
  <2>6. \A d : InDistrict(CityInput, city', d) = InDistrict(CityInput, city, d)
    BY <2>4 DEF InDistrict
  <2>7. Layered(CityInput, city')
    BY <2>1, <2>4, LayeredAlike DEF CityInv, HasDistricts, HasLand
  <2> QED  BY <2>1, <2>3, <2>4, <2>5, <2>6, <2>7 DEF CityInv, HasDistricts, HasLand
<1>13. CASE \/ LoadEntities \/ CollectStaging \/ CollectBoundaries \/ ReadEdges \/ CollectFlows
            \/ ReadEvents
  <2>1. build.at # "built" /\ city' = city
    BY <1>13 DEF LoadEntities, CollectStaging, CollectBoundaries, ReadEdges, CollectFlows,
                 ReadEvents
  <2> QED  BY <1>0, <1>1, <2>1
<1>14. CASE Edit
  <2>1. UNCHANGED <<build, city>>
    BY <1>14 DEF Edit, Change, InsertEntity, DeleteEntity, AddRelationship, RemoveRelationship,
                 UpdateStatus, WritePatch
  <2> QED  BY <1>2, <2>1
<1>15. CASE UNCHANGED explorerVars
  BY <1>2, <1>15 DEF explorerVars
<1> QED
  BY <1>3, <1>4, <1>5, <1>6, <1>7, <1>8, <1>9, <1>10, <1>11, <1>12, <1>13, <1>14, <1>15
  DEF ExplorerNext, LayoutCity

-----------------------------------------------------------------------------
(* The gate.                                                                 *)

\* A payload that is built and laid out passes each part of the gate.
LEMMA BuiltPasses ==
    ASSUME BuildInv, CityInv, Shown
    PROVE  Validated
<1>1. /\ city.done = "laid out" /\ build.at = "built"
      /\ "laid out" \in HasLand /\ "laid out" \in HasDistricts
  BY DEF Shown, CityInv, HasLand, HasDistricts
<1>2. /\ EdgesMade(build) /\ BoundariesMade(build) /\ FlowsMade(build)
      /\ Replays(build.events, build.present) /\ build.present \subseteq Node
  BY <1>1 DEF BuildInv
<1>3. IsFiniteSet(build.present) /\ 0 \notin Node
  BY <1>2, ExplorerAssumption, FS_Subset
<1>4. EdgesSound
  <2>1. ASSUME NEW e \in build.edges
        PROVE  /\ {e.from, e.to} \subseteq build.present
               /\ e.kind = "flow_step" <=> e.flow \in DOMAIN build.flows
    <3>1. CASE Plain(build, e)
      <4>1. e.flow = 0 /\ 0 \notin DOMAIN build.flows
        BY <1>2, <1>3, <3>1 DEF Plain, Edge, FlowsMade
      <4> QED  BY <3>1, <4>1 DEF Plain
    <3>2. CASE Step(build, e)
      BY <3>2 DEF Step
    <3> QED  BY <1>2, <3>1, <3>2 DEF EdgesMade
  <2> QED  BY <2>1 DEF EdgesSound
<1>5. BoundariesSound
  <2>1. \A n \in build.present : BoundaryClosure(n) \subseteq DOMAIN build.boundaries
    BY DEF BoundaryClosure, WithBoundariesAbove
  <2> QED  BY <1>2, <2>1 DEF BoundariesSound, BoundariesMade
<1>6. FlowsSound
  BY <1>2 DEF FlowsSound, FlowsMade
<1>7. TimelineReplays
  BY <1>2 DEF TimelineReplays, Replays
<1>8. CityInput.nodes = build.present /\ CityInput.edges = build.edges /\ CityInput.type = TypeOf
  BY DEF CityInput
<1>9. NodesSound
  <2>1. ASSUME NEW n \in build.present, TypeOf[n] \notin {"boundary", "flow"}
        PROVE  city.district[n] \in DOMAIN city.land
    <3>1. /\ city.district = [m \in CityInput.nodes |-> District(CityInput, m)]
          /\ DOMAIN city.land = Sectors(CityInput)
                \union {d \in {HQ, Governance} : InDistrict(CityInput, city, d) # {}}
      BY <1>1, <1>8 DEF CityInv
    <3>2. IsFiniteSet(CityInput.nodes) /\ n \in CityInput.nodes
          /\ CityInput.type[n] \notin {"boundary", "flow"}
      BY <1>3, <1>8, <2>1
    <3> QED  BY <3>1, <3>2, EveryBuildingHasDistrict
  <2> QED  BY <2>1 DEF NodesSound
<1>10. RoutesSound
  <2>1. OneEach(city.routes, OwnRouteEdges(CityInput))
    BY <1>1 DEF CityInv
  <2>2. \A e \in CityInput.edges : /\ {e.from, e.to} \subseteq CityInput.nodes
                                   /\ e.kind # "flow_step" => e = Edge(e.from, e.to, e.kind)
    BY <1>2, <1>8 DEF EdgesMade, Plain, Step
  <2>3. ASSUME NEW e \in build.edges, e.kind \notin Unrouted
        PROVE  LET shared == IF SharedBy(CityInput, e) = {} THEN {e} ELSE SharedBy(CityInput, e)
               IN  Cardinality({r \in city.routes : r.edge \in shared}) = 1
    <3>1. e \in CityInput.edges
      BY <1>8
    <3> HIDE DEF CityInput
    <3> QED  BY <2>1, <2>2, <2>3, <3>1, OneEachIsSound
  <2> QED  BY <2>3 DEF RoutesSound
<1> QED  BY <1>4, <1>5, <1>6, <1>7, <1>9, <1>10 DEF Validated

\* Whatever the store and whatever is changed beside the build, the payload that comes out
\* passes the gate: the explorer never refuses what it has built itself.
THEOREM EveryPayloadPasses == ExplorerSpec => []PayloadSound
<1>1. ExplorerSpec => []BuildInv
  BY BuildInit, BuildKept, PTL DEF ExplorerSpec
<1>2. ExplorerSpec => []CityInv
  BY CityInit, CityKept, PTL DEF ExplorerSpec
<1>3. BuildInv /\ CityInv => PayloadSound
  BY BuiltPasses DEF PayloadSound
<1> QED  BY <1>1, <1>2, <1>3, PTL

-----------------------------------------------------------------------------
(* Rows.                                                                     *)

\* A finite set of naturals has a greatest member.
LEMMA GreatestOf ==
    ASSUME NEW T \in SUBSET Nat, IsFiniteSet(T), T # {}
    PROVE  \E n \in T : \A m \in T : m <= n
<1> DEFINE Above(n) == {m \in T : n < m}
           C == {Cardinality(Above(n)) : n \in T}
<1>1. \A n \in T : Above(n) \in SUBSET T /\ IsFiniteSet(Above(n)) /\ Cardinality(Above(n)) \in Nat
  <2> TAKE n \in T
  <2>1. Above(n) \in SUBSET T
    OBVIOUS
  <2> HIDE DEF Above
  <2> QED  BY <2>1, FS_Subset, FS_CardinalityType
<1>2. C \in SUBSET Nat /\ C # {}
  <2> HIDE DEF Above
  <2> QED  BY <1>1
<1>3. PICK n \in T : \A m \in T : Cardinality(Above(n)) <= Cardinality(Above(m))
  <2>1. PICK c \in C : \A d \in C : c <= d
    <3> HIDE DEF C
    <3> QED  BY <1>2, LeastOf
  <2> HIDE DEF Above
  <2> QED  BY <2>1
<1>4. ASSUME NEW m \in T, n < m PROVE FALSE
  <2>1. Above(m) \in SUBSET Above(n) /\ m \in Above(n) /\ m \notin Above(m)
    <3>1. \A k \in T : m < k => n < k
      BY <1>4
    <3>2. m \in Nat /\ ~(m < m)
      OBVIOUS
    <3> QED  BY <1>4, <3>1, <3>2
  <2> HIDE DEF Above
  <2>2. Cardinality(Above(m)) <= Cardinality(Above(n))
        /\ (Cardinality(Above(m)) = Cardinality(Above(n)) => Above(m) = Above(n))
    BY <1>1, <2>1, FS_Subset
  <2> QED  BY <1>1, <1>3, <2>1, <2>2
<1>5. \A m \in T : m <= n
  BY <1>4
<1> QED  BY <1>5

\* The greatest of a set is its Largest.
LEMMA LargestIs ==
    ASSUME NEW T \in SUBSET Nat, NEW n \in T, \A m \in T : m <= n
    PROVE  Largest(T) = n
<1>1. \E x \in T : \A y \in T : x >= y
  OBVIOUS
<1>2. Max(T) \in T /\ \A y \in T : Max(T) >= y
  BY <1>1 DEF Max
<1>3. Max(T) <= n /\ n <= Max(T) /\ Max(T) \in Nat /\ n \in Nat
  BY <1>2
<1>4. Max(T) = n
  BY <1>3
<1> QED  BY <1>4 DEF Largest

\* One number more, and either it is the largest or nothing changes.
LEMMA LargestWith ==
    ASSUME NEW T \in SUBSET Nat, IsFiniteSet(T), NEW x \in Nat
    PROVE  /\ Largest(T) \in Nat
           /\ Largest(T \union {x}) = IF x > Largest(T) THEN x ELSE Largest(T)
<1>1. CASE T = {}
  <2>1. Largest(T) = 0
    BY <1>1 DEF Largest
  <2>2. Largest({x}) = x
    BY LargestIs
  <2> QED  BY <1>1, <2>1, <2>2
<1>2. CASE T # {}
  <2>1. PICK n \in T : \A m \in T : m <= n
    BY <1>2, GreatestOf
  <2>2. Largest(T) = n
    BY <2>1, LargestIs
  <2>3. CASE x > n
    <3>1. Largest(T \union {x}) = x
      <4>1. T \union {x} \in SUBSET Nat /\ x \in T \union {x} /\ \A m \in T \union {x} : m <= x
        BY <2>1, <2>3
      <4> QED  BY <4>1, LargestIs
    <3> QED  BY <2>2, <2>3, <3>1
  <2>4. CASE ~(x > n)
    <3>1. Largest(T \union {x}) = n
      <4>1. T \union {x} \in SUBSET Nat /\ n \in T \union {x} /\ \A m \in T \union {x} : m <= n
        BY <2>1, <2>4
      <4> QED  BY <4>1, LargestIs
    <3> QED  BY <2>2, <2>4, <3>1
  <2> QED  BY <2>3, <2>4
<1> QED  BY <1>1, <1>2

\* No dependency inside S leads into T from outside of T.
Closed(p, S, T) == \A e \in Inner(p, S) : e.to \in T => e.from \in T

\* What is upstream of some nodes is the least set with them that is closed.
LEMMA UpstreamIsLeast ==
    ASSUME NEW p, NEW S, IsFiniteSet(S), NEW these \in SUBSET S
    PROVE  /\ UpstreamOf(p, S, these) \in SUBSET S
           /\ these \subseteq UpstreamOf(p, S, these)
           /\ Closed(p, S, UpstreamOf(p, S, these))
           /\ \A T \in SUBSET S : these \subseteq T /\ Closed(p, S, T)
                                  => UpstreamOf(p, S, these) \subseteq T
<1> DEFINE More(up) == {e.from : e \in {d \in Inner(p, S) : d.to \in up}}
           Over(up)  == {T \in SUBSET S : up \subseteq T /\ Closed(p, S, T)}
           Least(up) == {n \in S : \A T \in Over(up) : n \in T}
           f == [up \in SUBSET S |-> Least(up)]
<1>1. \A up \in SUBSET S : More(up) \in SUBSET S /\ (More(up) \subseteq up <=> Closed(p, S, up))
  BY DEF Inner, Closed
<1>2. \A up \in SUBSET S : /\ Least(up) \in SUBSET S /\ up \subseteq Least(up)
                           /\ \A T \in Over(up) : Least(up) \subseteq T
  OBVIOUS
<1>3. \A up \in SUBSET S : Closed(p, S, Least(up))
  <2> TAKE up \in SUBSET S
  <2>1. ASSUME NEW e \in Inner(p, S), e.to \in Least(up) PROVE e.from \in Least(up)
    <3>1. e.from \in S
      BY DEF Inner
    <3>2. ASSUME NEW T \in Over(up) PROVE e.from \in T
      BY <2>1, <3>2 DEF Closed
    <3> QED  BY <3>1, <3>2
  <2> HIDE DEF Least
  <2> QED  BY <2>1 DEF Closed
<1>4. \A up \in SUBSET S : Closed(p, S, up) => Least(up) = up
  <2> TAKE up \in SUBSET S
  <2> HAVE Closed(p, S, up)
  <2>1. up \in Over(up)
    OBVIOUS
  <2> HIDE DEF Over, Least
  <2> QED  BY <1>2, <2>1
<1>5. \A up \in SUBSET S : Least(up \union More(up)) = Least(up)
  <2> TAKE up \in SUBSET S
  <2>1. \A T \in SUBSET S : Closed(p, S, T) /\ up \subseteq T => More(up) \subseteq T
    BY DEF Closed
  <2>2. Over(up \union More(up)) = Over(up)
    <3> HIDE DEF More
    <3> QED  BY <2>1
  <2> QED  BY <2>2
<1> DEFINE Eq(g) == g = [up \in SUBSET S |->
                           IF More(up) \subseteq up THEN up ELSE g[up \union More(up)]]
<1>6. Eq(f)
  <2>1. \A up \in SUBSET S :
          f[up] = IF More(up) \subseteq up THEN up ELSE f[up \union More(up)]
    <3> TAKE up \in SUBSET S
    <3>1. up \union More(up) \in SUBSET S
      BY <1>1
    <3>2. f[up] = Least(up) /\ f[up \union More(up)] = Least(up \union More(up))
      <4> HIDE DEF Least, More
      <4> QED  BY <3>1
    <3> HIDE DEF f, Least, More
    <3> QED  BY <1>1, <1>4, <1>5, <3>2
  <2>2. f = [up \in SUBSET S |-> f[up]]
    OBVIOUS
  <2> HIDE DEF f, More
  <2> QED  BY <2>1, <2>2
<1> DEFINE h == CHOOSE g : Eq(g)
<1>7. Eq(h)
  <2> HIDE DEF f, Eq
  <2> QED  BY <1>6
<1>8. \A up \in SUBSET S : h[up] = IF More(up) \subseteq up THEN up ELSE h[up \union More(up)]
  <2> HIDE DEF h, More
  <2> QED  BY <1>7
<1>9. UpstreamOf(p, S, these) = h[these]
  BY DEF UpstreamOf
<1> HIDE DEF h, Eq, f
<1> DEFINE Left(up) == Cardinality(S \ up)
           Bad == {up \in SUBSET S : h[up] # Least(up)}
<1>10. \A up \in SUBSET S : Left(up) \in Nat
  <2> TAKE up \in SUBSET S
  <2>1. IsFiniteSet(S \ up)
    BY FS_Difference
  <2> QED  BY <2>1, FS_CardinalityType
<1>11. Bad = {}
  <2> SUFFICES ASSUME Bad # {} PROVE FALSE
    OBVIOUS
  <2> DEFINE N == {Left(up) : up \in Bad}
  <2>1. N \in SUBSET Nat /\ N # {}
    <3> HIDE DEF Left
    <3> QED  BY <1>10
  <2>2. PICK c \in N : \A d \in N : c <= d
    <3> HIDE DEF N
    <3> QED  BY <2>1, LeastOf
  <2>3. PICK up \in Bad : \A u \in Bad : Left(up) <= Left(u)
    <3> HIDE DEF Left, Bad
    <3> QED  BY <2>2
  <2>4. up \in SUBSET S /\ ~(More(up) \subseteq up) /\ h[up] = h[up \union More(up)]
    <3> HIDE DEF More, Least
    <3> QED  BY <1>1, <1>4, <1>8, <2>3
  <2> DEFINE u == up \union More(up)
  <2>5. u \in SUBSET S /\ S \ u \in SUBSET (S \ up) /\ S \ u # S \ up
    <3> HIDE DEF More
    <3> QED  BY <1>1, <2>4
  <2>6. Left(u) < Left(up)
    <3>1. IsFiniteSet(S \ up)
      BY FS_Difference
    <3>2. Left(u) <= Left(up) /\ (Left(u) = Left(up) => S \ u = S \ up)
      <4> HIDE DEF u
      <4> QED  BY <2>5, <3>1, FS_Subset
    <3> HIDE DEF Left, u
    <3> QED  BY <1>10, <2>4, <2>5, <3>2
  <2>7. u \notin Bad
    <3> HIDE DEF Bad, u, Left
    <3> QED  BY <1>10, <2>3, <2>4, <2>5, <2>6
  <2>8. h[u] = Least(u) /\ Least(u) = Least(up)
    <3>1. Least(u) = Least(up)
      <4> HIDE DEF More, Least
      <4> QED  BY <1>5, <2>4
    <3> HIDE DEF u, Least
    <3> QED  BY <2>5, <2>7, <3>1
  <2> HIDE DEF Least, u
  <2> QED  BY <2>3, <2>4, <2>8 DEF u
<1>12. UpstreamOf(p, S, these) = Least(these)
  <2> HIDE DEF Least
  <2> QED  BY <1>9, <1>11
<1>13. \A T \in SUBSET S : these \subseteq T /\ Closed(p, S, T) => Least(these) \subseteq T
  BY <1>2
<1> HIDE DEF Least
<1> QED  BY <1>2, <1>3, <1>12, <1>13

\* A node that is in no cycle and below none is not taken before all that depends on it
\* has been.
LEMMA TakenInTime ==
    ASSUME NEW p, NEW S \in SUBSET Nat, IsFiniteSet(S), NEW rest \in SUBSET S, rest # {}
    PROVE  LET v == NextTaken(p, rest)
           IN  v \in rest /\ (Ordered(p, S, v) => Sources(p, S, v) \intersect rest = {})
<1> DEFINE v    == NextTaken(p, rest)
           free == {w \in rest : \A e \in Inner(p, rest) : e.to # w}
           these == IF free = {} THEN rest ELSE free
           U(m) == UpstreamOf(p, S, Sources(p, S, m))
<1>1. v \in these
  <2>1. v = Min(these)
    BY DEF NextTaken
  <2>2. these \in SUBSET Nat /\ these # {}
    OBVIOUS
  <2> HIDE DEF these
  <2>3. \E w \in these : \A m \in these : w <= m
    BY <2>2, LeastOf
  <2> QED  BY <2>1, <2>3 DEF Min
<1>2. v \in rest
  BY <1>1
<1> HIDE DEF v
<1>3. \A e \in Inner(p, S) : e.from \in S /\ e.to \in S
  BY DEF Inner
<1>4. \A m \in rest : \A q \in Sources(p, S, m) \intersect rest :
         \E e \in Inner(p, rest) : e.from = q /\ e.to = m
  BY DEF Sources, Inner
<1>5. \A e \in Inner(p, rest) : e.from \in rest /\ e.from \in Sources(p, S, e.to)
  BY DEF Inner, Sources
<1>6. CASE free # {}
  <2>1. \A e \in Inner(p, rest) : e.to # v
    BY <1>1, <1>6
  <2>2. Sources(p, S, v) \intersect rest = {}
    BY <1>2, <1>4, <2>1
  <2> QED  BY <1>2, <2>2 DEF v
<1>7. CASE free = {}
  <2> SUFFICES ASSUME Ordered(p, S, v) PROVE FALSE
    BY <1>2 DEF v
  <2>1. \A m \in rest : \E q \in Sources(p, S, m) : q \in rest
    BY <1>5, <1>7
  <2>2. \A m : Sources(p, S, m) \in SUBSET S
    BY <1>3 DEF Sources
  <2> DEFINE V == UpstreamOf(p, S, {v})
             W == V \intersect rest
             C == {Cardinality(U(m)) : m \in W}
  <2>3. V \in SUBSET S /\ v \in V /\ Closed(p, S, V)
    <3>1. {v} \in SUBSET S
      BY <1>2
    <3> QED  BY <3>1, UpstreamIsLeast
  <2>4. \A m \in S : /\ U(m) \in SUBSET S /\ Sources(p, S, m) \subseteq U(m)
                     /\ Closed(p, S, U(m))
    BY <2>2, UpstreamIsLeast
  <2>5. \A m \in S : IsFiniteSet(U(m)) /\ Cardinality(U(m)) \in Nat
    <3> TAKE m \in S
    <3>1. U(m) \in SUBSET S
      BY <2>4
    <3> HIDE DEF U
    <3> QED  BY <3>1, FS_Subset, FS_CardinalityType
  <2>6. \A m \in V : m \notin U(m)
    <3> HIDE DEF U
    <3> QED  BY DEF Ordered, Cyclic, U
  <2> HIDE DEF U, V
  <2>7. C \in SUBSET Nat /\ C # {}
    BY <1>2, <2>3, <2>5
  <2>8. PICK c \in C : \A d \in C : c <= d
    <3> HIDE DEF C
    <3> QED  BY <2>7, LeastOf
  <2>9. PICK m \in W : \A q \in W : Cardinality(U(m)) <= Cardinality(U(q))
    BY <2>8
  <2>10. PICK q \in Sources(p, S, m) : q \in rest
    BY <2>1, <2>9
  <2>11. q \in S /\ m \in S /\ q \in U(m)
    BY <2>2, <2>4, <2>9, <2>10
  <2>12. q \in W
    <3>1. \E e \in Inner(p, S) : e.from = q /\ e.to = m
      BY <2>10 DEF Sources
    <3> QED  BY <2>3, <2>9, <2>10, <3>1 DEF Closed
  <2>13. U(q) \subseteq U(m)
    <3>1. Sources(p, S, q) \subseteq U(m)
      <4>1. \A x \in Sources(p, S, q) : \E e \in Inner(p, S) : e.from = x /\ e.to = q
        BY DEF Sources
      <4>2. q \in U(m) /\ Closed(p, S, U(m))
        BY <2>4, <2>11
      <4>3. \A e \in Inner(p, S) : e.to = q => e.from \in U(m)
        BY <4>2 DEF Closed
      <4> QED  BY <4>1, <4>3
    <3> QED  BY <2>2, <2>4, <2>11, <3>1, UpstreamIsLeast DEF U
  <2>14. Cardinality(U(q)) <= Cardinality(U(m))
         /\ (Cardinality(U(q)) = Cardinality(U(m)) => U(q) = U(m))
    BY <2>5, <2>11, <2>13, FS_Subset
  <2>15. U(q) # U(m)
    BY <2>6, <2>11, <2>12
  <2> QED  BY <2>5, <2>9, <2>11, <2>12, <2>14, <2>15
<1> QED  BY <1>6, <1>7

\* The row of each node after those that are in its set of sources.
Below(layer, sources) == Largest({layer[m] + 1 : m \in sources})

\* What layerSector knows when rest is left.
RowsSoFar(p, S, rest, layer) ==
    /\ rest \subseteq S /\ layer \in [S -> Nat]
    /\ \A n \in rest : layer[n] = Below(layer, Sources(p, S, n) \ rest)
    /\ \A n \in S \ rest : Ordered(p, S, n) =>
          /\ Sources(p, S, n) \intersect rest = {}
          /\ layer[n] = Below(layer, Sources(p, S, n))

\* Taking the next keeps that.
LEMMA NextRow ==
    ASSUME NEW p, NEW S \in SUBSET Nat, IsFiniteSet(S), NEW rest, NEW layer, rest # {},
           RowsSoFar(p, S, rest, layer)
    PROVE  LET v == NextTaken(p, rest)
           IN  v \in rest /\ RowsSoFar(p, S, rest \ {v}, Deepened(p, layer, rest \ {v}, v))
<1> DEFINE v    == NextTaken(p, rest)
           left == rest \ {v}
           next == Deepened(p, layer, left, v)
           src(n) == Sources(p, S, n)
<1>1. rest \in SUBSET S /\ layer \in [S -> Nat]
  BY DEF RowsSoFar
<1>2. v \in rest /\ (Ordered(p, S, v) => src(v) \intersect rest = {})
  BY <1>1, TakenInTime
<1> HIDE DEF v
<1>3. \A n \in S : src(n) \in SUBSET S /\ n \notin src(n) /\ IsFiniteSet(src(n))
  <2>1. \A n \in S : src(n) \in SUBSET S /\ n \notin src(n)
    BY DEF Sources, Inner
  <2> HIDE DEF src
  <2> QED  BY <2>1, FS_Subset
<1>4. \A n \in left : v \in src(n) <=> \E e \in Depends(p) : e.from = v /\ e.to = n
  BY <1>1, <1>2 DEF Sources, Inner
<1>5. next \in [S -> Nat] /\ \A n \in S :
        next[n] = IF n \in left /\ v \in src(n) /\ layer[v] + 1 > layer[n]
                  THEN layer[v] + 1 ELSE layer[n]
  <2>1. layer[v] \in Nat /\ DOMAIN layer = S
    BY <1>1, <1>2
  <2>2. next = [n \in S |-> IF /\ n \in left
                               /\ \E e \in Depends(p) : e.from = v /\ e.to = n
                               /\ layer[v] + 1 > layer[n]
                            THEN layer[v] + 1 ELSE layer[n]]
    BY <2>1 DEF Deepened
  <2> HIDE DEF next, src, left
  <2> QED  BY <1>1, <1>4, <2>1, <2>2
<1> HIDE DEF next, src
<1>6. \A n \in S \ left : next[n] = layer[n]
  BY <1>5
<1>7. ASSUME NEW T \in SUBSET (S \ left)
      PROVE  Below(next, T) = Below(layer, T)
  <2>1. {next[m] + 1 : m \in T} = {layer[m] + 1 : m \in T}
    BY <1>6
  <2> QED  BY <2>1 DEF Below
<1>8. ASSUME NEW n \in left
      PROVE  next[n] = Below(next, src(n) \ left)
  <2>1. n \in rest /\ n \in S /\ layer[n] = Below(layer, src(n) \ rest)
    BY <1>1 DEF RowsSoFar, src
  <2>2. src(n) \ left \in SUBSET (S \ left) /\ src(n) \ rest \in SUBSET S
    BY <1>3, <2>1
  <2>3. Below(next, src(n) \ left) = Below(layer, src(n) \ left)
    BY <1>7, <2>2
  <2>4. CASE v \notin src(n)
    <3>1. src(n) \ left = src(n) \ rest
      BY <2>4
    <3> QED  BY <1>5, <2>1, <2>3, <2>4, <3>1
  <2>5. CASE v \in src(n)
    <3> DEFINE T == {layer[m] + 1 : m \in src(n) \ rest}
               x == layer[v] + 1
    <3>1. src(n) \ left = (src(n) \ rest) \union {v}
      BY <1>2, <2>5
    <3>2. {layer[m] + 1 : m \in src(n) \ left} = T \union {x}
      BY <3>1
    <3>3. T \in SUBSET Nat /\ x \in Nat
      <4>1. \A m \in S : layer[m] + 1 \in Nat
        BY <1>1
      <4>2. v \in S /\ src(n) \ rest \in SUBSET S
        BY <1>1, <1>2, <2>2
      <4> QED  BY <4>1, <4>2
    <3>4. IsFiniteSet(T)
      <4>1. IsFiniteSet(src(n) \ rest)
        BY <1>3, <2>1, FS_Difference
      <4> DEFINE Q == src(n) \ rest
                 g == [m \in Q |-> layer[m] + 1]
      <4>2. g \in Surjection(Q, T)
        <5>1. g \in [Q -> T] /\ \A y \in T : \E m \in Q : g[m] = y
          OBVIOUS
        <5> HIDE DEF Q, T, g
        <5> QED  BY <5>1 DEF Surjection
      <4> HIDE DEF Q, T, g
      <4> QED  BY <4>1, <4>2, FS_Surjection DEF Q
    <3>5. layer[n] = Largest(T)
      BY <2>1 DEF Below
    <3>6. Largest(T \union {x}) = IF x > layer[n] THEN x ELSE layer[n]
      <4> HIDE DEF T, x
      <4> QED  BY <3>3, <3>4, <3>5, LargestWith
    <3>7. next[n] = IF x > layer[n] THEN x ELSE layer[n]
      BY <1>5, <2>1, <2>5
    <3> HIDE DEF T, x
    <3> QED  BY <2>3, <3>2, <3>6, <3>7 DEF Below
  <2> QED  BY <2>4, <2>5
<1>9. ASSUME NEW n \in S \ left, Ordered(p, S, n)
      PROVE  src(n) \intersect left = {} /\ next[n] = Below(next, src(n))
  <2>1. src(n) \intersect rest = {} /\ layer[n] = Below(layer, src(n))
    <3>1. CASE n = v
      <4>1. src(v) \intersect rest = {}
        BY <1>2, <1>9, <3>1
      <4>2. layer[v] = Below(layer, src(v) \ rest) /\ src(v) \ rest = src(v)
        BY <1>2, <4>1 DEF RowsSoFar, src
      <4> QED  BY <3>1, <4>1, <4>2
    <3>2. CASE n # v
      <4>1. n \in S \ rest
        BY <3>2
      <4> QED  BY <1>9, <4>1 DEF RowsSoFar, src
    <3> QED  BY <3>1, <3>2
  <2>2. src(n) \in SUBSET (S \ left)
    BY <1>3, <2>1
  <2> QED  BY <1>6, <1>7, <2>1, <2>2
<1>10. left \subseteq S
  BY <1>1
<1>11. RowsSoFar(p, S, left, next)
  <2> HIDE DEF left
  <2> QED  BY <1>5, <1>8, <1>9, <1>10 DEF RowsSoFar, src
<1> QED  BY <1>2, <1>11 DEF v, next

\* When the layering of a sector is through, every building that is in no cycle and below
\* none has the row after the last of those it depends on.
LEMMA RowsOfSector ==
    ASSUME NEW p, NEW S \in SUBSET Nat, IsFiniteSet(S)
    PROVE  LET L == LayerSector(p, S)
           IN  /\ L \in [S -> Nat]
               /\ \A n \in S : Ordered(p, S, n) => L[n] = Below(L, Sources(p, S, n))
<1> DEFINE N == Cardinality(S)
           Start == [rest |-> S, layer |-> [n \in S |-> 0]]
           Take(s) == LET v == NextTaken(p, s.rest)
                      IN  [rest |-> s.rest \ {v}, layer |-> Deepened(p, s.layer, s.rest \ {v}, v)]
           Eq(a) == a = [k \in 0..N |-> IF k = 0 THEN Start ELSE Take(a[k - 1])]
           Good(m, b) == b = [k \in 0..m |-> IF k = 0 THEN Start ELSE Take(b[k - 1])]
           T == {m \in Nat : \E b : Good(m, b)}
<1>1. N \in Nat
  BY FS_CardinalityType
<1> HIDE DEF Start, Take
<1>2. 0 \in T
  <2> DEFINE b == [k \in 0..0 |-> Start]
  <2>1. b = [k \in 0..0 |-> IF k = 0 THEN Start ELSE Take(b[k - 1])]
    OBVIOUS
  <2>2. Good(0, b)
    <3> HIDE DEF b
    <3> QED  BY <2>1
  <2> HIDE DEF b, Good
  <2> QED  BY <2>2
<1>3. ASSUME NEW m \in T
      PROVE  m + 1 \in T
  <2>1. PICK b : Good(m, b)
    <3> HIDE DEF Good
    <3> QED  BY <1>3
  <2> DEFINE c == [k \in 0..m + 1 |-> IF k = m + 1 THEN Take(b[m]) ELSE b[k]]
             d == [k \in 0..m + 1 |-> IF k = 0 THEN Start ELSE Take(c[k - 1])]
  <2>2. \A k \in 0..m : b[k] = IF k = 0 THEN Start ELSE Take(b[k - 1])
    BY <2>1
  <2>3. \A k \in 0..m + 1 : c[k] = IF k = 0 THEN Start ELSE Take(c[k - 1])
    <3> TAKE k \in 0..m + 1
    <3>1. CASE k = m + 1
      <4>1. c[k] = Take(b[m]) /\ k # 0 /\ k - 1 = m /\ m \in 0..m + 1 /\ m # m + 1
        BY <3>1
      <4>2. c[m] = b[m]
        BY <4>1
      <4> HIDE DEF c
      <4> QED  BY <4>1, <4>2
    <3>2. CASE k # m + 1
      <4>1. k \in 0..m /\ c[k] = b[k]
        BY <3>2
      <4>2. k # 0 => k - 1 \in 0..m + 1 /\ k - 1 # m + 1
        BY <4>1
      <4>3. k # 0 => c[k - 1] = b[k - 1]
        BY <4>2
      <4> HIDE DEF c
      <4> QED  BY <2>2, <4>1, <4>3
    <3> QED  BY <3>1, <3>2
  <2>4. c = d
    <3>1. DOMAIN c = 0..m + 1 /\ DOMAIN d = 0..m + 1 /\ c = [k \in 0..m + 1 |-> c[k]]
      OBVIOUS
    <3>2. \A k \in 0..m + 1 : d[k] = c[k]
      <4> HIDE DEF c
      <4> QED  BY <2>3
    <3>3. d = [k \in 0..m + 1 |-> d[k]]
      <4> HIDE DEF c
      <4> QED  OBVIOUS
    <3> HIDE DEF c, d
    <3> QED  BY <3>1, <3>2, <3>3
  <2>5. Good(m + 1, c)
    <3> HIDE DEF c
    <3> QED  BY <2>4
  <2> HIDE DEF c, Good
  <2> QED  BY <2>5
<1>4. N \in T
  <2>1. T \in SUBSET Nat
    OBVIOUS
  <2> HIDE DEF T
  <2> QED  BY <1>1, <1>2, <1>3, <2>1, Induction
<1> DEFINE a == CHOOSE b : Eq(b)
<1>5. Eq(a)
  <2>1. \E b : Eq(b)
    BY <1>4
  <2> HIDE DEF Eq
  <2> QED  BY <2>1
<1>6. LayerSector(p, S) = a[N].layer
  BY DEF LayerSector, Start, Take
<1> HIDE DEF a, N
<1>7. a[0] = Start /\ \A k \in 0..N : k # 0 => a[k] = Take(a[k - 1])
  BY <1>1, <1>5
<1> DEFINE Kept(s, k) == /\ RowsSoFar(p, S, s.rest, s.layer)
                         /\ IsFiniteSet(s.rest) /\ Cardinality(s.rest) = N - k
           K == {k \in Nat : k \in 0..N => Kept(a[k], k)}
<1>8. 0 \in K
  <2>1. Start.rest = S /\ Start.layer = [n \in S |-> 0]
    BY DEF Start
  <2>2. \A n \in S : Below(Start.layer, Sources(p, S, n) \ S) = 0
    <3> TAKE n \in S
    <3>1. Sources(p, S, n) \ S = {}
      BY DEF Sources, Inner
    <3>2. {Start.layer[m] + 1 : m \in {}} = {}
      OBVIOUS
    <3> QED  BY <3>1, <3>2 DEF Below, Largest
  <2>3. RowsSoFar(p, S, Start.rest, Start.layer)
    <3>1. Start.layer \in [S -> Nat] /\ \A n \in S : Start.layer[n] = 0
      BY <2>1
    <3>2. \A n \in S : Start.layer[n] = Below(Start.layer, Sources(p, S, n) \ S)
      BY <2>2, <3>1
    <3>3. S \ S = {}
      OBVIOUS
    <3> QED  BY <2>1, <3>1, <3>2, <3>3 DEF RowsSoFar
  <2>4. Kept(Start, 0)
    BY <1>1, <2>1, <2>3 DEF N
  <2> HIDE DEF Kept
  <2> QED  BY <1>7, <2>4
<1>9. ASSUME NEW k \in K
      PROVE  k + 1 \in K
  <2> SUFFICES ASSUME k + 1 \in 0..N PROVE Kept(a[k + 1], k + 1)
    <3> HIDE DEF Kept
    <3> QED  OBVIOUS
  <2> DEFINE s == a[k]
             v == NextTaken(p, s.rest)
             t == a[k + 1]
  <2>1. Kept(s, k) /\ k \in Nat /\ k < N /\ N - k # 0 /\ N - (k + 1) = (N - k) - 1
    <3>1. k \in 0..N /\ k \in Nat /\ k < N
      BY <1>1
    <3>2. Kept(a[k], k)
      <4> HIDE DEF Kept
      <4> QED  BY <3>1
    <3> QED  BY <1>1, <3>1, <3>2
  <2>2. t = Take(s)
    <3>1. k + 1 # 0 /\ (k + 1) - 1 = k
      BY <2>1
    <3> QED  BY <1>7, <3>1
  <2>3. t.rest = s.rest \ {v} /\ t.layer = Deepened(p, s.layer, s.rest \ {v}, v)
    BY <2>2 DEF Take
  <2>4. s.rest # {}
    BY <2>1, FS_EmptySet
  <2>5. v \in s.rest /\ RowsSoFar(p, S, s.rest \ {v}, Deepened(p, s.layer, s.rest \ {v}, v))
    <3>1. RowsSoFar(p, S, s.rest, s.layer)
      BY <2>1
    <3> HIDE DEF s
    <3> QED  BY <2>4, <3>1, NextRow
  <2>6. IsFiniteSet(s.rest \ {v}) /\ Cardinality(s.rest \ {v}) = Cardinality(s.rest) - 1
    <3> HIDE DEF s, v
    <3> QED  BY <2>1, <2>5, FS_RemoveElement
  <2> HIDE DEF s, t, v
  <2>7. Kept(t, k + 1)
    BY <2>1, <2>3, <2>5, <2>6
  <2> QED  BY <2>7 DEF t
<1>10. K = Nat
  <2>1. K \in SUBSET Nat
    OBVIOUS
  <2> HIDE DEF K
  <2> QED  BY <1>8, <1>9, <2>1, Induction
<1>11. Kept(a[N], N)
  <2>1. N \in K /\ N \in 0..N
    BY <1>1, <1>10
  <2> HIDE DEF Kept
  <2> QED  BY <2>1
<1>12. a[N].rest = {}
  BY <1>1, <1>11, FS_EmptySet
<1>13. RowsSoFar(p, S, {}, a[N].layer)
  BY <1>11, <1>12
<1>14. a[N].layer \in [S -> Nat]
       /\ \A n \in S : Ordered(p, S, n) => a[N].layer[n] = Below(a[N].layer, Sources(p, S, n))
  BY <1>13 DEF RowsSoFar
<1> QED  BY <1>6, <1>14

\* So it is in each sector of the layout that is shown.
LEMMA RowsOfCity ==
    ASSUME BuildInv, CityInv, Shown
    PROVE  LongestPaths(CityInput, city)
<1>1. /\ build.at = "built" /\ Layered(CityInput, city) /\ build.present \subseteq Node
  <2>1. city.done = "laid out" /\ build.at = "built" /\ "laid out" \in HasDistricts \ {"districts"}
    BY DEF Shown, CityInv, HasLand, HasDistricts
  <2> QED  BY <2>1 DEF BuildInv, CityInv
<1>2. CityInput.nodes = build.present
  BY DEF CityInput
<1>3. ASSUME NEW s \in Sectors(CityInput),
             NEW n \in DOMAIN city.layer[s], Ordered(CityInput, DOMAIN city.layer[s], n)
      PROVE  city.layer[s][n]
               = Largest({city.layer[s][m] + 1 : m \in Sources(CityInput, DOMAIN city.layer[s], n)})
  <2> DEFINE B == Buildings(CityInput, city, s)
             L == LayerSector(CityInput, B)
  <2>1. city.layer[s] = L
    BY <1>1, <1>3 DEF Layered
  <2>2. B \in SUBSET Nat /\ IsFiniteSet(B)
    <3>1. B \in SUBSET Node
      BY <1>1, <1>2 DEF Buildings
    <3> HIDE DEF B
    <3> QED  BY <3>1, ExplorerAssumption, FS_Subset
  <2>3. /\ L \in [B -> Nat]
        /\ \A m \in B : Ordered(CityInput, B, m) => L[m] = Below(L, Sources(CityInput, B, m))
    <3> HIDE DEF B
    <3> QED  BY <2>2, RowsOfSector
  <2> HIDE DEF B, L
  <2> QED  BY <1>3, <2>1, <2>3 DEF Below
<1> QED  BY <1>3 DEF LongestPaths

\* In every layout shown, whatever the store, a building that is in no cycle and below
\* none stands as many rows down as the longest chain of dependencies that leads to it.
THEOREM RowsFollowDependencies == ExplorerSpec => []RowsAreLongestPaths
<1>1. ExplorerSpec => []BuildInv
  BY BuildInit, BuildKept, PTL DEF ExplorerSpec
<1>2. ExplorerSpec => []CityInv
  BY CityInit, CityKept, PTL DEF ExplorerSpec
<1>3. BuildInv /\ CityInv => RowsAreLongestPaths
  BY RowsOfCity DEF RowsAreLongestPaths
<1> QED  BY <1>1, <1>2, <1>3, PTL

-----------------------------------------------------------------------------
(* Sums.                                                                   *)

\* Of sets of members of a finite set one has no other of them inside.
LEMMA SmallestSet ==
    ASSUME NEW S, IsFiniteSet(S), NEW B \in SUBSET SUBSET S, B # {}
    PROVE  \E T \in B : \A U \in B : U \subseteq T => U = T
<1> DEFINE N == {Cardinality(T) : T \in B}
<1>1. \A T \in B : IsFiniteSet(T) /\ Cardinality(T) \in Nat
  BY FS_Subset, FS_CardinalityType
<1>2. N \in SUBSET Nat /\ N # {}
  BY <1>1
<1>3. PICK n \in N : \A m \in N : n <= m
  <2> HIDE DEF N
  <2> QED  BY <1>2, LeastOf
<1>4. PICK T \in B : Cardinality(T) = n
  OBVIOUS
<1>5. ASSUME NEW U \in B, U \subseteq T PROVE U = T
  <2>1. Cardinality(U) <= Cardinality(T) /\ (Cardinality(U) = Cardinality(T) => U = T)
    BY <1>1, <1>5, FS_Subset
  <2>2. n <= Cardinality(U) /\ n \in Nat /\ Cardinality(U) \in Nat
    BY <1>1, <1>2, <1>3
  <2> QED  BY <1>4, <2>1, <2>2
<1> QED  BY <1>5

\* Sets of members of a finite set, with the empty one and, with each, what has one more.
LEMMA OneByOne ==
    ASSUME NEW S, IsFiniteSet(S), NEW Q \in SUBSET SUBSET S, {} \in Q,
           \A T \in Q : \A x \in S \ T : T \union {x} \in Q
    PROVE  Q = SUBSET S
<1> SUFFICES ASSUME (SUBSET S) \ Q # {} PROVE FALSE
  OBVIOUS
<1>1. PICK T \in (SUBSET S) \ Q : \A U \in (SUBSET S) \ Q : U \subseteq T => U = T
  <2> DEFINE B == (SUBSET S) \ Q
  <2>1. B \in SUBSET SUBSET S /\ B # {}
    OBVIOUS
  <2> HIDE DEF B
  <2>2. \E T \in B : \A U \in B : U \subseteq T => U = T
    BY <2>1, SmallestSet
  <2> QED  BY <2>2 DEF B
<1>2. PICK x : x \in T
  BY <1>1
<1>3. T \ {x} \in Q /\ x \in S \ (T \ {x}) /\ (T \ {x}) \union {x} = T
  BY <1>1, <1>2
<1> QED  BY <1>1, <1>3

\* The sums of a function over the parts of its domain.
IsTable(h, S, f) ==
    /\ SumFunction(f) = h[S] /\ h[{}] = 0
    /\ \A T \in SUBSET S : h[T] \in Int /\ \A x \in T : h[T] = f[x] + h[T \ {x}]

\* The sums that SumFunction goes through: whichever member is taken, what remains is the sum
\* over the others.
LEMMA TableOfSums ==
    ASSUME NEW S, IsFiniteSet(S), NEW f \in [S -> Int]
    PROVE  \E h : IsTable(h, S, f)
<1> DEFINE Taken(T) == CHOOSE x \in T : TRUE
           Sum1(a, T) == IF T = {} THEN 0 ELSE f[Taken(T)] + a[T \ {Taken(T)}]
           UpTo(m) == {T \in SUBSET S : Cardinality(T) <= m}
           Good(m, b) == b = [T \in UpTo(m) |-> Sum1(b, T)]
           N == Cardinality(S)
           Ms == {m \in Nat : \E b : Good(m, b)}
           Eq(a) == a = [T \in SUBSET S |-> Sum1(a, T)]
<1>1. \A T \in SUBSET S : /\ Cardinality(T) \in Nat /\ Cardinality(T) <= N
                          /\ \A x \in T : Cardinality(T \ {x}) = Cardinality(T) - 1
  BY FS_Subset, FS_CardinalityType, FS_RemoveElement
<1>2. \A T \in SUBSET S : T # {} => Taken(T) \in T
  OBVIOUS
<1>3. \A T \in SUBSET S : Cardinality(T) = 0 => T = {}
  BY FS_Subset, FS_EmptySet
<1>4. 0 \in Ms
  <2> DEFINE b == [T \in UpTo(0) |-> 0]
  <2>1. \A T \in UpTo(0) : T = {}
    BY <1>1, <1>3
  <2>2. \A T \in UpTo(0) : Sum1(b, T) = 0
    BY <2>1
  <2>3. Good(0, b)
    <3> HIDE DEF Sum1, UpTo
    <3> QED  BY <2>2
  <2> HIDE DEF b, Good
  <2> QED  BY <2>3
<1>5. ASSUME NEW m \in Ms PROVE m + 1 \in Ms
  <2>1. PICK b : Good(m, b)
    OBVIOUS
  <2> DEFINE d == [T \in UpTo(m + 1) |-> Sum1(b, T)]
  <2>2. \A T \in UpTo(m) : b[T] = Sum1(b, T)
    <3> HIDE DEF Sum1, UpTo
    <3> QED  BY <2>1
  <2>3. \A T \in UpTo(m) : T \in UpTo(m + 1) /\ d[T] = b[T]
    <3>1. \A T \in UpTo(m) : T \in UpTo(m + 1)
      BY <1>1
    <3> HIDE DEF Sum1, UpTo
    <3> QED  BY <2>2, <3>1
  <2>4. \A T \in UpTo(m + 1) : T # {} => T \ {Taken(T)} \in UpTo(m)
    <3> TAKE T \in UpTo(m + 1)
    <3> HAVE T # {}
    <3>1. T \in SUBSET S /\ Taken(T) \in T /\ Cardinality(T) <= m + 1
      BY <1>2
    <3> HIDE DEF Taken
    <3>2. Cardinality(T \ {Taken(T)}) = Cardinality(T) - 1 /\ Cardinality(T) \in Nat
      BY <1>1, <3>1
    <3>3. T \ {Taken(T)} \in SUBSET S /\ m \in Nat
      BY <3>1
    <3> QED  BY <3>1, <3>2, <3>3
  <2>5. \A T \in UpTo(m + 1) : Sum1(b, T) = Sum1(d, T)
    <3> HIDE DEF UpTo, d, Taken
    <3> QED  BY <2>3, <2>4
  <2>6. Good(m + 1, d)
    <3> HIDE DEF Sum1, UpTo
    <3> QED  BY <2>5
  <2> HIDE DEF d, Good
  <2> QED  BY <2>6
<1>6. Ms = Nat
  <2> HIDE DEF Good
  <2> QED  BY <1>4, <1>5, Induction
<1>7. N \in Nat /\ UpTo(N) = SUBSET S
  BY <1>1
<1>8. PICK b : Eq(b)
  <2>1. PICK b : Good(N, b)
    <3> HIDE DEF Good
    <3> QED  BY <1>6, <1>7
  <2> HIDE DEF Sum1, UpTo
  <2> QED  BY <1>7, <2>1
<1> DEFINE h == CHOOSE a : Eq(a)
<1>9. Eq(h)
  <2> HIDE DEF Eq
  <2> QED  BY <1>8
<1>10. SumFunction(f) = h[S]
  <2>1. DOMAIN f = S
    OBVIOUS
  <2> QED  BY <2>1 DEF SumFunction, SumFunctionOnSet, FoldFunctionOnSet, MapThenFoldSet
<1> HIDE DEF h
<1>11. \A T \in SUBSET S : h[T] = Sum1(h, T)
  <2> HIDE DEF Sum1
  <2> QED  BY <1>9
<1>12. h[{}] = 0
  BY <1>11
<1> DEFINE Right(T) == h[T] \in Int /\ \A x \in T : h[T] = f[x] + h[T \ {x}]
           Bad == {T \in SUBSET S : ~Right(T)}
<1>13. Bad = {}
  <2> SUFFICES ASSUME Bad # {} PROVE FALSE
    OBVIOUS
  <2>1. PICK T \in Bad : \A U \in Bad : U \subseteq T => U = T
    <3>1. Bad \in SUBSET SUBSET S
      OBVIOUS
    <3> HIDE DEF Bad
    <3> QED  BY <3>1, SmallestSet
  <2>2. \A x \in T : Right(T \ {x})
    <3> TAKE x \in T
    <3>1. T \ {x} \in SUBSET S /\ T \ {x} \subseteq T /\ T \ {x} # T
      OBVIOUS
    <3> HIDE DEF Right
    <3> QED  BY <2>1, <3>1
  <2>3. T # {}
    <3>1. Right({})
      BY <1>12
    <3> HIDE DEF Right
    <3> QED  BY <2>1, <3>1
  <2>4. PICK v \in T : h[T] = f[v] + h[T \ {v}]
    BY <1>2, <1>11, <2>3
  <2>5. h[T] \in Int
    BY <2>2, <2>4
  <2>6. ASSUME NEW x \in T, x # v PROVE h[T] = f[x] + h[T \ {x}]
    <3>1. x \in T \ {v} /\ v \in T \ {x} /\ (T \ {v}) \ {x} = (T \ {x}) \ {v}
      BY <2>6
    <3> DEFINE rest == (T \ {v}) \ {x}
    <3>2. h[T \ {v}] = f[x] + h[rest] /\ h[T \ {x}] = f[v] + h[rest]
      BY <2>2, <3>1
    <3>3. h[rest] \in Int
      <4>1. rest \in SUBSET S /\ rest \subseteq T /\ rest # T
        BY <2>6
      <4> HIDE DEF rest
      <4> QED  BY <2>1, <4>1
    <3>4. f[x] \in Int /\ f[v] \in Int
      OBVIOUS
    <3> HIDE DEF rest
    <3> QED  BY <2>4, <3>2, <3>3, <3>4
  <2> QED  BY <2>1, <2>4, <2>5, <2>6
<1>14. IsTable(h, S, f)
  BY <1>10, <1>12, <1>13 DEF IsTable
<1> QED  BY <1>14

\* The sum over a part and one more is no more than the whole, if nothing is negative.
LEMMA SumGrows ==
    ASSUME NEW S, IsFiniteSet(S), NEW f \in [S -> Nat], NEW A \in SUBSET S, NEW t \in S \ A
    PROVE  /\ SumFunction(f) \in Nat /\ SumFunction([y \in A |-> f[y]]) \in Nat
           /\ SumFunction([y \in A |-> f[y]]) + f[t] <= SumFunction(f)
           /\ S = A \union {t} => SumFunction(f) = SumFunction([y \in A |-> f[y]]) + f[t]
<1> DEFINE g == [y \in A |-> f[y]]
<1>0. f \in [S -> Int] /\ g \in [A -> Int] /\ IsFiniteSet(A)
  BY FS_Subset
<1>1. PICK h : IsTable(h, S, f)
  BY <1>0, TableOfSums
<1>2. PICK k : IsTable(k, A, g)
  <2> HIDE DEF g
  <2> QED  BY <1>0, TableOfSums
<1>3. \A T \in SUBSET S : \A x \in S \ T : h[T \union {x}] = f[x] + h[T]
  <2> TAKE T \in SUBSET S
  <2> TAKE x \in S \ T
  <2>1. T \union {x} \in SUBSET S /\ x \in T \union {x} /\ (T \union {x}) \ {x} = T
    OBVIOUS
  <2> QED  BY <1>1, <2>1 DEF IsTable
<1>4. h[A] = k[A]
  <2> DEFINE Q == {T \in SUBSET A : h[T] = k[T]}
  <2>1. {} \in Q
    BY <1>1, <1>2 DEF IsTable
  <2>2. ASSUME NEW T \in Q, NEW x \in A \ T PROVE T \union {x} \in Q
    <3>1. T \union {x} \in SUBSET A /\ x \in T \union {x} /\ (T \union {x}) \ {x} = T
      OBVIOUS
    <3>2. k[T \union {x}] = g[x] + k[T] /\ g[x] = f[x]
      BY <1>2, <3>1 DEF IsTable
    <3> QED  BY <1>3, <3>1, <3>2
  <2>3. Q = SUBSET A
    <3>1. IsFiniteSet(A)
      BY FS_Subset
    <3> HIDE DEF Q
    <3>2. Q \in SUBSET SUBSET A
      BY DEF Q
    <3> QED  BY <2>1, <2>2, <3>1, <3>2, OneByOne
  <2>4. A \in Q
    <3> HIDE DEF Q
    <3> QED  BY <2>3
  <2> QED  BY <2>4
<1>5. ASSUME NEW T \in SUBSET S PROVE h[T] \in Nat => h[S] >= h[T] /\ h[S] \in Nat
  <2> SUFFICES ASSUME h[T] \in Nat PROVE h[S] >= h[T] /\ h[S] \in Nat
    OBVIOUS
  <2> DEFINE C    == S \ T
             Over == {U \in SUBSET C : h[T \union U] \in Nat /\ h[T \union U] >= h[T]}
  <2>1. {} \in Over
    <3>1. T \union {} = T
      OBVIOUS
    <3> QED  BY <1>1, <3>1 DEF IsTable
  <2>2. ASSUME NEW U \in Over, NEW x \in C \ U PROVE U \union {x} \in Over
    <3>1. /\ T \union (U \union {x}) = (T \union U) \union {x} /\ T \union U \in SUBSET S
          /\ x \in S \ (T \union U) /\ U \union {x} \in SUBSET C
      OBVIOUS
    <3>2. h[T \union (U \union {x})] = f[x] + h[T \union U] /\ f[x] \in Nat
      BY <1>3, <3>1
    <3>3. h[T \union U] \in Nat /\ h[T \union U] >= h[T]
      OBVIOUS
    <3> QED  BY <3>1, <3>2, <3>3
  <2>3. IsFiniteSet(C) /\ Over \in SUBSET SUBSET C /\ C \in SUBSET C
    BY FS_Difference
  <2>4. C \in Over
    <3> HIDE DEF Over, C
    <3>1. \A U \in Over : \A x \in C \ U : U \union {x} \in Over
      BY <2>2
    <3>2. Over = SUBSET C
      BY <2>1, <2>3, <3>1, OneByOne
    <3> QED  BY <2>3, <3>2
  <2>5. T \union C = S
    OBVIOUS
  <2> QED  BY <2>4, <2>5
<1>6. h[A] \in Nat
  <2> DEFINE Q == {T \in SUBSET S : h[T] \in Nat}
  <2>1. {} \in Q
    BY <1>1 DEF IsTable
  <2>2. ASSUME NEW T \in Q, NEW x \in S \ T PROVE T \union {x} \in Q
    <3>1. h[T \union {x}] = f[x] + h[T] /\ f[x] \in Nat /\ h[T] \in Nat
      BY <1>3
    <3>2. T \union {x} \in SUBSET S
      OBVIOUS
    <3> QED  BY <3>1, <3>2
  <2>3. Q = SUBSET S
    <3>1. Q \in SUBSET SUBSET S
      OBVIOUS
    <3> HIDE DEF Q
    <3> QED  BY <2>1, <2>2, <3>1, OneByOne
  <2> QED  BY <2>3
<1>7. h[A \union {t}] = f[t] + h[A] /\ A \union {t} \in SUBSET S /\ f[t] \in Nat
  BY <1>3
<1>8. h[S] >= h[A \union {t}] /\ h[S] \in Nat
  BY <1>5, <1>6, <1>7
<1> HIDE DEF g
<1>9. SumFunction(g) = h[A]
  BY <1>2, <1>4 DEF IsTable
<1> QED  BY <1>1, <1>6, <1>7, <1>8, <1>9 DEF g, IsTable

-----------------------------------------------------------------------------
(* Sizes of buildings, and buildings in a row.                             *)

\* Of finitely many numbers one is the least and one the greatest.
LEMMA LeastAndGreatest ==
    ASSUME NEW S, IsFiniteSet(S), S # {}, NEW g \in [S -> Int]
    PROVE  LET T == {g[x] : x \in S}
           IN  /\ Min(T) \in Int /\ Max(T) \in Int
               /\ \A x \in S : Min(T) <= g[x] /\ g[x] <= Max(T)
               /\ \E x \in S : g[x] = Min(T)
               /\ \E x \in S : g[x] = Max(T)
<1> DEFINE T == {g[x] : x \in S}
           Q == {U \in SUBSET S : U # {} => /\ \E x \in U : \A y \in U : g[x] <= g[y]
                                            /\ \E x \in U : \A y \in U : g[y] <= g[x]}
<1>1. {} \in Q
  OBVIOUS
<1>2. ASSUME NEW U \in Q, NEW v \in S \ U PROVE U \union {v} \in Q
  <2>1. CASE U = {}
    <3>1. U \union {v} = {v} /\ g[v] <= g[v]
      BY <2>1
    <3> QED  BY <3>1
  <2>2. CASE U # {}
    <3>1. PICK x \in U : \A y \in U : g[x] <= g[y]
      BY <2>2
    <3>2. PICK z \in U : \A y \in U : g[y] <= g[z]
      BY <2>2
    <3>3. \A y \in S : g[y] \in Int
      OBVIOUS
    <3>4. \E w \in U \union {v} : \A y \in U \union {v} : g[w] <= g[y]
      <4>1. CASE g[v] <= g[x]
        BY <3>1, <3>3, <4>1
      <4>2. CASE g[x] <= g[v]
        BY <3>1, <3>3, <4>2
      <4> QED  BY <3>3, <4>1, <4>2
    <3>5. \E w \in U \union {v} : \A y \in U \union {v} : g[y] <= g[w]
      <4>1. CASE g[v] <= g[z]
        BY <3>2, <3>3, <4>1
      <4>2. CASE g[z] <= g[v]
        BY <3>2, <3>3, <4>2
      <4> QED  BY <3>3, <4>1, <4>2
    <3> QED  BY <3>4, <3>5
  <2> QED  BY <2>1, <2>2
<1>3. Q = SUBSET S
  <2>1. Q \in SUBSET SUBSET S
    OBVIOUS
  <2> HIDE DEF Q
  <2> QED  BY <1>1, <1>2, <2>1, OneByOne
<1>4. S \in Q
  <2> HIDE DEF Q
  <2> QED  BY <1>3
<1>5. PICK x \in S : \A y \in S : g[x] <= g[y]
  BY <1>4
<1>6. PICK z \in S : \A y \in S : g[y] <= g[z]
  BY <1>4
<1>7. /\ T \in SUBSET Int /\ g[x] \in T /\ g[z] \in T
      /\ (\A m \in T : g[x] <= m) /\ (\A m \in T : m <= g[z])
  BY <1>5, <1>6
<1> HIDE DEF T, Q
<1>8. Min(T) \in T /\ \A m \in T : Min(T) <= m
  BY <1>7 DEF Min
<1>9. Max(T) \in T /\ \A m \in T : m <= Max(T)
  BY <1>7 DEF Max
<1> QED  BY <1>7, <1>8, <1>9 DEF T

\* What Largest is of finitely many naturals.
LEMMA LargestOf ==
    ASSUME NEW S, IsFiniteSet(S), NEW g \in [S -> Nat]
    PROVE  LET T == {g[x] : x \in S}
           IN  /\ Largest(T) \in Nat
               /\ \A x \in S : g[x] <= Largest(T)
               /\ S = {} => Largest(T) = 0
               /\ S # {} => \E x \in S : g[x] = Largest(T)
<1> DEFINE T == {g[x] : x \in S}
<1>1. CASE S = {}
  <2>1. T = {}
    BY <1>1
  <2> QED  BY <1>1, <2>1 DEF Largest
<1>2. CASE S # {}
  <2>1. g \in [S -> Int] /\ T # {}
    BY <1>2
  <2>2. /\ \A x \in S : g[x] <= Max(T)
        /\ \E x \in S : g[x] = Max(T)
    BY <1>2, <2>1, LeastAndGreatest
  <2>3. Largest(T) = Max(T)
    BY <2>1 DEF Largest
  <2> QED  BY <1>2, <2>2, <2>3
<1> QED  BY <1>1, <1>2

\* The ranks in a finite set are different and below its size.
LEMMA Ranked ==
    ASSUME NEW S \in SUBSET Nat, IsFiniteSet(S), NEW n \in S
    PROVE  /\ Cardinality(S) \in Nat \ {0} /\ Rank(n, S) \in Nat
           /\ Rank(n, S) <= Cardinality(S) - 1
           /\ \A m \in S : m < n => Rank(m, S) + 1 <= Rank(n, S)
<1> DEFINE Up(k) == {m \in S : m < k}
<1>1. \A k \in S : Up(k) \in SUBSET S /\ k \notin Up(k)
  OBVIOUS
<1>2. \A k \in S : /\ IsFiniteSet(Up(k)) /\ Cardinality(Up(k)) \in Nat
                   /\ Cardinality(Up(k) \union {k}) = Cardinality(Up(k)) + 1
  <2> HIDE DEF Up
  <2> QED  BY <1>1, FS_Subset, FS_CardinalityType, FS_AddElement
<1>3. Cardinality(S) \in Nat
  BY FS_CardinalityType
<1>4. Cardinality(Up(n)) + 1 <= Cardinality(S)
  <2>1. Up(n) \union {n} \in SUBSET S
    OBVIOUS
  <2> HIDE DEF Up
  <2>2. Cardinality(Up(n) \union {n}) <= Cardinality(S)
    BY <2>1, FS_Subset
  <2> QED  BY <1>2, <2>2
<1>5. ASSUME NEW m \in S, m < n PROVE Cardinality(Up(m)) + 1 <= Cardinality(Up(n))
  <2>1. Up(m) \union {m} \in SUBSET Up(n)
    <3>1. \A j \in S : j < m => j < n
      BY <1>5
    <3> QED  BY <1>5, <3>1
  <2> HIDE DEF Up
  <2>2. Cardinality(Up(m) \union {m}) <= Cardinality(Up(n))
    BY <1>2, <2>1, FS_Subset
  <2> QED  BY <1>2, <2>2
<1> HIDE DEF Up
<1>6. \A k \in S : Rank(k, S) = Cardinality(Up(k))
  BY DEF Rank, Up
<1>7. Cardinality(S) - 1 \in Nat /\ Cardinality(Up(n)) <= Cardinality(S) - 1
  <2>1. \A x, y \in Nat : x + 1 <= y => y - 1 \in Nat /\ x <= y - 1
    OBVIOUS
  <2>2. Cardinality(Up(n)) \in Nat
    BY <1>2
  <2> QED  BY <1>3, <1>4, <2>1, <2>2
<1>8. /\ Rank(n, S) = Cardinality(Up(n)) /\ Cardinality(Up(n)) \in Nat
      /\ \A m \in S : m < n => Rank(m, S) + 1 <= Rank(n, S)
  BY <1>2, <1>5, <1>6
<1>9. Cardinality(S) # 0
  BY FS_EmptySet
<1> QED  BY <1>3, <1>7, <1>8, <1>9

\* One more of something is at least that much more.
LEMMA OneMore ==
    ASSUME NEW i \in Int, NEW j \in Int, NEW s \in Nat, i + 1 <= j
    PROVE  i * s + s <= j * s /\ i * s \in Int /\ j * s \in Int
<1>1. PICK k \in Nat : j = i + 1 + k
  <2>1. j - i - 1 \in Nat /\ j = i + 1 + (j - i - 1)
    OBVIOUS
  <2> QED  BY <2>1
<1>2. k * s \in Nat
  OBVIOUS
<1>3. j * s = i * s + s + k * s
  BY <1>1
<1> QED  BY <1>2, <1>3

-----------------------------------------------------------------------------
(* Buildings in a row.                                                       *)

Classes == DOMAIN Footprint
Classed(c, N) == c.arch \in [N -> Classes]

Widths == 0..2080
Depths == 0..1600

\* The sizes of the classes.
LEMMA Footprints ==
    ASSUME NEW c, NEW N, Classed(c, N), NEW n \in N
    PROVE  /\ Width(c, n) \in Widths /\ Depth(c, n) \in Depths
           /\ c.arch[n] = "gatehouse" => Width(c, n) = 7 * Unit /\ Depth(c, n) = 7 * Unit
<1>1. c.arch[n] \in Classes
  BY DEF Classed
<1>2. \A a \in Classes : /\ Footprint[a][1] \in 0..26 /\ Footprint[a][2] \in 0..20
                         /\ a = "gatehouse" => Footprint[a][1] = 7 /\ Footprint[a][2] = 7
  <2>1. Classes = {"headquarters", "command", "comms", "bunker", "plant", "transmit",
                   "gatehouse", "outpost", "record", "zone", "route"}
    BY DEF Classes, Footprint
  <2>2. /\ Footprint["headquarters"] = <<26, 20>> /\ Footprint["command"] = <<22, 17>>
        /\ Footprint["comms"] = <<9, 9>> /\ Footprint["bunker"] = <<18, 18>>
        /\ Footprint["plant"] = <<10, 10>> /\ Footprint["transmit"] = <<14, 10>>
        /\ Footprint["gatehouse"] = <<7, 7>> /\ Footprint["outpost"] = <<5, 5>>
        /\ Footprint["record"] = <<3, 3>> /\ Footprint["zone"] = <<0, 0>>
        /\ Footprint["route"] = <<2, 2>>
    BY DEF Footprint
  <2> SUFFICES ASSUME NEW a \in Classes
               PROVE  /\ Footprint[a][1] \in 0..26 /\ Footprint[a][2] \in 0..20
                      /\ a = "gatehouse" => Footprint[a][1] = 7 /\ Footprint[a][2] = 7
    OBVIOUS
  <2>3. PICK w \in 0..26, d \in 0..20 :
          Footprint[a] = <<w, d>> /\ (a = "gatehouse" => w = 7 /\ d = 7)
    BY <2>1, <2>2
  <2>4. Footprint[a][1] = w /\ Footprint[a][2] = d
    BY <2>3
  <2> QED  BY <2>3, <2>4
<1>3. /\ \A i \in 0..26 : i * 80 \in Widths
      /\ \A i \in 0..20 : i * 80 \in Depths
  BY DEF Widths, Depths
<1> DEFINE x == Footprint[c.arch[n]][1]
           y == Footprint[c.arch[n]][2]
<1>4. /\ Width(c, n) = x * 80 /\ Depth(c, n) = y * 80 /\ x \in 0..26 /\ y \in 0..20
      /\ c.arch[n] = "gatehouse" => x = 7 /\ y = 7
  BY <1>1, <1>2 DEF Width, Depth, Unit
<1> HIDE DEF x, y
<1> QED  BY <1>3, <1>4 DEF Unit

\* Widths and depths are numbers.
LEMMA SizesAreNumbers == \A i : i \in Widths \/ i \in Depths => i \in Nat
<1>1. \A i \in Widths : i \in Nat
  BY SMTT(60) DEF Widths
<1>2. \A i \in Depths : i \in Nat
  BY SMTT(60) DEF Depths
<1> QED  BY <1>1, <1>2

\* The widest and the deepest of some buildings.
LEMMA WidestOf ==
    ASSUME NEW c, NEW N, IsFiniteSet(N), Classed(c, N), NEW S \in SUBSET N
    PROVE  /\ IsFiniteSet(S)
           /\ MaxWidth(c, S) \in Widths /\ MaxDepth(c, S) \in Depths
           /\ \A n \in S : Width(c, n) <= MaxWidth(c, S) /\ Depth(c, n) <= MaxDepth(c, S)
<1> DEFINE f == [n \in S |-> Width(c, n)]
           g == [n \in S |-> Depth(c, n)]
<1>1. IsFiniteSet(S)
  BY FS_Subset
<1>2. \A n \in S : f[n] \in Widths /\ g[n] \in Depths
  <2> TAKE n \in S
  <2>1. n \in N
    OBVIOUS
  <2>2. Width(c, n) \in Widths /\ Depth(c, n) \in Depths
    BY <2>1, Footprints
  <2> QED  BY <2>2
<1>3. f \in [S -> Nat] /\ g \in [S -> Nat]
  <2>1. \A n \in S : Width(c, n) \in Nat /\ Depth(c, n) \in Nat
    <3> TAKE n \in S
    <3>1. f[n] \in Widths /\ g[n] \in Depths /\ f[n] = Width(c, n) /\ g[n] = Depth(c, n)
      BY <1>2
    <3> HIDE DEF f, g
    <3> QED  BY <3>1, SizesAreNumbers
  <2> QED  BY <2>1
<1> DEFINE F == Largest({f[x] : x \in S})
           G == Largest({g[x] : x \in S})
<1>4. MaxWidth(c, S) = F /\ MaxDepth(c, S) = G
  <2>1. {f[x] : x \in S} = {Width(c, n) : n \in S} /\ {g[x] : x \in S} = {Depth(c, n) : n \in S}
    OBVIOUS
  <2> QED  BY <2>1 DEF MaxWidth, MaxDepth
<1>5. \A n \in S : f[n] = Width(c, n) /\ g[n] = Depth(c, n)
  OBVIOUS
<1> HIDE DEF f, g
<1>6. F \in Widths /\ \A x \in S : f[x] <= F
  <2>1. /\ F \in Nat /\ \A x \in S : f[x] <= F
        /\ S = {} => F = 0
        /\ S # {} => \E x \in S : f[x] = F
    BY <1>1, <1>3, LargestOf
  <2>2. 0 \in Widths
    BY DEF Widths
  <2> HIDE DEF F
  <2> QED  BY <1>2, <2>1, <2>2
<1>7. G \in Depths /\ \A x \in S : g[x] <= G
  <2>1. /\ G \in Nat /\ \A x \in S : g[x] <= G
        /\ S = {} => G = 0
        /\ S # {} => \E x \in S : g[x] = G
    BY <1>1, <1>3, LargestOf
  <2>2. 0 \in Depths
    BY DEF Depths
  <2> HIDE DEF G
  <2> QED  BY <1>2, <2>1, <2>2
<1> HIDE DEF F, G
<1> QED  BY <1>1, <1>4, <1>5, <1>6, <1>7

\* How long a row is whose buildings are a step apart, and how far along the middle of each is.
LengthOf(c, S, step) == (Cardinality(S) - 1) * step + MaxWidth(c, S)
Along(c, S, step, n) == MaxWidth(c, S) \div 2 + Rank(n, S) * step

\* In a row as wide as its steps make it the buildings stand inside, one after the other.
LEMMA InARow ==
    ASSUME NEW c, NEW N \in SUBSET Nat, IsFiniteSet(N), Classed(c, N),
           NEW S \in SUBSET N, NEW step \in Nat, MaxWidth(c, S) <= step, NEW n \in S
    PROVE  /\ LengthOf(c, S, step) \in Nat /\ Along(c, S, step, n) \in Int
           /\ Width(c, n) \div 2 <= Along(c, S, step, n)
           /\ Along(c, S, step, n) + Width(c, n) \div 2 <= LengthOf(c, S, step)
           /\ \A m \in S : m < n =>
                Along(c, S, step, m) + Width(c, m) \div 2
                  <= Along(c, S, step, n) - Width(c, n) \div 2
<1> DEFINE mw  == MaxWidth(c, S)
           k   == Cardinality(S) - 1
<1>1. /\ mw \in Nat /\ IsFiniteSet(S)
      /\ \A m \in S : Width(c, m) \in Nat /\ Width(c, m) <= mw
  <2>1. /\ IsFiniteSet(S)
        /\ mw \in Widths /\ MaxDepth(c, S) \in Depths
        /\ \A m \in S : Width(c, m) <= mw /\ Depth(c, m) <= MaxDepth(c, S)
    BY WidestOf
  <2> HIDE DEF mw
  <2>2. \A m \in S : Width(c, m) \in Widths
    <3> TAKE m \in S
    <3>1. m \in N
      OBVIOUS
    <3> QED  BY <3>1, Footprints
  <2>3. Widths \subseteq Nat
    BY DEF Widths
  <2> QED  BY <2>1, <2>2, <2>3
<1>2. /\ k \in Nat /\ Rank(n, S) \in Nat /\ Rank(n, S) <= k
      /\ \A m \in S : Rank(m, S) \in Nat /\ (m < n => Rank(m, S) + 1 <= Rank(n, S))
  <2>1. S \in SUBSET Nat
    OBVIOUS
  <2> QED  BY <1>1, <2>1, Ranked
<1>3. /\ Rank(n, S) * step \in Nat /\ k * step \in Nat /\ Rank(n, S) * step <= k * step
  <2>1. CASE Rank(n, S) = k
    BY <1>2, <2>1
  <2>2. CASE Rank(n, S) + 1 <= k
    BY <1>2, <2>2, OneMore
  <2> QED  BY <1>2, <2>1, <2>2
<1> HIDE DEF mw, k
<1>4. ASSUME NEW m \in S, m < n
      PROVE  Along(c, S, step, m) + Width(c, m) \div 2
               <= Along(c, S, step, n) - Width(c, n) \div 2
  <2>1. Rank(m, S) * step + step <= Rank(n, S) * step /\ Rank(m, S) * step \in Int
    BY <1>2, <1>4, OneMore
  <2> DEFINE a == Rank(m, S) * step
             b == Rank(n, S) * step
  <2>2. a \in Int /\ b \in Int /\ a + step <= b
    BY <1>3, <2>1
  <2>6. Along(c, S, step, m) = mw \div 2 + a /\ Along(c, S, step, n) = mw \div 2 + b
    BY DEF Along, mw
  <2> HIDE DEF a, b
  <2>3. Width(c, m) \div 2 + Width(c, n) \div 2 <= step
    <3>1. mw <= step /\ step \in Nat
      BY DEF mw
    <3>2. /\ Width(c, m) \in Nat /\ Width(c, m) <= mw
          /\ Width(c, n) \in Nat /\ Width(c, n) <= mw /\ mw \in Nat
      BY <1>1
    <3> QED  BY <3>1, <3>2
  <2>4. mw \div 2 \in Int /\ Width(c, m) \div 2 \in Int /\ Width(c, n) \div 2 \in Int
    BY <1>1
  <2>5. mw \div 2 + a + Width(c, m) \div 2 <= mw \div 2 + b - Width(c, n) \div 2
    BY <2>2, <2>3, <2>4
  <2> QED  BY <2>2, <2>4, <2>5, <2>6
<1>5. /\ LengthOf(c, S, step) \in Nat /\ Along(c, S, step, n) \in Int
      /\ Width(c, n) \div 2 <= Along(c, S, step, n)
      /\ Along(c, S, step, n) + Width(c, n) \div 2 <= LengthOf(c, S, step)
  <2> DEFINE b == Rank(n, S) * step
             d == k * step
  <2>1. b \in Nat /\ d \in Nat /\ b <= d
    BY <1>3
  <2>2. LengthOf(c, S, step) = d + mw /\ Along(c, S, step, n) = mw \div 2 + b
    BY DEF LengthOf, Along, mw, k
  <2> HIDE DEF b, d
  <2>3. d + mw \in Nat /\ mw \div 2 + b \in Int /\ Width(c, n) \div 2 <= mw \div 2 + b
        /\ mw \div 2 + b + Width(c, n) \div 2 <= d + mw
    BY <1>1, <2>1
  <2> QED  BY <2>2, <2>3
<1> QED  BY <1>4, <1>5

-----------------------------------------------------------------------------
(* The bands of sectors.                                                   *)

IsPayload(p) == p.nodes \in SUBSET (Nat \ {0}) /\ IsFiniteSet(p.nodes)

\* A whole number of times that something goes into a natural.
LEMMA Quotients ==
    ASSUME NEW n \in Nat, NEW k \in Nat \ {0}
    PROVE  n \div k \in Nat /\ 0 \div k = 0
OBVIOUS

\* There is a number of columns.
LEMMA ColumnsAre ==
    ASSUME NEW n \in Nat \ {0}
    PROVE  Columns(n) \in Nat \ {0}
<1>1. CASE n <= 3
  BY <1>1 DEF Columns
<1>2. CASE ~(n <= 3)
  <2> DEFINE K == {k \in Nat : k * k >= n}
  <2>1. n \in K
    <3>1. n * n >= 1 * n
      BY OneMore
    <3> QED  BY <3>1
  <2>2. PICK k \in K : \A m \in K : k <= m
    <3>1. K \in SUBSET Nat /\ K # {}
      BY <2>1
    <3> HIDE DEF K
    <3> QED  BY <3>1, LeastOf
  <2>3. k \in Nat /\ k * k >= n /\ k <= n /\ k # 0
    BY <2>1, <2>2
  <2>4. (k - 1) * (k - 1) < n
    <3>1. k - 1 \in Nat /\ k - 1 \notin K
      BY <2>2, <2>3
    <3>2. (k - 1) * (k - 1) \in Nat
      BY <3>1
    <3> QED  BY <3>1, <3>2
  <2>5. \E j \in 1..n : j * j >= n /\ (j - 1) * (j - 1) < n
    BY <2>3, <2>4
  <2>6. Columns(n) = CHOOSE j \in 1..n : j * j >= n /\ (j - 1) * (j - 1) < n
    BY <1>2 DEF Columns
  <2>7. Columns(n) \in 1..n
    BY <2>5, <2>6
  <2> QED  BY <2>7
<1> QED  BY <1>1, <1>2

\* Sectors stand in bands, from the first to the last.
LEMMA BandsAre ==
    ASSUME NEW p, IsPayload(p), Sectors(p) # {}
    PROVE  /\ LastBand(p) \in Nat
           /\ \A s \in Sectors(p) : Band(p, s) \in 0..LastBand(p)
           /\ \E s \in Sectors(p) : Band(p, s) = 0
           /\ \E s \in Sectors(p) : Band(p, s) = LastBand(p)
<1> DEFINE S == Sectors(p)
           k == Columns(Cardinality(S))
           g == [s \in S |-> Band(p, s)]
<1>1. S \in SUBSET Nat /\ IsFiniteSet(S) /\ Cardinality(S) \in Nat \ {0}
  <2>1. S \in SUBSET p.nodes /\ p.nodes \in SUBSET Nat /\ IsFiniteSet(p.nodes)
    BY DEF Sectors, Nodes, IsPayload
  <2>2. IsFiniteSet(S)
    BY <2>1, FS_Subset
  <2>3. Cardinality(S) \in Nat /\ Cardinality(S) # 0
    BY <2>2, FS_CardinalityType, FS_EmptySet
  <2> QED  BY <2>1, <2>2, <2>3
<1>2. k \in Nat \ {0}
  BY <1>1, ColumnsAre
<1>3. \A s \in S : Band(p, s) = Rank(s, S) \div k
  BY DEF Band
<1> HIDE DEF S, k
<1>4. \A s \in S : Band(p, s) \in Nat
  <2> TAKE s \in S
  <2>1. Rank(s, S) \in Nat
    BY <1>1, Ranked
  <2> QED  BY <1>2, <1>3, <2>1, Quotients
<1>5. \E s \in S : Band(p, s) = 0
  <2>1. PICK s \in S : \A t \in S : s <= t
    BY <1>1, LeastOf DEF S
  <2>2. {m \in S : m < s} = {}
    <3>1. \A m \in S : m \in Nat /\ s \in Nat /\ s <= m
      BY <1>1, <2>1
    <3> QED  BY <3>1
  <2>3. Rank(s, S) = 0
    BY <2>2, FS_EmptySet DEF Rank
  <2>4. Band(p, s) = 0
    BY <1>2, <1>3, <2>3, Quotients
  <2> QED  BY <2>4
<1>6. g \in [S -> Nat] /\ S # {} /\ \A s \in S : g[s] = Band(p, s)
  BY <1>4 DEF S
<1> DEFINE top == Largest({g[x] : x \in S})
<1>7. LastBand(p) = top
  <2>1. {g[x] : x \in S} = {Band(p, s) : s \in S}
    BY <1>6
  <2> QED  BY <2>1 DEF LastBand, S
<1> HIDE DEF g
<1>8. /\ top \in Nat
      /\ \A x \in S : g[x] <= top
      /\ \E x \in S : g[x] = top
  BY <1>1, <1>6, LargestOf
<1> HIDE DEF top
<1>9. \A s \in S : Band(p, s) \in 0..top
  BY <1>4, <1>6, <1>8
<1> QED  BY <1>5, <1>6, <1>7, <1>8, <1>9 DEF S

\* Every band lies south of those before it, with a gap for the boulevard.
LEMMA BandsApart ==
    ASSUME NEW p, NEW c, IsPayload(p), \A s \in Sectors(p) : c.plan[s].d \in Nat
    PROVE  /\ \A b \in Nat : /\ BandDepth(p, c, b) \in Nat /\ BandTop(p, c, b) \in Int
                             /\ \A s \in InBand(p, b) : c.plan[s].d <= BandDepth(p, c, b)
           /\ \A a, b \in Nat : a < b =>
                BandTop(p, c, a) + BandDepth(p, c, a) + BandGap <= BandTop(p, c, b)
<1>1. ASSUME NEW b \in Nat
      PROVE  /\ BandDepth(p, c, b) \in Nat
             /\ \A s \in InBand(p, b) : c.plan[s].d <= BandDepth(p, c, b)
  <2> DEFINE S == InBand(p, b)
             g == [s \in S |-> c.plan[s].d]
  <2>1. S \in SUBSET Sectors(p) /\ IsFiniteSet(S)
    <3>1. S \in SUBSET Sectors(p) /\ Sectors(p) \in SUBSET p.nodes /\ IsFiniteSet(p.nodes)
      BY DEF InBand, Sectors, Nodes, IsPayload
    <3> HIDE DEF S
    <3>2. IsFiniteSet(S)
      BY <3>1, FS_Subset
    <3> QED  BY <3>1, <3>2
  <2>2. g \in [S -> Nat] /\ \A s \in S : g[s] = c.plan[s].d
    <3> HIDE DEF S
    <3> QED  BY <2>1
  <2>3. BandDepth(p, c, b) = Largest({g[s] : s \in S})
    <3>1. {g[s] : s \in S} = {c.plan[s].d : s \in S}
      BY <2>2
    <3> QED  BY <3>1 DEF BandDepth
  <2> HIDE DEF S, g
  <2>4. Largest({g[s] : s \in S}) \in Nat /\ \A s \in S : g[s] <= Largest({g[x] : x \in S})
    BY <2>1, <2>2, LargestOf
  <2> QED  BY <2>2, <2>3, <2>4 DEF S
<1> DEFINE F(b) == [k \in 0..b - 1 |-> BandDepth(p, c, k) + BandGap]
<1>2. BandGap \in Nat /\ BandGap = 3200
  BY DEF BandGap, TrunkOffset, Unit
<1>3. \A b \in Nat : F(b) \in [0..b - 1 -> Nat] /\ IsFiniteSet(0..b - 1)
  <2> TAKE b \in Nat
  <2>1. \A k \in 0..b - 1 : BandDepth(p, c, k) + BandGap \in Nat
    BY <1>1, <1>2
  <2>2. IsFiniteSet(0..b - 1)
    BY FS_Interval
  <2> QED  BY <2>1, <2>2
<1>4. ASSUME NEW a \in Nat, NEW b \in Nat, a < b
      PROVE  /\ SumFunction(F(a)) \in Nat /\ SumFunction(F(b)) \in Nat
             /\ SumFunction(F(a)) + BandDepth(p, c, a) + BandGap <= SumFunction(F(b))
  <2> DEFINE f == F(b)
             A == 0..a - 1
             B == 0..b - 1
  <2>1. A \in SUBSET B /\ a \in B \ A
    BY <1>4
  <2>2. F(a) = [y \in A |-> f[y]] /\ f[a] = BandDepth(p, c, a) + BandGap
    BY <2>1
  <2>3. f \in [B -> Nat] /\ IsFiniteSet(B)
    BY <1>3
  <2> HIDE DEF f, A, B, F
  <2>4. /\ SumFunction(f) \in Nat /\ SumFunction([y \in A |-> f[y]]) \in Nat
        /\ SumFunction([y \in A |-> f[y]]) + f[a] <= SumFunction(f)
    BY <2>1, <2>3, SumGrows
  <2>5. BandDepth(p, c, a) \in Nat
    BY <1>1
  <2> QED  BY <1>2, <2>2, <2>4, <2>5 DEF f
<1>5. \A b \in Nat : BandTop(p, c, b) = SumFunction(F(b)) - BandDepth(p, c, 0) \div 2
  BY DEF BandTop
<1> HIDE DEF F
<1>6. \A b \in Nat : SumFunction(F(b)) \in Nat
  <2> TAKE b \in Nat
  <2>1. b + 1 \in Nat /\ b < b + 1
    OBVIOUS
  <2> QED  BY <1>4, <2>1
<1>7. BandDepth(p, c, 0) \div 2 \in Int
  BY <1>1
<1>8. \A b \in Nat : BandTop(p, c, b) \in Int
  BY <1>5, <1>6, <1>7
<1>9. ASSUME NEW a \in Nat, NEW b \in Nat, a < b
      PROVE  BandTop(p, c, a) + BandDepth(p, c, a) + BandGap <= BandTop(p, c, b)
  <2>1. BandDepth(p, c, a) \in Nat
    BY <1>1
  <2>2. /\ SumFunction(F(a)) \in Nat /\ SumFunction(F(b)) \in Nat
        /\ SumFunction(F(a)) + BandDepth(p, c, a) + BandGap <= SumFunction(F(b))
    BY <1>4, <1>9
  <2> QED  BY <1>2, <1>5, <1>7, <2>1, <2>2
<1> QED  BY <1>1, <1>8, <1>9

-----------------------------------------------------------------------------
(* The plans of sectors.                                                   *)

\* What the first steps of the layout give: districts and classes, rows, and the plans.
Classified(p, c) ==
    /\ c.district = [n \in p.nodes |-> District(p, n)]
    /\ Classed(c, p.nodes)
    /\ \A s \in Sectors(p) : c.arch[s] = "gatehouse"
LayersMade(p, c) == \A s \in Sectors(p) : c.layer[s] \in [Buildings(p, c, s) -> Nat]
IsPlan(q) ==
    /\ q.rows \in Nat /\ q.pitch \in Nat /\ q.w \in Nat /\ q.d \in Nat
    /\ q.w >= 2 * Pad /\ q.d = q.rows * q.pitch + 2 * Pad
RowOfLayer(c, s, n) == InRow(c, s, c.layer[s][n])
FitsPlan(c, s, n) ==
    /\ c.layer[s][n] \in 0..c.plan[s].rows - 1
    /\ Depth(c, n) + RowGap <= c.plan[s].pitch
    /\ RowWidth(c, RowOfLayer(c, s, n)) + 2 * Pad <= c.plan[s].w
PlanMade(p, c) ==
    \A s \in Sectors(p) :
        IsPlan(c.plan[s]) /\ \A n \in Buildings(p, c, s) : FitsPlan(c, s, n)

\* Every node gets one of the classes, a container that of a gatehouse.
LEMMA ClassesGiven ==
    ASSUME NEW p, NEW c, {"district", "arch"} \subseteq DOMAIN c,
           \A n \in p.nodes : p.look[n] \in {"", "bunker", "transmit"}
    PROVE  Classified(p, AssignDistricts(p, c))
<1> DEFINE e == AssignDistricts(p, c)
           dist == [n \in p.nodes |-> District(p, n)]
<1>1. /\ e.district = dist
      /\ e.arch = [n \in p.nodes |-> IF ArchetypeFor(p, n) # "" THEN ArchetypeFor(p, n)
                                     ELSE SectorArchetype(p, dist, n)]
  BY DEF AssignDistricts
<1>2. Classes = {"headquarters", "command", "comms", "bunker", "plant", "transmit",
                 "gatehouse", "outpost", "record", "zone", "route"}
  BY DEF Classes, Footprint
<1>3. ASSUME NEW n \in p.nodes PROVE ArchetypeFor(p, n) \in Classes \union {""}
  <2>1. p.look[n] \in {"", "bunker", "transmit"}
    OBVIOUS
  <2> QED  BY <1>2, <2>1 DEF ArchetypeFor
<1>4. ASSUME NEW n \in p.nodes PROVE SectorArchetype(p, dist, n) \in Classes
  <2>1. SectorArchetype(p, dist, n) \in {"comms", "command", "plant"}
    <3> HIDE DEF dist
    <3> QED  BY DEF SectorArchetype
  <2> QED  BY <1>2, <2>1
<1>5. ASSUME NEW s \in Sectors(p) PROVE e.arch[s] = "gatehouse"
  <2>1. s \in p.nodes /\ p.type[s] = "container"
    BY DEF Sectors, Nodes
  <2>2. ArchetypeFor(p, s) = "gatehouse"
    BY <2>1 DEF ArchetypeFor
  <2> QED  BY <1>1, <2>1, <2>2
<1> HIDE DEF dist, e
<1>6. Classed(e, p.nodes)
  BY <1>1, <1>3, <1>4 DEF Classed
<1> QED  BY <1>1, <1>5, <1>6 DEF Classified, e, dist

\* How wide the row of some buildings is.
LEMMA RowsFit ==
    ASSUME NEW c, NEW N \in SUBSET Nat, IsFiniteSet(N), Classed(c, N), NEW S \in SUBSET N
    PROVE  /\ RowStep(c, S) \in Nat /\ MaxWidth(c, S) <= RowStep(c, S)
           /\ RowWidth(c, S) \in Nat
           /\ S # {} => RowWidth(c, S) = LengthOf(c, S, RowStep(c, S))
<1>1. MaxWidth(c, S) \in Widths
  BY WidestOf
<1>2. MaxWidth(c, S) \in Nat
  <2>1. Widths \subseteq Nat
    BY DEF Widths
  <2> QED  BY <1>1, <2>1
<1>3. RowStep(c, S) \in Nat /\ MaxWidth(c, S) <= RowStep(c, S)
  BY <1>2 DEF RowStep
<1>4. CASE S = {}
  BY <1>3, <1>4 DEF RowWidth
<1>5. CASE S # {}
  <2>1. PICK n \in S : TRUE
    BY <1>5
  <2>2. LengthOf(c, S, RowStep(c, S)) \in Nat
    BY <1>3, InARow
  <2>3. RowWidth(c, S) = LengthOf(c, S, RowStep(c, S))
    BY <1>5 DEF RowWidth, LengthOf
  <2> QED  BY <1>3, <2>2, <2>3
<1> QED  BY <1>4, <1>5

\* A plan holds the rows of its sector.
LEMMA PlansHold ==
    ASSUME NEW p, NEW c, IsPayload(p), Classified(p, c), LayersMade(p, c),
           \A s \in Sectors(p) : c.plan[s] = Plan(c, s)
    PROVE  PlanMade(p, c)
<1>0. p.nodes \in SUBSET Nat /\ IsFiniteSet(p.nodes) /\ Classed(c, p.nodes)
  BY DEF IsPayload, Classified
<1> SUFFICES ASSUME NEW s \in Sectors(p)
             PROVE  IsPlan(c.plan[s]) /\ \A n \in Buildings(p, c, s) : FitsPlan(c, s, n)
  BY DEF PlanMade
<1> DEFINE S == DOMAIN c.layer[s]
           L == c.layer[s]
           f == [n \in S |-> L[n] + 1]
           rows == Largest({f[x] : x \in S})
           g == [r \in 0..rows - 1 |-> RowWidth(c, InRow(c, s, r))]
           wide == Largest({g[x] : x \in 0..rows - 1})
           deep == MaxDepth(c, S)
<1>1. L \in [S -> Nat] /\ S = Buildings(p, c, s) /\ S \in SUBSET p.nodes /\ IsFiniteSet(S)
  <2>1. L \in [Buildings(p, c, s) -> Nat] /\ Buildings(p, c, s) \in SUBSET p.nodes
    BY DEF LayersMade, Buildings
  <2>2. S = Buildings(p, c, s)
    BY <2>1
  <2> HIDE DEF S
  <2>3. IsFiniteSet(S)
    BY <1>0, <2>1, <2>2, FS_Subset
  <2> QED  BY <2>1, <2>2, <2>3
<1>2. \A r : InRow(c, s, r) = {n \in S : L[n] = r}
  BY DEF InRow
<1> HIDE DEF S
<1>3. f \in [S -> Nat] /\ \A n \in S : f[n] = L[n] + 1
  BY <1>1
<1>4. Largest({c.layer[s][n] + 1 : n \in S}) = rows
  <2>1. {c.layer[s][n] + 1 : n \in S} = {f[x] : x \in S}
    OBVIOUS
  <2> QED  BY <2>1
<1> HIDE DEF f
<1>5. rows \in Nat /\ \A n \in S : f[n] <= rows
  BY <1>1, <1>3, LargestOf
<1>6. Largest({RowWidth(c, InRow(c, s, r)) : r \in 0..rows - 1}) = wide
  <2> HIDE DEF rows
  <2>1. {RowWidth(c, InRow(c, s, r)) : r \in 0..rows - 1} = {g[x] : x \in 0..rows - 1}
    OBVIOUS
  <2> QED  BY <2>1
<1>7. /\ c.plan[s].rows = rows
      /\ c.plan[s].pitch = deep + RowGap
      /\ c.plan[s].w = wide + 2 * Pad
      /\ c.plan[s].d = rows * (deep + RowGap) + 2 * Pad
  <2>1. c.plan[s] = Plan(c, s)
    OBVIOUS
  <2>2. /\ Plan(c, s).rows = rows
        /\ Plan(c, s).pitch = deep + RowGap
        /\ Plan(c, s).w
             = Largest({RowWidth(c, InRow(c, s, r)) :
                          r \in 0..Largest({c.layer[s][n] + 1 : n \in S}) - 1}) + 2 * Pad
        /\ Plan(c, s).d = Largest({c.layer[s][n] + 1 : n \in S}) * (deep + RowGap) + 2 * Pad
    <3> HIDE DEF rows, wide
    <3> QED  BY <1>4 DEF Plan, S
  <2> HIDE DEF rows, wide, deep
  <2> QED  BY <1>4, <1>6, <2>1, <2>2
<1> HIDE DEF rows
<1>8. \A r : InRow(c, s, r) \in SUBSET p.nodes
  BY <1>1, <1>2
<1>9. g \in [0..rows - 1 -> Nat] /\ IsFiniteSet(0..rows - 1)
  <2>1. ASSUME NEW r \in 0..rows - 1 PROVE RowWidth(c, InRow(c, s, r)) \in Nat
    <3>1. InRow(c, s, r) \in SUBSET p.nodes
      BY <1>8
    <3> QED  BY <1>0, <3>1, RowsFit
  <2>2. IsFiniteSet(0..rows - 1)
    BY <1>5, FS_Interval
  <2> QED  BY <2>1, <2>2
<1>10. \A r \in 0..rows - 1 : g[r] = RowWidth(c, InRow(c, s, r))
  OBVIOUS
<1> HIDE DEF g, L
<1>11. wide \in Nat /\ \A r \in 0..rows - 1 : g[r] <= wide
  <2> DEFINE R == 0..rows - 1
  <2>1. g \in [R -> Nat] /\ IsFiniteSet(R)
    BY <1>9
  <2> HIDE DEF R
  <2>2. Largest({g[x] : x \in R}) \in Nat /\ \A r \in R : g[r] <= Largest({g[x] : x \in R})
    BY <2>1, LargestOf
  <2> QED  BY <2>2 DEF R
<1> HIDE DEF wide
<1>12. deep \in Nat /\ \A n \in S : Depth(c, n) \in Nat /\ Depth(c, n) <= deep
  <2>1. deep \in Depths /\ \A n \in S : Depth(c, n) <= deep
    BY <1>0, <1>1, WidestOf
  <2>2. \A n \in S : Depth(c, n) \in Depths
    <3> TAKE n \in S
    <3>1. n \in p.nodes
      BY <1>1
    <3> QED  BY <1>0, <3>1, Footprints
  <2>3. Depths \subseteq Nat
    BY DEF Depths
  <2> QED  BY <2>1, <2>2, <2>3
<1> HIDE DEF deep
<1>13. Pad \in Nat /\ RowGap \in Nat
  BY DEF Pad, RowGap, Unit
<1>14. IsPlan(c.plan[s])
  <2>1. rows * (deep + RowGap) \in Nat
    BY <1>5, <1>12, <1>13
  <2> QED  BY <1>5, <1>7, <1>11, <1>12, <1>13, <2>1 DEF IsPlan
<1>15. ASSUME NEW n \in S PROVE FitsPlan(c, s, n)
  <2>1. L[n] \in Nat /\ L[n] + 1 <= rows /\ L[n] = c.layer[s][n]
    BY <1>1, <1>3, <1>5 DEF L
  <2>2. L[n] \in 0..rows - 1
    BY <1>5, <2>1
  <2>3. RowWidth(c, InRow(c, s, L[n])) \in Nat /\ RowWidth(c, InRow(c, s, L[n])) <= wide
    BY <1>9, <1>10, <1>11, <2>2
  <2>4. RowWidth(c, InRow(c, s, L[n])) + 2 * Pad <= wide + 2 * Pad
    BY <1>11, <1>13, <2>3
  <2>5. Depth(c, n) + RowGap <= deep + RowGap
    BY <1>12, <1>13
  <2> QED  BY <1>7, <2>1, <2>2, <2>4, <2>5 DEF FitsPlan, RowOfLayer
<1> QED  BY <1>1, <1>14, <1>15

-----------------------------------------------------------------------------
(* The grid of sectors.                                                    *)

\* The land of a sector is as large as its plan and in its band, and apart from that of the
\* other sectors there.
IsBox(b) == b.x0 \in Int /\ b.x1 \in Int /\ b.z0 \in Int /\ b.z1 \in Int
InItsBand(p, c, s) ==
    /\ BandTop(p, c, Band(p, s)) <= c.land[s].z0
    /\ c.land[s].z1 <= BandTop(p, c, Band(p, s)) + BandDepth(p, c, Band(p, s))
GridMade(p, c) ==
    /\ \A s \in Sectors(p) :
         /\ IsBox(c.land[s]) /\ InItsBand(p, c, s)
         /\ c.land[s].x1 = c.land[s].x0 + c.plan[s].w
         /\ c.land[s].z1 = c.land[s].z0 + c.plan[s].d
    /\ \A s, t \in Sectors(p) :
         Band(p, s) = Band(p, t) /\ s < t => c.land[s].x1 + MinGap <= c.land[t].x0

\* What the gap between sectors is.
LEMMA GapsAre ==
    ASSUME NEW p, NEW c, IsPayload(p), Classified(p, c)
    PROVE  SectorGap(p, c) \in Nat /\ SectorGap(p, c) >= MinGap /\ MinGap = 3200
<1> DEFINE S == {n \in p.nodes : c.district[n] \in Sectors(p)}
           m == MaxWidth(c, S)
<1>1. m \in Nat
  <2>1. S \in SUBSET p.nodes /\ IsFiniteSet(p.nodes) /\ Classed(c, p.nodes)
    BY DEF IsPayload, Classified
  <2> HIDE DEF S
  <2>2. m \in Widths
    BY <2>1, WidestOf
  <2>3. Widths \subseteq Nat
    BY DEF Widths
  <2> QED  BY <2>2, <2>3
<1>2. SectorGap(p, c) = IF 3 * m > MinGap THEN 3 * m ELSE MinGap
  BY DEF SectorGap
<1> HIDE DEF m
<1>3. MinGap = 3200
  BY DEF MinGap, Unit
<1> QED  BY <1>1, <1>2, <1>3

\* The sectors are finitely many.
LEMMA SectorsAre ==
    ASSUME NEW p, IsPayload(p)
    PROVE  /\ Sectors(p) \in SUBSET p.nodes /\ Sectors(p) \in SUBSET Nat /\ IsFiniteSet(Sectors(p))
           /\ \A b : InBand(p, b) \in SUBSET Sectors(p) /\ IsFiniteSet(InBand(p, b))
<1>1. Sectors(p) \in SUBSET p.nodes /\ p.nodes \in SUBSET Nat /\ IsFiniteSet(p.nodes)
  BY DEF IsPayload, Sectors, Nodes
<1>2. IsFiniteSet(Sectors(p))
  BY <1>1, FS_Subset
<1>3. \A b : InBand(p, b) \in SUBSET Sectors(p)
  BY DEF InBand
<1>4. \A b : IsFiniteSet(InBand(p, b))
  BY <1>2, <1>3, FS_Subset
<1> QED  BY <1>1, <1>2, <1>3, <1>4

\* The grid keeps the sectors of a band apart, and each in its band.
LEMMA GridStands ==
    ASSUME NEW p, NEW c, IsPayload(p), Classified(p, c), PlanMade(p, c),
           \A s \in Sectors(p) : c.land[s] = SectorLand(p, c, s)
    PROVE  GridMade(p, c)
<1> DEFINE gap == SectorGap(p, c)
           West(s) == {t \in InBand(p, Band(p, s)) : t < s}
           F(s) == [t \in West(s) |-> c.plan[t].w + gap]
           left(s) == SumFunction(F(s)) - BandWidth(p, c, Band(p, s)) \div 2
           top(s) == BandTop(p, c, Band(p, s))
                       + (BandDepth(p, c, Band(p, s)) - c.plan[s].d) \div 2
<1>1. gap \in Nat /\ gap >= MinGap /\ MinGap = 3200
  BY GapsAre
<1>2. \A s \in Sectors(p) : c.plan[s].w \in Nat /\ c.plan[s].d \in Nat
  BY DEF PlanMade, IsPlan
<1>3. \A b \in Nat : /\ BandDepth(p, c, b) \in Nat /\ BandTop(p, c, b) \in Int
                     /\ \A s \in InBand(p, b) : c.plan[s].d <= BandDepth(p, c, b)
  BY <1>2, BandsApart
<1>4. \A s \in Sectors(p) : s \in Nat /\ Band(p, s) \in Nat /\ s \in InBand(p, Band(p, s))
  <2> TAKE s \in Sectors(p)
  <2>1. Band(p, s) \in 0..LastBand(p) /\ LastBand(p) \in Nat
    BY BandsAre
  <2> QED  BY <2>1, SectorsAre DEF InBand
<1>5. \A s \in Sectors(p) :
        /\ c.land[s].x0 = left(s) /\ c.land[s].x1 = left(s) + c.plan[s].w
        /\ c.land[s].z0 = top(s) /\ c.land[s].z1 = top(s) + c.plan[s].d
  <2> TAKE s \in Sectors(p)
  <2>1. c.land[s] = SectorLand(p, c, s)
    OBVIOUS
  <2>2. /\ SectorLand(p, c, s).x0 = left(s) /\ SectorLand(p, c, s).x1 = left(s) + c.plan[s].w
        /\ SectorLand(p, c, s).z0 = top(s) /\ SectorLand(p, c, s).z1 = top(s) + c.plan[s].d
    BY DEF SectorLand
  <2> HIDE DEF left, top
  <2> QED  BY <2>1, <2>2
<1> HIDE DEF gap
<1>6. ASSUME NEW b \in Nat PROVE BandWidth(p, c, b) \div 2 \in Int
  <2> DEFINE I == InBand(p, b)
             f == [s \in I |-> c.plan[s].w]
  <2>1. I \in SUBSET Sectors(p) /\ IsFiniteSet(I) /\ Cardinality(I) \in Nat
    BY SectorsAre, FS_CardinalityType
  <2> HIDE DEF I
  <2>2. f \in [I -> Nat]
    BY <1>2, <2>1
  <2>3. BandWidth(p, c, b) = SumFunction(f) + (Cardinality(I) - 1) * gap
    BY DEF BandWidth, I, gap
  <2> HIDE DEF f
  <2>4. SumFunction(f) \in Int
    <3>1. f \in [I -> Int]
      BY <2>2
    <3>2. PICK h : IsTable(h, I, f)
      BY <2>1, <3>1, TableOfSums
    <3>3. SumFunction(f) = h[I] /\ h[I] \in Int
      BY <3>2 DEF IsTable
    <3> QED  BY <3>3
  <2>5. (Cardinality(I) - 1) * gap \in Int
    BY <1>1, <2>1
  <2>6. BandWidth(p, c, b) \in Int
    BY <2>3, <2>4, <2>5
  <2> QED  BY <2>6
<1>7. \A s \in Sectors(p) : West(s) \in SUBSET Sectors(p) /\ IsFiniteSet(West(s))
  <2> TAKE s \in Sectors(p)
  <2>1. West(s) \in SUBSET InBand(p, Band(p, s))
    OBVIOUS
  <2> HIDE DEF West
  <2> QED  BY <2>1, SectorsAre, FS_Subset
<1>8. \A s \in Sectors(p) : F(s) \in [West(s) -> Nat]
  <2> HIDE DEF West
  <2> QED  BY <1>1, <1>2, <1>7
<1>9. ASSUME NEW s \in Sectors(p) PROVE SumFunction(F(s)) \in Int
  <2>1. F(s) \in [West(s) -> Int] /\ IsFiniteSet(West(s))
    BY <1>7, <1>8
  <2> HIDE DEF West, F
  <2>2. PICK h : IsTable(h, West(s), F(s))
    BY <2>1, TableOfSums
  <2>3. SumFunction(F(s)) = h[West(s)] /\ h[West(s)] \in Int
    BY <2>2 DEF IsTable
  <2> QED  BY <2>3
<1>10. ASSUME NEW s \in Sectors(p), NEW t \in Sectors(p), Band(p, s) = Band(p, t), s < t
       PROVE  left(s) + c.plan[s].w + gap <= left(t)
  <2>1. West(s) \in SUBSET West(t) /\ s \in West(t) \ West(s)
    <3>1. \A u \in InBand(p, Band(p, s)) : u \in Nat /\ (u < s => u < t)
      <4> TAKE u \in InBand(p, Band(p, s))
      <4>1. u \in Nat /\ s \in Nat /\ t \in Nat
        BY <1>4 DEF InBand
      <4> QED  BY <1>10, <4>1
    <3>2. s \in Nat /\ s \in InBand(p, Band(p, s))
      BY <1>4
    <3> QED  BY <1>10, <3>1, <3>2
  <2>2. F(s) = [y \in West(s) |-> F(t)[y]] /\ F(t)[s] = c.plan[s].w + gap
    <3> HIDE DEF West
    <3> QED  BY <2>1
  <2>3. IsFiniteSet(West(t)) /\ F(t) \in [West(t) -> Nat]
    BY <1>7, <1>8
  <2>4. SumFunction(F(s)) + (c.plan[s].w + gap) <= SumFunction(F(t))
    <3> HIDE DEF West, F
    <3>1. SumFunction([y \in West(s) |-> F(t)[y]]) + F(t)[s] <= SumFunction(F(t))
      BY <2>1, <2>3, SumGrows
    <3> QED  BY <2>2, <3>1
  <2> DEFINE a == SumFunction(F(s))
             b == SumFunction(F(t))
             h == BandWidth(p, c, Band(p, s)) \div 2
             w == c.plan[s].w
  <2>5. a \in Int /\ b \in Int /\ h \in Int /\ w \in Nat /\ a + (w + gap) <= b
    BY <1>2, <1>4, <1>6, <1>9, <2>4
  <2>6. left(s) = a - h /\ left(t) = b - h
    BY <1>10
  <2> HIDE DEF a, b, h, left
  <2>7. a - h + w + gap <= b - h
    BY <1>1, <2>5
  <2> QED  BY <2>6, <2>7
<1>11. ASSUME NEW s \in Sectors(p)
       PROVE  /\ left(s) \in Int /\ top(s) \in Int
              /\ BandTop(p, c, Band(p, s)) <= top(s)
              /\ top(s) + c.plan[s].d <= BandTop(p, c, Band(p, s)) + BandDepth(p, c, Band(p, s))
  <2>1. left(s) \in Int
    <3> HIDE DEF F
    <3> QED  BY <1>4, <1>6, <1>9
  <2> DEFINE bt == BandTop(p, c, Band(p, s))
             bd == BandDepth(p, c, Band(p, s))
             d  == c.plan[s].d
  <2>2. bt \in Int /\ bd \in Nat /\ d \in Nat /\ d <= bd
    BY <1>2, <1>3, <1>4
  <2>3. top(s) = bt + (bd - d) \div 2
    OBVIOUS
  <2> HIDE DEF bt, bd, d, top, left
  <2>4. bt + (bd - d) \div 2 \in Int /\ bt <= bt + (bd - d) \div 2
        /\ bt + (bd - d) \div 2 + d <= bt + bd
    BY <2>2
  <2> QED  BY <2>1, <2>3, <2>4 DEF bt, bd, d
<1> HIDE DEF left, top
<1>12. ASSUME NEW s \in Sectors(p)
       PROVE  /\ IsBox(c.land[s]) /\ InItsBand(p, c, s)
              /\ c.land[s].x1 = c.land[s].x0 + c.plan[s].w
              /\ c.land[s].z1 = c.land[s].z0 + c.plan[s].d
  <2>1. /\ c.land[s].x0 = left(s) /\ c.land[s].x1 = left(s) + c.plan[s].w
        /\ c.land[s].z0 = top(s) /\ c.land[s].z1 = top(s) + c.plan[s].d
    BY <1>5
  <2>2. c.plan[s].w \in Nat /\ c.plan[s].d \in Nat
    BY <1>2
  <2> QED  BY <1>11, <2>1, <2>2 DEF IsBox, InItsBand
<1>13. ASSUME NEW s \in Sectors(p), NEW t \in Sectors(p), Band(p, s) = Band(p, t), s < t
       PROVE  c.land[s].x1 + MinGap <= c.land[t].x0
  <2>1. c.land[s].x1 = left(s) + c.plan[s].w /\ c.land[t].x0 = left(t)
    BY <1>5
  <2>2. left(s) + c.plan[s].w + gap <= left(t)
    BY <1>10, <1>13
  <2>3. left(s) \in Int /\ left(t) \in Int /\ c.plan[s].w \in Nat
    BY <1>2, <1>11
  <2> QED  BY <1>1, <2>1, <2>2, <2>3
<1> QED  BY <1>12, <1>13 DEF GridMade

-----------------------------------------------------------------------------
(* Boxes apart, and what is beside the sectors.                            *)

\* One box lies past another, in one direction or the other.
Apart(a, b) == a.x1 <= b.x0 \/ b.x1 <= a.x0 \/ a.z1 <= b.z0 \/ b.z1 <= a.z0

\* What is apart does not overlap, nor does what is inside it.
LEMMA ApartAll ==
    ASSUME NEW a, NEW b, IsBox(a), IsBox(b), Apart(a, b)
    PROVE  /\ ~Overlap(a, b) /\ Apart(b, a)
           /\ \A x, y : IsBox(x) /\ IsBox(y) /\ Inside(x, a) /\ Inside(y, b) => Apart(x, y)
           /\ \A y : IsBox(y) /\ Inside(y, b) => Apart(a, y)
<1>1. ~Overlap(a, b) /\ Apart(b, a)
  BY DEF Apart, Overlap, IsBox
<1>2. ASSUME NEW x, NEW y, IsBox(x), IsBox(y), Inside(x, a), Inside(y, b)
      PROVE  Apart(x, y)
  BY <1>2 DEF Apart, Inside, IsBox
<1>3. ASSUME NEW y, IsBox(y), Inside(y, b) PROVE Apart(a, y)
  BY <1>3 DEF Apart, Inside, IsBox
<1> QED  BY <1>1, <1>2, <1>3

\* The extent covers the land of every sector.
LEMMA ExtentCovers ==
    ASSUME NEW p, NEW c, IsPayload(p), \A s \in Sectors(p) : IsPlan(c.plan[s]), GridMade(p, c)
    PROVE  LET E == Extent(p, c)
           IN  /\ IsBox(E) /\ E.z0 <= E.z1
               /\ \A s \in Sectors(p) : E.z0 <= c.land[s].z0 /\ c.land[s].z1 <= E.z1
<1> DEFINE S == Sectors(p)
           L == {c.land[s] : s \in S}
           E == Extent(p, c)
           a0 == [s \in S |-> c.land[s].x0]
           a1 == [s \in S |-> c.land[s].x1]
           b0 == [s \in S |-> c.land[s].z0]
           b1 == [s \in S |-> c.land[s].z1]
<1>1. IsFiniteSet(S) /\ \A s \in S : IsBox(c.land[s]) /\ c.land[s].z0 <= c.land[s].z1
  <2>1. IsFiniteSet(S)
    BY SectorsAre
  <2>2. ASSUME NEW s \in S PROVE IsBox(c.land[s]) /\ c.land[s].z0 <= c.land[s].z1
    <3>1. IsBox(c.land[s]) /\ c.land[s].z1 = c.land[s].z0 + c.plan[s].d /\ c.plan[s].d \in Nat
      BY DEF GridMade, IsPlan
    <3> QED  BY <3>1 DEF IsBox
  <2> QED  BY <2>1, <2>2
<1>2. CASE S = {}
  <2>1. L = {}
    BY <1>2
  <2>2. E = [x0 |-> 0, x1 |-> 0, z0 |-> 0, z1 |-> 0]
    BY <2>1 DEF Extent
  <2> QED  BY <1>2, <2>2 DEF IsBox
<1>3. CASE S # {}
  <2>1. L # {}
    BY <1>3
  <2>2. E = [x0 |-> Min({b.x0 : b \in L}), x1 |-> Max({b.x1 : b \in L}),
             z0 |-> Min({b.z0 : b \in L}), z1 |-> Max({b.z1 : b \in L})]
    BY <2>1 DEF Extent
  <2>3. /\ {b.x0 : b \in L} = {a0[x] : x \in S} /\ {b.x1 : b \in L} = {a1[x] : x \in S}
        /\ {b.z0 : b \in L} = {b0[x] : x \in S} /\ {b.z1 : b \in L} = {b1[x] : x \in S}
    <3> HIDE DEF S
    <3> QED  OBVIOUS
  <2>4. a0 \in [S -> Int] /\ a1 \in [S -> Int] /\ b0 \in [S -> Int] /\ b1 \in [S -> Int]
    <3> HIDE DEF S
    <3> QED  BY <1>1 DEF IsBox
  <2>5. \A s \in S : b0[s] = c.land[s].z0 /\ b1[s] = c.land[s].z1
    OBVIOUS
  <2> DEFINE u == Min({a0[x] : x \in S})
             v == Max({a1[x] : x \in S})
             y == Min({b0[x] : x \in S})
             z == Max({b1[x] : x \in S})
  <2>6. E.x0 = u /\ E.x1 = v /\ E.z0 = y /\ E.z1 = z
    <3> HIDE DEF E, L, S, a0, a1, b0, b1
    <3> QED  BY <2>2, <2>3
  <2> HIDE DEF S, a0, a1, b0, b1
  <2>7. u \in Int
    BY <1>1, <1>3, <2>4, LeastAndGreatest
  <2>8. v \in Int
    BY <1>1, <1>3, <2>4, LeastAndGreatest
  <2>9. y \in Int /\ \A x \in S : y <= b0[x]
    BY <1>1, <1>3, <2>4, LeastAndGreatest
  <2>10. z \in Int /\ \A x \in S : b1[x] <= z
    BY <1>1, <1>3, <2>4, LeastAndGreatest
  <2> HIDE DEF u, v, y, z, E
  <2>11. \A s \in S : y <= c.land[s].z0 /\ c.land[s].z1 <= z
    BY <2>5, <2>9, <2>10
  <2>12. y <= z
    <3>1. PICK s \in S : TRUE
      BY <1>3
    <3>2. y <= c.land[s].z0 /\ c.land[s].z1 <= z /\ c.land[s].z0 <= c.land[s].z1
      BY <1>1, <2>11
    <3>3. c.land[s].z0 \in Int /\ c.land[s].z1 \in Int
      BY <1>1 DEF IsBox
    <3> QED  BY <2>9, <2>10, <3>2, <3>3
  <2> QED  BY <2>6, <2>7, <2>8, <2>9, <2>10, <2>11, <2>12 DEF S, E, IsBox
<1> QED  BY <1>2, <1>3

\* Headquarters are north of the sectors, and governance is south, by more than a road.
BesideTheCity(E, d, b) ==
    /\ IsBox(b)
    /\ d = HQ => b.z1 <= E.z0 - 3200
    /\ d = Governance => E.z1 + 2400 <= b.z0

\* The row of each is that of its buildings, and its land is beside the sectors.
LEMMA RowLandsBeside ==
    ASSUME NEW p, NEW c, IsPayload(p), Classified(p, c), IsBox(Extent(p, c)),
           NEW d \in {HQ, Governance}, InDistrict(p, c, d) # {}
    PROVE  LET S == InDistrict(p, c, d)
           IN  /\ S \in SUBSET p.nodes
               /\ RowOf(p, c, d).step \in Nat /\ MaxWidth(c, S) <= RowOf(p, c, d).step
               /\ RowOf(p, c, d).w = LengthOf(c, S, RowOf(p, c, d).step)
               /\ RowOf(p, c, d).w \in Nat
               /\ RowOf(p, c, d).d = MaxDepth(c, S) /\ MaxDepth(c, S) \in Nat
               /\ RowAt(p, c, d).x \in Int /\ RowAt(p, c, d).z \in Int
               /\ BesideTheCity(Extent(p, c), d, RowLand(p, c, d))
<1> DEFINE S == InDistrict(p, c, d)
           E == Extent(p, c)
           R == RowOf(p, c, d)
           A == RowAt(p, c, d)
           mw == MaxWidth(c, S)
           md == MaxDepth(c, S)
<1>0. p.nodes \in SUBSET Nat /\ IsFiniteSet(p.nodes) /\ Classed(c, p.nodes)
  BY DEF IsPayload, Classified
<1>1. S \in SUBSET p.nodes
  BY DEF InDistrict
<1>2. R.step = 3 * mw /\ R.w = (Cardinality(S) - 1) * 3 * mw + mw /\ R.d = md
  BY DEF RowOf
<1>3. A.x = (E.x0 + E.x1) \div 2
  <2>1. A.x = MidX(E)
    BY DEF RowAt, Spot
  <2> HIDE DEF A, E
  <2> QED  BY <2>1 DEF MidX
<1>4. A.z = IF d = HQ THEN E.z0 - 4800 ELSE E.z1 + 4000
  <2>1. A.z = IF d = HQ THEN E.z0 - HQOffset ELSE E.z1 + GovOffset
    BY DEF RowAt, Spot
  <2>2. HQOffset = 4800 /\ GovOffset = 4000
    BY DEF HQOffset, GovOffset, Unit
  <2> HIDE DEF A, E
  <2> QED  BY <2>1, <2>2
<1>5. /\ RowLand(p, c, d).x0 = A.x - (R.w \div 2 + 800)
      /\ RowLand(p, c, d).x1 = A.x + (R.w \div 2 + 800)
      /\ RowLand(p, c, d).z0 = A.z - (R.d \div 2 + 800)
      /\ RowLand(p, c, d).z1 = A.z + (R.d \div 2 + 800)
  <2>1. Pad = 800
    BY DEF Pad, Unit
  <2> HIDE DEF A, R
  <2>2. RowLand(p, c, d) =
          [x0 |-> A.x - (R.w \div 2 + Pad), x1 |-> A.x + (R.w \div 2 + Pad),
           z0 |-> A.z - (R.d \div 2 + Pad), z1 |-> A.z + (R.d \div 2 + Pad)]
    BY DEF RowLand, A, R
  <2> QED  BY <2>1, <2>2
<1> HIDE DEF A, E, R, S
<1>6. /\ mw \in Nat /\ md \in Nat /\ md <= 1600
  <2>1. mw \in Widths /\ md \in Depths
    BY <1>0, <1>1, WidestOf
  <2>2. Widths \subseteq Nat /\ \A i \in Depths : i \in Nat /\ i <= 1600
    BY DEF Widths, Depths
  <2> HIDE DEF mw, md
  <2> QED  BY <2>1, <2>2
<1>7. R.step \in Nat /\ mw <= R.step
  <2> HIDE DEF mw
  <2> QED  BY <1>2, <1>6
<1>8. R.w = LengthOf(c, S, R.step)
  <2>1. Cardinality(S) \in Nat
    BY <1>0, <1>1, FS_Subset, FS_CardinalityType
  <2>2. LengthOf(c, S, R.step) = (Cardinality(S) - 1) * R.step + mw
    BY DEF LengthOf
  <2> HIDE DEF mw
  <2>3. (Cardinality(S) - 1) * 3 * mw = (Cardinality(S) - 1) * (3 * mw)
    BY <1>6, <2>1
  <2> QED  BY <1>2, <2>2, <2>3
<1>9. R.w \in Nat
  <2>1. PICK n \in S : TRUE
    BY DEF S
  <2>2. LengthOf(c, S, R.step) \in Nat
    BY <1>0, <1>1, <1>7, InARow
  <2> QED  BY <1>8, <2>2
<1>10. E.x0 \in Int /\ E.x1 \in Int /\ E.z0 \in Int /\ E.z1 \in Int
  BY DEF E, IsBox
<1>11. A.x \in Int /\ A.z \in Int
  BY <1>3, <1>4, <1>10
<1> HIDE DEF mw, md
<1>12. R.d \div 2 \in Nat /\ R.d \div 2 <= 800 /\ R.w \div 2 \in Nat
  BY <1>2, <1>6, <1>9
<1>13. IsBox(RowLand(p, c, d))
  BY <1>5, <1>11, <1>12 DEF IsBox
<1>14. d = HQ => RowLand(p, c, d).z1 <= E.z0 - 3200
  BY <1>4, <1>5, <1>10, <1>12
<1>15. d = Governance => E.z1 + 2400 <= RowLand(p, c, d).z0
  <2>1. d = Governance => d # HQ
    BY DEF HQ, Governance
  <2> QED  BY <1>4, <1>5, <1>10, <1>12, <2>1
<1> QED
  BY <1>1, <1>2, <1>6, <1>7, <1>8, <1>9, <1>11, <1>13, <1>14, <1>15
  DEF BesideTheCity, S, E, R, A, mw, md

-----------------------------------------------------------------------------
(* Buildings in the rows of their sector.                                  *)

\* The box of building n when it has its middle at a spot.
Built(c, sp, n) ==
    [x0 |-> sp.x - Width(c, n) \div 2, x1 |-> sp.x + Width(c, n) \div 2,
     z0 |-> sp.z - Depth(c, n) \div 2, z1 |-> sp.z + Depth(c, n) \div 2]

\* How large a building is.
LEMMA SizesAre ==
    ASSUME NEW p, NEW c, Classified(p, c), NEW n \in p.nodes
    PROVE  Width(c, n) \in Nat /\ Depth(c, n) \in Nat
<1>1. Width(c, n) \in Widths /\ Depth(c, n) \in Depths
  BY Footprints DEF Classified
<1>2. Widths \subseteq Nat /\ Depths \subseteq Nat
  BY DEF Widths, Depths
<1> QED  BY <1>1, <1>2

\* The buildings in the row of a district that is no sector stand on its land, one after the
\* other.
LEMMA RowsStand ==
    ASSUME NEW p, NEW c, IsPayload(p), Classified(p, c), IsBox(Extent(p, c)),
           NEW d \in {HQ, Governance}, NEW n \in InDistrict(p, c, d)
    PROVE  /\ IsBox(Built(c, InRowOf(p, c, n), n))
           /\ Inside(Built(c, InRowOf(p, c, n), n), RowLand(p, c, d))
           /\ \A m \in InDistrict(p, c, d) : m < n =>
                Built(c, InRowOf(p, c, m), m).x1 <= Built(c, InRowOf(p, c, n), n).x0
<1> DEFINE S == InDistrict(p, c, d)
           R == RowOf(p, c, d)
           A == RowAt(p, c, d)
           step == R.step
           base == A.x - R.w \div 2
<1>0. p.nodes \in SUBSET Nat /\ IsFiniteSet(p.nodes) /\ Classed(c, p.nodes)
  BY DEF IsPayload, Classified
<1>1. /\ S \in SUBSET p.nodes
      /\ step \in Nat /\ MaxWidth(c, S) <= step
      /\ R.w = LengthOf(c, S, step) /\ R.w \in Nat
      /\ R.d = MaxDepth(c, S) /\ MaxDepth(c, S) \in Nat
      /\ A.x \in Int /\ A.z \in Int
  BY RowLandsBeside
<1>2. \A m \in S : InRowOf(p, c, m).x = base + Along(c, S, step, m) /\ InRowOf(p, c, m).z = A.z
  <2> TAKE m \in S
  <2>1. c.district[m] = d
    BY DEF InDistrict
  <2>2. InRowOf(p, c, m) = Spot(A.x - R.w \div 2 + MaxWidth(c, S) \div 2
                                  + Rank(m, S) * step, A.z)
    BY <2>1 DEF InRowOf
  <2>3. /\ InRowOf(p, c, m).x = A.x - R.w \div 2 + MaxWidth(c, S) \div 2 + Rank(m, S) * step
        /\ InRowOf(p, c, m).z = A.z
    BY <2>2 DEF Spot
  <2>4. MaxWidth(c, S) \div 2 \in Int /\ Rank(m, S) * step \in Int /\ base \in Int
    <3>1. MaxWidth(c, S) \in Widths /\ IsFiniteSet(S)
      BY <1>0, <1>1, WidestOf
    <3>2. Widths \subseteq Nat
      BY DEF Widths
    <3>3. Rank(m, S) \in Nat
      BY <1>0, <1>1, <3>1, Ranked
    <3> HIDE DEF S, R, A
    <3>4. MaxWidth(c, S) \in Nat
      BY <3>1, <3>2
    <3>5. MaxWidth(c, S) \div 2 \in Int
      BY <3>4
    <3>6. Rank(m, S) * step \in Int
      BY <1>1, <3>3
    <3> QED  BY <1>1, <3>5, <3>6
  <2>5. Along(c, S, step, m) = MaxWidth(c, S) \div 2 + Rank(m, S) * step
    BY DEF Along
  <2> HIDE DEF S, A, R, step
  <2> QED  BY <2>3, <2>4, <2>5
<1>3. /\ RowLand(p, c, d).x0 = A.x - (R.w \div 2 + 800)
      /\ RowLand(p, c, d).x1 = A.x + (R.w \div 2 + 800)
      /\ RowLand(p, c, d).z0 = A.z - (R.d \div 2 + 800)
      /\ RowLand(p, c, d).z1 = A.z + (R.d \div 2 + 800)
  <2>1. Pad = 800
    BY DEF Pad, Unit
  <2>2. RowLand(p, c, d) =
          [x0 |-> A.x - (R.w \div 2 + Pad), x1 |-> A.x + (R.w \div 2 + Pad),
           z0 |-> A.z - (R.d \div 2 + Pad), z1 |-> A.z + (R.d \div 2 + Pad)]
    BY DEF RowLand
  <2> HIDE DEF A, R
  <2> QED  BY <2>1, <2>2
<1>4. n \in S
  OBVIOUS
<1> HIDE DEF S, R, A
<1>5. \A m \in S : /\ LengthOf(c, S, step) \in Nat /\ Along(c, S, step, m) \in Int
                   /\ Width(c, m) \div 2 <= Along(c, S, step, m)
                   /\ Along(c, S, step, m) + Width(c, m) \div 2 <= LengthOf(c, S, step)
  <2> TAKE m \in S
  <2> HIDE DEF step
  <2> QED  BY <1>0, <1>1, InARow
<1>6. \A m \in S : m < n =>
        Along(c, S, step, m) + Width(c, m) \div 2 <= Along(c, S, step, n) - Width(c, n) \div 2
  BY <1>0, <1>1, <1>4, InARow
<1>7. \A m \in S : Width(c, m) \in Nat /\ Depth(c, m) \in Nat
  BY <1>1, SizesAre
<1>8. Depth(c, n) <= R.d
  <2>1. \A m \in S : Depth(c, m) <= MaxDepth(c, S)
    BY <1>0, <1>1, WidestOf
  <2> QED  BY <1>1, <1>4, <2>1
<1> HIDE DEF step
<1> DEFINE x == Along(c, S, step, n)
           w == Width(c, n) \div 2
           h == Depth(c, n) \div 2
           len == R.w
           ax == A.x
           az == A.z
           deep == R.d
<1>9. /\ x \in Int /\ w \in Nat /\ h \in Nat /\ len \in Nat /\ ax \in Int /\ az \in Int
      /\ deep \in Nat /\ h <= deep \div 2 /\ w <= x /\ x + w <= len
  <2>1. x \in Int /\ w <= x /\ x + w <= len /\ len \in Nat /\ ax \in Int /\ az \in Int
    BY <1>1, <1>4, <1>5
  <2>2. Width(c, n) \in Nat /\ Depth(c, n) \in Nat /\ Depth(c, n) <= deep /\ deep \in Nat
    BY <1>1, <1>4, <1>7, <1>8
  <2> QED  BY <2>1, <2>2
<1>10. /\ Built(c, InRowOf(p, c, n), n).x0 = ax - len \div 2 + x - w
       /\ Built(c, InRowOf(p, c, n), n).x1 = ax - len \div 2 + x + w
       /\ Built(c, InRowOf(p, c, n), n).z0 = az - h
       /\ Built(c, InRowOf(p, c, n), n).z1 = az + h
  <2> DEFINE sp == InRowOf(p, c, n)
  <2>1. sp.x = base + x /\ sp.z = az /\ base = ax - len \div 2
    BY <1>2, <1>4
  <2> HIDE DEF sp
  <2>2. /\ Built(c, sp, n).x0 = sp.x - w /\ Built(c, sp, n).x1 = sp.x + w
        /\ Built(c, sp, n).z0 = sp.z - h /\ Built(c, sp, n).z1 = sp.z + h
    BY DEF Built
  <2> HIDE DEF x, w, h, len, az, ax, base
  <2>3. /\ Built(c, sp, n).x0 = ax - len \div 2 + x - w
        /\ Built(c, sp, n).x1 = ax - len \div 2 + x + w
        /\ Built(c, sp, n).z0 = az - h /\ Built(c, sp, n).z1 = az + h
    BY <1>9, <2>1, <2>2
  <2> QED  BY <2>3 DEF sp
<1>11. /\ RowLand(p, c, d).x0 = ax - (len \div 2 + 800)
       /\ RowLand(p, c, d).x1 = ax + (len \div 2 + 800)
       /\ RowLand(p, c, d).z0 = az - (deep \div 2 + 800)
       /\ RowLand(p, c, d).z1 = az + (deep \div 2 + 800)
  BY <1>3
<1>12. ASSUME NEW m \in S, m < n
       PROVE  Built(c, InRowOf(p, c, m), m).x1 <= Built(c, InRowOf(p, c, n), n).x0
  <2> DEFINE y == Along(c, S, step, m)
             v == Width(c, m) \div 2
  <2>1. Built(c, InRowOf(p, c, m), m).x1 = ax - len \div 2 + y + v
    BY <1>2 DEF Built
  <2>2. y + v <= x - w
    BY <1>6, <1>12
  <2>3. y \in Int /\ v \in Int
    BY <1>5, <1>7
  <2> HIDE DEF x, w, h, len, ax, az, deep, y, v, base
  <2>4. ax - len \div 2 + y + v <= ax - len \div 2 + x - w
    BY <1>9, <2>2, <2>3
  <2> QED  BY <1>10, <2>1, <2>4
<1> HIDE DEF x, w, h, len, ax, az, deep, base
<1>13. /\ ax - len \div 2 + x - w \in Int /\ ax - len \div 2 + x + w \in Int
       /\ az - h \in Int /\ az + h \in Int
       /\ ax - (len \div 2 + 800) <= ax - len \div 2 + x - w
       /\ ax - len \div 2 + x + w <= ax + (len \div 2 + 800)
       /\ az - (deep \div 2 + 800) <= az - h /\ az + h <= az + (deep \div 2 + 800)
  BY <1>9
<1>14. IsBox(Built(c, InRowOf(p, c, n), n))
  BY <1>10, <1>13 DEF IsBox
<1>15. Inside(Built(c, InRowOf(p, c, n), n), RowLand(p, c, d))
  BY <1>10, <1>11, <1>13 DEF Inside
<1> QED  BY <1>12, <1>14, <1>15 DEF S

\* How the rows of a sector are in from the north of its land, with room for a street
\* before each and after it.
RowNorth(c, s, r) == c.land[s].z0 + 800 + r * c.plan[s].pitch
InRowOfSector(c, s, r, b) == RowNorth(c, s, r) + 560 <= b.z0 /\ b.z1 <= RowNorth(c, s, r + 1) - 560

\* A building of a sector stands in the row of its layer, next to the others there.
LEMMA SectorsStand ==
    ASSUME NEW p, NEW c, IsPayload(p), Classified(p, c), LayersMade(p, c), PlanMade(p, c),
           GridMade(p, c), NEW s \in Sectors(p), NEW n \in Buildings(p, c, s)
    PROVE  /\ IsBox(Built(c, InSector(c, n), n))
           /\ c.land[s].x0 <= Built(c, InSector(c, n), n).x0
           /\ Built(c, InSector(c, n), n).x1 <= c.land[s].x1
           /\ InRowOfSector(c, s, c.layer[s][n], Built(c, InSector(c, n), n))
           /\ \A m \in Buildings(p, c, s) : c.layer[s][m] = c.layer[s][n] /\ m < n =>
                Built(c, InSector(c, m), m).x1 <= Built(c, InSector(c, n), n).x0
<1> DEFINE B == Buildings(p, c, s)
           r == c.layer[s][n]
           S == InRow(c, s, r)
           step == RowStep(c, S)
           rw == RowWidth(c, S)
           pitch == c.plan[s].pitch
           wide == c.plan[s].w
           L0 == c.land[s].x0
           L1 == c.land[s].x1
           Lz == c.land[s].z0
           base == (L0 + L1) \div 2 - rw \div 2
           north == Lz + 800 + r * pitch
<1>0. p.nodes \in SUBSET Nat /\ IsFiniteSet(p.nodes) /\ Classed(c, p.nodes)
  BY DEF IsPayload, Classified
<1>1. /\ B \in SUBSET p.nodes /\ c.layer[s] \in [B -> Nat] /\ s \notin B
      /\ \A m \in B : c.district[m] = s
  BY DEF Buildings, LayersMade
<1>2. S = {m \in B : c.layer[s][m] = r} /\ n \in B
  BY <1>1 DEF InRow
<1>3. /\ IsPlan(c.plan[s]) /\ FitsPlan(c, s, n) /\ IsBox(c.land[s])
      /\ c.land[s].x1 = c.land[s].x0 + c.plan[s].w
  BY DEF PlanMade, GridMade
<1> HIDE DEF B
<1>4. r \in Nat /\ n \in S /\ S \in SUBSET B /\ S \in SUBSET p.nodes
  BY <1>1, <1>2
<1>5. /\ pitch \in Nat /\ wide \in Nat /\ L0 \in Int /\ L1 \in Int /\ Lz \in Int
      /\ L1 = L0 + wide
  BY <1>3 DEF IsPlan, IsBox
<1>6. Pad = 800 /\ RowGap = 1120
  BY DEF Pad, RowGap, Unit
<1>7. Depth(c, n) + 1120 <= pitch /\ rw + 1600 <= wide
  <2>1. Depth(c, n) + RowGap <= c.plan[s].pitch /\ RowWidth(c, InRow(c, s, c.layer[s][n])) + 2 * Pad <= c.plan[s].w
    BY <1>3 DEF FitsPlan, RowOfLayer
  <2> HIDE DEF rw, pitch, wide
  <2>2. Depth(c, n) + RowGap <= pitch /\ rw + 2 * Pad <= wide
    BY <2>1 DEF rw, pitch, wide
  <2>3. 2 * Pad = 1600
    BY <1>6
  <2> QED  BY <1>6, <2>2, <2>3
<1> HIDE DEF S
<1>8. /\ step \in Nat /\ MaxWidth(c, S) <= step /\ rw \in Nat /\ rw = LengthOf(c, S, step)
  <2>1. S # {}
    BY <1>4
  <2> QED  BY <1>0, <1>4, <2>1, RowsFit
<1>9. \A m \in S : InSector(c, m).x = base + Along(c, S, step, m)
                   /\ InSector(c, m).z = north + pitch \div 2
  <2> TAKE m \in S
  <2>1. c.district[m] = s /\ m # s /\ c.layer[s][m] = r /\ m \in B
    BY <1>1, <1>2, <1>4 DEF S
  <2>2. InSector(c, m) = Spot(MidX(c.land[s]) - rw \div 2 + MaxWidth(c, S) \div 2
                                + Rank(m, S) * step,
                              c.land[s].z0 + Pad + r * pitch + pitch \div 2)
    BY <2>1 DEF InSector, S
  <2>3. /\ InSector(c, m).x = MidX(c.land[s]) - rw \div 2 + MaxWidth(c, S) \div 2
                                + Rank(m, S) * step
        /\ InSector(c, m).z = c.land[s].z0 + Pad + r * pitch + pitch \div 2
    BY <2>2 DEF Spot
  <2>4. MaxWidth(c, S) \div 2 \in Int /\ Rank(m, S) * step \in Int
    <3>1. MaxWidth(c, S) \in Widths /\ IsFiniteSet(S)
      BY <1>0, <1>4, WidestOf
    <3>2. Widths \subseteq Nat
      BY DEF Widths
    <3>3. Rank(m, S) \in Nat
      BY <1>0, <1>4, <3>1, Ranked
    <3>4. MaxWidth(c, S) \in Nat
      BY <3>1, <3>2
    <3>5. MaxWidth(c, S) \div 2 \in Int
      BY <3>4
    <3> HIDE DEF step
    <3>6. Rank(m, S) * step \in Int
      BY <1>8, <3>3
    <3> QED  BY <3>5, <3>6
  <2>5. Along(c, S, step, m) = MaxWidth(c, S) \div 2 + Rank(m, S) * step
    BY DEF Along
  <2>6. MidX(c.land[s]) = (L0 + L1) \div 2
    BY DEF MidX
  <2>7. north = c.land[s].z0 + 800 + r * pitch /\ base = (L0 + L1) \div 2 - rw \div 2 /\ base \in Int
    <3>1. (L0 + L1) \div 2 \in Int /\ rw \div 2 \in Int
      <4> HIDE DEF rw, L0, L1
      <4> QED  BY <1>5, <1>8
    <3> HIDE DEF L0, L1, rw
    <3> QED  BY <3>1 DEF north
  <2> HIDE DEF rw, step, pitch, base, north, L0, L1, r
  <2>8. InSector(c, m).x = base + Along(c, S, step, m)
    BY <2>3, <2>4, <2>5, <2>6, <2>7
  <2>9. InSector(c, m).z = north + pitch \div 2
    BY <1>6, <2>3, <2>7
  <2> QED  BY <2>8, <2>9
<1> HIDE DEF r, step, rw, pitch, wide, L0, L1, Lz
<1>10. \A m \in S : /\ Along(c, S, step, m) \in Int
                    /\ Width(c, m) \div 2 <= Along(c, S, step, m)
                    /\ Along(c, S, step, m) + Width(c, m) \div 2 <= rw
  BY <1>0, <1>4, <1>8, InARow
<1>11. \A m \in S : m < n =>
         Along(c, S, step, m) + Width(c, m) \div 2 <= Along(c, S, step, n) - Width(c, n) \div 2
  BY <1>0, <1>4, <1>8, InARow
<1>12. \A m \in S : Width(c, m) \in Nat /\ Depth(c, m) \in Nat
  BY <1>4, SizesAre
<1>13. base \in Int /\ north \in Int /\ L0 <= base /\ base + rw <= L1 /\ r * pitch \in Nat
  <2>1. r * pitch \in Nat
    BY <1>4, <1>5
  <2>2. base \in Int /\ L0 <= base /\ base + rw <= L1
    BY <1>5, <1>7, <1>8
  <2>3. north \in Int
    BY <1>5, <2>1
  <2> QED  BY <2>1, <2>2, <2>3
<1> HIDE DEF base
<1>14. \A m \in S : /\ Built(c, InSector(c, m), m).x0 = base + Along(c, S, step, m) - Width(c, m) \div 2
                    /\ Built(c, InSector(c, m), m).x1 = base + Along(c, S, step, m) + Width(c, m) \div 2
                    /\ Built(c, InSector(c, m), m).z0 = north + pitch \div 2 - Depth(c, m) \div 2
                    /\ Built(c, InSector(c, m), m).z1 = north + pitch \div 2 + Depth(c, m) \div 2
  <2> TAKE m \in S
  <2> DEFINE sp == InSector(c, m)
  <2>1. sp.x = base + Along(c, S, step, m) /\ sp.z = north + pitch \div 2
    BY <1>9
  <2> HIDE DEF sp, north
  <2>2. /\ Built(c, sp, m).x0 = sp.x - Width(c, m) \div 2
        /\ Built(c, sp, m).x1 = sp.x + Width(c, m) \div 2
        /\ Built(c, sp, m).z0 = sp.z - Depth(c, m) \div 2
        /\ Built(c, sp, m).z1 = sp.z + Depth(c, m) \div 2
    BY DEF Built
  <2>3. /\ Built(c, sp, m).x0 = base + Along(c, S, step, m) - Width(c, m) \div 2
        /\ Built(c, sp, m).x1 = base + Along(c, S, step, m) + Width(c, m) \div 2
        /\ Built(c, sp, m).z0 = north + pitch \div 2 - Depth(c, m) \div 2
        /\ Built(c, sp, m).z1 = north + pitch \div 2 + Depth(c, m) \div 2
    BY <1>5, <1>10, <1>12, <1>13, <2>1, <2>2
  <2> QED  BY <2>3 DEF sp
<1>15. RowNorth(c, s, r) = north /\ RowNorth(c, s, r + 1) = north + pitch
  <2>1. RowNorth(c, s, r) = Lz + 800 + r * pitch /\ RowNorth(c, s, r + 1) = Lz + 800 + (r + 1) * pitch
    BY DEF RowNorth, Lz, pitch
  <2>2. (r + 1) * pitch = r * pitch + pitch
    BY <1>4, <1>5
  <2> QED  BY <1>4, <1>5, <1>13, <2>1, <2>2
<1> HIDE DEF north
<1>16. /\ north + pitch \div 2 - Depth(c, n) \div 2 \in Int
       /\ north + pitch \div 2 + Depth(c, n) \div 2 \in Int
       /\ north + 560 <= north + pitch \div 2 - Depth(c, n) \div 2
       /\ north + pitch \div 2 + Depth(c, n) \div 2 <= north + pitch - 560
  <2>1. Depth(c, n) \in Nat
    BY <1>4, <1>12
  <2> QED  BY <1>5, <1>7, <1>13, <2>1
<1>17. InRowOfSector(c, s, r, Built(c, InSector(c, n), n))
  <2> DEFINE b == Built(c, InSector(c, n), n)
  <2>1. b.z0 = north + pitch \div 2 - Depth(c, n) \div 2
        /\ b.z1 = north + pitch \div 2 + Depth(c, n) \div 2
    BY <1>4, <1>14
  <2> HIDE DEF b
  <2>2. RowNorth(c, s, r) + 560 <= b.z0 /\ b.z1 <= RowNorth(c, s, r + 1) - 560
    BY <1>5, <1>13, <1>15, <1>16, <2>1
  <2>3. InRowOfSector(c, s, r, b)
    BY <2>2 DEF InRowOfSector
  <2> QED  BY <2>3 DEF b
<1> DEFINE x == Along(c, S, step, n)
           w == Width(c, n) \div 2
<1>18. x \in Int /\ w \in Nat /\ w <= x /\ x + w <= rw
  BY <1>4, <1>10, <1>12
<1>19. /\ base + x - w \in Int /\ base + x + w \in Int /\ L0 <= base + x - w /\ base + x + w <= L1
  <2> HIDE DEF x, w
  <2> QED  BY <1>5, <1>8, <1>13, <1>18
<1>20. ASSUME NEW m \in S, m < n
       PROVE  Built(c, InSector(c, m), m).x1 <= Built(c, InSector(c, n), n).x0
  <2> DEFINE y == Along(c, S, step, m)
             v == Width(c, m) \div 2
  <2>1. y \in Int /\ v \in Int /\ y + v <= x - w
    BY <1>10, <1>11, <1>12, <1>20
  <2>2. /\ Built(c, InSector(c, m), m).x1 = base + y + v
        /\ Built(c, InSector(c, n), n).x0 = base + x - w
    BY <1>4, <1>14
  <2> HIDE DEF x, y, v, w
  <2> QED  BY <1>13, <1>18, <2>1, <2>2
<1>21. IsBox(Built(c, InSector(c, n), n))
  BY <1>4, <1>14, <1>16, <1>19 DEF IsBox
<1>22. c.land[s].x0 <= Built(c, InSector(c, n), n).x0 /\ Built(c, InSector(c, n), n).x1 <= c.land[s].x1
  BY <1>4, <1>14, <1>19 DEF L0, L1
<1>23. \A m \in B : c.layer[s][m] = r /\ m < n => m \in S
  BY <1>2
<1> QED  BY <1>17, <1>20, <1>21, <1>22, <1>23 DEF B, r

-----------------------------------------------------------------------------
(* Districts apart.                                                        *)

\* What each sector's land is apart from: the other sectors, and the land beside them.
LandsMade(p, c) ==
    /\ \A s \in Sectors(p) : IsPlan(c.plan[s])
    /\ GridMade(p, c)
    /\ \A d \in DOMAIN c.land :
         d \in Sectors(p) \/ (d \in {HQ, Governance} /\ BesideTheCity(Extent(p, c), d, c.land[d]))

\* Side by side there is a gap between two districts, wherever they do not lie one south of
\* the other.
FarApart(a, b) ==
    a.x1 + 3200 <= b.x0 \/ b.x1 + 3200 <= a.x0 \/ a.z1 <= b.z0 \/ b.z1 <= a.z0

\* No two districts have land in common.
LEMMA LandsApart ==
    ASSUME NEW p, NEW c, IsPayload(p), LandsMade(p, c)
    PROVE  /\ \A d \in DOMAIN c.land : IsBox(c.land[d])
           /\ \A d, f \in DOMAIN c.land :
                d # f => FarApart(c.land[d], c.land[f]) /\ Apart(c.land[d], c.land[f])
           /\ DistrictsApart(c)
<1> DEFINE E == Extent(p, c)
<1>0. (\A s \in Sectors(p) : IsPlan(c.plan[s])) /\ GridMade(p, c)
  BY DEF LandsMade
<1>1. /\ IsBox(E) /\ E.z0 <= E.z1
      /\ \A s \in Sectors(p) : E.z0 <= c.land[s].z0 /\ c.land[s].z1 <= E.z1
  BY <1>0, ExtentCovers
<1> HIDE DEF E
<1>2. \A d \in DOMAIN c.land :
        d \in Sectors(p) \/ (d \in {HQ, Governance} /\ BesideTheCity(E, d, c.land[d]))
  BY DEF LandsMade, E
<1>3. \A s \in Sectors(p) : IsBox(c.land[s]) /\ InItsBand(p, c, s)
  BY <1>0 DEF GridMade
<1>4. \A d \in DOMAIN c.land : IsBox(c.land[d])
  BY <1>2, <1>3 DEF BesideTheCity
<1>5. \A s \in Sectors(p) : s \in Nat /\ Band(p, s) \in Nat
  <2> TAKE s \in Sectors(p)
  <2>1. Band(p, s) \in 0..LastBand(p) /\ LastBand(p) \in Nat
    BY BandsAre
  <2> QED  BY <2>1, SectorsAre
<1>6. \A s \in Sectors(p) : c.plan[s].d \in Nat
  BY <1>0 DEF IsPlan
<1>7. BandGap = 3200 /\ MinGap = 3200
  BY DEF BandGap, TrunkOffset, MinGap, Unit
<1>8. ASSUME NEW s \in Sectors(p), NEW t \in Sectors(p), Band(p, s) < Band(p, t)
      PROVE  c.land[s].z1 <= c.land[t].z0
  <2> DEFINE a == Band(p, s)
             b == Band(p, t)
  <2>1. a \in Nat /\ b \in Nat /\ a < b
    BY <1>5, <1>8
  <2>2. /\ c.land[s].z1 <= BandTop(p, c, a) + BandDepth(p, c, a)
        /\ BandTop(p, c, b) <= c.land[t].z0
    BY <1>3 DEF InItsBand
  <2> HIDE DEF a, b
  <2>3. /\ BandTop(p, c, a) + BandDepth(p, c, a) + BandGap <= BandTop(p, c, b)
        /\ BandTop(p, c, a) \in Int /\ BandDepth(p, c, a) \in Nat /\ BandTop(p, c, b) \in Int
    BY <1>6, <2>1, BandsApart
  <2>4. c.land[s].z1 \in Int /\ c.land[t].z0 \in Int
    BY <1>3 DEF IsBox
  <2> QED  BY <1>7, <2>2, <2>3, <2>4
<1>9. ASSUME NEW s \in Sectors(p), NEW t \in Sectors(p), s # t
      PROVE  FarApart(c.land[s], c.land[t])
  <2>1. CASE Band(p, s) = Band(p, t)
    <3>1. s < t \/ t < s
      BY <1>5, <1>9
    <3>2. \/ c.land[s].x1 + MinGap <= c.land[t].x0
          \/ c.land[t].x1 + MinGap <= c.land[s].x0
      BY <1>0, <2>1, <3>1 DEF GridMade
    <3> QED  BY <1>7, <3>2 DEF FarApart
  <2>2. CASE Band(p, s) # Band(p, t)
    <3>1. Band(p, s) < Band(p, t) \/ Band(p, t) < Band(p, s)
      BY <1>5, <2>2
    <3>2. c.land[s].z1 <= c.land[t].z0 \/ c.land[t].z1 <= c.land[s].z0
      BY <1>8, <3>1
    <3> QED  BY <3>2 DEF FarApart
  <2> QED  BY <2>1, <2>2
<1>10. ASSUME NEW s \in Sectors(p), NEW d \in {HQ, Governance}, BesideTheCity(E, d, c.land[d])
       PROVE  FarApart(c.land[s], c.land[d]) /\ FarApart(c.land[d], c.land[s])
  <2>1. E.z0 <= c.land[s].z0 /\ c.land[s].z1 <= E.z1
    BY <1>1
  <2>2. c.land[d].z1 <= E.z0 - 3200 \/ E.z1 + 2400 <= c.land[d].z0
    BY <1>10 DEF BesideTheCity
  <2>3. /\ IsBox(c.land[s]) /\ IsBox(c.land[d]) /\ IsBox(E)
    BY <1>1, <1>3, <1>10 DEF BesideTheCity
  <2>4. c.land[d].z1 <= c.land[s].z0 \/ c.land[s].z1 <= c.land[d].z0
    BY <2>1, <2>2, <2>3 DEF IsBox
  <2> QED  BY <2>4 DEF FarApart
<1>11. ASSUME BesideTheCity(E, HQ, c.land[HQ]), BesideTheCity(E, Governance, c.land[Governance])
       PROVE  /\ FarApart(c.land[HQ], c.land[Governance])
              /\ FarApart(c.land[Governance], c.land[HQ])
  <2>1. c.land[HQ].z1 <= E.z0 - 3200 /\ E.z1 + 2400 <= c.land[Governance].z0
    BY <1>11 DEF BesideTheCity
  <2>2. IsBox(c.land[HQ]) /\ IsBox(c.land[Governance]) /\ IsBox(E)
    BY <1>1, <1>11 DEF BesideTheCity
  <2>3. c.land[HQ].z1 <= c.land[Governance].z0
    BY <1>1, <2>1, <2>2 DEF IsBox
  <2> QED  BY <2>3 DEF FarApart
<1>12. ASSUME NEW d \in DOMAIN c.land, NEW f \in DOMAIN c.land, d # f
       PROVE  FarApart(c.land[d], c.land[f])
  <2>1. CASE d \in Sectors(p) /\ f \in Sectors(p)
    BY <1>9, <1>12, <2>1
  <2>2. CASE d \notin Sectors(p) /\ f \in Sectors(p)
    BY <1>2, <1>10, <2>2
  <2>3. CASE d \in Sectors(p) /\ f \notin Sectors(p)
    BY <1>2, <1>10, <2>3
  <2>4. CASE d \notin Sectors(p) /\ f \notin Sectors(p)
    <3>1. (d = HQ /\ f = Governance) \/ (d = Governance /\ f = HQ)
      BY <1>2, <1>12, <2>4
    <3>2. BesideTheCity(E, HQ, c.land[HQ]) /\ BesideTheCity(E, Governance, c.land[Governance])
      BY <1>2, <2>4, <3>1
    <3> QED  BY <1>11, <3>1, <3>2
  <2> QED  BY <2>1, <2>2, <2>3, <2>4
<1>14. ASSUME NEW d \in DOMAIN c.land, NEW f \in DOMAIN c.land, d # f
       PROVE  Apart(c.land[d], c.land[f])
  <2>1. FarApart(c.land[d], c.land[f]) /\ IsBox(c.land[d]) /\ IsBox(c.land[f])
    BY <1>4, <1>12, <1>14
  <2> QED  BY <2>1 DEF Apart, FarApart, IsBox
<1>13. DistrictsApart(c)
  BY <1>4, <1>14, ApartAll DEF DistrictsApart
<1> QED  BY <1>4, <1>12, <1>13, <1>14

\* The grid and its extent are as they were when neither plans nor the land of sectors change.
LEMMA GridAlike ==
    ASSUME NEW p, NEW c, NEW e, c.plan = e.plan,
           \A s \in Sectors(p) : c.land[s] = e.land[s], GridMade(p, c)
    PROVE  GridMade(p, e) /\ Extent(p, e) = Extent(p, c)
<1>1. \A b : BandDepth(p, e, b) = BandDepth(p, c, b)
  <2> TAKE b
  <2>1. {e.plan[s].d : s \in InBand(p, b)} = {c.plan[s].d : s \in InBand(p, b)}
    OBVIOUS
  <2> QED  BY <2>1 DEF BandDepth
<1>2. \A b : BandTop(p, e, b) = BandTop(p, c, b)
  <2> TAKE b
  <2>1. [k \in 0..b - 1 |-> BandDepth(p, e, k) + BandGap]
          = [k \in 0..b - 1 |-> BandDepth(p, c, k) + BandGap]
    BY <1>1
  <2>2. BandDepth(p, e, 0) = BandDepth(p, c, 0)
    BY <1>1
  <2> QED  BY <2>1, <2>2 DEF BandTop
<1>3. Extent(p, e) = Extent(p, c)
  <2>1. {e.land[s] : s \in Sectors(p)} = {c.land[s] : s \in Sectors(p)}
    OBVIOUS
  <2> QED  BY <2>1 DEF Extent
<1>4. ASSUME NEW s \in Sectors(p) PROVE InItsBand(p, e, s)
  <2>1. InItsBand(p, c, s) /\ c.land[s] = e.land[s]
    BY DEF GridMade
  <2> QED  BY <1>1, <1>2, <2>1 DEF InItsBand
<1>5. GridMade(p, e)
  BY <1>4 DEF GridMade
<1> QED  BY <1>3, <1>5

-----------------------------------------------------------------------------
(* Buildings on their sites.                                               *)

\* Where PlaceBuildings puts a building, and the land of its district.
Site(p, c, n)    == IF c.district[n] \in {HQ, Governance} THEN InRowOf(p, c, n) ELSE InSector(c, n)
SiteBox(p, c, n) == Built(c, Site(p, c, n), n)
Ground(p, c, d)  == IF d \in {HQ, Governance} THEN RowLand(p, c, d) ELSE c.land[d]

\* In a sector a box is in its corner, or in one of its rows.
OffStreets(c, s, b) ==
    b.z1 <= c.land[s].z0 + 680 \/ \E r \in Nat : InRowOfSector(c, s, r, b)

\* The layout is as it is once the sectors have their grid.
Ready(p, c) ==
    /\ IsPayload(p) /\ Classified(p, c) /\ LayersMade(p, c) /\ PlanMade(p, c) /\ GridMade(p, c)

\* The districts a building can be in.
LEMMA DistrictsOfHoused ==
    ASSUME NEW p, NEW c, IsPayload(p), Classified(p, c), NEW n \in Housed(p, c)
    PROVE  /\ n \in p.nodes /\ p.type[n] \notin {"boundary", "flow"}
           /\ c.district[n] \in Sectors(p) \union {HQ, Governance}
           /\ n \in InDistrict(p, c, c.district[n])
           /\ c.district[n] \in Sectors(p) => c.district[n] \notin {HQ, Governance}
           /\ n \in Sectors(p) <=> n = c.district[n]
<1>1. n \in p.nodes /\ c.district[n] # NoDistrict /\ c.district[n] = District(p, n)
  BY DEF Housed, Classified
<1>2. p.type[n] \notin {"boundary", "flow"}
  <2>1. p.type[n] \in {"boundary", "flow"} => District(p, n) = NoDistrict
    BY DEF District
  <2> QED  BY <1>1, <2>1
<1>3. c.district[n] \in Sectors(p) \union {HQ, Governance}
  BY <1>1, <1>2, EveryBuildingHasDistrict DEF Classified, IsPayload
<1>4. \A d \in Nat : d \notin {HQ, Governance}
  BY DEF HQ, Governance
<1>5. Sectors(p) \in SUBSET Nat /\ n \in Nat
  BY <1>1, SectorsAre DEF IsPayload
<1>6. n \in Sectors(p) => n = c.district[n]
  <2>1. n \in Sectors(p) => p.type[n] = "container"
    BY DEF Sectors, Nodes
  <2> QED  BY <1>1, <2>1 DEF District
<1>7. n = c.district[n] => n \in Sectors(p)
  BY <1>3, <1>4, <1>5
<1> QED  BY <1>1, <1>2, <1>3, <1>4, <1>5, <1>6, <1>7 DEF InDistrict

\* The gatehouse is in the corner of its sector.
LEMMA GatehouseStands ==
    ASSUME NEW p, NEW c, Ready(p, c), NEW s \in Sectors(p), c.district[s] = s
    PROVE  LET b == Built(c, InSector(c, s), s)
           IN  /\ IsBox(b) /\ Inside(b, c.land[s]) /\ b.z1 <= c.land[s].z0 + 680
<1>1. Width(c, s) = 560 /\ Depth(c, s) = 560
  <2>1. s \in p.nodes /\ c.arch[s] = "gatehouse" /\ Classed(c, p.nodes)
    BY SectorsAre DEF Ready, Classified
  <2>2. Width(c, s) = 7 * Unit /\ Depth(c, s) = 7 * Unit
    BY <2>1, Footprints
  <2> QED  BY <2>2 DEF Unit
<1>2. /\ IsBox(c.land[s]) /\ c.plan[s].w \in Nat /\ c.plan[s].w >= 2 * Pad
      /\ c.land[s].x1 = c.land[s].x0 + c.plan[s].w
      /\ c.land[s].z1 = c.land[s].z0 + c.plan[s].d
      /\ c.plan[s].d = c.plan[s].rows * c.plan[s].pitch + 2 * Pad
      /\ c.plan[s].rows \in Nat /\ c.plan[s].pitch \in Nat
  BY DEF Ready, GridMade, PlanMade, IsPlan
<1>3. Pad = 800
  BY DEF Pad, Unit
<1>4. InSector(c, s) = Spot(c.land[s].x0 + Pad \div 2, c.land[s].z0 + Pad \div 2)
  BY DEF InSector
<1>5. /\ InSector(c, s).x = c.land[s].x0 + Pad \div 2
      /\ InSector(c, s).z = c.land[s].z0 + Pad \div 2
  BY <1>4 DEF Spot
<1>6. Pad \div 2 = 400 /\ 560 \div 2 = 280
  BY <1>3
<1> DEFINE b == Built(c, InSector(c, s), s)
           x0 == c.land[s].x0
           z0 == c.land[s].z0
<1>7. x0 \in Int /\ z0 \in Int
  BY <1>2 DEF IsBox
<1>8. b.x0 = x0 + 120 /\ b.x1 = x0 + 680 /\ b.z0 = z0 + 120 /\ b.z1 = z0 + 680
  <2>1. /\ b.x0 = x0 + 400 - 280 /\ b.x1 = x0 + 400 + 280
        /\ b.z0 = z0 + 400 - 280 /\ b.z1 = z0 + 400 + 280
    <3> DEFINE sp == InSector(c, s)
    <3>1. Width(c, s) \div 2 = 280 /\ Depth(c, s) \div 2 = 280
      BY <1>1
    <3>2. sp.x = x0 + 400 /\ sp.z = z0 + 400
      BY <1>5, <1>6
    <3> HIDE DEF sp
    <3>3. /\ Built(c, sp, s).x0 = sp.x - 280 /\ Built(c, sp, s).x1 = sp.x + 280
          /\ Built(c, sp, s).z0 = sp.z - 280 /\ Built(c, sp, s).z1 = sp.z + 280
      BY <3>1 DEF Built
    <3>4. /\ Built(c, sp, s).x0 = x0 + 400 - 280 /\ Built(c, sp, s).x1 = x0 + 400 + 280
          /\ Built(c, sp, s).z0 = z0 + 400 - 280 /\ Built(c, sp, s).z1 = z0 + 400 + 280
      <4> HIDE DEF x0, z0
      <4> QED  BY <1>7, <3>2, <3>3
    <3> QED  BY <3>4 DEF sp
  <2> HIDE DEF b, x0, z0
  <2> QED  BY <1>7, <2>1
<1>9. x0 + 680 <= c.land[s].x1 /\ z0 + 680 <= c.land[s].z1
  <2>1. c.plan[s].rows * c.plan[s].pitch \in Nat
    BY <1>2
  <2> QED  BY <1>2, <1>3, <1>7, <2>1
<1> HIDE DEF b
<1>10. IsBox(b) /\ Inside(b, c.land[s]) /\ b.z1 <= c.land[s].z0 + 680
  BY <1>7, <1>8, <1>9 DEF IsBox, Inside
<1> QED  BY <1>10 DEF b

\* A building that is no gatehouse is inside the land of its sector.
LEMMA RowInside ==
    ASSUME NEW p, NEW c, Ready(p, c), NEW s \in Sectors(p), NEW n \in Buildings(p, c, s)
    PROVE  Inside(Built(c, InSector(c, n), n), c.land[s])
<1> DEFINE b == Built(c, InSector(c, n), n)
           r == c.layer[s][n]
           pitch == c.plan[s].pitch
           rows == c.plan[s].rows
           z0 == c.land[s].z0
           z1 == c.land[s].z1
<1>1. /\ IsBox(b) /\ c.land[s].x0 <= b.x0 /\ b.x1 <= c.land[s].x1
      /\ InRowOfSector(c, s, r, b)
  BY SectorsStand DEF Ready
<1>2. IsPlan(c.plan[s]) /\ FitsPlan(c, s, n)
  BY DEF Ready, PlanMade
<1>3. r \in 0..rows - 1 /\ rows \in Nat /\ pitch \in Nat
  BY <1>2 DEF IsPlan, FitsPlan
<1>4. c.plan[s].d = rows * pitch + 2 * Pad
  BY <1>2 DEF IsPlan
<1>5. Pad = 800
  BY DEF Pad, Unit
<1>6. z1 = z0 + c.plan[s].d /\ z0 \in Int /\ z1 \in Int
  BY DEF Ready, GridMade, IsBox
<1>7. RowNorth(c, s, r) + 560 <= b.z0 /\ b.z1 <= RowNorth(c, s, r + 1) - 560
  BY <1>1 DEF InRowOfSector
<1>8. RowNorth(c, s, r) = z0 + 800 + r * pitch /\ RowNorth(c, s, r + 1) = z0 + 800 + (r + 1) * pitch
  BY DEF RowNorth
<1> HIDE DEF r, pitch, rows, z0, z1, b
<1>9. r * pitch \in Nat
  BY <1>3
<1>10. (r + 1) * pitch <= rows * pitch /\ rows * pitch \in Nat /\ (r + 1) * pitch \in Nat
  <2>1. r + 1 \in Nat /\ rows * pitch \in Nat /\ (r + 1) * pitch \in Nat
    BY <1>3
  <2>2. CASE r + 1 = rows
    BY <2>1, <2>2
  <2>3. CASE r + 1 + 1 <= rows
    BY <1>3, <2>1, <2>3, OneMore
  <2> QED  BY <1>3, <2>1, <2>2, <2>3
<1>11. z0 <= b.z0 /\ b.z1 <= z1
  <2>1. b.z0 \in Int /\ b.z1 \in Int
    BY <1>1 DEF IsBox
  <2> QED  BY <1>4, <1>5, <1>6, <1>7, <1>8, <1>9, <1>10, <2>1
<1> QED  BY <1>1, <1>11 DEF Inside, z0, z1, b

\* Every building stands on the ground of its district, off its streets.
LEMMA HousesStand ==
    ASSUME NEW p, NEW c, Ready(p, c), NEW n \in Housed(p, c)
    PROVE  /\ IsBox(SiteBox(p, c, n))
           /\ Inside(SiteBox(p, c, n), Ground(p, c, c.district[n]))
           /\ c.district[n] \in Sectors(p) => OffStreets(c, c.district[n], SiteBox(p, c, n))
<1> DEFINE d == c.district[n]
           b == SiteBox(p, c, n)
<1>0. IsBox(Extent(p, c))
  BY ExtentCovers DEF Ready, PlanMade
<1>1. /\ n \in p.nodes /\ d \in Sectors(p) \union {HQ, Governance}
      /\ n \in InDistrict(p, c, d)
      /\ d \in Sectors(p) => d \notin {HQ, Governance}
  BY DistrictsOfHoused DEF Ready
<1>2. CASE d \in {HQ, Governance}
  <2>1. b = Built(c, InRowOf(p, c, n), n) /\ Ground(p, c, d) = RowLand(p, c, d)
    BY <1>2 DEF SiteBox, Site, Ground
  <2>2. /\ IsBox(Built(c, InRowOf(p, c, n), n))
        /\ Inside(Built(c, InRowOf(p, c, n), n), RowLand(p, c, d))
    BY <1>0, <1>1, <1>2, RowsStand DEF Ready
  <2> QED  BY <1>1, <1>2, <2>1, <2>2
<1>3. CASE d \in Sectors(p)
  <2>1. b = Built(c, InSector(c, n), n) /\ Ground(p, c, d) = c.land[d]
    BY <1>1, <1>3 DEF SiteBox, Site, Ground
  <2>2. CASE n = d
    <3>1. /\ IsBox(Built(c, InSector(c, n), n)) /\ Inside(Built(c, InSector(c, n), n), c.land[d])
          /\ Built(c, InSector(c, n), n).z1 <= c.land[d].z0 + 680
      BY <1>3, <2>2, GatehouseStands
    <3> QED  BY <2>1, <3>1 DEF OffStreets
  <2>3. CASE n # d
    <3>1. n \in Buildings(p, c, d)
      BY <1>1, <2>3 DEF Buildings
    <3>2. /\ IsBox(Built(c, InSector(c, n), n))
          /\ InRowOfSector(c, d, c.layer[d][n], Built(c, InSector(c, n), n))
      BY <1>3, <3>1, SectorsStand DEF Ready
    <3>3. c.layer[d][n] \in Nat
      BY <1>3, <3>1 DEF Ready, LayersMade
    <3>4. Inside(Built(c, InSector(c, n), n), c.land[d])
      BY <1>3, <3>1, RowInside
    <3>5. OffStreets(c, d, Built(c, InSector(c, n), n))
      BY <3>2, <3>3 DEF OffStreets
    <3> QED  BY <2>1, <3>2, <3>4, <3>5
  <2> QED  BY <2>2, <2>3
<1> QED  BY <1>1, <1>2, <1>3

\* The rows of a sector follow each other.
RowsInOrder(c, s, i, j) ==
    /\ RowNorth(c, s, i) \in Int /\ c.land[s].z0 + 800 <= RowNorth(c, s, i)
    /\ RowNorth(c, s, i + 1) <= RowNorth(c, s, j)
    /\ RowNorth(c, s, i + 1) \in Int /\ RowNorth(c, s, j) \in Int

\* So they do, wherever the sector is.
LEMMA RowsFollow ==
    ASSUME NEW p, NEW c, Ready(p, c), NEW s \in Sectors(p)
    PROVE  \A i, j \in Nat : i < j => RowsInOrder(c, s, i, j)
<1> TAKE i, j \in Nat
<1> HAVE i < j
<1> DEFINE z0 == c.land[s].z0
           pitch == c.plan[s].pitch
<1>1. z0 \in Int /\ pitch \in Nat
  BY DEF Ready, GridMade, IsBox, PlanMade, IsPlan
<1>2. \A k : RowNorth(c, s, k) = z0 + 800 + k * pitch
  BY DEF RowNorth
<1> HIDE DEF z0, pitch
<1>3. i * pitch \in Nat /\ (i + 1) * pitch \in Nat /\ j * pitch \in Nat
  <2>1. i + 1 \in Nat
    OBVIOUS
  <2> QED  BY <1>1, <2>1
<1>4. (i + 1) * pitch <= j * pitch
  <2>1. CASE i + 1 = j
    BY <1>3, <2>1
  <2>2. CASE i + 1 # j
    <3>1. i + 1 + 1 <= j /\ i + 1 \in Int
      BY <2>2
    <3>2. (i + 1) * pitch + pitch <= j * pitch
      BY <1>1, <3>1, OneMore
    <3> QED  BY <1>1, <1>3, <3>2
  <2> QED  BY <2>1, <2>2
<1>5. /\ z0 + 800 + i * pitch \in Int /\ z0 + 800 <= z0 + 800 + i * pitch
      /\ z0 + 800 + (i + 1) * pitch <= z0 + 800 + j * pitch
      /\ z0 + 800 + (i + 1) * pitch \in Int /\ z0 + 800 + j * pitch \in Int
  BY <1>1, <1>3, <1>4
<1> QED  BY <1>2, <1>5 DEF z0, RowsInOrder

\* Two buildings of a sector are apart.
LEMMA SectorNeighbors ==
    ASSUME NEW p, NEW c, Ready(p, c), NEW s \in Sectors(p),
           NEW n \in Buildings(p, c, s), NEW m \in Buildings(p, c, s), n # m
    PROVE  Apart(Built(c, InSector(c, n), n), Built(c, InSector(c, m), m))
<1> DEFINE b == Built(c, InSector(c, n), n)
           a == Built(c, InSector(c, m), m)
           i == c.layer[s][n]
           j == c.layer[s][m]
<1>1. /\ IsBox(b) /\ InRowOfSector(c, s, i, b)
      /\ j = i /\ m < n => a.x1 <= b.x0
  BY SectorsStand DEF Ready
<1>2. /\ IsBox(a) /\ InRowOfSector(c, s, j, a)
      /\ i = j /\ n < m => b.x1 <= a.x0
  BY SectorsStand DEF Ready
<1>3. i \in Nat /\ j \in Nat /\ n \in Nat /\ m \in Nat
  BY DEF Ready, LayersMade, IsPayload, Buildings
<1>0. \A x, y \in Nat : x < y => RowsInOrder(c, s, x, y)
  BY RowsFollow
<1> HIDE DEF a, b, i, j
<1>4. CASE i = j
  <2>1. n < m \/ m < n
    BY <1>3
  <2> QED  BY <1>1, <1>2, <1>4, <2>1 DEF Apart, a, b
<1>5. CASE i < j
  <2>1. RowNorth(c, s, i + 1) <= RowNorth(c, s, j) /\ RowNorth(c, s, i + 1) \in Int
        /\ RowNorth(c, s, j) \in Int
    BY <1>0, <1>3, <1>5 DEF RowsInOrder
  <2>2. b.z1 <= RowNorth(c, s, i + 1) - 560 /\ RowNorth(c, s, j) + 560 <= a.z0
    BY <1>1, <1>2 DEF InRowOfSector
  <2>3. b.z1 <= a.z0
    BY <1>1, <1>2, <2>1, <2>2 DEF IsBox
  <2> QED  BY <2>3 DEF Apart, a, b
<1>6. CASE j < i
  <2>1. RowNorth(c, s, j + 1) <= RowNorth(c, s, i) /\ RowNorth(c, s, j + 1) \in Int
        /\ RowNorth(c, s, i) \in Int
    BY <1>0, <1>3, <1>6 DEF RowsInOrder
  <2>2. a.z1 <= RowNorth(c, s, j + 1) - 560 /\ RowNorth(c, s, i) + 560 <= b.z0
    BY <1>1, <1>2 DEF InRowOfSector
  <2>3. a.z1 <= b.z0
    BY <1>1, <1>2, <2>1, <2>2 DEF IsBox
  <2> QED  BY <2>3 DEF Apart, a, b
<1> QED  BY <1>3, <1>4, <1>5, <1>6

\* The gatehouse of a sector is apart from its other buildings.
LEMMA GatehouseApart ==
    ASSUME NEW p, NEW c, Ready(p, c), NEW s \in Sectors(p), c.district[s] = s,
           NEW m \in Buildings(p, c, s)
    PROVE  Built(c, InSector(c, s), s).z1 <= Built(c, InSector(c, m), m).z0
<1> DEFINE b == Built(c, InSector(c, s), s)
           a == Built(c, InSector(c, m), m)
           j == c.layer[s][m]
<1>1. IsBox(b) /\ b.z1 <= c.land[s].z0 + 680
  BY GatehouseStands
<1>2. IsBox(a) /\ InRowOfSector(c, s, j, a)
  BY SectorsStand DEF Ready
<1>3. j \in Nat
  BY DEF Ready, LayersMade
<1> HIDE DEF a, b, j
<1>4. RowNorth(c, s, j) \in Int /\ c.land[s].z0 + 800 <= RowNorth(c, s, j)
  <2>1. j + 1 \in Nat /\ j < j + 1
    BY <1>3
  <2>2. \A x, y \in Nat : x < y => RowsInOrder(c, s, x, y)
    BY RowsFollow
  <2> QED  BY <1>3, <2>1, <2>2 DEF RowsInOrder
<1>5. RowNorth(c, s, j) + 560 <= a.z0
  BY <1>2 DEF InRowOfSector
<1>6. c.land[s].z0 \in Int
  BY DEF Ready, GridMade, IsBox
<1>7. b.z1 <= a.z0
  BY <1>1, <1>2, <1>4, <1>5, <1>6 DEF IsBox
<1> QED  BY <1>7 DEF a, b

\* No two buildings of a district overlap.
LEMMA NeighborsApart ==
    ASSUME NEW p, NEW c, Ready(p, c), NEW n \in Housed(p, c), NEW m \in Housed(p, c), n # m,
           c.district[n] = c.district[m]
    PROVE  Apart(SiteBox(p, c, n), SiteBox(p, c, m))
<1> DEFINE d == c.district[n]
<1>0. IsBox(Extent(p, c))
  BY ExtentCovers DEF Ready, PlanMade
<1>1. /\ n \in p.nodes /\ d \in Sectors(p) \union {HQ, Governance}
      /\ n \in InDistrict(p, c, d) /\ m \in InDistrict(p, c, d) /\ m \in p.nodes
      /\ d \in Sectors(p) => d \notin {HQ, Governance}
  <2>1. IsPayload(p) /\ Classified(p, c)
    BY DEF Ready
  <2> QED  BY <2>1, DistrictsOfHoused
<1>2. n \in Nat /\ m \in Nat
  BY <1>1 DEF Ready, IsPayload
<1>3. CASE d \in {HQ, Governance}
  <2>1. /\ SiteBox(p, c, n) = Built(c, InRowOf(p, c, n), n)
        /\ SiteBox(p, c, m) = Built(c, InRowOf(p, c, m), m)
    BY <1>3 DEF SiteBox, Site
  <2>2. m < n => Built(c, InRowOf(p, c, m), m).x1 <= Built(c, InRowOf(p, c, n), n).x0
    BY <1>0, <1>1, <1>3, RowsStand DEF Ready
  <2>3. n < m => Built(c, InRowOf(p, c, n), n).x1 <= Built(c, InRowOf(p, c, m), m).x0
    BY <1>0, <1>1, <1>3, RowsStand DEF Ready
  <2>4. n < m \/ m < n
    BY <1>2
  <2> QED  BY <2>1, <2>2, <2>3, <2>4 DEF Apart
<1>4. CASE d \in Sectors(p)
  <2>1. /\ SiteBox(p, c, n) = Built(c, InSector(c, n), n)
        /\ SiteBox(p, c, m) = Built(c, InSector(c, m), m)
    BY <1>1, <1>4 DEF SiteBox, Site
  <2>2. CASE n = d
    <3>1. m \in Buildings(p, c, d)
      BY <1>1, <2>2 DEF Buildings
    <3>2. Built(c, InSector(c, n), n).z1 <= Built(c, InSector(c, m), m).z0
      BY <1>4, <2>2, <3>1, GatehouseApart
    <3> QED  BY <2>1, <3>2 DEF Apart
  <2>3. CASE m = d
    <3>1. n \in Buildings(p, c, d)
      BY <1>1, <2>3 DEF Buildings
    <3>2. Built(c, InSector(c, m), m).z1 <= Built(c, InSector(c, n), n).z0
      BY <1>4, <2>3, <3>1, GatehouseApart
    <3> QED  BY <2>1, <3>2 DEF Apart
  <2>4. CASE n # d /\ m # d
    <3>1. n \in Buildings(p, c, d) /\ m \in Buildings(p, c, d)
      BY <1>1, <2>4 DEF Buildings
    <3> QED  BY <1>4, <2>1, <3>1, SectorNeighbors
  <2> QED  BY <2>2, <2>3, <2>4
<1> QED  BY <1>1, <1>3, <1>4

-----------------------------------------------------------------------------
(* Buildings apart.                                                        *)

\* Every building is on the land of its district, off the streets and apart from the others
\* of its district.
Settled(p, c) ==
    /\ \A n \in Housed(p, c) :
         /\ c.district[n] \in DOMAIN c.land /\ IsBox(BoxOf(c, n))
         /\ Inside(BoxOf(c, n), c.land[c.district[n]])
         /\ c.district[n] \in Sectors(p) => OffStreets(c, c.district[n], BoxOf(c, n))
    /\ \A n, m \in Housed(p, c) :
         n # m /\ c.district[n] = c.district[m] => Apart(BoxOf(c, n), BoxOf(c, m))

\* Then no two buildings overlap, in whatever districts they are.
LEMMA SettledApart ==
    ASSUME NEW p, NEW c, IsPayload(p), LandsMade(p, c), Settled(p, c)
    PROVE  BuildingsApart(p, c)
<1>1. /\ \A d \in DOMAIN c.land : IsBox(c.land[d])
      /\ \A d, f \in DOMAIN c.land : d # f => Apart(c.land[d], c.land[f])
  BY LandsApart
<1>2. \A n \in Housed(p, c) :
         /\ c.district[n] \in DOMAIN c.land /\ IsBox(BoxOf(c, n))
         /\ Inside(BoxOf(c, n), c.land[c.district[n]])
  BY DEF Settled
<1>3. ASSUME NEW n \in Housed(p, c), NEW m \in Housed(p, c), n # m
      PROVE  ~Overlap(BoxOf(c, n), BoxOf(c, m))
  <2>1. Apart(BoxOf(c, n), BoxOf(c, m))
    <3>1. CASE c.district[n] = c.district[m]
      BY <1>3, <3>1 DEF Settled
    <3>2. CASE c.district[n] # c.district[m]
      <4> DEFINE a == c.land[c.district[n]]
                 b == c.land[c.district[m]]
      <4>1. IsBox(a) /\ IsBox(b) /\ Apart(a, b)
        BY <1>1, <1>2, <3>2
      <4>2. /\ IsBox(BoxOf(c, n)) /\ IsBox(BoxOf(c, m))
            /\ Inside(BoxOf(c, n), a) /\ Inside(BoxOf(c, m), b)
        BY <1>2
      <4> HIDE DEF a, b
      <4> QED  BY <4>1, <4>2, ApartAll
    <3> QED  BY <3>1, <3>2
  <2> QED  BY <1>2, <2>1, ApartAll
<1> QED  BY <1>2, <1>3 DEF BuildingsApart

\* Once they have been placed the buildings are settled, on land that is apart.
LEMMA PlacingSettles ==
    ASSUME NEW p, NEW c, Ready(p, c), {"land", "at", "size"} \subseteq DOMAIN c
    PROVE  LET e == PlaceBuildings(p, c)
           IN  LandsMade(p, e) /\ Settled(p, e)
<1> DEFINE e == PlaceBuildings(p, c)
           rows == {d \in {HQ, Governance} : InDistrict(p, c, d) # {}}
<1>1. /\ e.district = c.district /\ e.plan = c.plan
      /\ e.land = [d \in Sectors(p) \union rows |->
                     IF d \in rows THEN RowLand(p, c, d) ELSE c.land[d]]
      /\ e.at = [n \in p.nodes |-> CASE c.district[n] \in rows -> InRowOf(p, c, n)
                                     [] c.district[n] \in Sectors(p) -> InSector(c, n)
                                     [] OTHER -> Spot(0, 0)]
      /\ e.size = [n \in p.nodes |-> [w |-> Width(c, n), d |-> Depth(c, n)]]
  BY DEF PlaceBuildings
<1>2. IsPayload(p) /\ Classified(p, c) /\ PlanMade(p, c) /\ GridMade(p, c)
  BY DEF Ready
<1>3. \A s \in Sectors(p) : s \notin {HQ, Governance}
  <2>1. Sectors(p) \in SUBSET Nat
    BY <1>2, SectorsAre
  <2> QED  BY <2>1 DEF HQ, Governance
<1>4. IsBox(Extent(p, c))
  BY <1>2, ExtentCovers DEF PlanMade
<1>5. rows \in SUBSET {HQ, Governance} /\ \A d \in rows : InDistrict(p, c, d) # {}
  OBVIOUS
<1>6. Housed(p, e) = Housed(p, c)
  BY <1>1 DEF Housed
<1>12. \A n \in Housed(p, c) :
         /\ n \in p.nodes
         /\ c.district[n] \in Sectors(p) \union rows
         /\ c.district[n] \in rows <=> c.district[n] \in {HQ, Governance}
         /\ c.district[n] \in Sectors(p) => c.district[n] \notin {HQ, Governance}
  <2> TAKE n \in Housed(p, c)
  <2>1. /\ n \in p.nodes /\ c.district[n] \in Sectors(p) \union {HQ, Governance}
        /\ n \in InDistrict(p, c, c.district[n])
        /\ c.district[n] \in Sectors(p) => c.district[n] \notin {HQ, Governance}
    BY <1>2, DistrictsOfHoused
  <2> QED  BY <2>1
<1> HIDE DEF e, rows
<1>7. /\ DOMAIN e.land = Sectors(p) \union rows
      /\ \A s \in Sectors(p) : e.land[s] = c.land[s]
      /\ \A d \in rows : e.land[d] = RowLand(p, c, d)
  BY <1>1, <1>3, <1>5
<1>8. GridMade(p, e) /\ Extent(p, e) = Extent(p, c)
  BY <1>1, <1>2, <1>7, GridAlike
<1>9. LandsMade(p, e)
  <2>1. \A s \in Sectors(p) : IsPlan(e.plan[s])
    BY <1>1, <1>2 DEF PlanMade
  <2>2. ASSUME NEW d \in rows PROVE BesideTheCity(Extent(p, e), d, e.land[d])
    <3>1. BesideTheCity(Extent(p, c), d, RowLand(p, c, d))
      BY <1>2, <1>4, <1>5, RowLandsBeside
    <3> QED  BY <1>7, <1>8, <3>1
  <2> QED  BY <1>5, <1>7, <1>8, <2>1, <2>2 DEF LandsMade
<1>10. ASSUME NEW n \in Housed(p, c)
       PROVE  /\ e.land[c.district[n]] = Ground(p, c, c.district[n])
              /\ BoxOf(e, n) = SiteBox(p, c, n)
  <2>1. e.land[c.district[n]] = Ground(p, c, c.district[n])
    BY <1>5, <1>7, <1>12 DEF Ground
  <2>2. n \in p.nodes
    BY <1>12
  <2>3. e.at[n] = Site(p, c, n)
    <3>1. CASE c.district[n] \in rows
      BY <1>1, <1>12, <2>2, <3>1 DEF Site
    <3>2. CASE c.district[n] \in Sectors(p) /\ c.district[n] \notin rows
      <4>1. e.at[n] = InSector(c, n)
        BY <1>1, <2>2, <3>2
      <4>2. Site(p, c, n) = InSector(c, n)
        BY <1>12, <3>2 DEF Site
      <4> QED  BY <4>1, <4>2
    <3> QED  BY <1>12, <3>1, <3>2
  <2>4. e.size[n] = [w |-> Width(c, n), d |-> Depth(c, n)]
    BY <1>1, <2>2
  <2>5. e.size[n].w = Width(c, n) /\ e.size[n].d = Depth(c, n)
    BY <2>4
  <2>6. BoxOf(e, n) = Built(c, Site(p, c, n), n)
    BY <2>3, <2>5 DEF BoxOf, Built
  <2> QED  BY <2>1, <2>6 DEF SiteBox
<1>11. ASSUME NEW n \in Housed(p, c)
       PROVE  /\ e.district[n] \in DOMAIN e.land /\ IsBox(BoxOf(e, n))
              /\ Inside(BoxOf(e, n), e.land[e.district[n]])
              /\ e.district[n] \in Sectors(p) => OffStreets(e, e.district[n], BoxOf(e, n))
  <2> DEFINE d == c.district[n]
             b == SiteBox(p, c, n)
  <2>1. /\ IsBox(b) /\ Inside(b, Ground(p, c, d))
        /\ d \in Sectors(p) => OffStreets(c, d, b)
    BY HousesStand
  <2>2. e.district[n] = d /\ e.land[d] = Ground(p, c, d) /\ BoxOf(e, n) = b
    BY <1>1, <1>10
  <2>3. d \in DOMAIN e.land
    BY <1>7, <1>12
  <2> HIDE DEF b, d
  <2>4. ASSUME d \in Sectors(p) PROVE OffStreets(e, d, b)
    <3>1. c.land[d].z0 = e.land[d].z0 /\ c.plan[d].pitch = e.plan[d].pitch
      BY <1>1, <1>7, <2>4
    <3>2. \A r : RowNorth(e, d, r) = RowNorth(c, d, r)
      BY <3>1 DEF RowNorth
    <3>3. \A r : InRowOfSector(c, d, r, b) => InRowOfSector(e, d, r, b)
      BY <3>2 DEF InRowOfSector
    <3> QED  BY <2>1, <2>4, <3>1, <3>3 DEF OffStreets
  <2> QED  BY <2>1, <2>2, <2>3, <2>4
<1>13. ASSUME NEW n \in Housed(p, c), NEW m \in Housed(p, c), n # m, c.district[n] = c.district[m]
       PROVE  Apart(BoxOf(e, n), BoxOf(e, m))
  <2>1. Apart(SiteBox(p, c, n), SiteBox(p, c, m))
    BY <1>13, NeighborsApart
  <2> QED  BY <1>10, <2>1
<1>14. Settled(p, e)
  BY <1>1, <1>6, <1>11, <1>13 DEF Settled
<1> QED  BY <1>9, <1>14 DEF e

-----------------------------------------------------------------------------
(* Major roads.                                                            *)

\* A strip lies past a box, in one direction or the other.
Clear(a, b) ==
    \/ a.x1 \in Int /\ a.x1 <= b.x0
    \/ a.x0 \in Int /\ b.x1 <= a.x0
    \/ a.z1 \in Int /\ a.z1 <= b.z0
    \/ a.z0 \in Int /\ b.z1 <= a.z0

\* Then it overlaps nothing in the box.
LEMMA ClearOf ==
    ASSUME NEW a, NEW b, NEW y, IsBox(b), IsBox(y), Inside(y, b), Clear(a, b)
    PROVE  ~Overlap(a, y)
<1>1. CASE a.x1 \in Int /\ a.x1 <= b.x0
  BY <1>1 DEF IsBox, Inside, Overlap
<1>2. CASE a.x0 \in Int /\ b.x1 <= a.x0
  BY <1>2 DEF IsBox, Inside, Overlap
<1>3. CASE a.z1 \in Int /\ a.z1 <= b.z0
  BY <1>3 DEF IsBox, Inside, Overlap
<1>4. CASE a.z0 \in Int /\ b.z1 <= a.z0
  BY <1>4 DEF IsBox, Inside, Overlap
<1> QED  BY <1>1, <1>2, <1>3, <1>4 DEF Clear

\* A boulevard lies between the sectors of two bands, within the extent of them all.
LEMMA BoulevardsBetween ==
    ASSUME NEW p, NEW c, IsPayload(p), LandsMade(p, c), NEW b \in 0..LastBand(p) - 1
    PROVE  /\ Boulevard(p, c, b) \in Int
           /\ Extent(p, c).z0 <= Boulevard(p, c, b) /\ Boulevard(p, c, b) <= Extent(p, c).z1
           /\ \A s \in Sectors(p) :
                /\ Band(p, s) <= b => c.land[s].z1 + 1600 <= Boulevard(p, c, b)
                /\ Band(p, s) > b => Boulevard(p, c, b) + 1600 <= c.land[s].z0
<1> DEFINE E == Extent(p, c)
           z == Boulevard(p, c, b)
           last == LastBand(p)
<1>0. (\A s \in Sectors(p) : IsPlan(c.plan[s])) /\ GridMade(p, c)
  BY DEF LandsMade
<1>1. /\ IsBox(E) /\ \A s \in Sectors(p) : E.z0 <= c.land[s].z0 /\ c.land[s].z1 <= E.z1
  BY <1>0, ExtentCovers
<1>2. Sectors(p) # {}
  <2> SUFFICES ASSUME Sectors(p) = {} PROVE FALSE
    OBVIOUS
  <2>1. {Band(p, s) : s \in Sectors(p)} = {}
    OBVIOUS
  <2>2. LastBand(p) = 0
    BY <2>1 DEF LastBand, Largest
  <2> QED  BY <2>2
<1>3. /\ last \in Nat
      /\ \A s \in Sectors(p) : Band(p, s) \in 0..last
      /\ \E s \in Sectors(p) : Band(p, s) = 0
      /\ \E s \in Sectors(p) : Band(p, s) = last
  BY <1>2, BandsAre
<1>4. b \in Nat /\ b < last
  BY <1>3
<1>5. \A s \in Sectors(p) : /\ IsBox(c.land[s]) /\ c.land[s].z0 <= c.land[s].z1
                            /\ InItsBand(p, c, s)
  <2> TAKE s \in Sectors(p)
  <2>1. /\ IsBox(c.land[s]) /\ InItsBand(p, c, s)
        /\ c.land[s].z1 = c.land[s].z0 + c.plan[s].d /\ c.plan[s].d \in Nat
    BY <1>0 DEF GridMade, IsPlan
  <2> QED  BY <2>1 DEF IsBox
<1>6. \A s \in Sectors(p) : c.plan[s].d \in Nat
  BY <1>0 DEF IsPlan
<1>7. /\ \A a \in Nat : BandDepth(p, c, a) \in Nat /\ BandTop(p, c, a) \in Int
      /\ \A a, k \in Nat : a < k =>
           BandTop(p, c, a) + BandDepth(p, c, a) + BandGap <= BandTop(p, c, k)
  BY <1>6, BandsApart
<1> DEFINE tb == BandTop(p, c, b)
           db == BandDepth(p, c, b)
<1>8. BandGap = 3200 /\ z = tb + db + 1600
  <2>1. BandGap = 3200
    BY DEF BandGap, TrunkOffset, Unit
  <2>2. BandGap \div 2 = 1600
    BY <2>1
  <2> QED  BY <2>1, <2>2 DEF Boulevard
<1>9. tb \in Int /\ db \in Nat
  BY <1>4, <1>7
<1> HIDE DEF E, z, last, tb, db
<1>10. ASSUME NEW s \in Sectors(p), Band(p, s) <= b PROVE c.land[s].z1 + 1600 <= z
  <2> DEFINE a == Band(p, s)
  <2>1. a \in Nat /\ a <= b
    BY <1>3, <1>10
  <2>2. c.land[s].z1 <= BandTop(p, c, a) + BandDepth(p, c, a) /\ c.land[s].z1 \in Int
    BY <1>5 DEF InItsBand, IsBox
  <2> HIDE DEF a
  <2>3. c.land[s].z1 <= tb + db
    <3>1. CASE a = b
      BY <2>2, <3>1 DEF tb, db
    <3>2. CASE a < b
      <4>1. BandTop(p, c, a) + BandDepth(p, c, a) + BandGap <= tb
        BY <1>4, <1>7, <2>1, <3>2 DEF tb
      <4>2. BandTop(p, c, a) \in Int /\ BandDepth(p, c, a) \in Nat
        BY <1>7, <2>1
      <4> QED  BY <1>8, <1>9, <2>2, <4>1, <4>2
    <3> QED  BY <1>4, <2>1, <3>1, <3>2
  <2> QED  BY <1>8, <1>9, <2>2, <2>3
<1>11. ASSUME NEW s \in Sectors(p), Band(p, s) > b PROVE z + 1600 <= c.land[s].z0
  <2> DEFINE a == Band(p, s)
  <2>1. a \in Nat /\ b < a
    BY <1>3, <1>4, <1>11
  <2>2. BandTop(p, c, a) <= c.land[s].z0 /\ c.land[s].z0 \in Int
    BY <1>5 DEF InItsBand, IsBox
  <2> HIDE DEF a
  <2>3. tb + db + BandGap <= BandTop(p, c, a) /\ BandTop(p, c, a) \in Int
    BY <1>4, <1>7, <2>1 DEF tb, db
  <2> QED  BY <1>8, <1>9, <2>2, <2>3
<1>12. z \in Int
  BY <1>8, <1>9
<1>13. E.z0 <= z
  <2>1. PICK s \in Sectors(p) : Band(p, s) = 0
    BY <1>3
  <2>2. c.land[s].z1 + 1600 <= z
    BY <1>4, <1>10, <2>1
  <2>3. E.z0 <= c.land[s].z0 /\ c.land[s].z0 <= c.land[s].z1
    BY <1>1, <1>5
  <2>4. E.z0 \in Int /\ c.land[s].z0 \in Int /\ c.land[s].z1 \in Int
    BY <1>1, <1>5 DEF IsBox
  <2> QED  BY <1>12, <2>2, <2>3, <2>4
<1>14. z <= E.z1
  <2>1. PICK s \in Sectors(p) : Band(p, s) = last
    BY <1>3
  <2>2. z + 1600 <= c.land[s].z0
    BY <1>3, <1>4, <1>11, <2>1
  <2>3. c.land[s].z1 <= E.z1 /\ c.land[s].z0 <= c.land[s].z1
    BY <1>1, <1>5
  <2>4. E.z1 \in Int /\ c.land[s].z0 \in Int /\ c.land[s].z1 \in Int
    BY <1>1, <1>5 DEF IsBox
  <2> QED  BY <1>12, <2>2, <2>3, <2>4
<1> QED  BY <1>10, <1>11, <1>12, <1>13, <1>14 DEF E, z

\* The major roads pass every district, with more than the half of their width to spare.
LEMMA MajorRoads ==
    ASSUME NEW p, NEW c, IsPayload(p), LandsMade(p, c), NEW d \in DOMAIN c.land,
           NEW z, z \in {Trunk(p, c), Trench(p, c)}
                         \union {Boulevard(p, c, b) : b \in 0..LastBand(p) - 1}
    PROVE  z \in Int /\ (z + 168 <= c.land[d].z0 \/ c.land[d].z1 <= z - 168)
<1> DEFINE E == Extent(p, c)
           L == c.land[d]
<1>0. (\A s \in Sectors(p) : IsPlan(c.plan[s])) /\ GridMade(p, c)
  BY DEF LandsMade
<1>1. /\ IsBox(E) /\ E.z0 <= E.z1
      /\ \A s \in Sectors(p) : E.z0 <= c.land[s].z0 /\ c.land[s].z1 <= E.z1
  BY <1>0, ExtentCovers
<1>2. IsBox(L)
  BY LandsApart
<1>3. d \in Sectors(p) \/ (d \in {HQ, Governance} /\ BesideTheCity(E, d, L))
  BY DEF LandsMade
<1>4. Trunk(p, c) = E.z0 - 960 /\ Trench(p, c) = E.z1 + 960
  <2>1. TrunkOffset = 960
    BY DEF TrunkOffset, Unit
  <2> QED  BY <2>1 DEF Trunk, Trench
<1>5. /\ d \in Sectors(p) => E.z0 <= L.z0 /\ L.z1 <= E.z1
      /\ d \notin Sectors(p) => L.z1 <= E.z0 - 3200 \/ E.z1 + 2400 <= L.z0
  BY <1>1, <1>3 DEF BesideTheCity
<1> HIDE DEF E, L
<1>6. /\ E.z0 \in Int /\ E.z1 \in Int /\ L.z0 \in Int /\ L.z1 \in Int
  BY <1>1, <1>2 DEF IsBox
<1>7. CASE z = Trunk(p, c)
  BY <1>1, <1>4, <1>5, <1>6, <1>7 DEF L
<1>8. CASE z = Trench(p, c)
  BY <1>1, <1>4, <1>5, <1>6, <1>8 DEF L
<1>9. ASSUME NEW b \in 0..LastBand(p) - 1, z = Boulevard(p, c, b)
      PROVE  z \in Int /\ (z + 168 <= L.z0 \/ L.z1 <= z - 168)
  <2>1. z \in Int /\ E.z0 <= z /\ z <= E.z1
    BY <1>9, BoulevardsBetween DEF E
  <2>2. CASE d \in Sectors(p)
    <3>1. Band(p, d) <= b \/ Band(p, d) > b
      <4>1. Band(p, d) \in 0..LastBand(p) /\ LastBand(p) \in Nat
        BY <2>2, BandsAre
      <4> QED  BY <4>1
    <3>2. L.z1 + 1600 <= z \/ z + 1600 <= L.z0
      BY <1>9, <2>2, <3>1, BoulevardsBetween DEF L
    <3> QED  BY <1>6, <2>1, <3>2
  <2>3. CASE d \notin Sectors(p)
    BY <1>5, <1>6, <2>1, <2>3
  <2> QED  BY <2>2, <2>3
<1> QED  BY <1>7, <1>8, <1>9 DEF L

-----------------------------------------------------------------------------
(* Streets and avenues.                                                    *)

\* The strip of a road that runs west to east.
LEMMA StreetStrips ==
    ASSUME NEW d, NEW k, NEW z, NEW b, NEW wide
    PROVE  /\ wide = StreetWidth => /\ Strip(Street(d, k, z, b, wide)).z0 = z - 120
                                    /\ Strip(Street(d, k, z, b, wide)).z1 = z + 120
           /\ wide = TrunkWidth => /\ Strip(Street(d, k, z, b, wide)).z0 = z - 168
                                   /\ Strip(Street(d, k, z, b, wide)).z1 = z + 168
           /\ Strip(Street(d, k, z, b, wide)).x0 = b.x0 - 240
           /\ Strip(Street(d, k, z, b, wide)).x1 = b.x1 + 240
<1>1. StreetWidth = 240 /\ TrunkWidth = 336 /\ Overshoot = 240 /\ 240 \div 2 = 120 /\ 336 \div 2 = 168
  BY DEF StreetWidth, TrunkWidth, Overshoot, Unit
<1> DEFINE s == Street(d, k, z, b, wide)
<1>2. /\ s.across = TRUE /\ s.pos = z /\ s.lo = b.x0 - Overshoot /\ s.hi = b.x1 + Overshoot
      /\ s.width = wide
  BY DEF Street
<1> HIDE DEF s
<1>4. /\ Strip(s).x0 = s.lo /\ Strip(s).x1 = s.hi
      /\ Strip(s).z0 = s.pos - s.width \div 2 /\ Strip(s).z1 = s.pos + s.width \div 2
  BY <1>2 DEF Strip
<1>6. /\ Strip(s).x0 = b.x0 - 240 /\ Strip(s).x1 = b.x1 + 240
  BY <1>1, <1>2, <1>4
<1>7. wide = StreetWidth => Strip(s).z0 = z - 120 /\ Strip(s).z1 = z + 120
  BY <1>1, <1>2, <1>4
<1>8. wide = TrunkWidth => Strip(s).z0 = z - 168 /\ Strip(s).z1 = z + 168
  BY <1>1, <1>2, <1>4
<1> QED  BY <1>6, <1>7, <1>8 DEF s

\* The strip of a road that runs north to south.
LEMMA AvenueStrips ==
    ASSUME NEW d, NEW x, NEW z0, NEW z1
    PROVE  /\ Strip(Avenue(d, x, z0, z1)).x0 = x - 88 /\ Strip(Avenue(d, x, z0, z1)).x1 = x + 88
           /\ Strip(Avenue(d, x, z0, z1)).z0 = z0 /\ Strip(Avenue(d, x, z0, z1)).z1 = z1
<1>1. AvenueWidth = 176 /\ 176 \div 2 = 88
  BY DEF AvenueWidth, Unit
<1> DEFINE a == Avenue(d, x, z0, z1)
<1>3. /\ a.across = FALSE /\ a.pos = x /\ a.lo = z0 /\ a.hi = z1 /\ a.width = AvenueWidth
  BY DEF Avenue
<1> HIDE DEF a
<1>5. /\ Strip(a).z0 = a.lo /\ Strip(a).z1 = a.hi
      /\ Strip(a).x0 = a.pos - a.width \div 2 /\ Strip(a).x1 = a.pos + a.width \div 2
  BY <1>3 DEF Strip
<1>9. Strip(a).x0 = x - 88 /\ Strip(a).x1 = x + 88 /\ Strip(a).z0 = z0 /\ Strip(a).z1 = z1
  BY <1>1, <1>3, <1>5
<1> QED  BY <1>9 DEF a

\* Where a street of a sector is.
LEMMA StreetsAre ==
    ASSUME NEW p, NEW c, IsPayload(p), LandsMade(p, c), NEW s \in Sectors(p),
           NEW k \in 0..c.plan[s].rows
    PROVE  /\ RowNorth(c, s, k) \in Int
           /\ c.land[s].z0 + 800 <= RowNorth(c, s, k)
           /\ RowNorth(c, s, k) + 800 <= c.land[s].z1
           /\ \A r \in Nat : k <= r => RowNorth(c, s, k) <= RowNorth(c, s, r)
           /\ \A r \in Nat : r < k => RowNorth(c, s, r + 1) <= RowNorth(c, s, k)
           /\ \A r \in Nat : RowNorth(c, s, r) \in Int /\ RowNorth(c, s, r + 1) \in Int
<1> DEFINE z0 == c.land[s].z0
           z1 == c.land[s].z1
           pitch == c.plan[s].pitch
           rows == c.plan[s].rows
           d == c.plan[s].d
<1>1. IsPlan(c.plan[s]) /\ IsBox(c.land[s]) /\ z1 = z0 + d
  BY DEF LandsMade, GridMade
<1>2. z0 \in Int /\ z1 \in Int /\ pitch \in Nat /\ rows \in Nat /\ d = rows * pitch + 2 * Pad
  BY <1>1 DEF IsPlan, IsBox
<1>3. Pad = 800
  BY DEF Pad, Unit
<1>4. \A r : RowNorth(c, s, r) = z0 + 800 + r * pitch
  BY DEF RowNorth
<1>5. k \in Nat /\ k <= rows
  BY <1>2
<1> HIDE DEF z0, z1, pitch, rows, d
<1>6. ASSUME NEW i \in Nat, NEW j \in Nat, i <= j
      PROVE  i * pitch <= j * pitch /\ i * pitch \in Nat /\ j * pitch \in Nat
  <2>1. i * pitch \in Nat /\ j * pitch \in Nat
    BY <1>2
  <2>2. CASE i = j
    BY <2>1, <2>2
  <2>3. CASE i # j
    <3>1. i + 1 <= j
      BY <1>6, <2>3
    <3>2. i * pitch + pitch <= j * pitch
      BY <1>2, <3>1, OneMore
    <3> QED  BY <1>2, <2>1, <3>2
  <2> QED  BY <2>2, <2>3
<1>7. \A i \in Nat : i * pitch \in Nat
  BY <1>2
<1>8. \A r \in Nat : RowNorth(c, s, r) \in Int
  BY <1>2, <1>4, <1>7
<1>9. \A i, j \in Nat : i <= j => RowNorth(c, s, i) <= RowNorth(c, s, j)
  <2> TAKE i, j \in Nat
  <2> HAVE i <= j
  <2>1. i * pitch <= j * pitch /\ i * pitch \in Nat /\ j * pitch \in Nat
    BY <1>6
  <2>2. z0 + 800 + i * pitch <= z0 + 800 + j * pitch
    BY <1>2, <2>1
  <2> QED  BY <1>4, <2>2
<1>10. z0 + 800 <= RowNorth(c, s, k)
  BY <1>2, <1>4, <1>5, <1>7
<1>11. RowNorth(c, s, k) + 800 <= z1
  <2>1. k * pitch <= rows * pitch /\ k * pitch \in Nat /\ rows * pitch \in Nat
    BY <1>2, <1>5, <1>6
  <2>2. z0 + 800 + k * pitch + 800 <= z0 + (rows * pitch + 2 * 800)
    BY <1>2, <2>1
  <2> QED  BY <1>1, <1>2, <1>3, <1>4, <2>2
<1>12. \A r \in Nat : r < k => RowNorth(c, s, r + 1) <= RowNorth(c, s, k)
  <2> TAKE r \in Nat
  <2> HAVE r < k
  <2>1. r + 1 \in Nat /\ r + 1 <= k
    BY <1>5
  <2> QED  BY <1>5, <1>9, <2>1
<1>13. \A r \in Nat : RowNorth(c, s, r + 1) \in Int
  <2> TAKE r \in Nat
  <2>1. r + 1 \in Nat
    OBVIOUS
  <2> QED  BY <1>8, <2>1
<1> QED  BY <1>5, <1>8, <1>9, <1>10, <1>11, <1>12, <1>13 DEF z0, z1

\* What a road is clear of that passes the land of each district or, in its own, the houses.
LEMMA PastAll ==
    ASSUME NEW p, NEW c, IsPayload(p), LandsMade(p, c), Settled(p, c), NEW r,
           NEW n \in Housed(p, c), Clear(Strip(r), c.land[c.district[n]])
    PROVE  ~Overlap(Strip(r), BoxOf(c, n))
<1>1. /\ c.district[n] \in DOMAIN c.land /\ IsBox(BoxOf(c, n))
      /\ Inside(BoxOf(c, n), c.land[c.district[n]])
  BY DEF Settled
<1>2. IsBox(c.land[c.district[n]])
  BY <1>1, LandsApart
<1> QED  BY <1>1, <1>2, ClearOf

\* The streets of a sector run between its buildings, and end before the next sector.
LEMMA StreetsClear ==
    ASSUME NEW p, NEW c, IsPayload(p), LandsMade(p, c), Settled(p, c),
           Sectors(p) \subseteq DOMAIN c.land,
           NEW s \in Sectors(p), NEW k \in 0..c.plan[s].rows, NEW n \in Housed(p, c)
    PROVE  ~Overlap(Strip(Street(s, k, RowNorth(c, s, k), c.land[s], StreetWidth)), BoxOf(c, n))
<1> DEFINE z == RowNorth(c, s, k)
           r == Street(s, k, z, c.land[s], StreetWidth)
           S == Strip(r)
           d == c.district[n]
           b == BoxOf(c, n)
           L == c.land[s]
           M == c.land[d]
<1>1. /\ z \in Int /\ L.z0 + 800 <= z /\ z + 800 <= L.z1
      /\ \A i \in Nat : k <= i => z <= RowNorth(c, s, i)
      /\ \A i \in Nat : i < k => RowNorth(c, s, i + 1) <= z
      /\ \A i \in Nat : RowNorth(c, s, i) \in Int /\ RowNorth(c, s, i + 1) \in Int
  BY StreetsAre
<1>2. S.z0 = z - 120 /\ S.z1 = z + 120 /\ S.x0 = L.x0 - 240 /\ S.x1 = L.x1 + 240
  BY StreetStrips
<1>3. /\ d \in DOMAIN c.land /\ IsBox(b)
      /\ d = s => OffStreets(c, s, b)
  BY DEF Settled
<1>4. IsBox(L) /\ IsBox(M) /\ (d # s => FarApart(L, M))
  BY <1>3, LandsApart
<1> HIDE DEF z, S, b, L, M, r
<1>5. CASE d = s
  <2>1. CASE b.z1 <= L.z0 + 680
    <3>1. b.z1 <= S.z0 /\ S.z0 \in Int
      BY <1>1, <1>2, <1>3, <1>4, <2>1 DEF IsBox
    <3> QED  BY <1>3, <3>1 DEF Overlap, IsBox, b, S, r, z, L
  <2>2. ASSUME NEW i \in Nat, InRowOfSector(c, s, i, b) PROVE ~Overlap(S, b)
    <3>1. RowNorth(c, s, i) + 560 <= b.z0 /\ b.z1 <= RowNorth(c, s, i + 1) - 560
      BY <2>2 DEF InRowOfSector
    <3>2. k \in Nat
      BY DEF LandsMade, IsPlan
    <3>3. CASE k <= i
      <4>1. z <= RowNorth(c, s, i) /\ RowNorth(c, s, i) \in Int
        BY <1>1, <3>3
      <4>2. S.z1 <= b.z0 /\ S.z1 \in Int
        BY <1>1, <1>2, <1>3, <3>1, <4>1 DEF IsBox
      <4> QED  BY <1>3, <4>2 DEF Overlap, IsBox
    <3>4. CASE i < k
      <4>1. RowNorth(c, s, i + 1) <= z /\ RowNorth(c, s, i + 1) \in Int
        BY <1>1, <3>4
      <4> DEFINE y == RowNorth(c, s, i + 1)
      <4>2. y \in Int /\ y <= z /\ b.z1 <= y - 560
        BY <3>1, <4>1
      <4> HIDE DEF y
      <4>3. b.z1 <= S.z0 /\ S.z0 \in Int
        BY <1>1, <1>2, <1>3, <4>2 DEF IsBox
      <4> QED  BY <1>3, <4>3 DEF Overlap, IsBox
    <3> QED  BY <3>2, <3>3, <3>4
  <2>3. b.z1 <= L.z0 + 680 \/ \E i \in Nat : InRowOfSector(c, s, i, b)
    BY <1>3, <1>5 DEF OffStreets, L
  <2> QED  BY <2>1, <2>2, <2>3 DEF S, b, r, z, L
<1>6. CASE d # s
  <2>1. Clear(S, M)
    <3>1. /\ L.x0 \in Int /\ L.x1 \in Int /\ L.z0 \in Int /\ L.z1 \in Int
          /\ M.x0 \in Int /\ M.x1 \in Int /\ M.z0 \in Int /\ M.z1 \in Int
      BY <1>4 DEF IsBox
    <3>2. S.x0 \in Int /\ S.x1 \in Int /\ S.z0 \in Int /\ S.z1 \in Int
      BY <1>1, <1>2, <3>1
    <3>3. S.x1 <= M.x0 \/ M.x1 <= S.x0 \/ S.z1 <= M.z0 \/ M.z1 <= S.z0
      BY <1>1, <1>2, <1>4, <1>6, <3>1 DEF FarApart
    <3> QED  BY <3>2, <3>3 DEF Clear
  <2>2. ~Overlap(Strip(r), BoxOf(c, n))
    BY <2>1, PastAll DEF S, M
  <2> QED  BY <2>2 DEF r, z, L
<1> QED  BY <1>5, <1>6

\* The roads an avenue of a sector joins are south and north of the other bands.
LEMMA AvenuesEnd ==
    ASSUME NEW p, NEW c, IsPayload(p), LandsMade(p, c), NEW s \in Sectors(p)
    PROVE  /\ NorthRoad(p, c, Band(p, s)) \in Int /\ SouthRoad(p, c, Band(p, s)) \in Int
           /\ Extent(p, c).z0 - 960 <= NorthRoad(p, c, Band(p, s))
           /\ SouthRoad(p, c, Band(p, s)) <= Extent(p, c).z1 + 960
           /\ \A t \in Sectors(p) :
                /\ Band(p, t) < Band(p, s) => c.land[t].z1 <= NorthRoad(p, c, Band(p, s))
                /\ Band(p, s) < Band(p, t) => SouthRoad(p, c, Band(p, s)) <= c.land[t].z0
<1> DEFINE E == Extent(p, c)
           b == Band(p, s)
           N == NorthRoad(p, c, b)
           Z == SouthRoad(p, c, b)
<1>0. (\A t \in Sectors(p) : IsPlan(c.plan[t])) /\ GridMade(p, c)
  BY DEF LandsMade
<1>1. IsBox(E)
  BY <1>0, ExtentCovers
<1>2. E.z0 \in Int /\ E.z1 \in Int
  BY <1>1 DEF IsBox
<1>3. Trunk(p, c) = E.z0 - 960 /\ Trench(p, c) = E.z1 + 960
  <2>1. TrunkOffset = 960
    BY DEF TrunkOffset, Unit
  <2> QED  BY <2>1 DEF Trunk, Trench
<1>4. LastBand(p) \in Nat /\ \A t \in Sectors(p) : Band(p, t) \in 0..LastBand(p)
  BY BandsAre
<1>5. \A t \in Sectors(p) : c.land[t].z0 \in Int /\ c.land[t].z1 \in Int
  BY <1>0 DEF GridMade, IsBox
<1>6. b \in Nat /\ b <= LastBand(p)
  BY <1>4
<1>7. \A i \in 0..LastBand(p) - 1 :
        /\ Boulevard(p, c, i) \in Int
        /\ E.z0 <= Boulevard(p, c, i) /\ Boulevard(p, c, i) <= E.z1
        /\ \A t \in Sectors(p) :
             /\ Band(p, t) <= i => c.land[t].z1 + 1600 <= Boulevard(p, c, i)
             /\ Band(p, t) > i => Boulevard(p, c, i) + 1600 <= c.land[t].z0
  BY BoulevardsBetween
<1> HIDE DEF E, b
<1>8. /\ N \in Int /\ E.z0 - 960 <= N
      /\ \A t \in Sectors(p) : Band(p, t) < b => c.land[t].z1 <= N
  <2>1. CASE b > 0
    <3>1. N = Boulevard(p, c, b - 1) /\ b - 1 \in 0..LastBand(p) - 1
      BY <1>4, <1>6, <2>1 DEF NorthRoad
    <3>2. \A t \in Sectors(p) : Band(p, t) < b => Band(p, t) <= b - 1
      BY <1>4, <1>6
    <3> HIDE DEF N
    <3>3. N \in Int /\ E.z0 <= N
          /\ \A t \in Sectors(p) : Band(p, t) <= b - 1 => c.land[t].z1 + 1600 <= N
      BY <1>7, <3>1
    <3> QED  BY <1>2, <1>5, <3>2, <3>3
  <2>2. CASE ~(b > 0)
    <3>1. N = E.z0 - 960
      BY <1>3, <2>2 DEF NorthRoad
    <3>2. \A t \in Sectors(p) : ~(Band(p, t) < b)
      BY <1>4, <1>6, <2>2
    <3> QED  BY <1>2, <3>1, <3>2
  <2> QED  BY <2>1, <2>2
<1>9. /\ Z \in Int /\ Z <= E.z1 + 960
      /\ \A t \in Sectors(p) : b < Band(p, t) => Z <= c.land[t].z0
  <2>1. CASE b < LastBand(p)
    <3>1. Z = Boulevard(p, c, b) /\ b \in 0..LastBand(p) - 1
      BY <1>4, <1>6, <2>1 DEF SouthRoad
    <3>2. \A t \in Sectors(p) : b < Band(p, t) => Band(p, t) > b
      BY <1>4, <1>6
    <3> HIDE DEF Z
    <3>3. Z \in Int /\ Z <= E.z1
          /\ \A t \in Sectors(p) : Band(p, t) > b => Z + 1600 <= c.land[t].z0
      BY <1>7, <3>1
    <3> QED  BY <1>2, <1>5, <3>2, <3>3
  <2>2. CASE ~(b < LastBand(p))
    <3>1. Z = E.z1 + 960
      BY <1>3, <2>2 DEF SouthRoad
    <3>2. \A t \in Sectors(p) : ~(b < Band(p, t))
      BY <1>4, <1>6, <2>2
    <3> QED  BY <1>2, <3>1, <3>2
  <2> QED  BY <2>1, <2>2
<1> QED  BY <1>8, <1>9 DEF E, b

\* The avenues of a sector pass by it, and by all others.
LEMMA AvenuesClear ==
    ASSUME NEW p, NEW c, IsPayload(p), LandsMade(p, c), Sectors(p) \subseteq DOMAIN c.land,
           NEW s \in Sectors(p), NEW d \in DOMAIN c.land,
           NEW x \in {c.land[s].x0 - Overshoot, c.land[s].x1 + Overshoot}
    PROVE  Clear(Strip(Avenue(s, x, NorthRoad(p, c, Band(p, s)), SouthRoad(p, c, Band(p, s)))),
                 c.land[d])
<1> DEFINE N == NorthRoad(p, c, Band(p, s))
           Z == SouthRoad(p, c, Band(p, s))
           S == Strip(Avenue(s, x, N, Z))
           E == Extent(p, c)
           L == c.land[s]
           M == c.land[d]
<1>0. (\A t \in Sectors(p) : IsPlan(c.plan[t])) /\ GridMade(p, c)
  BY DEF LandsMade
<1>1. /\ N \in Int /\ Z \in Int /\ E.z0 - 960 <= N /\ Z <= E.z1 + 960
      /\ \A t \in Sectors(p) : /\ Band(p, t) < Band(p, s) => c.land[t].z1 <= N
                               /\ Band(p, s) < Band(p, t) => Z <= c.land[t].z0
  BY AvenuesEnd
<1>2. S.x0 = x - 88 /\ S.x1 = x + 88 /\ S.z0 = N /\ S.z1 = Z
  BY AvenueStrips
<1>3. IsBox(L) /\ IsBox(M)
  BY LandsApart
<1>4. L.x0 \in Int /\ L.x1 \in Int /\ L.z0 \in Int /\ L.z1 \in Int
      /\ M.x0 \in Int /\ M.x1 \in Int /\ M.z0 \in Int /\ M.z1 \in Int
  BY <1>3 DEF IsBox
<1>5. x = L.x0 - 240 \/ x = L.x1 + 240
  BY DEF Overshoot, Unit
<1>6. L.x0 <= L.x1
  <2>1. L.x1 = L.x0 + c.plan[s].w /\ c.plan[s].w \in Nat
    BY <1>0 DEF GridMade, IsPlan
  <2> QED  BY <1>4, <2>1
<1>7. IsBox(E)
  BY <1>0, ExtentCovers
<1> HIDE DEF N, Z, S, L
<1>8. CASE d = s
  <2>1. S.x1 <= M.x0 \/ M.x1 <= S.x0
    BY <1>2, <1>4, <1>5, <1>8 DEF L
  <2>2. S.x0 \in Int /\ S.x1 \in Int
    BY <1>2, <1>4, <1>5
  <2> QED  BY <2>1, <2>2 DEF Clear, S, N, Z
<1>9. CASE d \in Sectors(p) /\ d # s /\ Band(p, d) = Band(p, s)
  <2>1. d < s \/ s < d
    <3>1. d \in Nat /\ s \in Nat
      BY <1>9, SectorsAre
    <3> QED  BY <1>9, <3>1
  <2>2. L.x1 + MinGap <= M.x0 \/ M.x1 + MinGap <= L.x0
    BY <1>0, <1>9, <2>1 DEF GridMade, L
  <2>3. MinGap = 3200
    BY DEF MinGap, Unit
  <2>4. S.x1 <= M.x0 \/ M.x1 <= S.x0
    <3> HIDE DEF M
    <3>1. CASE L.x1 + MinGap <= M.x0
      BY <1>2, <1>4, <1>5, <1>6, <2>3, <3>1
    <3>2. CASE M.x1 + MinGap <= L.x0
      BY <1>2, <1>4, <1>5, <1>6, <2>3, <3>2
    <3> QED  BY <2>2, <3>1, <3>2
  <2>5. S.x0 \in Int /\ S.x1 \in Int
    BY <1>2, <1>4, <1>5
  <2> QED  BY <2>4, <2>5 DEF Clear, S, N, Z
<1>10. CASE d \in Sectors(p) /\ Band(p, d) # Band(p, s)
  <2>1. Band(p, d) < Band(p, s) \/ Band(p, s) < Band(p, d)
    <3>1. LastBand(p) \in Nat /\ \A t \in Sectors(p) : Band(p, t) \in 0..LastBand(p)
      BY BandsAre
    <3>2. Band(p, d) \in Nat /\ Band(p, s) \in Nat
      BY <1>10, <3>1
    <3> QED  BY <1>10, <3>2
  <2>2. S.z1 <= M.z0 \/ M.z1 <= S.z0
    BY <1>1, <1>2, <1>10, <2>1
  <2> QED  BY <1>1, <1>2, <2>2 DEF Clear, S, N, Z
<1>11. CASE d \notin Sectors(p)
  <2>1. M.z1 <= E.z0 - 3200 \/ E.z1 + 2400 <= M.z0
    BY <1>11 DEF LandsMade, BesideTheCity
  <2>2. E.z0 \in Int /\ E.z1 \in Int
    BY <1>7 DEF IsBox
  <2> HIDE DEF E, M
  <2>3. S.z1 <= M.z0 \/ M.z1 <= S.z0
    BY <1>1, <1>2, <1>4, <2>1, <2>2
  <2> QED  BY <1>1, <1>2, <2>3 DEF Clear, S, N, Z, M
<1> QED  BY <1>8, <1>9, <1>10, <1>11

\* The avenues of headquarters lead past it, and no farther than the trunk while there are
\* sectors.
LEMMA HQAvenuesClear ==
    ASSUME NEW p, NEW c, IsPayload(p), LandsMade(p, c), HQ \in DOMAIN c.land,
           NEW r \in HQRoads(p, c), NEW d \in DOMAIN c.land
    PROVE  Clear(Strip(r), c.land[d])
<1> DEFINE E == Extent(p, c)
           T == IF Sectors(p) # {} THEN Trunk(p, c) ELSE Trench(p, c)
           b == c.land[HQ]
           M == c.land[d]
<1>0. (\A t \in Sectors(p) : IsPlan(c.plan[t])) /\ GridMade(p, c)
  BY DEF LandsMade
<1>1. PICK x \in {b.x0 - Overshoot, b.x1 + Overshoot} : r = Avenue(HQ, x, b.z0, T)
  BY DEF HQRoads
<1>2. /\ IsBox(E) /\ E.z0 <= E.z1
      /\ \A s \in Sectors(p) : E.z0 <= c.land[s].z0 /\ c.land[s].z1 <= E.z1
  BY <1>0, ExtentCovers
<1>3. IsBox(b) /\ IsBox(M)
  BY LandsApart
<1>4. Trunk(p, c) = E.z0 - 960 /\ Trench(p, c) = E.z1 + 960
  <2>1. TrunkOffset = 960
    BY DEF TrunkOffset, Unit
  <2> QED  BY <2>1 DEF Trunk, Trench
<1>5. /\ b.x0 \in Int /\ b.x1 \in Int /\ b.z0 \in Int /\ b.z1 \in Int
      /\ M.x0 \in Int /\ M.x1 \in Int /\ M.z0 \in Int /\ M.z1 \in Int
      /\ E.z0 \in Int /\ E.z1 \in Int
  BY <1>2, <1>3 DEF IsBox
<1>6. x = b.x0 - 240 \/ x = b.x1 + 240
  BY DEF Overshoot, Unit
<1> DEFINE S == Strip(r)
<1>7. S.x0 = x - 88 /\ S.x1 = x + 88 /\ S.z0 = b.z0 /\ S.z1 = T
  BY <1>1, AvenueStrips
<1>8. d \in Sectors(p) \/ d \in {HQ, Governance}
  BY DEF LandsMade
<1>9. d \in Sectors(p) => E.z0 <= M.z0
  BY <1>2
<1>10. d = Governance /\ d \notin Sectors(p) => E.z1 + 2400 <= M.z0
  BY DEF LandsMade, BesideTheCity
<1>11. d = HQ => M = b
  OBVIOUS
<1>12. T = E.z0 - 960 \/ (Sectors(p) = {} /\ T = E.z1 + 960)
  BY <1>4
<1> HIDE DEF E, T, b, M, S
<1>13. CASE d = HQ
  <2>1. S.x1 <= M.x0 \/ M.x1 <= S.x0
    BY <1>5, <1>6, <1>7, <1>11, <1>13
  <2>2. S.x0 \in Int /\ S.x1 \in Int
    BY <1>5, <1>6, <1>7
  <2> QED  BY <2>1, <2>2 DEF Clear, S, M
<1>14. CASE d \in Sectors(p)
  <2>1. S.z1 <= M.z0 /\ S.z1 \in Int
    BY <1>5, <1>7, <1>9, <1>12, <1>14
  <2> QED  BY <2>1 DEF Clear, S, M
<1>15. CASE d = Governance /\ d \notin Sectors(p)
  <2>1. S.z1 <= M.z0 /\ S.z1 \in Int
    BY <1>2, <1>5, <1>7, <1>10, <1>12, <1>15
  <2> QED  BY <2>1 DEF Clear, S, M
<1> QED  BY <1>8, <1>13, <1>14, <1>15

-----------------------------------------------------------------------------
(* Roads clear of buildings.                                               *)

\* No road that is built runs through a building.
LEMMA RoadsAreClear ==
    ASSUME NEW p, NEW c, IsPayload(p), LandsMade(p, c), Settled(p, c),
           Sectors(p) \subseteq DOMAIN c.land, "roads" \in DOMAIN c
    PROVE  RoadsClear(p, BuildRoads(p, c))
<1> DEFINE e == BuildRoads(p, c)
           L == {c.land[d] : d \in DOMAIN c.land}
           all == [x0 |-> Min({b.x0 : b \in L}), x1 |-> Max({b.x1 : b \in L})]
           major == {Trunk(p, c), Trench(p, c)}
                      \union {Boulevard(p, c, b) : b \in 0..LastBand(p) - 1}
<1>1. /\ e.district = c.district /\ e.at = c.at /\ e.size = c.size
      /\ e.roads = IF L = {} THEN {}
                   ELSE {Street(NoDistrict, z, z, all, TrunkWidth) : z \in major}
                          \union (UNION {SectorRoads(p, c, s) : s \in Sectors(p)})
                          \union IF HQ \in DOMAIN c.land THEN HQRoads(p, c) ELSE {}
  BY DEF BuildRoads
<1>2. Housed(p, e) = Housed(p, c) /\ \A n : BoxOf(e, n) = BoxOf(c, n)
  BY <1>1 DEF Housed, BoxOf
<1> HIDE DEF L, e, all
<1> SUFFICES ASSUME NEW r \in e.roads, NEW n \in Housed(p, c)
             PROVE  ~Overlap(Strip(r), BoxOf(c, n))
  BY <1>2 DEF RoadsClear, e
<1> DEFINE d == c.district[n]
<1>3. d \in DOMAIN c.land
  BY DEF Settled
<1>4. CASE r \in {Street(NoDistrict, z, z, all, TrunkWidth) : z \in major}
  <2>1. PICK z \in major : r = Street(NoDistrict, z, z, all, TrunkWidth)
    BY <1>4
  <2>2. z \in Int /\ (z + 168 <= c.land[d].z0 \/ c.land[d].z1 <= z - 168)
    BY <1>3, MajorRoads
  <2>3. Strip(r).z0 = z - 168 /\ Strip(r).z1 = z + 168
    BY <2>1, StreetStrips
  <2>4. Clear(Strip(r), c.land[d])
    BY <2>2, <2>3 DEF Clear
  <2> QED  BY <2>4, PastAll
<1>5. ASSUME NEW s \in Sectors(p), r \in SectorRoads(p, c, s)
      PROVE  ~Overlap(Strip(r), BoxOf(c, n))
  <2> DEFINE N == NorthRoad(p, c, Band(p, s))
             Z == SouthRoad(p, c, Band(p, s))
             ends == {c.land[s].x0 - Overshoot, c.land[s].x1 + Overshoot}
  <2>1. \/ \E k \in 0..c.plan[s].rows :
             r = Street(s, k, c.land[s].z0 + Pad + k * c.plan[s].pitch, c.land[s], StreetWidth)
        \/ \E x \in ends : r = Avenue(s, x, N, Z)
    BY <1>5 DEF SectorRoads
  <2>2. ASSUME NEW k \in 0..c.plan[s].rows,
               r = Street(s, k, c.land[s].z0 + Pad + k * c.plan[s].pitch, c.land[s], StreetWidth)
        PROVE  ~Overlap(Strip(r), BoxOf(c, n))
    <3>1. Pad = 800
      BY DEF Pad, Unit
    <3>2. r = Street(s, k, RowNorth(c, s, k), c.land[s], StreetWidth)
      BY <2>2, <3>1 DEF RowNorth
    <3> QED  BY <3>2, StreetsClear
  <2>3. ASSUME NEW x \in ends, r = Avenue(s, x, N, Z)
        PROVE  ~Overlap(Strip(r), BoxOf(c, n))
    <3>1. Clear(Strip(Avenue(s, x, N, Z)), c.land[d])
      BY <1>3, AvenuesClear
    <3>2. Clear(Strip(r), c.land[d])
      BY <2>3, <3>1
    <3> QED  BY <3>2, PastAll
  <2> QED  BY <2>1, <2>2, <2>3
<1>6. CASE HQ \in DOMAIN c.land /\ r \in HQRoads(p, c)
  <2>1. Clear(Strip(r), c.land[d])
    BY <1>3, <1>6, HQAvenuesClear
  <2> QED  BY <2>1, PastAll
<1>7. \/ r \in {Street(NoDistrict, z, z, all, TrunkWidth) : z \in major}
      \/ \E s \in Sectors(p) : r \in SectorRoads(p, c, s)
      \/ HQ \in DOMAIN c.land /\ r \in HQRoads(p, c)
  <2> HIDE DEF major
  <2> QED  BY <1>1
<1> QED  BY <1>4, <1>5, <1>6, <1>7

\* What has been said of districts, buildings and roads is about these alone.
LEMMA CityAlike ==
    ASSUME NEW p, NEW c, NEW e, c.district = e.district, c.land = e.land,
           \A n \in Housed(p, c) : c.at[n] = e.at[n] /\ c.size[n] = e.size[n]
    PROVE  /\ DistrictsApart(c) => DistrictsApart(e)
           /\ BuildingsApart(p, c) => BuildingsApart(p, e)
           /\ RoadsClear(p, c) /\ c.roads = e.roads => RoadsClear(p, e)
<1>1. Housed(p, e) = Housed(p, c)
  BY DEF Housed
<1>2. \A n \in Housed(p, c) : BoxOf(e, n) = BoxOf(c, n)
  BY DEF BoxOf
<1>3. DistrictsApart(c) => DistrictsApart(e)
  BY DEF DistrictsApart
<1>4. BuildingsApart(p, c) => BuildingsApart(p, e)
  BY <1>1, <1>2 DEF BuildingsApart
<1>5. RoadsClear(p, c) /\ c.roads = e.roads => RoadsClear(p, e)
  BY <1>1, <1>2 DEF RoadsClear
<1> QED  BY <1>3, <1>4, <1>5

-----------------------------------------------------------------------------
(* Zones, children first.                                                  *)

\* What a function makes of finitely many things is finitely many.
LEMMA ImageFinite ==
    ASSUME NEW S, IsFiniteSet(S), NEW g, DOMAIN g = S
    PROVE  IsFiniteSet({g[x] : x \in S})
<1> DEFINE Q == {T \in SUBSET S : IsFiniteSet({g[x] : x \in T})}
<1>1. {} \in Q
  <2>1. {g[x] : x \in {}} = {}
    OBVIOUS
  <2> QED  BY <2>1, FS_EmptySet
<1>2. ASSUME NEW T \in Q, NEW x \in S \ T PROVE T \union {x} \in Q
  <2> DEFINE A == {g[y] : y \in T}
  <2>1. {g[y] : y \in T \union {x}} = A \union {g[x]}
    OBVIOUS
  <2>2. IsFiniteSet(A)
    OBVIOUS
  <2> HIDE DEF A
  <2>3. IsFiniteSet(A \union {g[x]})
    BY <2>2, FS_AddElement
  <2> QED  BY <2>1, <2>3
<1>3. Q = SUBSET S
  <2>1. Q \in SUBSET SUBSET S
    OBVIOUS
  <2> HIDE DEF Q
  <2> QED  BY <1>1, <1>2, <2>1, OneByOne
<1>4. S \in Q
  <2> HIDE DEF Q
  <2> QED  BY <1>3
<1> QED  BY <1>4

\* One box is well inside another.
WellInside(x, z) ==
    z.x0 + 320 <= x.x0 /\ x.x1 + 320 <= z.x1 /\ z.z0 + 320 <= x.z0 /\ x.z1 + 320 <= z.z1

\* What is around finitely many boxes is one, with room to spare on all sides.
LEMMA AroundBoxes ==
    ASSUME NEW S, IsFiniteSet(S), \A x \in S : IsBox(x)
    PROVE  IsBox(Around(S)) /\ \A x \in S : WellInside(x, Around(S))
<1>1. CASE S = {}
  <2>1. Around(S) = Marker
    BY <1>1 DEF Around
  <2>2. IsBox(Marker)
    BY DEF IsBox, Marker, EmptyZone, Unit
  <2> QED  BY <1>1, <2>1, <2>2
<1>2. CASE S # {}
  <2> DEFINE a0 == [x \in S |-> x.x0]
             a1 == [x \in S |-> x.x1]
             b0 == [x \in S |-> x.z0]
             b1 == [x \in S |-> x.z1]
             u == Min({a0[x] : x \in S})
             v == Max({a1[x] : x \in S})
             y == Min({b0[x] : x \in S})
             z == Max({b1[x] : x \in S})
  <2>1. /\ {x.x0 : x \in S} = {a0[x] : x \in S} /\ {x.x1 : x \in S} = {a1[x] : x \in S}
        /\ {x.z0 : x \in S} = {b0[x] : x \in S} /\ {x.z1 : x \in S} = {b1[x] : x \in S}
    OBVIOUS
  <2>2. a0 \in [S -> Int] /\ a1 \in [S -> Int] /\ b0 \in [S -> Int] /\ b1 \in [S -> Int]
    BY DEF IsBox
  <2>3. \A x \in S : a0[x] = x.x0 /\ a1[x] = x.x1 /\ b0[x] = x.z0 /\ b1[x] = x.z1
    OBVIOUS
  <2>4. ZonePad = 320
    BY DEF ZonePad, Unit
  <2> HIDE DEF a0, a1, b0, b1
  <2>5. /\ Around(S).x0 = u - 320 /\ Around(S).x1 = v + 320
        /\ Around(S).z0 = y - 320 /\ Around(S).z1 = z + 320
    BY <1>2, <2>1, <2>4 DEF Around
  <2>6. u \in Int /\ \A x \in S : u <= a0[x]
    BY <1>2, <2>2, LeastAndGreatest
  <2>7. v \in Int /\ \A x \in S : a1[x] <= v
    BY <1>2, <2>2, LeastAndGreatest
  <2>8. y \in Int /\ \A x \in S : y <= b0[x]
    BY <1>2, <2>2, LeastAndGreatest
  <2>9. z \in Int /\ \A x \in S : b1[x] <= z
    BY <1>2, <2>2, LeastAndGreatest
  <2> HIDE DEF u, v, y, z
  <2>10. IsBox(Around(S))
    BY <2>5, <2>6, <2>7, <2>8, <2>9 DEF IsBox
  <2>11. ASSUME NEW x \in S PROVE WellInside(x, Around(S))
    <3>1. x.x0 \in Int /\ x.x1 \in Int /\ x.z0 \in Int /\ x.z1 \in Int
      BY DEF IsBox
    <3>2. u <= x.x0 /\ x.x1 <= v /\ y <= x.z0 /\ x.z1 <= z
      BY <2>3, <2>6, <2>7, <2>8, <2>9
    <3> QED  BY <2>5, <2>6, <2>7, <2>8, <2>9, <3>1, <3>2 DEF WellInside
  <2> QED  BY <2>10, <2>11
<1> QED  BY <1>1, <1>2

\* The boundaries that are nested in one, and the boxes its zone is around, when z are the
\* zones.
Kids(p, b)       == {m \in DOMAIN p.boundaries : p.boundaries[m].parent = b}
ZoneOf(p, c, z, b) == Around(MemberBoxes(p, c, b) \union {z[k] : k \in Kids(p, b)})
Zones(p, c, z)   == z = [b \in DOMAIN p.boundaries |-> ZoneOf(p, c, z, b)]

\* A boundary has a height below that of the one it is nested in.
Heights(p, h) ==
    /\ h \in [DOMAIN p.boundaries -> Nat]
    /\ \A b \in DOMAIN p.boundaries :
         p.boundaries[b].parent \in DOMAIN p.boundaries => h[b] < h[p.boundaries[b].parent]

\* With heights, children can come before their parents all the way up.
LEMMA ZonesExist ==
    ASSUME NEW p, NEW c, IsFiniteSet(DOMAIN p.boundaries), NEW h, Heights(p, h)
    PROVE  \E z : Zones(p, c, z)
<1> DEFINE D == DOMAIN p.boundaries
           UpTo(m) == {b \in D : h[b] < m}
           Good(m, z) == z = [b \in UpTo(m) |-> ZoneOf(p, c, z, b)]
           T == {m \in Nat : \E z : Good(m, z)}
<1>1. h \in [D -> Nat] /\ \A b \in D : \A k \in Kids(p, b) : k \in D /\ h[k] < h[b]
  BY DEF Heights, Kids
<1> HIDE DEF D
<1>2. 0 \in T
  <2> DEFINE z == [b \in UpTo(0) |-> 0]
  <2>1. UpTo(0) = {}
    BY <1>1
  <2>2. Good(0, z)
    <3> HIDE DEF UpTo
    <3> QED  BY <2>1
  <2> HIDE DEF z, Good
  <2> QED  BY <2>2
<1>3. ASSUME NEW m \in T PROVE m + 1 \in T
  <2>1. PICK z : Good(m, z)
    OBVIOUS
  <2> DEFINE d == [b \in UpTo(m + 1) |-> ZoneOf(p, c, z, b)]
  <2>2. \A b \in UpTo(m) : b \in UpTo(m + 1)
    BY <1>1
  <2>3. \A b \in UpTo(m + 1) : \A k \in Kids(p, b) : k \in UpTo(m)
    BY <1>1
  <2> HIDE DEF UpTo
  <2>4. \A b \in UpTo(m) : d[b] = z[b]
    BY <2>1, <2>2
  <2>5. \A b \in UpTo(m + 1) : ZoneOf(p, c, z, b) = ZoneOf(p, c, d, b)
    <3> TAKE b \in UpTo(m + 1)
    <3>1. \A k \in Kids(p, b) : z[k] = d[k]
      BY <2>3, <2>4
    <3> HIDE DEF d
    <3>2. {z[k] : k \in Kids(p, b)} = {d[k] : k \in Kids(p, b)}
      BY <3>1
    <3> QED  BY <3>2 DEF ZoneOf
  <2>6. Good(m + 1, d)
    BY <2>5
  <2> HIDE DEF d, Good
  <2> QED  BY <2>6
<1>4. T = Nat
  <2> HIDE DEF Good
  <2> QED  BY <1>2, <1>3, Induction
<1>5. PICK m \in Nat : UpTo(m) = D
  <2> DEFINE top == Largest({h[x] : x \in D})
  <2>1. top \in Nat /\ \A b \in D : h[b] <= top
    BY <1>1, LargestOf DEF D
  <2> HIDE DEF top
  <2>2. UpTo(top + 1) = D /\ top + 1 \in Nat
    BY <1>1, <2>1
  <2> QED  BY <2>2
<1>6. PICK z : Good(m, z)
  <2> HIDE DEF Good
  <2> QED  BY <1>4
<1>7. Zones(p, c, z)
  <2> HIDE DEF UpTo
  <2> QED  BY <1>5, <1>6 DEF Zones, D
<1> QED  BY <1>7

\* And every zone is a box, well around those of its members and of its children.
LEMMA ZonesAre ==
    ASSUME NEW p, NEW c, IsFiniteSet(DOMAIN p.boundaries), NEW h, Heights(p, h), NEW z, Zones(p, c, z),
           \A b \in DOMAIN p.boundaries :
             IsFiniteSet(MemberBoxes(p, c, b)) /\ \A x \in MemberBoxes(p, c, b) : IsBox(x)
    PROVE  \A b \in DOMAIN p.boundaries :
             /\ IsBox(z[b])
             /\ \A x \in MemberBoxes(p, c, b) : WellInside(x, z[b])
             /\ \A k \in Kids(p, b) : WellInside(z[k], z[b])
<1> DEFINE D == DOMAIN p.boundaries
           Boxes(b) == MemberBoxes(p, c, b) \union {z[k] : k \in Kids(p, b)}
           Bad == {b \in D : ~IsBox(z[b])}
<1>1. \A b \in D : z[b] = Around(Boxes(b))
  BY DEF Zones, ZoneOf
<1>2. h \in [D -> Nat] /\ \A b \in D : \A k \in Kids(p, b) : k \in D /\ h[k] < h[b]
  BY DEF Heights, Kids
<1>3. \A b \in D : IsFiniteSet(Boxes(b))
  <2> TAKE b \in D
  <2> DEFINE K == Kids(p, b)
             g == [k \in K |-> z[k]]
  <2>1. IsFiniteSet(K)
    <3>1. K \in SUBSET D
      BY DEF Kids
    <3> HIDE DEF K
    <3> QED  BY <3>1, FS_Subset
  <2>2. {g[k] : k \in K} = {z[k] : k \in K} /\ DOMAIN g = K
    OBVIOUS
  <2> HIDE DEF g
  <2>3. IsFiniteSet({g[k] : k \in K})
    <3> HIDE DEF K
    <3> QED  BY <2>1, <2>2, ImageFinite
  <2>4. IsFiniteSet({z[k] : k \in K})
    BY <2>2, <2>3
  <2>5. IsFiniteSet(MemberBoxes(p, c, b))
    OBVIOUS
  <2> QED  BY <2>4, <2>5, FS_Union
<1>4. Bad = {}
  <2> SUFFICES ASSUME Bad # {} PROVE FALSE
    OBVIOUS
  <2> DEFINE H == {h[b] : b \in Bad}
  <2>1. H \in SUBSET Nat /\ H # {}
    BY <1>2
  <2> HIDE DEF H
  <2>2. PICK m \in H : \A j \in H : m <= j
    BY <2>1, LeastOf
  <2>3. PICK b \in Bad : h[b] = m
    BY DEF H
  <2>4. \A k \in Kids(p, b) : IsBox(z[k])
    <3> TAKE k \in Kids(p, b)
    <3>1. k \in D /\ h[k] < h[b] /\ h[k] \in Nat /\ h[b] \in Nat
      BY <1>2
    <3>2. k \in Bad => h[k] \in H
      BY DEF H
    <3> QED  BY <2>2, <2>3, <3>1, <3>2
  <2>5. \A x \in Boxes(b) : IsBox(x)
    BY <2>4
  <2>6. IsBox(Around(Boxes(b)))
    <3> HIDE DEF Boxes
    <3> QED  BY <1>3, <2>5, AroundBoxes
  <2> QED  BY <1>1, <2>6
<1>5. \A b \in D : IsBox(z[b])
  BY <1>4
<1> SUFFICES ASSUME NEW b \in D
             PROVE  /\ \A x \in MemberBoxes(p, c, b) : WellInside(x, z[b])
                    /\ \A k \in Kids(p, b) : WellInside(z[k], z[b])
  BY <1>5
<1>6. \A x \in Boxes(b) : IsBox(x)
  BY <1>2, <1>5
<1>7. \A x \in Boxes(b) : WellInside(x, Around(Boxes(b)))
  <2> HIDE DEF Boxes
  <2> QED  BY <1>3, <1>6, AroundBoxes
<1>8. z[b] = Around(Boxes(b))
  BY <1>1
<1> QED  BY <1>7, <1>8

-----------------------------------------------------------------------------
(* Zones once they are placed.                                             *)

\* Where nothing is above itself, each has a height below that of what it is under.
LEMMA HeightsExist ==
    ASSUME NEW D, IsFiniteSet(D), NEW up, Nested(up, D)
    PROVE  \E h \in [D -> Nat] : \A x \in D : up[x] \in D => h[x] < h[up[x]]
<1> DEFINE Good(S) == \E h \in [S -> Nat] : \A x \in S : up[x] \in S => h[x] < h[up[x]]
           B == {S \in SUBSET D : ~Good(S)}
<1> SUFFICES ASSUME B # {} PROVE FALSE
  OBVIOUS
<1>1. PICK T \in B : \A U \in B : U \subseteq T => U = T
  <2>1. B \in SUBSET SUBSET D /\ B # {}
    OBVIOUS
  <2> HIDE DEF B
  <2> QED  BY <2>1, SmallestSet
<1>2. T # {}
  <2>1. Good({})
    <3> DEFINE h == [x \in {} |-> 0]
    <3>1. h \in [{} -> Nat] /\ \A x \in {} : up[x] \in {} => h[x] < h[up[x]]
      OBVIOUS
    <3> QED  BY <3>1
  <2> HIDE DEF Good
  <2> QED  BY <2>1
<1>3. PICK b \in T : up[b] \notin T
  BY <1>1, <1>2 DEF Nested
<1> DEFINE U == T \ {b}
<1>4. Good(U)
  <2>1. U \in SUBSET D /\ U \subseteq T /\ U # T
    BY <1>1, <1>3
  <2> HIDE DEF Good
  <2> QED  BY <1>1, <2>1
<1>5. PICK g \in [U -> Nat] : \A x \in U : up[x] \in U => g[x] < g[up[x]]
  BY <1>4
<1> DEFINE top == Largest({g[x] : x \in U})
<1>6. top \in Nat /\ \A x \in U : g[x] <= top
  <2>1. IsFiniteSet(U)
    BY <1>1, FS_Subset
  <2> HIDE DEF U
  <2> QED  BY <2>1, LargestOf
<1> HIDE DEF top
<1> DEFINE h == [x \in T |-> IF x = b THEN top + 1 ELSE g[x]]
<1>7. h \in [T -> Nat]
  BY <1>6
<1>8. ASSUME NEW x \in T, up[x] \in T PROVE h[x] < h[up[x]]
  <2>1. x # b /\ x \in U
    BY <1>3, <1>8
  <2>2. CASE up[x] = b
    BY <1>6, <2>1, <2>2
  <2>3. CASE up[x] # b
    BY <1>5, <1>8, <2>1, <2>3
  <2> QED  BY <2>2, <2>3
<1>9. Good(T)
  <2> HIDE DEF h
  <2> QED  BY <1>7, <1>8
<1> QED
  <2> HIDE DEF Good
  <2> QED  BY <1>1, <1>9

\* The boundaries of a payload are nodes of it, of their type, none nested in itself.
BoundariesFit(p) ==
    /\ DOMAIN p.boundaries \subseteq {n \in p.nodes : p.type[n] = "boundary"}
    /\ Nested([b \in DOMAIN p.boundaries |-> p.boundaries[b].parent], DOMAIN p.boundaries)

\* All that zones are around are boxes.
BoxesMade(p, c) ==
    /\ c.district = [n \in p.nodes |-> District(p, n)]
    /\ Sectors(p) \subseteq DOMAIN c.land
    /\ \A d \in DOMAIN c.land : IsBox(c.land[d])
    /\ \A n \in Housed(p, c) : IsBox(BoxOf(c, n))

\* The members a zone is around, and that their boxes are boxes.
LEMMA MembersAre ==
    ASSUME NEW p, NEW c, IsPayload(p), BoxesMade(p, c), NEW b
    PROVE  IsFiniteSet(MemberBoxes(p, c, b)) /\ \A x \in MemberBoxes(p, c, b) : IsBox(x)
<1> DEFINE M == {m \in p.boundaries[b].members \intersect p.nodes :
                   p.type[m] \notin {"boundary", "flow"}}
           g == [n \in M |-> IF n \in Sectors(p) THEN c.land[n] ELSE BoxOf(c, n)]
<1>1. MemberBoxes(p, c, b) = {g[n] : n \in M}
  BY DEF MemberBoxes
<1>2. IsFiniteSet(M)
  <2>1. M \in SUBSET p.nodes
    OBVIOUS
  <2> HIDE DEF M
  <2> QED  BY <2>1, FS_Subset DEF IsPayload
<1>3. ASSUME NEW n \in M PROVE IsBox(g[n])
  <2>1. n \in p.nodes /\ p.type[n] \notin {"boundary", "flow"}
    OBVIOUS
  <2>2. c.district[n] \in Sectors(p) \union {d \in {HQ, Governance} : InDistrict(p, c, d) # {}}
    BY <2>1, EveryBuildingHasDistrict DEF IsPayload, BoxesMade
  <2>3. Sectors(p) \in SUBSET Nat
    BY SectorsAre
  <2>4. NoDistrict \notin Nat \union {HQ, Governance}
    BY DEF NoDistrict, HQ, Governance
  <2>5. n \in Housed(p, c)
    BY <2>1, <2>2, <2>3, <2>4 DEF Housed
  <2> QED  BY <2>5 DEF BoxesMade
<1>4. DOMAIN g = M
  OBVIOUS
<1> HIDE DEF g, M
<1> QED  BY <1>1, <1>2, <1>3, <1>4, ImageFinite

\* The box of what is put in the middle of a box, as wide and as deep, is that box, but for
\* half a unit.
LEMMA InTheMiddle ==
    ASSUME NEW z, IsBox(z), NEW c, NEW n, c.at[n] = Spot(MidX(z), MidZ(z)),
           c.size[n] = [w |-> z.x1 - z.x0, d |-> z.z1 - z.z0]
    PROVE  LET b == BoxOf(c, n)
           IN  /\ IsBox(b) /\ b.x0 \in z.x0 .. z.x0 + 1 /\ b.x1 \in z.x1 - 1 .. z.x1
               /\ b.z0 \in z.z0 .. z.z0 + 1 /\ b.z1 \in z.z1 - 1 .. z.z1
<1>1. \A u, v \in Int : LET m == (u + v) \div 2
                            r == (v - u) \div 2
                        IN  m - r \in u .. u + 1 /\ m + r \in v - 1 .. v
  OBVIOUS
<1>2. /\ c.at[n].x = (z.x0 + z.x1) \div 2 /\ c.at[n].z = (z.z0 + z.z1) \div 2
      /\ c.size[n].w = z.x1 - z.x0 /\ c.size[n].d = z.z1 - z.z0
  BY DEF Spot, MidX, MidZ
<1>3. z.x0 \in Int /\ z.x1 \in Int /\ z.z0 \in Int /\ z.z1 \in Int
  BY DEF IsBox
<1> DEFINE b == BoxOf(c, n)
<1>4. /\ b.x0 = (z.x0 + z.x1) \div 2 - (z.x1 - z.x0) \div 2
      /\ b.x1 = (z.x0 + z.x1) \div 2 + (z.x1 - z.x0) \div 2
      /\ b.z0 = (z.z0 + z.z1) \div 2 - (z.z1 - z.z0) \div 2
      /\ b.z1 = (z.z0 + z.z1) \div 2 + (z.z1 - z.z0) \div 2
  BY <1>2 DEF BoxOf
<1> HIDE DEF b
<1>5. b.x0 \in z.x0 .. z.x0 + 1 /\ b.x1 \in z.x1 - 1 .. z.x1
  BY <1>1, <1>3, <1>4
<1>6. b.z0 \in z.z0 .. z.z0 + 1 /\ b.z1 \in z.z1 - 1 .. z.z1
  BY <1>1, <1>3, <1>4
<1> QED  BY <1>3, <1>5, <1>6 DEF b, IsBox

\* Once the zones are placed each covers what its boundary encloses, and the zones of those
\* that are nested in it.
LEMMA ZonesCover ==
    ASSUME NEW p, NEW c, IsPayload(p), BoxesMade(p, c), BoundariesFit(p),
           {"at", "size"} \subseteq DOMAIN c
    PROVE  ZonesNest(p, PlaceZones(p, c))
<1> DEFINE D == DOMAIN p.boundaries
           e == PlaceZones(p, c)
           zone == CHOOSE z : Zones(p, c, z)
<1>1. D \subseteq p.nodes /\ \A n \in D : p.type[n] = "boundary"
  BY DEF BoundariesFit
<1>2. IsFiniteSet(D)
  <2> HIDE DEF D
  <2> QED  BY <1>1, FS_Subset DEF IsPayload
<1>3. \E h : Heights(p, h)
  <2> DEFINE up == [b \in D |-> p.boundaries[b].parent]
  <2>1. Nested(up, D)
    BY DEF BoundariesFit
  <2>2. \A b \in D : up[b] = p.boundaries[b].parent
    OBVIOUS
  <2> HIDE DEF D, up
  <2>3. \E h \in [D -> Nat] : \A x \in D : up[x] \in D => h[x] < h[up[x]]
    BY <1>2, <2>1, HeightsExist
  <2> QED  BY <2>2, <2>3 DEF Heights, D
<1>4. Zones(p, c, zone)
  BY <1>2, <1>3, ZonesExist
<1>5. /\ e.at = [n \in p.nodes |-> IF n \in D THEN Spot(MidX(zone[n]), MidZ(zone[n])) ELSE c.at[n]]
      /\ e.size = [n \in p.nodes |-> IF n \in D THEN [w |-> zone[n].x1 - zone[n].x0,
                                                      d |-> zone[n].z1 - zone[n].z0]
                                     ELSE c.size[n]]
      /\ e.land = c.land
  BY DEF PlaceZones, Zones, ZoneOf, Kids
<1> HIDE DEF e, zone
<1>6. \A b \in D :
        /\ IsBox(zone[b])
        /\ \A x \in MemberBoxes(p, c, b) : WellInside(x, zone[b]) /\ IsBox(x)
        /\ \A k \in Kids(p, b) : WellInside(zone[k], zone[b])
  BY <1>2, <1>3, <1>4, MembersAre, ZonesAre
<1>7. ASSUME NEW b \in D
      PROVE  LET x == BoxOf(e, b)
             IN  /\ IsBox(x) /\ x.x0 \in zone[b].x0 .. zone[b].x0 + 1
                 /\ x.x1 \in zone[b].x1 - 1 .. zone[b].x1
                 /\ x.z0 \in zone[b].z0 .. zone[b].z0 + 1
                 /\ x.z1 \in zone[b].z1 - 1 .. zone[b].z1
  <2>1. /\ e.at[b] = Spot(MidX(zone[b]), MidZ(zone[b]))
        /\ e.size[b] = [w |-> zone[b].x1 - zone[b].x0, d |-> zone[b].z1 - zone[b].z0]
    BY <1>1, <1>5
  <2>2. IsBox(zone[b])
    BY <1>6
  <2> QED  BY <2>1, <2>2, InTheMiddle
<1>8. ASSUME NEW b \in D PROVE MemberBoxes(p, e, b) = MemberBoxes(p, c, b)
  <2>1. ASSUME NEW n \in p.nodes, p.type[n] \notin {"boundary", "flow"}
        PROVE  BoxOf(e, n) = BoxOf(c, n)
    <3>1. n \notin D
      BY <1>1, <2>1
    <3> QED  BY <1>5, <3>1 DEF BoxOf
  <2> QED  BY <1>5, <2>1 DEF MemberBoxes
<1>9. ASSUME NEW b \in D, NEW x, IsBox(x), WellInside(x, zone[b]) PROVE Inside(x, BoxOf(e, b))
  <2> DEFINE y == BoxOf(e, b)
             z == zone[b]
  <2>1. /\ IsBox(y) /\ y.x0 \in z.x0 .. z.x0 + 1 /\ y.x1 \in z.x1 - 1 .. z.x1
        /\ y.z0 \in z.z0 .. z.z0 + 1 /\ y.z1 \in z.z1 - 1 .. z.z1
    BY <1>7
  <2>2. IsBox(z)
    BY <1>6
  <2> HIDE DEF y, z
  <2>3. WellInside(x, z)
    BY <1>9 DEF z
  <2>4. Inside(x, y)
    BY <1>9, <2>1, <2>2, <2>3 DEF IsBox, WellInside, Inside
  <2> QED  BY <2>4 DEF y
<1>10. ASSUME NEW b \in D, NEW k \in D, p.boundaries[k].parent = b
       PROVE  Inside(BoxOf(e, k), BoxOf(e, b))
  <2> DEFINE x == BoxOf(e, k)
             y == BoxOf(e, b)
             z == zone[b]
             u == zone[k]
  <2>1. /\ IsBox(y) /\ y.x0 \in z.x0 .. z.x0 + 1 /\ y.x1 \in z.x1 - 1 .. z.x1
        /\ y.z0 \in z.z0 .. z.z0 + 1 /\ y.z1 \in z.z1 - 1 .. z.z1
    BY <1>7
  <2>2. /\ IsBox(x) /\ x.x0 \in u.x0 .. u.x0 + 1 /\ x.x1 \in u.x1 - 1 .. u.x1
        /\ x.z0 \in u.z0 .. u.z0 + 1 /\ x.z1 \in u.z1 - 1 .. u.z1
    BY <1>7
  <2>3. IsBox(z) /\ IsBox(u)
    BY <1>6
  <2>4. WellInside(u, z)
    BY <1>6, <1>10 DEF Kids
  <2> HIDE DEF x, y, z, u
  <2>5. Inside(x, y)
    BY <2>1, <2>2, <2>3, <2>4 DEF IsBox, WellInside, Inside
  <2> QED  BY <2>5 DEF x, y
<1>11. \A b \in D : \A x \in MemberBoxes(p, e, b) : Inside(x, BoxOf(e, b))
  <2> SUFFICES ASSUME NEW b \in D, NEW x \in MemberBoxes(p, e, b) PROVE Inside(x, BoxOf(e, b))
    OBVIOUS
  <2>1. x \in MemberBoxes(p, c, b)
    BY <1>8
  <2>2. IsBox(x) /\ WellInside(x, zone[b])
    BY <1>6, <2>1
  <2> HIDE DEF D
  <2> QED  BY <1>9, <2>2
<1>12. ZonesNest(p, e)
  BY <1>10, <1>11 DEF ZonesNest
<1> QED  BY <1>12 DEF e

\* What has been said of zones is about the land and all nodes but flows.
LEMMA ZonesAlike ==
    ASSUME NEW p, NEW c, NEW e, c.land = e.land, BoundariesFit(p),
           \A n \in p.nodes : p.type[n] # "flow" => c.at[n] = e.at[n] /\ c.size[n] = e.size[n],
           ZonesNest(p, c)
    PROVE  ZonesNest(p, e)
<1>1. \A n \in p.nodes : p.type[n] # "flow" => BoxOf(e, n) = BoxOf(c, n)
  BY DEF BoxOf
<1>2. \A b : MemberBoxes(p, e, b) = MemberBoxes(p, c, b)
  BY <1>1 DEF MemberBoxes
<1>3. \A b \in DOMAIN p.boundaries : BoxOf(e, b) = BoxOf(c, b)
  BY <1>1 DEF BoundariesFit
<1> QED  BY <1>2, <1>3 DEF ZonesNest

-----------------------------------------------------------------------------
(* Boundaries that are not nested in themselves.                           *)

\* What is nested in nothing that it was not in before is not nested in itself.
LEMMA NestedStill ==
    ASSUME NEW B, 0 \notin B, NEW C \in SUBSET B, NEW f, Nested(f, B),
           NEW g, \A b \in C : g[b] \in {f[b], 0}
    PROVE  Nested(g, C)
<1> SUFFICES ASSUME NEW S \in SUBSET C, S # {} PROVE \E b \in S : g[b] \notin S
  BY DEF Nested
<1>1. PICK b \in S : f[b] \notin S
  BY DEF Nested
<1>2. g[b] \in {f[b], 0} /\ 0 \notin S
  OBVIOUS
<1> QED  BY <1>1, <1>2

\* No boundary is nested in itself: not in the store, not in what has been read of it.
NestInv ==
    /\ Nested(store.parent, Boundary)
    /\ build.at # "begin" => Nested(build.parent, Boundary \intersect build.present)
    /\ build.at \in {"edges", "events", "built"} =>
         /\ DOMAIN build.boundaries \subseteq Boundary \intersect build.present
         /\ Nested([b \in DOMAIN build.boundaries |-> build.boundaries[b].parent],
                   DOMAIN build.boundaries)
    /\ build.at \in {"events", "built"} => DOMAIN build.flows \subseteq Flow

\* Commands put components in containers, and take things out of what is deleted.
LEMMA EditKeepsNests ==
    ASSUME store \in Store, Nested(store.parent, Boundary), Edit
    PROVE  Nested(store'.parent, Boundary)
<1> USE DEF Change
<1>0. 0 \notin Boundary /\ Boundary \in SUBSET Boundary /\ Boundary \subseteq Node
  BY ExplorerAssumption DEF Boundary
<1> SUFFICES \A b \in Boundary : store'.parent[b] \in {store.parent[b], 0}
  BY <1>0, NestedStill
<1>1. ASSUME NEW n \in Spare, InsertEntity(n), NEW b \in Boundary
      PROVE  store'.parent[b] \in {store.parent[b], 0}
  <2>1. PICK q \in store.live \union {0} :
          /\ q # 0 => TypeOf[q] \in {"system", "container"} /\ TypeOf[n] = "component"
          /\ store' = [store EXCEPT !.live = @ \union {n}, !.parent[n] = q]
    BY <1>1 DEF InsertEntity
  <2>2. b = n => q = 0
    BY <2>1 DEF Boundary
  <2>3. store'.parent = [store.parent EXCEPT ![n] = q] /\ DOMAIN store.parent = Node
    BY <2>1 DEF Store
  <2>4. b \in Node
    BY <1>0
  <2> QED  BY <2>2, <2>3, <2>4
<1>2. ASSUME NEW n \in Node, DeleteEntity(n), NEW b \in Boundary
      PROVE  store'.parent[b] \in {store.parent[b], 0}
  <2>1. store'.parent = [m \in Node |-> IF m = n \/ store.parent[m] = n THEN 0 ELSE store.parent[m]]
    BY <1>2 DEF DeleteEntity, Store
  <2> QED  BY <1>0, <2>1
<1>3. ASSUME NEW r \in Links, AddRelationship(r) \/ RemoveRelationship(r)
      PROVE  store'.parent = store.parent
  BY <1>3 DEF AddRelationship, RemoveRelationship, Store
<1>4. ASSUME NEW a \in Decision, UpdateStatus(a)
      PROVE  store'.parent = store.parent
  BY <1>4 DEF UpdateStatus, Store
<1>5. ASSUME NEW a \in Decision, NEW n \in Targets, WritePatch(a, n)
      PROVE  store'.parent = store.parent
  BY <1>5 DEF WritePatch, Store
<1> QED  BY <1>1, <1>2, <1>3, <1>4, <1>5 DEF Edit

\* No boundary is nested in itself to begin with.
LEMMA NestsBegin == ExplorerInit => NestInv
BY NestingAssumption DEF ExplorerInit, NestInv, NoBuild

\* What is read is nested as it was in the store, or less.
LEMMA NestsKept == BuildInv /\ NestInv /\ [ExplorerNext]_explorerVars => NestInv'
<1> SUFFICES ASSUME BuildInv, NestInv, [ExplorerNext]_explorerVars
             PROVE  NestInv'
  OBVIOUS
<1>0. /\ store \in Store /\ IsBuild(build) /\ build.present \subseteq Node
      /\ 0 \notin Node /\ 0 \notin build.present /\ 0 \notin Boundary
  BY ExplorerAssumption DEF BuildInv, Boundary
<1>1. CASE Edit
  <2>1. build' = build
    BY <1>0, <1>1, EditKeepsStore
  <2>2. Nested(store'.parent, Boundary)
    BY <1>0, <1>1, EditKeepsNests DEF NestInv
  <2> QED  BY <2>1, <2>2 DEF NestInv
<1>2. CASE LoadEntities
  <2>1. /\ store' = store /\ build'.at = "staging"
        /\ build'.present = {n \in store.live : TypeOf[n] = "adr" => adrs}
        /\ build'.parent = [n \in store.live |-> store.parent[n]]
    BY <1>0, <1>2 DEF LoadEntities, IsBuild
  <2> DEFINE C == Boundary \intersect build'.present
  <2>2. C \in SUBSET Boundary /\ \A b \in C : build'.parent[b] \in {store.parent[b], 0}
    BY <2>1
  <2>3. Nested(store.parent, Boundary)
    BY DEF NestInv
  <2> HIDE DEF C
  <2>4. Nested(build'.parent, C)
    BY <1>0, <2>2, <2>3, NestedStill
  <2> QED  BY <2>1, <2>3, <2>4 DEF NestInv, C
<1>3. CASE CollectStaging
  <2>1. /\ store' = store /\ build.at = "staging" /\ build'.at = "boundaries"
        /\ build'.present = build.present /\ build'.parent = build.parent
    BY <1>0, <1>3 DEF CollectStaging, IsBuild
  <2> QED  BY <2>1 DEF NestInv
<1>4. CASE CollectBoundaries
  <2> DEFINE D == {n \in build.present : TypeOf[n] = "boundary"}
             B == [b \in D |->
                    [parent  |-> IF build.parent[b] \in build.present THEN build.parent[b] ELSE 0,
                     members |-> {r.to : r \in {q \in RelationshipsFrom(b) :
                                    q.kind = "encloses" /\ q.to \in build.present}}]]
             up == [b \in D |-> B[b].parent]
  <2>1. /\ store' = store /\ build.at = "boundaries"
        /\ build' = [build EXCEPT !.at = "edges", !.boundaries = B, !.todo = build.present]
    BY <1>4 DEF CollectBoundaries
  <2>2. D \in SUBSET (Boundary \intersect build.present) /\ DOMAIN B = D
    BY <1>0 DEF Boundary
  <2>3. \A b \in D : up[b] \in {build.parent[b], 0}
    OBVIOUS
  <2>4. up = [b \in DOMAIN B |-> B[b].parent]
    OBVIOUS
  <2> HIDE DEF B, D, up
  <2>5. /\ build'.at = "edges" /\ build'.present = build.present /\ build'.parent = build.parent
        /\ build'.boundaries = B
    BY <1>0, <2>1 DEF IsBuild
  <2>6. Nested(build.parent, Boundary \intersect build.present) /\ Nested(store.parent, Boundary)
    BY <2>1 DEF NestInv
  <2>7. Nested(up, D)
    BY <1>0, <2>2, <2>3, <2>6, NestedStill
  <2> QED  BY <2>1, <2>2, <2>4, <2>5, <2>6, <2>7 DEF NestInv
<1>5. CASE ReadEdges
  <2>1. /\ store' = store /\ build.at = "edges" /\ build'.at = "edges"
        /\ build'.present = build.present /\ build'.parent = build.parent
        /\ build'.boundaries = build.boundaries
    BY <1>0, <1>5 DEF ReadEdges, IsBuild
  <2> QED  BY <2>1 DEF NestInv
<1>6. CASE CollectFlows
  <2>1. /\ store' = store /\ build.at = "edges" /\ build'.at = "events"
        /\ build'.present = build.present /\ build'.parent = build.parent
        /\ build'.boundaries = build.boundaries
        /\ DOMAIN build'.flows = Flow \intersect build.present
    BY <1>0, <1>6 DEF CollectFlows, IsBuild
  <2> QED  BY <2>1 DEF NestInv
<1>7. CASE ReadEvents
  <2>1. /\ store' = store /\ build.at = "events" /\ build'.at = "built"
        /\ build'.present = build.present /\ build'.parent = build.parent
        /\ build'.boundaries = build.boundaries /\ build'.flows = build.flows
    BY <1>0, <1>7 DEF ReadEvents, IsBuild
  <2> QED  BY <2>1 DEF NestInv
<1>8. CASE LayoutCity \/ UNCHANGED explorerVars
  <2>1. store' = store /\ build' = build
    BY <1>8 DEF LayoutCity, LayOut, explorerVars
  <2> QED  BY <2>1 DEF NestInv
<1> QED  BY <1>1, <1>2, <1>3, <1>4, <1>5, <1>6, <1>7, <1>8 DEF ExplorerNext

-----------------------------------------------------------------------------
(* Layouts that are alike.                                                 *)

\* Sizes of buildings are those of their classes.
LEMMA SizesAlike ==
    ASSUME NEW c, NEW e, c.arch = e.arch
    PROVE  /\ \A n : Width(e, n) = Width(c, n) /\ Depth(e, n) = Depth(c, n)
           /\ \A S : MaxWidth(e, S) = MaxWidth(c, S) /\ MaxDepth(e, S) = MaxDepth(c, S)
           /\ \A S : RowWidth(e, S) = RowWidth(c, S)
<1>1. \A n : Width(e, n) = Width(c, n) /\ Depth(e, n) = Depth(c, n)
  BY DEF Width, Depth
<1>2. \A S : MaxWidth(e, S) = MaxWidth(c, S) /\ MaxDepth(e, S) = MaxDepth(c, S)
  <2> TAKE S
  <2>1. /\ {Width(e, n) : n \in S} = {Width(c, n) : n \in S}
        /\ {Depth(e, n) : n \in S} = {Depth(c, n) : n \in S}
    BY <1>1
  <2> QED  BY <2>1 DEF MaxWidth, MaxDepth
<1>3. \A S : RowWidth(e, S) = RowWidth(c, S)
  BY <1>2 DEF RowWidth, RowStep
<1> QED  BY <1>1, <1>2, <1>3

\* What the sectors are given is the same where districts, classes and rows are.
LEMMA PlansAlike ==
    ASSUME NEW p, NEW c, NEW e, c.district = e.district, c.arch = e.arch, c.layer = e.layer
    PROVE  /\ Classified(p, c) => Classified(p, e)
           /\ LayersMade(p, c) => LayersMade(p, e)
           /\ \A s : Plan(e, s) = Plan(c, s)
           /\ c.plan = e.plan /\ PlanMade(p, c) => PlanMade(p, e)
<1>1. Classified(p, c) => Classified(p, e)
  BY DEF Classified, Classed
<1>2. \A s : Buildings(p, e, s) = Buildings(p, c, s)
  BY DEF Buildings
<1>3. LayersMade(p, c) => LayersMade(p, e)
  BY <1>2 DEF LayersMade
<1>4. \A s, r : InRow(e, s, r) = InRow(c, s, r)
  BY DEF InRow
<1>5. \A s : Plan(e, s) = Plan(c, s)
  <2> TAKE s
  <2>1. \A rows : {RowWidth(e, InRow(e, s, r)) : r \in 0..rows - 1}
                    = {RowWidth(c, InRow(c, s, r)) : r \in 0..rows - 1}
    BY <1>4, SizesAlike
  <2>2. MaxDepth(e, DOMAIN e.layer[s]) = MaxDepth(c, DOMAIN c.layer[s])
    BY SizesAlike
  <2> QED  BY <2>1, <2>2 DEF Plan
<1>6. ASSUME c.plan = e.plan, PlanMade(p, c) PROVE PlanMade(p, e)
  <2>1. ASSUME NEW s, NEW n, FitsPlan(c, s, n) PROVE FitsPlan(e, s, n)
    <3>1. RowOfLayer(e, s, n) = RowOfLayer(c, s, n)
      BY <1>4 DEF RowOfLayer
    <3>2. RowWidth(e, RowOfLayer(c, s, n)) = RowWidth(c, RowOfLayer(c, s, n))
          /\ Depth(e, n) = Depth(c, n)
      BY SizesAlike
    <3> QED  BY <1>6, <2>1, <3>1, <3>2 DEF FitsPlan
  <2> QED  BY <1>2, <1>6, <2>1 DEF PlanMade
<1> QED  BY <1>1, <1>3, <1>5, <1>6

\* So is the land they are given, where the plans are.
LEMMA LandsAlike ==
    ASSUME NEW p, NEW c, NEW e, c.district = e.district, c.arch = e.arch, c.plan = e.plan
    PROVE  \A s \in Sectors(p) : SectorLand(p, e, s) = SectorLand(p, c, s)
<1>1. \A b : BandDepth(p, e, b) = BandDepth(p, c, b)
  <2> TAKE b
  <2>1. {e.plan[s].d : s \in InBand(p, b)} = {c.plan[s].d : s \in InBand(p, b)}
    OBVIOUS
  <2> QED  BY <2>1 DEF BandDepth
<1>2. \A b : BandTop(p, e, b) = BandTop(p, c, b)
  <2> TAKE b
  <2>1. [k \in 0..b - 1 |-> BandDepth(p, e, k) + BandGap]
          = [k \in 0..b - 1 |-> BandDepth(p, c, k) + BandGap]
    BY <1>1
  <2>2. BandDepth(p, e, 0) = BandDepth(p, c, 0)
    BY <1>1
  <2> QED  BY <2>1, <2>2 DEF BandTop
<1>3. SectorGap(p, e) = SectorGap(p, c)
  BY SizesAlike DEF SectorGap
<1>4. \A b : BandWidth(p, e, b) = BandWidth(p, c, b)
  <2> TAKE b
  <2>1. [s \in InBand(p, b) |-> e.plan[s].w] = [s \in InBand(p, b) |-> c.plan[s].w]
    OBVIOUS
  <2> QED  BY <1>3, <2>1 DEF BandWidth
<1> TAKE s \in Sectors(p)
<1> DEFINE b    == Band(p, s)
           west == {t \in InBand(p, b) : t < s}
<1>5. [t \in west |-> e.plan[t].w + SectorGap(p, e)] = [t \in west |-> c.plan[t].w + SectorGap(p, c)]
  BY <1>3
<1>6. /\ BandTop(p, e, b) = BandTop(p, c, b) /\ BandDepth(p, e, b) = BandDepth(p, c, b)
      /\ BandWidth(p, e, b) = BandWidth(p, c, b)
  BY <1>1, <1>2, <1>4
<1> QED  BY <1>5, <1>6 DEF SectorLand

\* What is built stands as it stood, where land, spots and sizes are the same.
LEMMA SettledAlike ==
    ASSUME NEW p, NEW c, NEW e, c.district = e.district, c.plan = e.plan, c.land = e.land,
           c.at = e.at, c.size = e.size
    PROVE  /\ GridMade(p, c) => GridMade(p, e)
           /\ LandsMade(p, c) => LandsMade(p, e)
           /\ Settled(p, c) => Settled(p, e)
           /\ BoxesMade(p, c) => BoxesMade(p, e)
           /\ ZonesNest(p, c) => ZonesNest(p, e)
<1>1. GridMade(p, c) => GridMade(p, e) /\ Extent(p, e) = Extent(p, c)
  <2> SUFFICES ASSUME GridMade(p, c) PROVE GridMade(p, e) /\ Extent(p, e) = Extent(p, c)
    OBVIOUS
  <2> QED  BY GridAlike
<1>2. LandsMade(p, c) => LandsMade(p, e)
  BY <1>1 DEF LandsMade
<1>3. Housed(p, e) = Housed(p, c) /\ \A n : BoxOf(e, n) = BoxOf(c, n)
  BY DEF Housed, BoxOf
<1>4. \A s, b : OffStreets(c, s, b) => OffStreets(e, s, b)
  BY DEF OffStreets, InRowOfSector, RowNorth
<1>5. Settled(p, c) => Settled(p, e)
  BY <1>3, <1>4 DEF Settled
<1>6. BoxesMade(p, c) => BoxesMade(p, e)
  BY <1>3 DEF BoxesMade
<1>7. \A b : MemberBoxes(p, e, b) = MemberBoxes(p, c, b)
  BY <1>3 DEF MemberBoxes
<1>8. ZonesNest(p, c) => ZonesNest(p, e)
  BY <1>3, <1>7 DEF ZonesNest
<1> QED  BY <1>1, <1>2, <1>5, <1>6, <1>8

-----------------------------------------------------------------------------
(* Each step of the layout.                                                *)

\* What holds of the layout at each of its steps: first the sectors are planned, on which
\* then houses, roads and zones are placed.
Planned(p, c) ==
    /\ c.done \in {"districts", "layers", "plans", "grid"} => Classified(p, c)
    /\ c.done \in {"layers", "plans", "grid"} => LayersMade(p, c)
    /\ c.done \in {"plans", "grid"} => PlanMade(p, c)
    /\ c.done = "grid" => GridMade(p, c)
Placed(p, c) ==
    /\ c.done = "buildings" => LandsMade(p, c) /\ Settled(p, c)
    /\ c.done \in {"buildings", "roads"} => BoxesMade(p, c)
    /\ c.done \in HasLand => DistrictsApart(c) /\ BuildingsApart(p, c)
    /\ c.done \in HasLand \ {"buildings"} => RoadsClear(p, c)
    /\ c.done \in HasLand \ {"buildings", "roads"} => ZonesNest(p, c)

\* What is known of the payload that is laid out.
LEMMA PayloadIs ==
    ASSUME BuildInv, NestInv, build.at = "built"
    PROVE  /\ IsPayload(CityInput) /\ BoundariesFit(CityInput)
           /\ \A n \in CityInput.nodes : CityInput.look[n] \in {"", "bunker", "transmit"}
           /\ \A f \in DOMAIN CityInput.flows : CityInput.type[f] = "flow"
<1>1. /\ CityInput.nodes = build.present /\ CityInput.type = TypeOf /\ CityInput.look = LookOf
      /\ CityInput.boundaries = build.boundaries /\ CityInput.flows = build.flows
  BY DEF CityInput
<1>2. build.present \subseteq Node
  BY DEF BuildInv
<1>3. IsPayload(CityInput)
  BY <1>1, <1>2, ExplorerAssumption, FS_Subset DEF IsPayload
<1>4. \A n \in CityInput.nodes : CityInput.look[n] \in {"", "bunker", "transmit"}
  BY <1>1, <1>2, ExplorerAssumption
<1>5. BoundariesFit(CityInput)
  BY <1>1 DEF NestInv, BoundariesFit, Boundary
<1>6. \A f \in DOMAIN CityInput.flows : CityInput.type[f] = "flow"
  BY <1>1 DEF NestInv, Flow
<1> QED  BY <1>3, <1>4, <1>5, <1>6

\* The step that gives the sectors their land.
LEMMA GridPlaces ==
    ASSUME NEW p, NEW c, NEW e, IsPayload(p), DOMAIN c = DOMAIN NoCity, c.done = "plans",
           Planned(p, c), e = [GridSectors(p, c) EXCEPT !.done = "grid"]
    PROVE  Planned(p, e) /\ Placed(p, e)
<1> DEFINE F(r) == e.district = r.district /\ e.arch = r.arch /\ e.layer = r.layer /\ e.plan = r.plan
<1>0. DOMAIN c = {"done", "district", "arch", "layer", "plan", "land", "at", "size", "roads",
                  "docks", "routes"}
  BY DEF NoCity
<1>1. e.done = "grid" /\ F(c) /\ e.land = [s \in Sectors(p) |-> SectorLand(p, c, s)]
  BY <1>0 DEF GridSectors
<1>2. Classified(p, c) /\ LayersMade(p, c) /\ PlanMade(p, c)
  BY DEF Planned
<1>3. Classified(p, e) /\ LayersMade(p, e) /\ PlanMade(p, e)
  BY <1>1, <1>2, PlansAlike
<1>4. \A s \in Sectors(p) : SectorLand(p, e, s) = SectorLand(p, c, s)
  <2>1. c.district = e.district /\ c.arch = e.arch /\ c.plan = e.plan
    BY <1>1
  <2> QED  BY <2>1, LandsAlike, ZenonT(60)
<1>5. \A s \in Sectors(p) : e.land[s] = SectorLand(p, e, s)
  BY <1>1, <1>4
<1>6. GridMade(p, e)
  BY <1>3, <1>5, GridStands
<1> QED  BY <1>1, <1>3, <1>6 DEF Planned, Placed, HasLand

\* The steps that plan the sectors.
LEMMA PlanningPlans ==
    ASSUME NEW p, NEW c, NEW e, NEW k, IsPayload(p), DOMAIN c = DOMAIN NoCity,
           \A n \in p.nodes : p.look[n] \in {"", "bunker", "transmit"}, Planned(p, c),
           \/ k = AssignDistricts(p, c) /\ e = [k EXCEPT !.done = "districts"]
           \/ k = LayerSectors(p, c) /\ c.done = "districts" /\ e = [k EXCEPT !.done = "layers"]
           \/ k = PlanSectors(p, c) /\ c.done = "layers" /\ e = [k EXCEPT !.done = "plans"]
    PROVE  Planned(p, e) /\ Placed(p, e)
<1>0. DOMAIN c = {"done", "district", "arch", "layer", "plan", "land", "at", "size", "roads",
                  "docks", "routes"}
  BY DEF NoCity
<1>1. CASE k = AssignDistricts(p, c) /\ e = [k EXCEPT !.done = "districts"]
  <2>1. Classified(p, k)
    BY <1>0, <1>1, ClassesGiven
  <2>2. DOMAIN k = DOMAIN c
    BY <1>1 DEF AssignDistricts
  <2>3. /\ e.done = "districts" /\ e.district = k.district /\ e.arch = k.arch
        /\ e.layer = k.layer
    BY <1>0, <1>1, <2>2
  <2>4. Classified(p, e)
    BY <2>1, <2>3, PlansAlike
  <2> QED  BY <2>3, <2>4 DEF Planned, Placed, HasLand
<1>2. CASE k = LayerSectors(p, c) /\ c.done = "districts" /\ e = [k EXCEPT !.done = "layers"]
  <2>1. /\ e.done = "layers" /\ e.district = c.district /\ e.arch = c.arch
        /\ e.layer = [s \in Sectors(p) |-> LayerSector(p, Buildings(p, c, s))]
    BY <1>0, <1>2 DEF LayerSectors
  <2>2. Classified(p, e)
    BY <1>2, <2>1 DEF Planned, Classified, Classed
  <2>3. ASSUME NEW s \in Sectors(p)
        PROVE  e.layer[s] \in [Buildings(p, e, s) -> Nat]
    <3> DEFINE B == Buildings(p, c, s)
    <3>1. e.layer[s] = LayerSector(p, B) /\ Buildings(p, e, s) = B
      BY <2>1 DEF Buildings
    <3>2. B \in SUBSET Nat /\ IsFiniteSet(B)
      <4>1. B \in SUBSET p.nodes
        BY DEF Buildings
      <4> HIDE DEF B
      <4> QED  BY <4>1, FS_Subset DEF IsPayload
    <3> HIDE DEF B
    <3>3. LayerSector(p, B) \in [B -> Nat]
      BY <3>2, RowsOfSector
    <3> QED  BY <3>1, <3>3
  <2>4. LayersMade(p, e)
    BY <2>3 DEF LayersMade
  <2> QED  BY <2>1, <2>2, <2>4 DEF Planned, Placed, HasLand
<1>3. CASE k = PlanSectors(p, c) /\ c.done = "layers" /\ e = [k EXCEPT !.done = "plans"]
  <2>1. /\ e.done = "plans" /\ e.district = c.district /\ e.arch = c.arch /\ e.layer = c.layer
        /\ e.plan = [s \in Sectors(p) |-> Plan(c, s)]
    BY <1>0, <1>3 DEF PlanSectors
  <2>2. Classified(p, e) /\ LayersMade(p, e) /\ \A s : Plan(e, s) = Plan(c, s)
    <3>1. Classified(p, c) /\ LayersMade(p, c)
      BY <1>3 DEF Planned
    <3>2. c.district = e.district /\ c.arch = e.arch /\ c.layer = e.layer
      BY <2>1
    <3> QED  BY <3>1, <3>2, PlansAlike
  <2>3. \A s \in Sectors(p) : e.plan[s] = Plan(e, s)
    BY <2>1, <2>2
  <2>4. PlanMade(p, e)
    BY <2>2, <2>3, PlansHold
  <2> QED  BY <2>1, <2>2, <2>4 DEF Planned, Placed, HasLand
<1> QED  BY <1>1, <1>2, <1>3

\* The step that places the buildings.
LEMMA BuildingPlaces ==
    ASSUME NEW p, NEW c, NEW e, IsPayload(p), DOMAIN c = DOMAIN NoCity, c.done = "grid",
           Planned(p, c), e = [PlaceBuildings(p, c) EXCEPT !.done = "buildings"]
    PROVE  Planned(p, e) /\ Placed(p, e)
<1> DEFINE k == PlaceBuildings(p, c)
<1>0. DOMAIN c = {"done", "district", "arch", "layer", "plan", "land", "at", "size", "roads",
                  "docks", "routes"}
  BY DEF NoCity
<1>1. Classified(p, c) /\ LayersMade(p, c) /\ PlanMade(p, c) /\ GridMade(p, c)
  BY DEF Planned
<1>2. LandsMade(p, k) /\ Settled(p, k)
  BY <1>0, <1>1, PlacingSettles DEF Ready
<1>3. DOMAIN k = DOMAIN c /\ k.district = c.district /\ Sectors(p) \subseteq DOMAIN k.land
  BY <1>0 DEF PlaceBuildings
<1> HIDE DEF k
<1>4. /\ e.done = "buildings" /\ e.district = k.district /\ e.plan = k.plan /\ e.land = k.land
      /\ e.at = k.at /\ e.size = k.size
  BY <1>0, <1>3 DEF k
<1>5. LandsMade(p, e) /\ Settled(p, e)
  BY <1>2, <1>4, SettledAlike
<1>6. DistrictsApart(e) /\ \A d \in DOMAIN e.land : IsBox(e.land[d])
  BY <1>5, LandsApart
<1>7. BuildingsApart(p, e)
  BY <1>5, SettledApart
<1>8. BoxesMade(p, e)
  BY <1>1, <1>3, <1>4, <1>5, <1>6 DEF BoxesMade, Settled, Classified
<1> QED  BY <1>4, <1>5, <1>6, <1>7, <1>8 DEF Planned, Placed, HasLand

\* The step that builds the roads.
LEMMA RoadsPlaced ==
    ASSUME NEW p, NEW c, NEW e, IsPayload(p), DOMAIN c = DOMAIN NoCity, c.done = "buildings",
           Placed(p, c), e = [BuildRoads(p, c) EXCEPT !.done = "roads"]
    PROVE  Planned(p, e) /\ Placed(p, e)
<1> DEFINE k == BuildRoads(p, c)
<1>0. DOMAIN c = {"done", "district", "arch", "layer", "plan", "land", "at", "size", "roads",
                  "docks", "routes"}
  BY DEF NoCity
<1>1. /\ LandsMade(p, c) /\ Settled(p, c) /\ BoxesMade(p, c)
      /\ DistrictsApart(c) /\ BuildingsApart(p, c)
  BY DEF Placed, HasLand
<1>2. RoadsClear(p, k)
  BY <1>0, <1>1, RoadsAreClear DEF BoxesMade
<1>3. /\ DOMAIN k = DOMAIN c /\ k.district = c.district /\ k.plan = c.plan /\ k.land = c.land
      /\ k.at = c.at /\ k.size = c.size
  BY <1>0 DEF BuildRoads
<1> HIDE DEF k
<1>4. /\ e.done = "roads" /\ e.district = k.district /\ e.plan = k.plan /\ e.land = k.land
      /\ e.at = k.at /\ e.size = k.size /\ e.roads = k.roads
  BY <1>0, <1>3 DEF k
<1>5. RoadsClear(p, e)
  BY <1>2, <1>4, CityAlike
<1>6. DistrictsApart(e) /\ BuildingsApart(p, e)
  BY <1>1, <1>3, <1>4, CityAlike
<1>7. BoxesMade(p, e)
  BY <1>1, <1>3, <1>4, SettledAlike
<1> QED  BY <1>4, <1>5, <1>6, <1>7 DEF Planned, Placed, HasLand

\* The step that places the zones.
LEMMA ZonesPlaced ==
    ASSUME NEW p, NEW c, NEW e, IsPayload(p), BoundariesFit(p), DOMAIN c = DOMAIN NoCity,
           c.done = "roads", Placed(p, c), e = [PlaceZones(p, c) EXCEPT !.done = "zones"]
    PROVE  Planned(p, e) /\ Placed(p, e)
<1> DEFINE k == PlaceZones(p, c)
<1>0. DOMAIN c = {"done", "district", "arch", "layer", "plan", "land", "at", "size", "roads",
                  "docks", "routes"}
  BY DEF NoCity
<1>1. BoxesMade(p, c) /\ DistrictsApart(c) /\ BuildingsApart(p, c) /\ RoadsClear(p, c)
  BY DEF Placed, HasLand
<1>2. ZonesNest(p, k)
  BY <1>0, <1>1, ZonesCover
<1>3. /\ DOMAIN k = DOMAIN c /\ k.district = c.district /\ k.plan = c.plan /\ k.land = c.land
      /\ k.roads = c.roads
      /\ \A n \in p.nodes \ DOMAIN p.boundaries : k.at[n] = c.at[n] /\ k.size[n] = c.size[n]
  BY <1>0 DEF PlaceZones
<1> HIDE DEF k
<1>4. /\ e.done = "zones" /\ e.district = k.district /\ e.plan = k.plan /\ e.land = k.land
      /\ e.at = k.at /\ e.size = k.size /\ e.roads = k.roads
  BY <1>0, <1>3 DEF k
<1>5. ZonesNest(p, e)
  BY <1>2, <1>4, SettledAlike
<1>6. ASSUME NEW n \in Housed(p, c) PROVE c.at[n] = e.at[n] /\ c.size[n] = e.size[n]
  <2>1. n \in p.nodes /\ District(p, n) # NoDistrict
    BY <1>1 DEF BoxesMade, Housed
  <2>2. n \notin DOMAIN p.boundaries
    BY <2>1 DEF BoundariesFit, District
  <2> QED  BY <1>3, <1>4, <2>1, <2>2
<1>7. DistrictsApart(e) /\ BuildingsApart(p, e) /\ RoadsClear(p, e)
  <2>1. c.district = e.district /\ c.land = e.land /\ c.roads = e.roads
    BY <1>3, <1>4
  <2>2. DistrictsApart(c) /\ BuildingsApart(p, c) /\ RoadsClear(p, c)
    BY <1>1
  <2> QED  BY <1>6, <2>1, <2>2, CityAlike
<1> QED  BY <1>4, <1>5, <1>7 DEF Planned, Placed, HasLand

\* The steps after that move nothing but flows.
LEMMA RestPlaced ==
    ASSUME NEW p, NEW c, NEW e, BoundariesFit(p), DOMAIN c = DOMAIN NoCity,
           c.district = [n \in p.nodes |-> District(p, n)],
           Placed(p, c), c.done \in HasLand \ {"buildings", "roads"},
           e.done \in HasLand \ {"buildings", "roads"}, e.district = c.district,
           e.land = c.land, e.roads = c.roads, e.size = c.size,
           \A n \in p.nodes : p.type[n] # "flow" => e.at[n] = c.at[n]
    PROVE  Planned(p, e) /\ Placed(p, e)
<1>1. DistrictsApart(c) /\ BuildingsApart(p, c) /\ RoadsClear(p, c) /\ ZonesNest(p, c)
  BY DEF Placed, HasLand
<1>2. ASSUME NEW n \in Housed(p, c) PROVE c.at[n] = e.at[n] /\ c.size[n] = e.size[n]
  <2>1. n \in p.nodes /\ District(p, n) # NoDistrict
    BY DEF Housed
  <2>2. p.type[n] # "flow"
    BY <2>1 DEF District
  <2> QED  BY <2>1, <2>2
<1>3. DistrictsApart(e) /\ BuildingsApart(p, e) /\ RoadsClear(p, e)
  BY <1>1, <1>2, CityAlike
<1>4. ZonesNest(p, e)
  BY <1>1, ZonesAlike
<1> QED  BY <1>3, <1>4 DEF Planned, Placed, HasLand

-----------------------------------------------------------------------------
(* Nothing collides.                                                       *)

\* The layout of the payload, at each of its steps.
GeoInv == Planned(CityInput, city) /\ Placed(CityInput, city)

\* Of no layout there is nothing to be said.
LEMMA GeoNone ==
    ASSUME NEW p, NEW c, c.done = "none"
    PROVE  Planned(p, c) /\ Placed(p, c)
BY DEF Planned, Placed, HasLand

\* There is no layout to begin with.
LEMMA GeoInit == ExplorerInit => GeoInv
<1> SUFFICES ASSUME ExplorerInit PROVE GeoInv
  OBVIOUS
<1>1. city.done = "none"
  BY DEF ExplorerInit, NoCity
<1> QED  BY <1>1, GeoNone DEF GeoInv

\* Each step of the layout adds its part, and leaves what is there as it was.
LEMMA GeoKept ==
    BuildInv /\ NestInv /\ CityInv /\ GeoInv /\ [ExplorerNext]_explorerVars => GeoInv'
<1> SUFFICES ASSUME BuildInv, NestInv, CityInv, GeoInv, [ExplorerNext]_explorerVars
             PROVE  GeoInv'
  OBVIOUS
<1> DEFINE p == CityInput
<1>0. DOMAIN city = DOMAIN NoCity /\ Planned(p, city) /\ Placed(p, city)
  BY DEF CityInv, GeoInv
<1>1. DOMAIN city = {"done", "district", "arch", "layer", "plan", "land", "at", "size", "roads",
                     "docks", "routes"}
  BY <1>0 DEF NoCity
<1>2. CASE UNCHANGED <<build, city>>
  <2>1. CityInput' = CityInput /\ city' = city
    BY <1>2 DEF CityInput
  <2> QED  BY <2>1 DEF GeoInv
<1>3. CASE build.at # "built" /\ city' = city
  <2>1. city'.done = "none"
    BY <1>3 DEF CityInv
  <2> QED  BY <2>1, GeoNone DEF GeoInv
<1>4. ASSUME build.at = "built", build' = build, Planned(p, city') /\ Placed(p, city')
      PROVE  GeoInv'
  <2>1. CityInput' = CityInput
    BY <1>4 DEF CityInput
  <2> QED  BY <1>4, <2>1 DEF GeoInv
<1>5. ASSUME build.at = "built"
      PROVE  /\ IsPayload(p) /\ BoundariesFit(p)
             /\ \A n \in p.nodes : p.look[n] \in {"", "bunker", "transmit"}
             /\ \A f \in DOMAIN p.flows : p.type[f] = "flow"
  BY <1>5, PayloadIs
<1>6. ASSUME city.done \in HasDistricts
      PROVE  city.district = [n \in p.nodes |-> District(p, n)]
  BY <1>6 DEF CityInv, CityInput
<1> HIDE DEF p
<1>7. ASSUME NEW before, NEW after, NEW k, LayOut(before, after, k)
      PROVE  /\ build.at = "built" /\ build' = build /\ city.done = before
             /\ city' = [k EXCEPT !.done = after]
  BY <1>7 DEF LayOut
<1>8. CASE LayOut("none", "districts", AssignDistricts(p, city))
  <2>1. /\ build.at = "built" /\ build' = build /\ city.done = "none"
        /\ city' = [AssignDistricts(p, city) EXCEPT !.done = "districts"]
    BY <1>7, <1>8
  <2>2. Planned(p, city') /\ Placed(p, city')
    BY <1>0, <1>5, <2>1, PlanningPlans
  <2> QED  BY <1>4, <2>1, <2>2
<1>9. CASE LayOut("districts", "layers", LayerSectors(p, city))
  <2>1. /\ build.at = "built" /\ build' = build /\ city.done = "districts"
        /\ city' = [LayerSectors(p, city) EXCEPT !.done = "layers"]
    BY <1>7, <1>9
  <2>2. Planned(p, city') /\ Placed(p, city')
    BY <1>0, <1>5, <2>1, PlanningPlans
  <2> QED  BY <1>4, <2>1, <2>2
<1>10. CASE LayOut("layers", "plans", PlanSectors(p, city))
  <2>1. /\ build.at = "built" /\ build' = build /\ city.done = "layers"
        /\ city' = [PlanSectors(p, city) EXCEPT !.done = "plans"]
    BY <1>7, <1>10
  <2>2. Planned(p, city') /\ Placed(p, city')
    BY <1>0, <1>5, <2>1, PlanningPlans
  <2> QED  BY <1>4, <2>1, <2>2
<1>11. CASE LayOut("plans", "grid", GridSectors(p, city))
  <2>1. /\ build.at = "built" /\ build' = build /\ city.done = "plans"
        /\ city' = [GridSectors(p, city) EXCEPT !.done = "grid"]
    BY <1>7, <1>11
  <2>2. Planned(p, city') /\ Placed(p, city')
    BY <1>0, <1>5, <2>1, GridPlaces
  <2> QED  BY <1>4, <2>1, <2>2
<1>12. CASE LayOut("grid", "buildings", PlaceBuildings(p, city))
  <2>1. /\ build.at = "built" /\ build' = build /\ city.done = "grid"
        /\ city' = [PlaceBuildings(p, city) EXCEPT !.done = "buildings"]
    BY <1>7, <1>12
  <2>2. Planned(p, city') /\ Placed(p, city')
    BY <1>0, <1>5, <2>1, BuildingPlaces
  <2> QED  BY <1>4, <2>1, <2>2
<1>13. CASE LayOut("buildings", "roads", BuildRoads(p, city))
  <2>1. /\ build.at = "built" /\ build' = build /\ city.done = "buildings"
        /\ city' = [BuildRoads(p, city) EXCEPT !.done = "roads"]
    BY <1>7, <1>13
  <2>2. Planned(p, city') /\ Placed(p, city')
    BY <1>0, <1>5, <2>1, RoadsPlaced
  <2> QED  BY <1>4, <2>1, <2>2
<1>14. CASE LayOut("roads", "zones", PlaceZones(p, city))
  <2>1. /\ build.at = "built" /\ build' = build /\ city.done = "roads"
        /\ city' = [PlaceZones(p, city) EXCEPT !.done = "zones"]
    BY <1>7, <1>14
  <2>2. Planned(p, city') /\ Placed(p, city')
    BY <1>0, <1>5, <2>1, ZonesPlaced
  <2> QED  BY <1>4, <2>1, <2>2
<1>15. ASSUME NEW before \in HasLand \ {"buildings", "roads"},
              NEW after \in HasLand \ {"buildings", "roads"}, NEW k, LayOut(before, after, k),
              DOMAIN k = DOMAIN city, k.district = city.district, k.land = city.land,
              k.roads = city.roads, k.size = city.size,
              \A n \in p.nodes : p.type[n] # "flow" => k.at[n] = city.at[n]
       PROVE  GeoInv'
  <2>1. /\ build.at = "built" /\ build' = build /\ city.done = before
        /\ city' = [k EXCEPT !.done = after]
    BY <1>7, <1>15
  <2>2. /\ city'.done = after /\ city'.district = city.district /\ city'.land = city.land
        /\ city'.roads = city.roads /\ city'.size = city.size /\ city'.at = k.at
    BY <1>1, <1>15, <2>1
  <2>3. city.district = [n \in p.nodes |-> District(p, n)]
    BY <1>6, <2>1 DEF HasDistricts
  <2>4. Planned(p, city') /\ Placed(p, city')
    <3>1. BoundariesFit(p)
      BY <1>5, <2>1
    <3>2. /\ city.done \in HasLand \ {"buildings", "roads"}
          /\ city'.done \in HasLand \ {"buildings", "roads"}
      BY <1>15, <2>1, <2>2
    <3>3. \A n \in p.nodes : p.type[n] # "flow" => city'.at[n] = city.at[n]
      BY <1>15, <2>2
    <3> QED  BY <1>0, <2>2, <2>3, <3>1, <3>2, <3>3, RestPlaced
  <2> QED  BY <1>4, <2>1, <2>4
<1>16. CASE \/ LayOut("zones", "docks", DockNodes(p, city, build.present \ SignpostNodes))
            \/ LayOut("signposts", "ready", DockNodes(p, city, SignpostNodes))
  <2> DEFINE k(S) == DockNodes(p, city, S)
  <2>1. ASSUME NEW S
        PROVE  /\ DOMAIN k(S) = DOMAIN city /\ k(S).district = city.district
               /\ k(S).land = city.land /\ k(S).roads = city.roads /\ k(S).size = city.size
               /\ k(S).at = city.at
    BY <1>1 DEF DockNodes
  <2>2. {"zones", "docks", "signposts", "ready"} \subseteq HasLand \ {"buildings", "roads"}
    BY DEF HasLand
  <2> HIDE DEF k
  <2>3. CASE LayOut("zones", "docks", k(build.present \ SignpostNodes))
    BY <1>15, <2>1, <2>2, <2>3
  <2>4. CASE LayOut("signposts", "ready", k(SignpostNodes))
    BY <1>15, <2>1, <2>2, <2>4
  <2> QED  BY <1>16, <2>3, <2>4 DEF k
<1>17. CASE LayOut("docks", "signposts", PlaceFlowNodes(p, city))
  <2> DEFINE k == PlaceFlowNodes(p, city)
  <2>1. /\ DOMAIN k = DOMAIN city /\ k.district = city.district /\ k.land = city.land
        /\ k.roads = city.roads /\ k.size = city.size
        /\ \A n \in p.nodes \ DOMAIN p.flows : k.at[n] = city.at[n]
    BY <1>1 DEF PlaceFlowNodes
  <2>2. {"docks", "signposts"} \subseteq HasLand \ {"buildings", "roads"}
    BY DEF HasLand
  <2> HIDE DEF k
  <2>3. LayOut("docks", "signposts", k)
    BY <1>17 DEF k
  <2>4. build.at = "built"
    BY <1>7, <2>3
  <2>5. \A n \in p.nodes : p.type[n] # "flow" => k.at[n] = city.at[n]
    BY <1>5, <2>1, <2>4
  <2> QED  BY <1>15, <2>1, <2>2, <2>3, <2>5
<1>18. CASE LayOut("ready", "laid out", RouteEdges(p, city))
  <2> DEFINE k == RouteEdges(p, city)
  <2>1. /\ DOMAIN k = DOMAIN city /\ k.district = city.district /\ k.land = city.land
        /\ k.roads = city.roads /\ k.size = city.size /\ k.at = city.at
    BY <1>1 DEF RouteEdges
  <2>2. {"ready", "laid out"} \subseteq HasLand \ {"buildings", "roads"}
    BY DEF HasLand
  <2> HIDE DEF k
  <2>3. LayOut("ready", "laid out", k)
    BY <1>18 DEF k
  <2> QED  BY <1>15, <2>1, <2>2, <2>3
<1>19. CASE \/ LoadEntities \/ CollectStaging \/ CollectBoundaries \/ ReadEdges \/ CollectFlows
            \/ ReadEvents
  <2>1. build.at # "built" /\ city' = city
    BY <1>19 DEF LoadEntities, CollectStaging, CollectBoundaries, ReadEdges, CollectFlows,
                 ReadEvents
  <2> QED  BY <1>3, <2>1
<1>20. CASE Edit
  <2>1. UNCHANGED <<build, city>>
    BY <1>20 DEF Edit, Change, InsertEntity, DeleteEntity, AddRelationship, RemoveRelationship,
                 UpdateStatus, WritePatch
  <2> QED  BY <1>2, <2>1
<1>21. CASE UNCHANGED explorerVars
  BY <1>2, <1>21 DEF explorerVars
<1> QED
  BY <1>8, <1>9, <1>10, <1>11, <1>12, <1>13, <1>14, <1>16, <1>17, <1>18, <1>19, <1>20, <1>21
  DEF ExplorerNext, LayoutCity, p

\* In every city shown, whatever the store and whatever is changed beside the build, no
\* two districts and no two buildings overlap, no road runs through a building, every
\* building is on its land, and zones cover what they enclose and nest as boundaries do.
THEOREM NothingCollidesAnywhere == ExplorerSpec => []NothingCollides
<1>1. ExplorerSpec => []BuildInv
  BY BuildInit, BuildKept, PTL DEF ExplorerSpec
<1>2. ExplorerSpec => []CityInv
  BY CityInit, CityKept, PTL DEF ExplorerSpec
<1>3. ExplorerSpec => [](BuildInv /\ NestInv)
  <2>1. ExplorerInit => BuildInv /\ NestInv
    BY BuildInit, NestsBegin
  <2>2. BuildInv /\ NestInv /\ [ExplorerNext]_explorerVars => (BuildInv /\ NestInv)'
    BY BuildKept, NestsKept
  <2> QED  BY <2>1, <2>2, PTL DEF ExplorerSpec
<1>4. ExplorerSpec => []GeoInv
  <2> DEFINE Known == BuildInv /\ NestInv /\ CityInv
  <2>1. ExplorerSpec => []Known
    BY <1>2, <1>3, PTL
  <2>2. Known /\ GeoInv /\ [ExplorerNext]_explorerVars => GeoInv'
    BY GeoKept
  <2> HIDE DEF Known
  <2> QED  BY <2>1, <2>2, GeoInit, PTL DEF ExplorerSpec
<1>5. GeoInv => NothingCollides
  BY DEF GeoInv, Placed, NothingCollides, Shown, HasLand
<1> QED  BY <1>4, <1>5, PTL
=============================================================================
