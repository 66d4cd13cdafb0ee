------------------------------- MODULE Feed -------------------------------
(***************************************************************************)
(* The live explorer (cli/cmd/activity.go, explore_serve.go and            *)
(* explorer-app/src/live/liveClient.ts).  Every command appends one entry  *)
(* to .c3/activity.jsonl when it has ended; a server tails that file,      *)
(* rebuilds its payload some time after the entry of a mutation, and       *)
(* streams payloads and entries to the browsers that look at it.           *)
(*                                                                         *)
(* A payload stands for the set of mutations it shows.  The file is a      *)
(* sequence of entries, so an offset counts entries and not bytes, and an  *)
(* append is one step, as O_APPEND makes it.                               *)
(***************************************************************************)
EXTENDS Integers, Sequences, SequencesExt, FiniteSets

CONSTANTS
    Cmd,            \* commands, each of which is run once
    Viewer,         \* browsers
    Builder,        \* bound: rebuilds that can be under way at the same time
    NoCmd,          \* an entry that is not of a successful mutation
    QueueLen,       \* capacity of a viewer's channel
    MaxLines,       \* entries above which the file is rotated
    KeepLines,      \* entries that a rotation keeps
    OldLog          \* what is in the file to begin with

Payload == SUBSET Cmd
Frame   == [kind : {"payload"}, shows : Payload] \union [kind : {"action", "invalid"}]
Entry   == Cmd \union {NoCmd}

ASSUME FeedAssumption ==
    /\ NoCmd \notin Cmd
    /\ QueueLen \in Nat \ {0} /\ MaxLines \in Nat /\ KeepLines \in 1..MaxLines
    /\ OldLog \subseteq Seq({NoCmd})

VARIABLES
    cmdAt,      \* where each command is
    entry,      \* the entry each command will append
    lines,      \* what a command that rotates the file has read of it
    stored,     \* the mutations that a reader of the database sees
    log,        \* .c3/activity.jsonl
    server,     \* "down", "starting" (first payload built) or "up" (tailing)
    latest,     \* sseHub.latest
    offset,     \* how much of the log has been read
    timer,      \* rebuildTimer is running
    rebuild,    \* the rebuilds under way
    viewerAt,   \* where each viewer's stream is
    shown,      \* the payload each viewer shows
    queue,      \* each viewer's channel
    behind,     \* history: viewers for whom a payload was dropped since they connected
    history     \* history: what happened that the feed has no answer to

feedVars == <<cmdAt, entry, lines, stored, log, server, latest, offset, timer, rebuild,
              viewerAt, shown, queue, behind, history>>
commands == <<cmdAt, entry, lines, stored, log>>
viewers  == <<viewerAt, shown, queue, behind>>

\* The ways in which viewers can be left behind, all of them in the code: a mutation
\* logged between the first payload and the first look at the file ("gap"), an entry
\* overwritten by a rotation before it was read ("lost"), a payload that shows a
\* mutation which then fails ("dirty"), a rebuild that begins before another has ended
\* ("overlap") and a rebuild that fails ("failed").
Excuse == {"gap", "lost", "dirty", "overlap", "failed"}

FeedInit ==
    /\ cmdAt = [k \in Cmd |-> "idle"]
    /\ entry = [k \in Cmd |-> NoCmd]
    /\ lines = [k \in Cmd |-> <<>>]
    /\ stored = {} /\ log \in OldLog
    /\ server = "down" /\ latest = {} /\ offset = 0 /\ timer = FALSE
    /\ rebuild = [b \in Builder |-> [at |-> "idle", shows |-> {}]]
    /\ viewerAt = [c \in Viewer |-> "away"]
    /\ shown = [c \in Viewer |-> {}]
    /\ queue = [c \in Viewer |-> <<>>]
    /\ behind = {} /\ history = {}

UnreadPastEnd == SubSeq(log, offset + 1, Len(log))      \* a mutant

\* readNewActivity: a file that is shorter than what was read of it is read again.
Unread == IF Len(log) < offset THEN log ELSE SubSeq(log, offset + 1, Len(log))

Excuses(S) == history' = history \union S

-----------------------------------------------------------------------------
\* Commands.  The coordinator lets one mutation run at a time; what it has committed is
\* in the database before it is final, and is taken back if it fails after all.
Mutate(k) ==
    /\ cmdAt[k] = "idle" /\ \A j \in Cmd : cmdAt[j] # "mutate"
    /\ cmdAt' = [cmdAt EXCEPT ![k] = "mutate"]
    /\ stored' = stored \union {k}
    /\ UNCHANGED <<entry, lines, log, server, latest, offset, timer, rebuild, viewers, history>>

EndMutation(k) ==
    /\ cmdAt[k] = "mutate"
    /\ cmdAt' = [cmdAt EXCEPT ![k] = "stat"]
    /\ \/ entry' = [entry EXCEPT ![k] = k] /\ UNCHANGED stored
          /\ UNCHANGED history
       \/ stored' = stored \ {k} /\ UNCHANGED entry
          /\ Excuses(IF k \in latest \union UNION {rebuild[b].shows : b \in Builder}
                     THEN {"dirty"} ELSE {})
    /\ UNCHANGED <<lines, log, server, latest, offset, timer, rebuild, viewers>>

Look(k) ==
    /\ cmdAt[k] = "idle"
    /\ cmdAt' = [cmdAt EXCEPT ![k] = "stat"]
    /\ UNCHANGED <<entry, lines, stored, log, server, latest, offset, timer, rebuild, viewers,
                   history>>

\* truncateActivityIfLarge: a file that has grown too long is read ...
Stat(k) ==
    /\ cmdAt[k] = "stat"
    /\ IF Len(log) > MaxLines
       THEN /\ lines' = [lines EXCEPT ![k] = SubSeq(log, Len(log) - KeepLines + 1, Len(log))]
            /\ cmdAt' = [cmdAt EXCEPT ![k] = "rotate"]
       ELSE cmdAt' = [cmdAt EXCEPT ![k] = "append"] /\ UNCHANGED lines
    /\ UNCHANGED <<entry, stored, log, server, latest, offset, timer, rebuild, viewers, history>>

\* ... and its last lines are written in its place, over what came in between.
Rotate(k) ==
    /\ cmdAt[k] = "rotate"
    /\ log' = lines[k]
    /\ cmdAt' = [cmdAt EXCEPT ![k] = "append"]
    /\ lines' = [lines EXCEPT ![k] = <<>>]
    /\ Excuses(IF Range(Unread) \intersect Cmd \subseteq Range(lines[k]) THEN {} ELSE {"lost"})
    /\ UNCHANGED <<entry, stored, server, latest, offset, timer, rebuild, viewers>>

\* Bound: by the time the file has grown back to what the server has read of it, the
\* server has looked at it again (it looks twice a second; the file has to grow by
\* hundreds of kilobytes).
TailKeepsUp == Len(log) < offset => Len(log) + 1 < offset

AppendActivity(k) ==
    /\ cmdAt[k] = "append" /\ TailKeepsUp
    /\ log' = Append(log, entry[k])
    /\ cmdAt' = [cmdAt EXCEPT ![k] = "over"]
    /\ UNCHANGED <<entry, lines, stored, server, latest, offset, timer, rebuild, viewers, history>>

CmdStep(k) ==
    EndMutation(k) \/ Stat(k) \/ Rotate(k) \/ AppendActivity(k)

-----------------------------------------------------------------------------
\* The server: RunExploreServe builds a payload, and tailActivity begins at what is then
\* the end of the file.
StartServer ==
    /\ server = "down" /\ server' = "starting"
    /\ latest' = stored
    /\ UNCHANGED <<commands, offset, timer, rebuild, viewers, history>>

StartTail ==
    /\ server = "starting" /\ server' = "up"
    /\ offset' = Len(log)
    /\ Excuses(IF \E k \in stored : cmdAt[k] = "over" /\ k \notin latest THEN {"gap"} ELSE {})
    /\ UNCHANGED <<commands, latest, timer, rebuild, viewers>>

Registered == {c \in Viewer : viewerAt[c] \in {"added", "on"}}

\* sseHub.broadcast: what does not fit into a viewer's channel is dropped.
Broadcast(frames) ==
    queue' = [c \in Viewer |->
                 IF c \in Registered
                 THEN LET all == queue[c] \o frames
                      IN  SubSeq(all, 1, IF Len(all) < QueueLen THEN Len(all) ELSE QueueLen)
                 ELSE queue[c]]

Tick ==
    /\ server = "up" /\ Unread # <<>>
    /\ offset' = Len(log)
    /\ Broadcast([i \in 1..Len(Unread) |-> [kind |-> "action"]])
    /\ timer' = (timer \/ \E k \in Cmd : k \in Range(Unread))
    /\ UNCHANGED <<commands, server, latest, rebuild, viewerAt, shown, behind, history>>

Busy == {b \in Builder : rebuild[b].at # "idle"}

\* The timer has its function run in a goroutine of its own.
TimerFires(b) ==
    /\ timer /\ b \notin Busy
    /\ timer' = FALSE
    /\ rebuild' = [rebuild EXCEPT ![b].at = "read"]
    /\ Excuses(IF Busy = {} THEN {} ELSE {"overlap"})
    /\ UNCHANGED <<commands, server, latest, offset, viewers>>

Rebuild(b) ==
    /\ rebuild[b].at = "read"
    /\ \/ rebuild' = [rebuild EXCEPT ![b] = [at |-> "set", shows |-> stored]] /\ UNCHANGED history
       \/ rebuild' = [rebuild EXCEPT ![b].at = "warn"] /\ Excuses({"failed"})
    /\ UNCHANGED <<commands, server, latest, offset, timer, viewers>>

SetLatest(b) ==
    /\ rebuild[b].at = "set"
    /\ latest' = rebuild[b].shows
    /\ rebuild' = [rebuild EXCEPT ![b].at = "send"]
    /\ UNCHANGED <<commands, server, offset, timer, viewers, history>>

Send(b) ==
    /\ rebuild[b].at = "send"
    /\ Broadcast(<<[kind |-> "payload", shows |-> rebuild[b].shows]>>)
    /\ behind' = behind \union {c \in Registered : Len(queue[c]) = QueueLen}
    /\ rebuild' = [rebuild EXCEPT ![b] = [at |-> "idle", shows |-> {}]]
    /\ UNCHANGED <<commands, server, latest, offset, timer, viewerAt, shown, history>>

Warn(b) ==
    /\ rebuild[b].at = "warn"
    /\ Broadcast(<<[kind |-> "invalid"]>>)
    /\ rebuild' = [rebuild EXCEPT ![b].at = "idle"]
    /\ UNCHANGED <<commands, server, latest, offset, timer, viewerAt, shown, behind, history>>

BuildStep(b) == Rebuild(b) \/ SetLatest(b) \/ Send(b) \/ Warn(b)

-----------------------------------------------------------------------------
\* Viewers.  The page carries the latest payload; its EventSource then connects, and
\* connects again whenever the connection breaks.
LoadPage(c) ==
    /\ server # "down" /\ viewerAt[c] = "away"
    /\ viewerAt' = [viewerAt EXCEPT ![c] = "page"]
    /\ shown' = [shown EXCEPT ![c] = latest]
    /\ UNCHANGED <<commands, server, latest, offset, timer, rebuild, queue, behind, history>>

\* handleEvents: first the channel, then the first frame.
Register(c) ==
    /\ viewerAt[c] = "page"
    /\ viewerAt' = [viewerAt EXCEPT ![c] = "added"]
    /\ UNCHANGED <<commands, server, latest, offset, timer, rebuild, shown, queue, behind, history>>

FirstFrameLeftOut(c) ==     \* a mutant: the page had the payload of its own moment
    /\ viewerAt[c] = "added"
    /\ viewerAt' = [viewerAt EXCEPT ![c] = "on"]
    /\ UNCHANGED <<commands, server, latest, offset, timer, rebuild, shown, queue, behind, history>>

FirstFrame(c) ==
    /\ viewerAt[c] = "added"
    /\ viewerAt' = [viewerAt EXCEPT ![c] = "on"]
    /\ shown' = [shown EXCEPT ![c] = latest]
    /\ UNCHANGED <<commands, server, latest, offset, timer, rebuild, queue, behind, history>>

Deliver(c) ==
    /\ viewerAt[c] = "on" /\ queue[c] # <<>>
    /\ queue' = [queue EXCEPT ![c] = Tail(@)]
    /\ shown' = [shown EXCEPT ![c] =
                    IF Head(queue[c]).kind = "payload" THEN Head(queue[c]).shows ELSE @]
    /\ UNCHANGED <<commands, server, latest, offset, timer, rebuild, viewerAt, behind, history>>

Disconnect(c) ==
    /\ viewerAt[c] \in {"added", "on"}
    /\ viewerAt' = [viewerAt EXCEPT ![c] = "page"]
    /\ queue' = [queue EXCEPT ![c] = <<>>]
    /\ behind' = behind \ {c}
    /\ UNCHANGED <<commands, server, latest, offset, timer, rebuild, shown, history>>

ViewerStep(c) == Register(c) \/ FirstFrame(c) \/ Deliver(c)

FeedNext ==
    \/ \E k \in Cmd : Mutate(k) \/ Look(k) \/ CmdStep(k)
    \/ StartServer \/ StartTail \/ Tick
    \/ \E b \in Builder : TimerFires(b) \/ BuildStep(b)
    \/ \E c \in Viewer : LoadPage(c) \/ ViewerStep(c) \/ Disconnect(c)

\* What has begun goes on: a command, the server's goroutines, a browser's stream.
FeedFairness ==
    /\ \A k \in Cmd : WF_feedVars(CmdStep(k))
    /\ WF_feedVars(StartTail) /\ WF_feedVars(Tick)
    /\ WF_feedVars(\E b \in Builder : TimerFires(b))
    /\ \A b \in Builder : WF_feedVars(BuildStep(b))
    /\ \A c \in Viewer : WF_feedVars(ViewerStep(c))

FeedSpec == FeedInit /\ [][FeedNext]_feedVars /\ FeedFairness

-----------------------------------------------------------------------------
Payloads(c) == {i \in 1..Len(queue[c]) : queue[c][i].kind = "payload"}

\* The last payload that c has been sent, if only into its channel, is p.
LastPayloadIs(c, p) ==
    IF Payloads(c) = {} THEN shown[c] = p
    ELSE \E i \in Payloads(c) : queue[c][i].shows = p /\ \A j \in Payloads(c) : j <= i

\* A stream has no hole: unless a frame was dropped, or two rebuilds overlapped, the last
\* payload a connected viewer has been sent is the latest there is, whenever it joined
\* (handleEvents registers the channel before it sends the payload of the moment).
StreamHasNoHole ==
    ("overlap" \notin history /\ \A b \in Builder : rebuild[b].at # "send")
        => \A c \in Viewer :
              (viewerAt[c] = "on" /\ c \notin behind) => LastPayloadIs(c, latest)

\* Once commands have come to an end, every connected viewer shows what they made,
\* unless one of the excuses applies: through rotations of the file, through entries
\* that come together or one by one, through reconnections.
ViewersConverge ==
    <>[](\A c \in Viewer :
            viewerAt[c] = "on" => shown[c] = stored \/ c \in behind \/ history # {})
=============================================================================
