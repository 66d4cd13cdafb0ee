----------------------------- MODULE Documents -----------------------------
(***************************************************************************)
(* What c3x promises of the documents of a .c3 directory: each is as its   *)
(* user, or the last command that succeeded, made it.  A command makes     *)
(* every change it was asked for at once, or none.  One that is killed may *)
(* leave any part of its change made; one killed while it undoes its       *)
(* change, or that cannot undo it, may also leave documents missing.  Where *)
(* no document is left, commands take what the cache says for them.        *)
(***************************************************************************)
CONSTANTS Writer, Doc, Content, NoDoc, Keep, Change

VARIABLES
    doc,        \* the documents, NoDoc for one that does not exist
    cached,     \* what the cache says of them, nothing if there is none
    asked,      \* per command: what it was asked to change
    status      \* per command: how far it is

vars == <<doc, cached, asked, status>>

Docs == [Doc -> Content \union {NoDoc}]
NoDocs == [f \in Doc |-> NoDoc]
Changed(docs, c) == [f \in Doc |-> IF c[f] = Keep THEN docs[f] ELSE c[f]]

\* What a command may start from.
Bases == {doc} \union IF doc = NoDocs THEN {cached} ELSE {}

Become(p, from, to) ==
    status[p] \in from /\ status' = [status EXCEPT ![p] = to]

Edit ==
    /\ \E f \in Doc, v \in Content \union {NoDoc} : doc' = [doc EXCEPT ![f] = v]
    /\ \A p \in Writer : status[p] \notin {"working", "undoing"}
    /\ UNCHANGED <<cached, asked, status>>

\* The cache is built from the documents, or removed.
Refresh ==
    /\ \A p \in Writer : status[p] # "undoing"
    /\ cached' \in {doc, NoDocs}
    /\ UNCHANGED <<doc, asked, status>>

Ask(p) ==
    /\ Become(p, {"waiting"}, "working")
    /\ \A q \in Writer : status[q] \notin {"working", "undoing"}
    /\ \E c \in Change \union {[f \in Doc |-> Keep]} :
         asked' = [asked EXCEPT ![p] = c]
    /\ UNCHANGED <<doc, cached>>

Succeed(p) ==
    /\ Become(p, {"working"}, "ok")
    /\ \E base \in Bases : doc' = Changed(base, asked[p])
    /\ cached' = doc'
    /\ UNCHANGED asked

Fail(p) ==
    /\ \/ Become(p, {"working"}, "undoing")
       \/ Become(p, {"waiting", "working", "undoing"}, "failed")
    /\ UNCHANGED <<doc, cached, asked>>

\* A command that is cut short has changed some of its documents, and its cache
\* may say so or not.
CutShort(p, also) ==
    /\ \E base \in Bases :
         /\ doc' \in Docs
         /\ \A f \in Doc : doc'[f] \in {doc[f], Changed(base, asked[p])[f]} \union also
         /\ cached' \in {cached, NoDocs, base, Changed(base, asked[p])}
    /\ UNCHANGED asked

Torn(p) == Become(p, {"working"}, "killed") /\ CutShort(p, {})

\* In undoing its change it has lost some of its documents as well.
Lost(p) ==
    /\ Become(p, {"undoing"}, "killed") \/ Become(p, {"undoing"}, "unrestored")
    /\ CutShort(p, {NoDoc})

Next ==
    \/ Edit \/ Refresh
    \/ \E p \in Writer : Ask(p) \/ Succeed(p) \/ Fail(p) \/ Torn(p) \/ Lost(p)

Init ==
    /\ doc \in Docs
    /\ cached \in {doc, NoDocs}
    /\ asked = [p \in Writer |-> [f \in Doc |-> Keep]]
    /\ status = [p \in Writer |-> "waiting"]

Spec == Init /\ [][Next]_vars
=============================================================================
