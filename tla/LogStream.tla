------------------------------ MODULE LogStream ------------------------------
(***************************************************************************)
(* The stream of log records (observability/broadcaster.py) to the clients *)
(* of /ws/logs (admin/routers/logs_ws.py).  A client is sent a copy of the *)
(* buffer, then what it finds in its own queue, which a record enters only *)
(* while the client is subscribed.  A record is its number.  The filters   *)
(* of a client and the wording of a record are left out.                   *)
(***************************************************************************)
EXTENDS Naturals, SequencesExt

CONSTANTS
    Clients,
    BufferSize,    \* maxlen of the ring buffer
    SubscriberMax  \* maxsize of the queue of a subscriber

ASSUME StreamAssumption ==
    /\ BufferSize \in Nat
    /\ SubscriberMax \in Nat \ {0}

VARIABLES
    published,    \* the number of records so far
    buffer,       \* the last of them
    subscribers,  \* the clients whose queue is subscribed
    inbox,        \* the queue of each client
    cpc,          \* where the handler of each client is
    peer,         \* whether the browser at the other end is still there
    snapshot,     \* the part of the snapshot it has not been sent yet
    sent,         \* history: what it has been sent
    joined        \* history: the records there were when it subscribed

vars == <<published, buffer, subscribers, inbox, cpc, peer, snapshot, sent, joined>>
handlerVars == <<cpc, peer, snapshot, sent, joined>>

StreamTypeOK ==
    /\ published \in Nat
    /\ buffer \in Seq(1..published) /\ Len(buffer) <= BufferSize
    /\ subscribers \subseteq Clients
    /\ cpc \in [Clients -> {"new", "snapshot", "stream", "closed"}]
    /\ peer \in [Clients -> BOOLEAN]
    /\ \A c \in Clients :
          /\ inbox[c] \in Seq(1..published) /\ Len(inbox[c]) <= SubscriberMax
          /\ snapshot[c] \in Seq(1..published)
          /\ sent[c] \in Seq(1..published)
          /\ joined[c] \in 0..published
          /\ c \in subscribers => cpc[c] = "stream"

Init ==
    /\ published = 0
    /\ buffer = <<>>
    /\ subscribers = {}
    /\ inbox = [c \in Clients |-> <<>>]
    /\ cpc = [c \in Clients |-> "new"]
    /\ peer = [c \in Clients |-> TRUE]
    /\ snapshot = [c \in Clients |-> <<>>]
    /\ sent = [c \in Clients |-> <<>>]
    /\ joined = [c \in Clients |-> 0]

-----------------------------------------------------------------------------
(* LogBroadcaster *)

\* Mutant: the buffer keeps everything.
Push_Unbounded(record) == Append(buffer, record)

\* A deque of maxlen drops its oldest entry.
Push(record) ==
    LET all == Append(buffer, record)
    IN  IF Len(all) > BufferSize THEN Tail(all) ELSE all

Full(c) == Len(inbox[c]) = SubscriberMax

\* Mutant: the record is dropped, the subscriber is not.
Publish_DropsRecord ==
    /\ published' = published + 1
    /\ buffer' = Push(published')
    /\ inbox' = [c \in Clients |->
          IF c \in subscribers /\ ~Full(c) THEN Append(inbox[c], published') ELSE inbox[c]]
    /\ UNCHANGED <<handlerVars, subscribers>>

\* Mutant: what is queued is dropped with the subscriber.
Publish_DropsQueue ==
    /\ published' = published + 1
    /\ buffer' = Push(published')
    /\ inbox' = [c \in Clients |->
          IF c \notin subscribers THEN inbox[c]
          ELSE IF Full(c) THEN <<>> ELSE Append(inbox[c], published')]
    /\ subscribers' = {c \in subscribers : ~Full(c)}
    /\ UNCHANGED handlerVars

\* A subscriber whose queue is full is no longer one; its handler is not told.
Publish ==
    /\ published' = published + 1
    /\ buffer' = Push(published')
    /\ inbox' = [c \in Clients |->
          IF c \in subscribers /\ ~Full(c) THEN Append(inbox[c], published') ELSE inbox[c]]
    /\ subscribers' = {c \in subscribers : ~Full(c)}
    /\ UNCHANGED handlerVars

-----------------------------------------------------------------------------
(* ws_logs *)

Connect(c) ==
    /\ cpc[c] = "new"
    /\ cpc' = [cpc EXCEPT ![c] = "snapshot"]
    /\ snapshot' = [snapshot EXCEPT ![c] = buffer]
    /\ UNCHANGED <<published, buffer, subscribers, inbox, peer, sent, joined>>

\* The generator of subscribe() ends with its handler.
Close(c) ==
    /\ cpc' = [cpc EXCEPT ![c] = "closed"]
    /\ subscribers' = subscribers \ {c}
    /\ inbox' = [inbox EXCEPT ![c] = <<>>]
    /\ snapshot' = [snapshot EXCEPT ![c] = <<>>]
    /\ UNCHANGED <<published, buffer, peer, sent, joined>>

SendSnapshot(c) ==
    /\ cpc[c] = "snapshot"
    /\ snapshot[c] # <<>>
    /\ peer[c]
    /\ sent' = [sent EXCEPT ![c] = Append(@, Head(snapshot[c]))]
    /\ snapshot' = [snapshot EXCEPT ![c] = Tail(@)]
    /\ UNCHANGED <<published, buffer, subscribers, inbox, cpc, peer, joined>>

Subscribe(c) ==
    /\ cpc[c] = "snapshot"
    /\ snapshot[c] = <<>>
    /\ cpc' = [cpc EXCEPT ![c] = "stream"]
    /\ subscribers' = subscribers \cup {c}
    /\ joined' = [joined EXCEPT ![c] = published]
    /\ UNCHANGED <<published, buffer, inbox, peer, snapshot, sent>>

\* Mutant: the newest record first.
SendNext_Newest(c) ==
    /\ cpc[c] = "stream"
    /\ inbox[c] # <<>>
    /\ peer[c]
    /\ sent' = [sent EXCEPT ![c] = Append(@, Last(inbox[c]))]
    /\ inbox' = [inbox EXCEPT ![c] = Front(@)]
    /\ UNCHANGED <<published, buffer, subscribers, cpc, peer, snapshot, joined>>

SendNext(c) ==
    /\ cpc[c] = "stream"
    /\ inbox[c] # <<>>
    /\ peer[c]
    /\ sent' = [sent EXCEPT ![c] = Append(@, Head(inbox[c]))]
    /\ inbox' = [inbox EXCEPT ![c] = Tail(@)]
    /\ UNCHANGED <<published, buffer, subscribers, cpc, peer, snapshot, joined>>

\* A send to a browser that is gone: the handler notices only here.
SendFails(c) ==
    /\ \/ cpc[c] = "snapshot" /\ snapshot[c] # <<>>
       \/ cpc[c] = "stream" /\ inbox[c] # <<>>
    /\ ~peer[c]
    /\ Close(c)

\* The browser goes away.
Leave(c) ==
    /\ cpc[c] \in {"snapshot", "stream"}
    /\ peer[c]
    /\ peer' = [peer EXCEPT ![c] = FALSE]
    /\ UNCHANGED <<published, buffer, subscribers, inbox, cpc, snapshot, sent, joined>>

Handler(c) == SendSnapshot(c) \/ Subscribe(c) \/ SendNext(c) \/ SendFails(c)

Next ==
    \/ Publish
    \/ \E c \in Clients : Connect(c) \/ Handler(c) \/ Leave(c)

Spec == Init /\ [][Next]_vars
FairSpec == Spec /\ \A c \in Clients : WF_vars(Handler(c))

-----------------------------------------------------------------------------
(* Properties *)

\* No client gets a record twice or records out of order, the end of the snapshot and
\* the start of the stream included.
InOrder ==
    \A c \in Clients : \A i, j \in 1..Len(sent[c]) : i < j => sent[c][i] < sent[c][j]

\* A subscribed client misses nothing: what came since it subscribed has been sent to
\* it or is in its queue.
Complete ==
    \A c \in subscribers :
        \A r \in joined[c] + 1 .. published : r \in ToSet(sent[c]) \cup ToSet(inbox[c])
=============================================================================
