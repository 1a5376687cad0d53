---------------------------- MODULE MCLogStream ----------------------------
(***************************************************************************)
(* LogStream with a bounded number of records.                             *)
(***************************************************************************)
EXTENDS LogStream, TLC

CONSTANT MaxRecords

Symmetry == Permutations(Clients)

MCNext ==
    \/ published < MaxRecords /\ Publish
    \/ \E c \in Clients : Connect(c) \/ Handler(c) \/ Leave(c)

MCSpec == Init /\ [][MCNext]_vars
MCFairSpec == MCSpec /\ \A c \in Clients : WF_vars(Handler(c))

\* A record that entered the queue of a client is sent to it, unless the browser goes
\* away: also after the client has been dropped from the subscribers.
Delivered ==
    \A c \in Clients, r \in 1..MaxRecords :
        r \in ToSet(inbox[c]) ~> (r \in ToSet(sent[c]) \/ ~peer[c])
=============================================================================
