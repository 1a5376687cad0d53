--------------------------- MODULE LogStreamProofs ---------------------------
(***************************************************************************)
(* What a client of the log stream is sent, for any number of clients and  *)
(* of records and any size of the buffer and the queues.                   *)
(***************************************************************************)
EXTENDS LogStream, SequenceTheorems, TLAPS

Recs(s) == s \in Seq(Nat) /\ \A i \in 1..Len(s) : 1 <= s[i] /\ s[i] <= published
Rising(s) == \A i, j \in 1..Len(s) : i < j => s[i] < s[j]
Below(s, t) == \A i \in 1..Len(s), j \in 1..Len(t) : s[i] < t[j]
In(r, s) == \E i \in 1..Len(s) : s[i] = r

\* What is still to be sent comes after all that has been sent; the snapshot is sent
\* before there is a queue, so the two never compete.
ClientInv(c) ==
    /\ Recs(inbox[c]) /\ Rising(inbox[c]) /\ Len(inbox[c]) <= SubscriberMax
    /\ Recs(snapshot[c]) /\ Rising(snapshot[c])
    /\ Recs(sent[c]) /\ Rising(sent[c])
    /\ Below(sent[c], inbox[c]) /\ Below(sent[c], snapshot[c])
    /\ joined[c] \in 0..published
    /\ cpc[c] = "new" => sent[c] = <<>>
    /\ cpc[c] # "stream" => inbox[c] = <<>>
    /\ cpc[c] # "snapshot" => snapshot[c] = <<>>
    /\ c \in subscribers =>
           /\ cpc[c] = "stream"
           /\ \A r \in joined[c] + 1 .. published : In(r, sent[c]) \/ In(r, inbox[c])

BufferInv ==
    /\ published \in Nat
    /\ Recs(buffer) /\ Rising(buffer) /\ Len(buffer) <= BufferSize

ShapeInv ==
    /\ subscribers \subseteq Clients
    /\ cpc \in [Clients -> {"new", "snapshot", "stream", "closed"}]
    /\ peer \in [Clients -> BOOLEAN]
    /\ inbox \in [Clients -> Seq(Nat)]
    /\ snapshot \in [Clients -> Seq(Nat)]
    /\ sent \in [Clients -> Seq(Nat)]
    /\ joined \in [Clients -> Nat]

StreamInv == BufferInv /\ ShapeInv /\ \A c \in Clients : ClientInv(c)

-----------------------------------------------------------------------------
(* Sequences of records *)

LEMMA AppendRises ==
    ASSUME NEW s \in Seq(Nat), NEW r \in Nat, Rising(s), \A i \in 1..Len(s) : s[i] < r
    PROVE  Append(s, r) \in Seq(Nat) /\ Rising(Append(s, r))
BY DEF Rising

\* A new record goes to the end of what is queued, after all that has been sent.
LEMMA AppendNext ==
    ASSUME NEW s \in Seq(Nat), NEW q \in Seq(Nat), NEW r \in Nat, Rising(q), Below(s, q),
           \A i \in 1..Len(s) : s[i] < r, \A i \in 1..Len(q) : q[i] < r
    PROVE  /\ Append(q, r) \in Seq(Nat) /\ Rising(Append(q, r)) /\ Below(s, Append(q, r))
           /\ Len(Append(q, r)) = Len(q) + 1 /\ Len(q) \in Nat
           /\ \A i \in 1..Len(Append(q, r)) :
                  Append(q, r)[i] = r \/ (i \in 1..Len(q) /\ Append(q, r)[i] = q[i])
           /\ \A x : In(x, q) => In(x, Append(q, r))
           /\ In(r, Append(q, r))
<1> DEFINE Q == Append(q, r)
<1>1. Q \in Seq(Nat) /\ Rising(Q)
    BY AppendRises
<1>2. /\ Len(Q) = Len(q) + 1 /\ Len(q) \in Nat /\ Q[Len(q) + 1] = r
      /\ \A i \in 1..Len(q) : Q[i] = q[i] /\ i \in 1..Len(Q)
    OBVIOUS
<1>3. \A i \in 1..Len(Q) : Q[i] = r \/ (i \in 1..Len(q) /\ Q[i] = q[i])
    BY <1>2
<1>4. Below(s, Q)
    BY <1>3 DEF Below
<1>5. \A x : In(x, q) => In(x, Q)
    BY <1>2 DEF In
<1>6. In(r, Q)
  <2>1. Len(q) + 1 \in 1..Len(Q)
      BY <1>2
  <2> QED BY <1>2, <2>1 DEF In
<1> QED BY <1>1, <1>2, <1>3, <1>4, <1>5, <1>6

LEMMA NothingRises == <<>> \in Seq(Nat) /\ Rising(<<>>) /\ \A s : Below(s, <<>>) /\ Below(<<>>, s)
BY DEF Rising, Below

LEMMA TailRises ==
    ASSUME NEW s \in Seq(Nat), s # <<>>, Rising(s)
    PROVE  /\ Tail(s) \in Seq(Nat) /\ Rising(Tail(s)) /\ Head(s) \in Nat /\ Head(s) = s[1]
           /\ Len(Tail(s)) = Len(s) - 1 /\ Len(s) \in Nat /\ Len(s) > 0
           /\ \A i \in 1..Len(Tail(s)) : Tail(s)[i] = s[i + 1] /\ i + 1 \in 1..Len(s) /\ Head(s) < Tail(s)[i]
<1>1. /\ Tail(s) \in Seq(Nat) /\ Head(s) = s[1] /\ Len(s) \in Nat /\ Len(s) > 0
      /\ Len(Tail(s)) = Len(s) - 1
      /\ \A i \in 1..Len(Tail(s)) : Tail(s)[i] = s[i + 1] /\ i + 1 \in 1..Len(s)
    OBVIOUS
<1>2. \A i \in 1..Len(Tail(s)) : Head(s) < Tail(s)[i]
    BY <1>1 DEF Rising
<1>3. Rising(Tail(s))
    BY <1>1 DEF Rising
<1> QED BY <1>1, <1>2, <1>3

\* Sending the first of what is left: it goes to the end of what has been sent.
LEMMA SendFirst ==
    ASSUME NEW s \in Seq(Nat), NEW q \in Seq(Nat), q # <<>>, Rising(s), Rising(q), Below(s, q)
    PROVE  /\ Append(s, Head(q)) \in Seq(Nat) /\ Rising(Append(s, Head(q)))
           /\ Below(Append(s, Head(q)), Tail(q))
           /\ \A r : In(r, s) \/ In(r, q) => In(r, Append(s, Head(q))) \/ In(r, Tail(q))
<1> DEFINE S == Append(s, Head(q))
<1>1. /\ Tail(q) \in Seq(Nat) /\ Head(q) \in Nat /\ Head(q) = q[1]
      /\ Len(Tail(q)) = Len(q) - 1 /\ Len(q) \in Nat /\ Len(q) > 0
      /\ \A i \in 1..Len(Tail(q)) : Tail(q)[i] = q[i + 1] /\ i + 1 \in 1..Len(q) /\ Head(q) < Tail(q)[i]
    BY TailRises
<1>2. \A i \in 1..Len(s) : s[i] < Head(q)
    BY <1>1 DEF Below
<1>3. S \in Seq(Nat) /\ Rising(S)
    BY <1>1, <1>2, AppendRises
<1>4. Len(S) = Len(s) + 1 /\ Len(s) \in Nat
      /\ \A i \in 1..Len(S) : S[i] = IF i = Len(s) + 1 THEN Head(q) ELSE s[i]
    BY <1>1
<1>5. Below(S, Tail(q))
    BY <1>1, <1>4 DEF Below
<1>6. ASSUME NEW r, In(r, s) \/ In(r, q) PROVE In(r, S) \/ In(r, Tail(q))
  <2>1. CASE In(r, s)
      BY <1>4, <2>1 DEF In
  <2>2. CASE In(r, q)
    <3>1. PICK i \in 1..Len(q) : q[i] = r
        BY <2>2 DEF In
    <3>2. CASE i = 1
        BY <1>1, <1>4, <3>1, <3>2 DEF In
    <3>3. CASE i # 1
      <4>1. i - 1 \in 1..Len(Tail(q)) /\ Tail(q)[i - 1] = r
          BY <1>1, <3>1, <3>3
      <4> QED BY <4>1 DEF In
    <3> QED BY <3>2, <3>3
  <2> QED BY <1>6, <2>1, <2>2
<1> QED BY <1>3, <1>5, <1>6

-----------------------------------------------------------------------------
LEMMA StreamInvInit == Init => StreamInv
BY StreamAssumption
   DEF Init, StreamInv, BufferInv, ShapeInv, ClientInv, Recs, Rising, Below, In

\* A step that touches one client leaves the rest of the invariant alone.
LEMMA OtherClients ==
    ASSUME StreamInv, NEW c \in Clients, UNCHANGED <<published, buffer>>,
           ShapeInv', ClientInv(c)',
           \A d \in Clients \ {c} :
               /\ inbox'[d] = inbox[d] /\ snapshot'[d] = snapshot[d] /\ sent'[d] = sent[d]
               /\ joined'[d] = joined[d] /\ cpc'[d] = cpc[d]
               /\ d \in subscribers' => d \in subscribers
    PROVE  StreamInv'
<1>1. BufferInv'
    BY DEF StreamInv, BufferInv, Recs
<1>2. ASSUME NEW d \in Clients \ {c} PROVE ClientInv(d)'
    BY <1>2 DEF StreamInv, ClientInv, Recs
<1> QED BY <1>1, <1>2 DEF StreamInv

LEMMA PublishStep == StreamInv /\ Publish => StreamInv'
<1> SUFFICES ASSUME StreamInv, Publish PROVE StreamInv'
    OBVIOUS
<1> DEFINE r == published + 1
<1>0. /\ published \in Nat /\ published' = r /\ r \in Nat
      /\ UNCHANGED handlerVars
      /\ subscribers' = {c \in subscribers : ~Full(c)}
    BY DEF Publish, StreamInv, BufferInv
<1>2. BufferInv'
  <2> DEFINE all == Append(buffer, r)
  <2>1. buffer \in Seq(Nat) /\ Rising(buffer) /\ Len(buffer) <= BufferSize
        /\ \A i \in 1..Len(buffer) : 1 <= buffer[i] /\ buffer[i] < r
      BY <1>0 DEF StreamInv, BufferInv, Recs
  <2>2. /\ all \in Seq(Nat) /\ Rising(all) /\ Len(all) = Len(buffer) + 1
        /\ \A i \in 1..Len(all) : 1 <= all[i] /\ all[i] <= r
      BY <1>0, <2>1, AppendRises
  <2>3. CASE Len(all) > BufferSize
    <3>1. all # <<>> /\ buffer' = Tail(all)
        BY <1>0, <2>2, <2>3 DEF Publish, Push
    <3>2. /\ Tail(all) \in Seq(Nat) /\ Rising(Tail(all)) /\ Len(Tail(all)) = Len(all) - 1
          /\ \A i \in 1..Len(Tail(all)) : Tail(all)[i] = all[i + 1] /\ i + 1 \in 1..Len(all)
        BY <2>2, <3>1, TailRises
    <3>3. Len(Tail(all)) <= BufferSize
        BY <2>1, <2>2, <3>2, StreamAssumption
    <3>4. Recs(buffer)'
        BY <1>0, <2>2, <3>1, <3>2 DEF Recs
    <3> QED BY <1>0, <3>1, <3>2, <3>3, <3>4 DEF BufferInv, Rising
  <2>4. CASE ~(Len(all) > BufferSize)
    <3>1. buffer' = all
        BY <1>0, <2>4 DEF Publish, Push
    <3>2. Recs(buffer)'
        BY <1>0, <2>2, <3>1 DEF Recs
    <3> QED BY <1>0, <2>2, <2>4, <3>1, <3>2, StreamAssumption DEF BufferInv, Rising
  <2> QED BY <2>3, <2>4
<1>3. ShapeInv'
    BY <1>0 DEF Publish, StreamInv, ShapeInv, handlerVars
<1>4. ASSUME NEW c \in Clients PROVE ClientInv(c)'
  <2>1. ClientInv(c) /\ UNCHANGED <<cpc, snapshot, sent, joined>>
      BY <1>0 DEF StreamInv, handlerVars
  <2>2. /\ Recs(inbox[c]) /\ Recs(sent[c]) /\ Recs(snapshot[c])
        /\ Rising(inbox[c]) /\ Below(sent[c], inbox[c]) /\ Len(inbox[c]) <= SubscriberMax
        /\ joined[c] \in 0..published
      BY <2>1 DEF ClientInv
  <2>3. \A s : Recs(s) => s \in Seq(Nat) /\ \A i \in 1..Len(s) : 1 <= s[i] /\ s[i] <= r /\ s[i] < r
      BY <1>0 DEF Recs
  <2>4. Recs(snapshot[c])' /\ Recs(sent[c])'
      BY <1>0, <2>1, <2>2, <2>3 DEF Recs
  <2>5. joined'[c] \in 0..published'
      BY <1>0, <2>1, <2>2
  <2>6. CASE c \in subscribers /\ ~Full(c)
    <3> DEFINE Q == Append(inbox[c], r)
    <3>1. inbox'[c] = Q
        BY <1>0, <2>6 DEF Publish
    <3>2. /\ Q \in Seq(Nat) /\ Rising(Q) /\ Below(sent[c], Q)
          /\ Len(Q) = Len(inbox[c]) + 1 /\ Len(inbox[c]) \in Nat
          /\ \A i \in 1..Len(Q) : Q[i] = r \/ (i \in 1..Len(inbox[c]) /\ Q[i] = inbox[c][i])
          /\ \A x : In(x, inbox[c]) => In(x, Q)
          /\ In(r, Q)
        BY <1>0, <2>2, <2>3, AppendNext
    <3>3. \A i \in 1..Len(Q) : 1 <= Q[i] /\ Q[i] <= r
      <4>1. \A i \in 1..Len(inbox[c]) : 1 <= inbox[c][i] /\ inbox[c][i] <= r
          BY <2>2, <2>3
      <4>2. 1 <= r /\ r <= r
          BY <1>0
      <4> QED BY <3>2, <4>1, <4>2
    <3>4. Recs(inbox[c])'
        BY <1>0, <3>1, <3>2, <3>3 DEF Recs
    <3>5. Rising(inbox[c])' /\ Below(sent[c], inbox[c])'
        BY <2>1, <3>1, <3>2 DEF Rising, Below
    <3>6. (Len(inbox[c]) <= SubscriberMax)'
        BY <2>2, <2>6, <3>1, <3>2, StreamAssumption DEF Full
    <3>7. cpc[c] = "stream"
        BY <2>1, <2>6 DEF ClientInv
    <3>8. ASSUME NEW q \in joined[c] + 1 .. r PROVE In(q, sent[c]) \/ In(q, Q)
      <4>1. CASE q = r
          BY <3>2, <4>1
      <4>2. CASE q # r
        <5>1. q \in joined[c] + 1 .. published
            BY <1>0, <2>2, <4>2
        <5>2. In(q, sent[c]) \/ In(q, inbox[c])
            BY <2>1, <2>6, <5>1 DEF ClientInv
        <5> QED BY <3>2, <5>2
      <4> QED BY <4>1, <4>2
    <3>9. Below(sent[c], snapshot[c])' /\ Rising(snapshot[c])' /\ Rising(sent[c])'
        BY <2>1 DEF ClientInv, Below, Rising
    <3>10. \A q \in (joined[c] + 1 .. published)' : In(q, sent[c])' \/ In(q, inbox[c])'
        BY <1>0, <2>1, <3>1, <3>8 DEF In
    <3> QED BY <2>1, <2>4, <2>5, <3>4, <3>5, <3>6, <3>7, <3>9, <3>10, <3>1 DEF ClientInv
  <2>7. CASE ~(c \in subscribers /\ ~Full(c))
    <3>1. inbox'[c] = inbox[c] /\ c \notin subscribers'
        BY <1>0, <2>7 DEF Publish
    <3>2. Recs(inbox[c])'
        BY <1>0, <2>2, <2>3, <3>1 DEF Recs
    <3>3. /\ Rising(inbox[c])' /\ Below(sent[c], inbox[c])' /\ Below(sent[c], snapshot[c])'
          /\ Rising(snapshot[c])' /\ Rising(sent[c])' /\ (Len(inbox[c]) <= SubscriberMax)'
        BY <2>1, <3>1 DEF ClientInv, Below, Rising
    <3> QED BY <2>1, <2>4, <2>5, <3>1, <3>2, <3>3 DEF ClientInv
  <2> QED BY <2>6, <2>7
<1> QED BY <1>2, <1>3, <1>4 DEF StreamInv

LEMMA ClientStep ==
    ASSUME StreamInv, NEW c \in Clients, Connect(c) \/ Handler(c) \/ Leave(c)
    PROVE  StreamInv'
<1> USE DEF handlerVars
<1>0. /\ ClientInv(c) /\ BufferInv /\ ShapeInv
      /\ inbox[c] \in Seq(Nat) /\ snapshot[c] \in Seq(Nat) /\ sent[c] \in Seq(Nat)
    BY DEF StreamInv, ClientInv, Recs
<1>1. CASE Connect(c)
  <2>1. ShapeInv'
      BY <1>0, <1>1 DEF Connect, ShapeInv, BufferInv, Recs
  <2>2. snapshot'[c] = buffer /\ sent[c] = <<>> /\ cpc'[c] = "snapshot" /\ cpc[c] = "new"
      BY <1>0, <1>1 DEF Connect, ClientInv, ShapeInv
  <2>3. Recs(snapshot[c])' /\ Rising(snapshot[c])' /\ Below(sent[c], snapshot[c])'
      BY <1>0, <1>1, <2>2 DEF Connect, BufferInv, Recs, Rising, Below
  <2>4. ClientInv(c)'
      BY <1>0, <1>1, <2>2, <2>3 DEF Connect, ClientInv, Recs, Rising, Below
  <2> QED BY <1>0, <1>1, <2>1, <2>4, OtherClients DEF Connect, ShapeInv
<1>2. CASE SendSnapshot(c)
  <2> DEFINE s == Append(sent[c], Head(snapshot[c]))
  <2>1. /\ snapshot'[c] = Tail(snapshot[c]) /\ sent'[c] = s /\ cpc[c] = "snapshot"
        /\ snapshot[c] # <<>> /\ inbox[c] = <<>>
        /\ UNCHANGED <<published, buffer, subscribers, inbox, cpc, peer, joined>>
      BY <1>0, <1>2 DEF SendSnapshot, ClientInv, ShapeInv
  <2>2. /\ s \in Seq(Nat) /\ Rising(s) /\ Below(s, Tail(snapshot[c]))
      BY <1>0, <2>1, SendFirst DEF ClientInv
  <2>3. /\ Tail(snapshot[c]) \in Seq(Nat) /\ Rising(Tail(snapshot[c]))
        /\ \A i \in 1..Len(Tail(snapshot[c])) :
               Tail(snapshot[c])[i] = snapshot[c][i + 1] /\ i + 1 \in 1..Len(snapshot[c])
        /\ Head(snapshot[c]) = snapshot[c][1] /\ 1 \in 1..Len(snapshot[c])
      BY <1>0, <2>1, TailRises DEF ClientInv
  <2>4. Recs(sent[c])' /\ Recs(snapshot[c])'
      BY <1>0, <2>1, <2>2, <2>3 DEF ClientInv, Recs
  <2>5. ShapeInv'
      BY <1>0, <1>2, <2>2, <2>3 DEF SendSnapshot, ShapeInv
  <2>6. /\ Rising(sent[c])' /\ Rising(snapshot[c])' /\ Below(sent[c], snapshot[c])'
      BY <2>1, <2>2, <2>3 DEF Rising, Below
  <2>7. /\ Recs(inbox[c])' /\ Rising(inbox[c])' /\ Below(sent[c], inbox[c])'
        /\ (Len(inbox[c]) <= SubscriberMax)'
    <3>1. inbox'[c] = <<>> /\ Len(<<>>) = 0
        BY <2>1
    <3> QED BY <3>1, NothingRises, StreamAssumption DEF Recs, Rising, Below
  <2>8. ClientInv(c)'
      BY <1>0, <2>1, <2>4, <2>6, <2>7 DEF ClientInv
  <2> QED BY <1>0, <1>2, <2>1, <2>5, <2>8, OtherClients DEF SendSnapshot, ShapeInv
<1>3. CASE Subscribe(c)
  <2>1. /\ cpc[c] = "snapshot" /\ snapshot[c] = <<>> /\ cpc'[c] = "stream"
        /\ joined'[c] = published /\ subscribers' = subscribers \cup {c}
        /\ UNCHANGED <<published, buffer, inbox, peer, snapshot, sent>>
      BY <1>0, <1>3 DEF Subscribe, ShapeInv
  <2>2. ShapeInv'
      BY <1>0, <1>3 DEF Subscribe, ShapeInv, BufferInv
  <2>3. joined'[c] \in 0..published' /\ joined'[c] + 1 .. published' = {}
      BY <1>0, <2>1 DEF BufferInv
  <2>4. ClientInv(c)'
      BY <1>0, <2>1, <2>3 DEF ClientInv, Recs, Rising, Below
  <2> QED BY <1>0, <1>3, <2>1, <2>2, <2>4, OtherClients DEF Subscribe, ShapeInv
<1>4. CASE SendNext(c)
  <2> DEFINE s == Append(sent[c], Head(inbox[c]))
  <2>1. /\ inbox'[c] = Tail(inbox[c]) /\ sent'[c] = s /\ cpc[c] = "stream"
        /\ inbox[c] # <<>> /\ snapshot[c] = <<>>
        /\ UNCHANGED <<published, buffer, subscribers, cpc, peer, snapshot, joined>>
      BY <1>0, <1>4 DEF SendNext, ClientInv, ShapeInv
  <2>2. /\ s \in Seq(Nat) /\ Rising(s) /\ Below(s, Tail(inbox[c]))
        /\ \A r : In(r, sent[c]) \/ In(r, inbox[c]) => In(r, s) \/ In(r, Tail(inbox[c]))
      BY <1>0, <2>1, SendFirst DEF ClientInv
  <2>3. /\ Tail(inbox[c]) \in Seq(Nat) /\ Rising(Tail(inbox[c]))
        /\ Len(Tail(inbox[c])) = Len(inbox[c]) - 1 /\ Len(inbox[c]) \in Nat
        /\ \A i \in 1..Len(Tail(inbox[c])) :
               Tail(inbox[c])[i] = inbox[c][i + 1] /\ i + 1 \in 1..Len(inbox[c])
        /\ Head(inbox[c]) = inbox[c][1] /\ 1 \in 1..Len(inbox[c])
      BY <1>0, <2>1, TailRises DEF ClientInv
  <2>4. Recs(sent[c])' /\ Recs(inbox[c])'
      BY <1>0, <2>1, <2>2, <2>3 DEF ClientInv, Recs
  <2>5. ShapeInv'
      BY <1>0, <1>4, <2>2, <2>3 DEF SendNext, ShapeInv
  <2>6. /\ Rising(sent[c])' /\ Rising(inbox[c])' /\ Below(sent[c], inbox[c])'
      BY <2>1, <2>2, <2>3 DEF Rising, Below
  <2>7. Below(sent[c], snapshot[c])' /\ Recs(snapshot[c])' /\ Rising(snapshot[c])'
    <3>1. snapshot'[c] = <<>> /\ Len(<<>>) = 0
        BY <2>1
    <3> QED BY <3>1, NothingRises DEF Recs, Rising, Below
  <2>8. (Len(inbox[c]) <= SubscriberMax)'
      BY <1>0, <2>1, <2>3, StreamAssumption DEF ClientInv
  <2>9. ASSUME c \in subscribers, NEW r \in joined[c] + 1 .. published
        PROVE  In(r, s) \/ In(r, Tail(inbox[c]))
      BY <1>0, <2>2, <2>9 DEF ClientInv
  <2>10. ClientInv(c)'
      BY <1>0, <2>1, <2>4, <2>6, <2>7, <2>8, <2>9 DEF ClientInv, In
  <2> QED BY <1>0, <1>4, <2>1, <2>5, <2>10, OtherClients DEF SendNext, ShapeInv
<1>5. CASE SendFails(c)
  <2>1. /\ inbox'[c] = <<>> /\ snapshot'[c] = <<>> /\ cpc'[c] = "closed" /\ c \notin subscribers'
        /\ cpc[c] # "new"
        /\ UNCHANGED <<published, buffer, peer, sent, joined>>
      BY <1>0, <1>5 DEF SendFails, Close, ShapeInv
  <2>2. ShapeInv'
      BY <1>0, <1>5 DEF SendFails, Close, ShapeInv
  <2>3. ClientInv(c)'
      BY <1>0, <2>1, StreamAssumption DEF ClientInv, Recs, Rising, Below
  <2> QED BY <1>0, <1>5, <2>1, <2>2, <2>3, OtherClients DEF SendFails, Close, ShapeInv
<1>6. CASE Leave(c)
  <2>1. ShapeInv' /\ UNCHANGED <<published, buffer, subscribers, inbox, cpc, snapshot, sent, joined>>
      BY <1>0, <1>6 DEF Leave, ShapeInv
  <2>2. ClientInv(c)'
      BY <1>0, <2>1 DEF ClientInv, Recs, Rising, Below, In
  <2> QED BY <2>1, <2>2, OtherClients
<1> QED BY <1>1, <1>2, <1>3, <1>4, <1>5, <1>6 DEF Handler

LEMMA StreamInvStep == StreamInv /\ [Next]_vars => StreamInv'
<1>1. StreamInv /\ UNCHANGED vars => StreamInv'
    BY DEF vars, StreamInv, BufferInv, ShapeInv, ClientInv, Recs, Rising, Below, In
<1> QED BY <1>1, PublishStep, ClientStep DEF Next

\* The inductive invariant, for every number of clients and of records.
THEOREM StreamInvariant == Spec => []StreamInv
BY StreamInvInit, StreamInvStep, PTL DEF Spec

\* Type correctness; the buffer and the queues keep within their bounds
\* (observability/broadcaster.py).
THEOREM StreamTypeCorrect == Spec => []StreamTypeOK
<1>1. ASSUME published \in Nat, NEW s, Recs(s) PROVE s \in Seq(1..published)
  <2>1. s \in Seq(Nat) /\ \A i \in 1..Len(s) : s[i] \in 1..published
      BY <1>1 DEF Recs
  <2>2. s \in [1..Len(s) -> 1..published] /\ Len(s) \in Nat
      BY <2>1
  <2> QED BY <2>2, SeqDef, Zenon
<1>2. StreamInv => StreamTypeOK
    BY <1>1 DEF StreamInv, BufferInv, ShapeInv, ClientInv, StreamTypeOK
<1> QED BY <1>2, StreamInvariant, PTL

\* No client is sent a record twice or out of order, across the end of the snapshot
\* and the start of the stream (routers/logs_ws.py).
THEOREM RecordsAreInOrder == Spec => []InOrder
<1>1. StreamInv => InOrder
    BY DEF StreamInv, ClientInv, Rising, InOrder
<1> QED BY <1>1, StreamInvariant, PTL

\* As long as a client is subscribed, every record since then has been sent to it or is
\* in its queue, however slow it is: whoever misses one is no longer subscribed.
THEOREM SubscribersMissNothing == Spec => []Complete
<1>1. ASSUME NEW r, NEW s, In(r, s) PROVE r \in ToSet(s)
    BY <1>1 DEF In, ToSet
<1>2. StreamInv => Complete
    BY <1>1 DEF StreamInv, ShapeInv, ClientInv, Complete
<1> QED BY <1>2, StreamInvariant, PTL
=============================================================================
