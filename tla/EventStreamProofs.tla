-------------------------- MODULE EventStreamProofs --------------------------
(***************************************************************************)
(* Theorems about EventStream, for any number of publishers and events and *)
(* every capacity of a subscription's channel.                             *)
(***************************************************************************)
EXTENDS EventStream, TLAPS

(* Whatever is on its way to a client, was written to it or is given back by *)
(* it when it reconnects is the number of an event the store holds, and the *)
(* channel is never filled beyond its capacity.                            *)
OnlyStoredEvents ==
  /\ seq \in Nat
  /\ pending \in [Publishers -> 0..seq]
  /\ conn \in {"off", "listed", "on"}
  /\ from \in 0..seq /\ lastId \in 0..seq
  /\ backlog \in Seq(1..seq) /\ chan \in Seq(1..seq) /\ Len(chan) <= Buf
  /\ written \subseteq 1..seq /\ missed \subseteq 1..seq

StreamInv == OnlyStoredEvents /\ EveryEventAccounted

(* Writing the head of a queue moves it from the queue to what was written. *)
LEMMA HeadAndTail ==
  ASSUME NEW S, NEW q \in Seq(S), q # <<>>
  PROVE  /\ Head(q) \in S /\ Tail(q) \in Seq(S) /\ Len(Tail(q)) <= Len(q)
         /\ Elements(q) \subseteq {Head(q)} \cup Elements(Tail(q))
<1>1. Len(q) \in Nat \ {0} /\ Head(q) = q[1] /\ Len(Tail(q)) = Len(q) - 1
  OBVIOUS
<1>2. Head(q) \in S /\ Tail(q) \in Seq(S)
  OBVIOUS
<1>3. ASSUME NEW i \in DOMAIN q PROVE q[i] \in {Head(q)} \cup Elements(Tail(q))
  <2>1. CASE i = 1
    BY <1>1, <2>1
  <2>2. CASE i # 1
    <3>1. i - 1 \in DOMAIN Tail(q) /\ Tail(q)[i - 1] = q[i]
      BY <1>1, <2>2
    <3>2. QED
      BY <3>1 DEF Elements
  <2>3. QED
    BY <2>1, <2>2
<1>4. QED
  BY <1>1, <1>2, <1>3 DEF Elements

LEMMA AppendAdds ==
  ASSUME NEW S, NEW q \in Seq(S), NEW e \in S
  PROVE  /\ Append(q, e) \in Seq(S) /\ Len(Append(q, e)) = Len(q) + 1
         /\ Elements(q) \cup {e} \subseteq Elements(Append(q, e))
<1>1. Append(q, e) \in Seq(S) /\ Len(Append(q, e)) = Len(q) + 1 /\ Append(q, e)[Len(q) + 1] = e
  OBVIOUS
<1>2. ASSUME NEW i \in DOMAIN q PROVE i \in DOMAIN Append(q, e) /\ Append(q, e)[i] = q[i]
  OBVIOUS
<1>3. Len(q) + 1 \in DOMAIN Append(q, e)
  BY <1>1
<1>4. QED
  BY <1>1, <1>2, <1>3 DEF Elements

(* ListJobEventsFromSeq(n) returns exactly the stored events after n. *)
LEMMA ListIsAfter ==
  ASSUME seq \in Nat, NEW n \in 0..seq
  PROVE  ListFrom(n) \in Seq(1..seq) /\ (n + 1)..seq \subseteq Elements(ListFrom(n))
<1>1. ListFrom(n) = [i \in 1..(seq - n) |-> n + i]
  BY DEF ListFrom
<1>2. ListFrom(n) \in Seq(1..seq)
  BY <1>1
<1>3. ASSUME NEW e \in (n + 1)..seq PROVE e \in Elements(ListFrom(n))
  <2>1. e - n \in 1..(seq - n) /\ n + (e - n) = e
    OBVIOUS
  <2>2. e - n \in DOMAIN ListFrom(n) /\ ListFrom(n)[e - n] = e
    BY <1>1, <2>1
  <2>3. QED
    BY <2>2 DEF Elements
<1>4. QED
  BY <1>2, <1>3

-----------------------------------------------------------------------------
(* AppendJobEvent: the new event is its publisher's. *)
LEMMA AppendKeeps ==
  ASSUME StreamInv, NEW p \in Publishers, AppendEvent(p)
  PROVE  StreamInv'
<1>1. seq \in Nat /\ seq' = seq + 1 /\ 1..seq \subseteq 1..seq' /\ 0..seq \subseteq 0..seq'
  BY DEF StreamInv, OnlyStoredEvents, AppendEvent
<1>2. backlog \in Seq(1..seq') /\ chan \in Seq(1..seq')
  BY <1>1 DEF StreamInv, OnlyStoredEvents
<1>3. OnlyStoredEvents'
  BY <1>1, <1>2 DEF StreamInv, OnlyStoredEvents, AppendEvent, connVars
<1>4. EveryEventAccounted'
  <2> SUFFICES ASSUME conn # "off", NEW e \in (from + 1)..(seq + 1)
               PROVE  \/ e \in written \cup Elements(backlog) \cup Elements(chan) \cup missed
                      \/ \E q \in Publishers : pending'[q] = e
    BY <1>1 DEF EveryEventAccounted, AppendEvent, connVars, Elements
  <2>1. CASE e = seq + 1
    BY <2>1 DEF StreamInv, OnlyStoredEvents, AppendEvent
  <2>2. CASE e # seq + 1
    <3>1. e \in (from + 1)..seq /\ e # 0
      BY <1>1, <2>2 DEF StreamInv, OnlyStoredEvents
    <3>2. QED
      BY <3>1 DEF StreamInv, OnlyStoredEvents, EveryEventAccounted, AppendEvent
  <2>3. QED
    BY <2>1, <2>2
<1>5. QED
  BY <1>3, <1>4 DEF StreamInv

(* Hub.Publish: the event enters the channel, or it is one of the missed. *)
LEMMA PublishKeeps ==
  ASSUME StreamInv, NEW p \in Publishers, Publish(p)
  PROVE  StreamInv'
<1> DEFINE reaches == Subscribed /\ HasRoom
<1>1. /\ pending[p] \in 1..seq
      /\ chan' = IF reaches THEN Append(chan, pending[p]) ELSE chan
      /\ missed' = IF reaches \/ conn = "off" THEN missed ELSE missed \cup {pending[p]}
      /\ pending' = [pending EXCEPT ![p] = 0]
      /\ UNCHANGED <<seq, conn, from, backlog, lastId, written>>
  BY DEF StreamInv, OnlyStoredEvents, Publish, connVars
<1>2. chan' \in Seq(1..seq) /\ Len(chan') <= Buf /\ Elements(chan) \subseteq Elements(chan')
  <2>1. CASE reaches
    BY <1>1, <2>1, AppendAdds, StreamAssumption DEF StreamInv, OnlyStoredEvents, HasRoom
  <2>2. CASE ~reaches
    BY <1>1, <2>2 DEF StreamInv, OnlyStoredEvents
  <2>3. QED
    BY <2>1, <2>2
<1>3. conn # "off" => pending[p] \in Elements(chan') \cup missed'
  BY <1>1, AppendAdds DEF StreamInv, OnlyStoredEvents
<1>4. missed \subseteq missed' /\ missed' \subseteq 1..seq
  BY <1>1 DEF StreamInv, OnlyStoredEvents
<1> HIDE DEF reaches
<1>5. OnlyStoredEvents'
  BY <1>1, <1>2, <1>4 DEF StreamInv, OnlyStoredEvents
<1>6. EveryEventAccounted'
  <2> SUFFICES ASSUME conn # "off", NEW e \in (from + 1)..seq
               PROVE  \/ e \in written \cup Elements(backlog) \cup Elements(chan') \cup missed'
                      \/ \E q \in Publishers : pending'[q] = e
    BY <1>1 DEF EveryEventAccounted, Elements
  <2>1. CASE pending[p] = e
    BY <1>3, <2>1
  <2>2. CASE pending[p] # e
    BY <1>1, <1>2, <1>4, <2>2 DEF StreamInv, OnlyStoredEvents, EveryEventAccounted
  <2>3. QED
    BY <2>1, <2>2
<1>7. QED
  BY <1>5, <1>6 DEF StreamInv

LEMMA ConnectKeeps ==
  ASSUME StreamInv, NEW n \in 0..lastId, Connect(n)
  PROVE  StreamInv'
<1>1. seq \in Nat /\ n \in 0..seq
  BY DEF StreamInv, OnlyStoredEvents
<1>2. ListFrom(n) \in Seq(1..seq) /\ (n + 1)..seq \subseteq Elements(ListFrom(n))
  BY <1>1, ListIsAfter
<1>3. OnlyStoredEvents'
  BY <1>1, <1>2 DEF StreamInv, OnlyStoredEvents, Connect
<1>4. EveryEventAccounted'
  BY <1>2 DEF EveryEventAccounted, Connect, Elements
<1>5. QED
  BY <1>3, <1>4 DEF StreamInv

(* writeSSE: what leaves the backlog or the channel has been written. *)
LEMMA WriteKeeps ==
  ASSUME StreamInv, WriteBacklog \/ WriteEvent
  PROVE  StreamInv'
<1>1. CASE WriteBacklog
  <2>1. /\ Head(backlog) \in 1..seq /\ Tail(backlog) \in Seq(1..seq)
        /\ Elements(backlog) \subseteq {Head(backlog)} \cup Elements(Tail(backlog))
    BY <1>1, HeadAndTail DEF StreamInv, OnlyStoredEvents, WriteBacklog
  <2>2. OnlyStoredEvents'
    <3>1. PICK e \in 1..seq : lastId' = e /\ written' = written \cup {e}
      BY <1>1, <2>1 DEF WriteBacklog, Write
    <3>2. backlog' \in Seq(1..seq) /\ UNCHANGED <<seq, pending, conn, from, chan, missed>>
      BY <1>1, <2>1 DEF StreamInv, OnlyStoredEvents, WriteBacklog
    <3>3. seq \in Nat /\ e \in 0..seq
      BY DEF StreamInv, OnlyStoredEvents
    <3>4. QED
      BY <3>1, <3>2, <3>3 DEF StreamInv, OnlyStoredEvents
  <2>3. Elements(backlog') = Elements(Tail(backlog)) /\ Elements(chan') = Elements(chan)
    BY <1>1 DEF WriteBacklog, Elements
  <2>4. EveryEventAccounted'
    BY <1>1, <2>1, <2>3 DEF StreamInv, EveryEventAccounted, WriteBacklog, Write
  <2>5. QED
    BY <2>2, <2>4 DEF StreamInv
<1>2. CASE WriteEvent
  <2>1. /\ Head(chan) \in 1..seq /\ Tail(chan) \in Seq(1..seq) /\ Len(Tail(chan)) <= Len(chan)
        /\ Elements(chan) \subseteq {Head(chan)} \cup Elements(Tail(chan))
    BY <1>2, HeadAndTail DEF StreamInv, OnlyStoredEvents, WriteEvent
  <2>2. OnlyStoredEvents'
    <3>1. PICK e \in 1..seq : lastId' = e /\ written' = written \cup {e}
      BY <1>2, <2>1 DEF WriteEvent, Write
    <3>2. chan' \in Seq(1..seq) /\ Len(chan') <= Buf /\ UNCHANGED <<seq, pending, conn, from, backlog, missed>>
      BY <1>2, <2>1, StreamAssumption DEF StreamInv, OnlyStoredEvents, WriteEvent
    <3>3. seq \in Nat /\ e \in 0..seq
      BY DEF StreamInv, OnlyStoredEvents
    <3>4. QED
      BY <3>1, <3>2, <3>3 DEF StreamInv, OnlyStoredEvents
  <2>3. Elements(chan') = Elements(Tail(chan)) /\ Elements(backlog') = Elements(backlog)
    BY <1>2 DEF WriteEvent, Elements
  <2>4. EveryEventAccounted'
    BY <1>2, <2>1, <2>3 DEF StreamInv, EveryEventAccounted, WriteEvent, Write
  <2>5. QED
    BY <2>2, <2>4 DEF StreamInv
<1>3. QED
  BY <1>1, <1>2

LEMMA AlwaysStreamInv == Spec => []StreamInv
<1>1. Init => StreamInv
  BY StreamAssumption DEF Init, StreamInv, OnlyStoredEvents, EveryEventAccounted
<1>2. StreamInv /\ [Next]_vars => StreamInv'
  <2> SUFFICES ASSUME StreamInv, [Next]_vars PROVE StreamInv'
    OBVIOUS
  <2>1. CASE Subscribe
    BY <2>1 DEF Subscribe, StreamInv, OnlyStoredEvents, EveryEventAccounted, Elements
  <2>2. CASE Disconnect
    BY <2>2, StreamAssumption DEF Disconnect, StreamInv, OnlyStoredEvents, EveryEventAccounted
  <2>3. CASE UNCHANGED vars
    BY <2>3 DEF vars, StreamInv, OnlyStoredEvents, EveryEventAccounted, Elements
  <2>4. QED
    BY <2>1, <2>2, <2>3, AppendKeeps, PublishKeeps, ConnectKeeps, WriteKeeps DEF Next
<1>3. QED
  BY <1>1, <1>2, PTL DEF Spec

-----------------------------------------------------------------------------
(* A client is never sent, and never resumes from, an event AppendJobEvent    *)
(* has not stored, and Hub.Publish never overfills a channel.              *)
THEOREM EventsAlwaysStored == Spec => []OnlyStoredEvents
<1>1. StreamInv => OnlyStoredEvents
  BY DEF StreamInv
<1>2. QED
  BY <1>1, AlwaysStreamInv, PTL

(* On an open connection no event after the one resumed from disappears       *)
(* except through the two holes of streamJobEvents: published between the   *)
(* backlog and the subscription, or to a full channel.                     *)
THEOREM EventsAlwaysAccounted == Spec => []EveryEventAccounted
<1>1. StreamInv => EveryEventAccounted
  BY DEF StreamInv
<1>2. QED
  BY <1>1, AlwaysStreamInv, PTL
==============================================================================
