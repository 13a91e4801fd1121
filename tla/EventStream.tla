----------------------------- MODULE EventStream -----------------------------
(***************************************************************************)
(* How the events of one job reach a client of the Go server: publishEvent *)
(* (internal/job/service.go) appends to the store, which numbers the event, *)
(* and then publishes to the hub (internal/events/hub.go); streamJobEvents  *)
(* (internal/api/handlers_jobs.go) writes the backlog and then what its     *)
(* subscription yields.  The client reconnects with the id it received last. *)
(* An event is its sequence number.  Heartbeats carry nothing and are left  *)
(* out.                                                                    *)
(***************************************************************************)
EXTENDS Integers, Sequences, FiniteSets

CONSTANTS
  Publishers,  \* the goroutines that publish events of the job
  Buf,         \* capacity of a subscription's channel (128)
  MaxEvents    \* bound: events the job has in all

ASSUME StreamAssumption == Buf \in Nat \ {0} /\ MaxEvents \in Nat

VARIABLES
  seq,      \* eventSeqByJob: the last number given; eventsByJob holds 1..seq
  pending,  \* per publisher: the event appended and not yet published, or 0
  conn,     \* the handler: "off", "listed" (backlog read) or "on" (subscribed)
  from,     \* fromSeq of this connection
  backlog,  \* what is left to write of the backlog
  chan,     \* the subscription's channel
  lastId,   \* the id the client received last, on any connection
  written,  \* the events written on this connection
  missed    \* published since the backlog was read, and not put in the channel

vars == <<seq, pending, conn, from, backlog, chan, lastId, written, missed>>
connVars == <<conn, from, backlog, lastId, written>>

-----------------------------------------------------------------------------
(* AppendJobEvent, under the store's lock. *)
AppendEvent(p) ==
  /\ pending[p] = 0 /\ seq < MaxEvents
  /\ seq' = seq + 1
  /\ pending' = [pending EXCEPT ![p] = seq + 1]
  /\ UNCHANGED <<connVars, chan, missed>>

Subscribed == conn = "on"

HasRoom == Len(chan) < Buf

(* Hub.Publish, under the hub's read lock: a full channel is skipped by the   *)
(* select's default branch, and the subscriber stays.                      *)
Publish(p) ==
  /\ pending[p] # 0
  /\ LET reaches == Subscribed /\ HasRoom
     IN /\ chan' = IF reaches THEN Append(chan, pending[p]) ELSE chan
        /\ missed' = IF reaches \/ conn = "off" THEN missed ELSE missed \cup {pending[p]}
  /\ pending' = [pending EXCEPT ![p] = 0]
  /\ UNCHANGED <<seq, connVars>>

-----------------------------------------------------------------------------
(* Faulty variant: the resumption skips an event. *)
ListFromNext(n) == [i \in 1..(IF seq > n + 1 THEN seq - n - 1 ELSE 0) |-> n + 1 + i]

(* ListJobEventsFromSeq: the events after n. *)
ListFrom(n) == [i \in 1..(IF seq > n THEN seq - n ELSE 0) |-> n + i]

(* A new client, or one that resumes after the last event that arrived, which *)
(* may be older than the last one written; the backlog is read.             *)
Connect(n) ==
  /\ conn = "off"
  /\ conn' = "listed" /\ from' = n
  /\ backlog' = ListFrom(n)
  /\ written' = {} /\ missed' = {}
  /\ UNCHANGED <<seq, pending, chan, lastId>>

Subscribe ==
  /\ conn = "listed"
  /\ conn' = "on"
  /\ UNCHANGED <<seq, pending, from, backlog, chan, lastId, written, missed>>

(* writeSSE: the backlog first, then the channel. *)
Write(e) ==
  /\ written' = written \cup {e}
  /\ lastId' = e

WriteBacklog ==
  /\ conn = "on" /\ backlog # <<>>
  /\ Write(Head(backlog)) /\ backlog' = Tail(backlog)
  /\ UNCHANGED <<seq, pending, conn, from, chan, missed>>

WriteEvent ==
  /\ conn = "on" /\ backlog = <<>> /\ chan # <<>>
  /\ Write(Head(chan)) /\ chan' = Tail(chan)
  /\ UNCHANGED <<seq, pending, conn, from, backlog, missed>>

(* The request's context is done: unsubscribe() closes the channel. *)
Disconnect ==
  /\ conn = "on" /\ backlog = <<>>
  /\ conn' = "off" /\ chan' = <<>>
  /\ UNCHANGED <<seq, pending, from, backlog, lastId, written, missed>>

-----------------------------------------------------------------------------
Init ==
  /\ seq = 0 /\ pending = [p \in Publishers |-> 0]
  /\ conn = "off" /\ from = 0 /\ backlog = <<>> /\ chan = <<>>
  /\ lastId = 0 /\ written = {} /\ missed = {}

Next ==
  \/ \E p \in Publishers : AppendEvent(p) \/ Publish(p)
  \/ \E n \in 0..lastId : Connect(n)
  \/ Subscribe \/ WriteBacklog \/ WriteEvent \/ Disconnect

Spec == Init /\ [][Next]_vars

-----------------------------------------------------------------------------
Elements(s) == {s[i] : i \in DOMAIN s}

(* On an open connection no event after the one resumed from disappears       *)
(* unaccounted for: it has been written, it is in the backlog or the channel, *)
(* its publisher still has it, or it fell into one of the two known holes:    *)
(* published between the backlog and the subscription, or the channel full. *)
EveryEventAccounted ==
  conn # "off" => \A e \in (from + 1)..seq :
    \/ e \in written \cup Elements(backlog) \cup Elements(chan) \cup missed
    \/ \E p \in Publishers : pending[p] = e

(* A client that resumes after the last event it received skips none: what    *)
(* precedes that event on this connection has been written or is on its way. *)
(* The code does not keep this: an event that falls into one of the holes is *)
(* skipped for good once a later one is written.                           *)
ResumeSkipsNothing ==
  conn # "off" => \A e \in (from + 1)..lastId :
    \/ e \in written \cup Elements(backlog) \cup Elements(chan)
    \/ \E p \in Publishers : pending[p] = e
==============================================================================
