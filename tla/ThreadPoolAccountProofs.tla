----------------------- MODULE ThreadPoolAccountProofs -----------------------
(***************************************************************************)
(* Theorems about the books ThreadPoolScheduler keeps: the ends it tells   *)
(* the callback, the cancellations it tells the stages, and the resources  *)
(* it counts as in use.                                                    *)
(***************************************************************************)
EXTENDS ThreadPoolSchedulerProofs, SequenceTheorems, WellFoundedInduction

(* A batch of events of one task tells its end last, if it tells it at all. *)
EndsLast(s) == \A i \in DOMAIN s : IsTerminal(s[i]) => i = Len(s)
TellsEnd(s) == s # <<>> /\ IsTerminal(s[Len(s)])
Tellers(t)  == {x \in Threads : TellsEnd(outbox[x][t])}

(* The end of a task has been told, or exactly one thread is about to. *)
ToldOnce(t) ==
  IF IsTerminal(state[t])
  THEN (ended[t] = 1 /\ Tellers(t) = {}) \/ (ended[t] = 0 /\ \E x \in Threads : Tellers(t) = {x})
  ELSE ended[t] = 0 /\ Tellers(t) = {}

BatchesOK ==
  /\ \A x \in Threads, t \in Tasks : EndsLast(outbox[x][t])
  /\ \A t \in Tasks : ToldOnce(t)

(* While pause() waits, its caller has nothing to dispatch. *)
WaitersSilent == \A k \in Clients : cpc[k] \in {"pauseWait", "pauseCancel"} => outbox[k] = NoEvents

AnnounceInv == BatchesOK /\ WaitersSilent

LEMMA SmallBatches ==
  /\ EndsLast(<<>>) /\ ~TellsEnd(<<>>)
  /\ \A x : EndsLast(<<x>>) /\ (TellsEnd(<<x>>) <=> IsTerminal(x))
  /\ EndsLast(<<"Running", "Paused">>) /\ ~TellsEnd(<<"Running", "Paused">>)
BY DEF EndsLast, TellsEnd, IsTerminal

(* The head of a batch is an end only if it is the whole batch. *)
LEMMA DropFirst ==
  ASSUME NEW q \in Seq(TaskStates), q # <<>>, EndsLast(q)
  PROVE  /\ EndsLast(Tail(q))
         /\ IsTerminal(Head(q)) => TellsEnd(q) /\ ~TellsEnd(Tail(q))
         /\ ~IsTerminal(Head(q)) => (TellsEnd(q) <=> TellsEnd(Tail(q)))
<1>1. /\ Len(q) \in Nat \ {0} /\ DOMAIN q = 1..Len(q)
      /\ Head(q) = q[1] /\ Tail(q) \in Seq(TaskStates) /\ Len(Tail(q)) = Len(q) - 1
      /\ \A i \in 1..(Len(q) - 1) : Tail(q)[i] = q[i + 1]
  BY EmptySeq, LenProperties, HeadTailProperties
<1>2. DOMAIN Tail(q) = 1..(Len(q) - 1)
  BY <1>1, LenProperties
<1>3. EndsLast(Tail(q))
  BY <1>1, <1>2 DEF EndsLast
<1>4. CASE Len(q) = 1
  <2>1. Tail(q) = <<>>
    <3>1. Len(Tail(q)) = 0
      BY <1>1, <1>4
    <3>2. Tail(q) # <<>> => Len(Tail(q)) \in Nat \ {0}
      BY <1>1, EmptySeq
    <3>3. QED
      BY <3>1, <3>2
  <2>2. QED
    BY <1>1, <1>3, <1>4, <2>1 DEF TellsEnd
<1>5. CASE Len(q) > 1
  <2>1. Len(Tail(q)) \in Nat \ {0} /\ Tail(q)[Len(Tail(q))] = q[Len(q)]
    BY <1>1, <1>5
  <2>2. Tail(q) # <<>>
    BY <2>1, EmptySeq
  <2>3. ~IsTerminal(Head(q))
    BY <1>1, <1>5 DEF EndsLast
  <2>4. QED
    BY <1>3, <2>1, <2>2, <2>3 DEF TellsEnd
<1>6. QED
  BY <1>1, <1>4, <1>5

(* A critical section that emits exactly one end for each task it ends, from *)
(* a thread that had nothing left to dispatch, keeps the books.            *)
LEMMA EmitKeepsBatches ==
  ASSUME TypeOK, BatchesOK, NEW x \in Threads, NEW ev \in [Tasks -> Seq(TaskStates)],
         outbox[x] = NoEvents, Emit(x, ev), UNCHANGED ended, EndKept,
         \A t \in Tasks : EndsLast(ev[t]),
         \A t \in Tasks : TellsEnd(ev[t]) <=> IsTerminal(state'[t]) /\ ~IsTerminal(state[t])
  PROVE  BatchesOK'
<1>1. \A y \in Threads : outbox'[y] = IF y = x THEN ev ELSE outbox[y]
  BY DEF Emit, TypeOK
<1>2. \A y \in Threads, t \in Tasks : EndsLast(outbox'[y][t])
  BY <1>1 DEF BatchesOK
<1>3. ASSUME NEW t \in Tasks PROVE ToldOnce(t)'
  <2>1. x \notin Tellers(t)
    BY SmallBatches DEF Tellers, NoEvents
  <2>2. Tellers(t)' = IF TellsEnd(ev[t]) THEN Tellers(t) \cup {x} ELSE Tellers(t)
    BY <1>1, <2>1 DEF Tellers
  <2>3. ToldOnce(t) /\ (IsTerminal(state[t]) => IsTerminal(state'[t]))
    BY DEF BatchesOK, EndKept
  <2>4. QED
    BY <2>2, <2>3 DEF ToldOnce
<1>4. QED
  BY <1>2, <1>3 DEF BatchesOK, EndsLast

(* A critical section that emits nothing and ends nothing. *)
LEMMA SilentKeepsBatches ==
  ASSUME BatchesOK, UNCHANGED <<outbox, ended>>,
         \A t \in Tasks : IsTerminal(state'[t]) <=> IsTerminal(state[t])
  PROVE  BatchesOK'
<1>1. \A t \in Tasks : Tellers(t)' = Tellers(t)
  BY DEF Tellers
<1>2. \A t \in Tasks : ToldOnce(t)'
  BY <1>1 DEF BatchesOK, ToldOnce
<1>3. QED
  BY <1>2 DEF BatchesOK, EndsLast

(* dispatch_events hands over one event: an end moves from its batch to what *)
(* was told.                                                               *)
LEMMA DeliverKeepsBatches ==
  ASSUME TypeOK, BatchesOK, NEW x \in Threads, NEW t \in Tasks, Deliver(x, t)
  PROVE  BatchesOK'
<1> DEFINE q == outbox[x][t]
<1>1. q \in Seq(TaskStates) /\ q # <<>> /\ EndsLast(q)
  BY DEF TypeOK, Deliver, BatchesOK
<1>3. EndsLast(Tail(q))
  BY <1>1, DropFirst
<1>4. IsTerminal(Head(q)) => TellsEnd(q) /\ ~TellsEnd(Tail(q))
  BY <1>1, DropFirst
<1>5. ~IsTerminal(Head(q)) => (TellsEnd(q) <=> TellsEnd(Tail(q)))
  BY <1>1, DropFirst
<1>6. /\ \A y \in Threads, u \in Tasks : outbox'[y][u] = IF y = x /\ u = t THEN Tail(q) ELSE outbox[y][u]
      /\ \A u \in Tasks : ended'[u] = IF u = t /\ IsTerminal(Head(q)) THEN ended[u] + 1 ELSE ended[u]
      /\ UNCHANGED state
  <2>1. /\ outbox' = [outbox EXCEPT ![x][t] = Tail(@)]
        /\ ended' = [ended EXCEPT ![t] = IF IsTerminal(Head(q)) THEN @ + 1 ELSE @]
    BY DEF Deliver
  <2>2. UNCHANGED state
    BY DEF Deliver, nodeVars
  <2>3. QED
    BY <2>1, <2>2 DEF TypeOK
<1> HIDE DEF q
<1>7. \A y \in Threads, u \in Tasks : EndsLast(outbox'[y][u])
  BY <1>3, <1>6 DEF BatchesOK
<1>8. ASSUME NEW u \in Tasks, u # t PROVE ToldOnce(u)'
  <2>1. Tellers(u)' = Tellers(u)
    BY <1>6, <1>8 DEF Tellers
  <2>2. QED
    BY <1>6, <1>8, <2>1 DEF BatchesOK, ToldOnce
<1>9. ToldOnce(t)'
  <2>1. ToldOnce(t) /\ ended[t] \in Nat
    BY DEF BatchesOK, TypeOK
  <2>2. CASE IsTerminal(Head(q))
    <3>1. x \in Tellers(t) /\ Tellers(t)' = Tellers(t) \ {x}
      BY <1>4, <1>6, <2>2 DEF Tellers, q
    <3>2. IsTerminal(state[t]) /\ ended[t] = 0 /\ Tellers(t) = {x}
      BY <2>1, <3>1 DEF ToldOnce
    <3>3. Tellers(t)' = {} /\ ended'[t] = 1
      BY <1>6, <2>2, <3>1, <3>2
    <3>4. QED
      BY <1>6, <3>2, <3>3 DEF ToldOnce
  <2>3. CASE ~IsTerminal(Head(q))
    <3>1. Tellers(t)' = Tellers(t)
      BY <1>5, <1>6, <2>3 DEF Tellers, q
    <3>2. QED
      BY <1>6, <2>1, <2>3, <3>1 DEF ToldOnce
  <2>4. QED
    BY <2>2, <2>3
<1>10. QED
  BY <1>7, <1>8, <1>9 DEF BatchesOK, EndsLast

(* The common shape: the tasks in S move to s, and an event says so. *)
LEMMA MoveKeepsBatches ==
  ASSUME TypeOK, BatchesOK, NEW x \in Threads, outbox[x] = NoEvents,
         NEW S \in SUBSET Tasks, NEW s \in TaskStates, \A t \in S : ~IsTerminal(state[t]),
         MoveTo(With(S, s)), Emit(x, Event(S, s)), UNCHANGED ended
  PROVE  BatchesOK'
<1>1. EndKept
  BY WithKeepsEnds
<1>2. Event(S, s) \in [Tasks -> Seq(TaskStates)]
  BY WithType
<1>3. ASSUME NEW t \in Tasks
      PROVE  /\ EndsLast(Event(S, s)[t])
             /\ TellsEnd(Event(S, s)[t]) <=> IsTerminal(state'[t]) /\ ~IsTerminal(state[t])
  <2>1. CASE t \in S
    <3>1. Event(S, s)[t] = <<s>> /\ state'[t] = s /\ ~IsTerminal(state[t])
      BY <2>1 DEF Event, MoveTo, With
    <3>2. QED
      BY <3>1, SmallBatches
  <2>2. CASE t \notin S
    <3>1. Event(S, s)[t] = <<>> /\ state'[t] = state[t]
      BY <2>2 DEF Event, MoveTo, With
    <3>2. QED
      BY <3>1, SmallBatches
  <2>3. QED
    BY <2>1, <2>2
<1>4. QED
  BY <1>1, <1>2, <1>3, EmitKeepsBatches

(* A critical section that ends nothing and tells no end. *)
LEMMA ReportKeepsBatches ==
  ASSUME TypeOK, BatchesOK, NEW x \in Threads, outbox[x] = NoEvents,
         NEW ev \in [Tasks -> Seq(TaskStates)], Emit(x, ev), UNCHANGED ended,
         \A t \in Tasks : ev[t] \in {<<>>, <<"Running">>, <<"Running", "Paused">>},
         \A t \in Tasks : state'[t] = state[t] \/ (~IsTerminal(state[t]) /\ ~IsTerminal(state'[t]))
  PROVE  BatchesOK'
<1>1. EndKept
  BY DEF EndKept
<1>2. \A t \in Tasks : EndsLast(ev[t]) /\ ~TellsEnd(ev[t])
  BY SmallBatches DEF IsTerminal
<1>3. QED
  BY <1>1, <1>2, EmitKeepsBatches

LEMMA CancelKeepsBatches ==
  ASSUME TypeOK, BatchesOK, NEW x \in Threads, outbox[x] = NoEvents, NEW t \in Tasks,
         CancelLocked(x, t), UNCHANGED ended
  PROVE  BatchesOK'
<1>1. CancelHits(t) \in SUBSET Tasks /\ \A u \in CancelHits(t) : ~IsTerminal(state[u])
  BY DEF CancelHits, Downstream, Descendants, Submitted
<1>2. "Canceled" \in TaskStates
  BY DEF TaskStates
<1>3. QED
  BY <1>1, <1>2, MoveKeepsBatches DEF CancelLocked

LEMMA ClientKeepsBatches ==
  ASSUME TypeOK, SetsAgree, AnnounceInv, NEW k \in Clients, ClientStep(k)
  PROVE  BatchesOK'
<1> USE DEF seenVars
<1>0. k \in Threads /\ BatchesOK
  BY DEF Threads, AnnounceInv
<1>1. ASSUME NEW t \in Tasks, NEW ds \in DepLists[t], SubmitAccept(k, t, ds) PROVE BatchesOK'
  <2>1. outbox[k] = NoEvents /\ state[t] = "None" /\ UNCHANGED ended
    BY <1>1 DEF SubmitAccept, Submittable, ClientFree
  <2>2. CASE Waiting(ds) = {}
    <3>1. MoveTo(With({t}, "Ready")) /\ Emit(k, Event({t}, "Ready"))
      BY <1>1, <2>2 DEF SubmitAccept
    <3>2. "Ready" \in TaskStates /\ \A u \in {t} : ~IsTerminal(state[u])
      BY <2>1 DEF TaskStates, IsTerminal
    <3>3. QED
      BY <1>0, <2>1, <3>1, <3>2, MoveKeepsBatches
  <2>3. CASE Waiting(ds) # {}
    <3>1. MoveTo(With({t}, "Queued")) /\ Emit(k, NoEvents)
      BY <1>1, <2>3 DEF SubmitAccept
    <3>2. \A u \in Tasks : state'[u] = state[u] \/ (~IsTerminal(state[u]) /\ ~IsTerminal(state'[u]))
      BY <2>1, <3>1 DEF MoveTo, With, IsTerminal
    <3>3. NoEvents \in [Tasks -> Seq(TaskStates)] /\ \A u \in Tasks : NoEvents[u] = <<>>
      BY DEF NoEvents
    <3>4. QED
      BY <1>0, <2>1, <3>1, <3>2, <3>3, ReportKeepsBatches
  <2>4. QED
    BY <2>2, <2>3
<1>2. ASSUME NEW t \in Tasks, NEW ds \in DepLists[t], SubmitBlocked(k, t, ds) PROVE BatchesOK'
  <2>1. outbox[k] = NoEvents /\ state[t] = "None" /\ UNCHANGED ended
        /\ MoveTo(With({t}, "Canceled")) /\ Emit(k, Event({t}, "Canceled"))
    BY <1>2 DEF SubmitBlocked, Submittable, ClientFree
  <2>2. "Canceled" \in TaskStates /\ \A u \in {t} : ~IsTerminal(state[u])
    BY <2>1 DEF TaskStates, IsTerminal
  <2>3. QED
    BY <1>0, <2>1, <2>2, MoveKeepsBatches
<1>3. ASSUME NEW t \in Tasks, NEW ds \in DepLists[t], SubmitReject(k, t, ds) PROVE BatchesOK'
  BY <1>0, <1>3, SilentKeepsBatches DEF SubmitReject, nodeVars
<1>4. ASSUME NEW t \in Tasks, Cancel(k, t) \/ PauseCancel(k, t) \/ TickCancel(k, t) PROVE BatchesOK'
  <2>1. outbox[k] = NoEvents
    BY <1>4 DEF Cancel, PauseCancel, TickCancel, ClientFree, AnnounceInv, WaitersSilent
  <2>2. CancelLocked(k, t) /\ UNCHANGED ended
    BY <1>4 DEF Cancel, PauseCancel, TickCancel
  <2>3. QED
    BY <1>0, <2>1, <2>2, CancelKeepsBatches
<1>5. ASSUME NEW t \in Tasks, PauseIdle(k, t) PROVE BatchesOK'
  <2>1. outbox[k] = NoEvents /\ state[t] \in {"Queued", "Ready"} /\ UNCHANGED ended
        /\ MoveTo(With({t}, "Paused")) /\ Emit(k, Event({t}, "Paused"))
    BY <1>5 DEF PauseIdle, ClientFree
  <2>2. "Paused" \in TaskStates /\ \A u \in {t} : ~IsTerminal(state[u])
    BY <2>1 DEF TaskStates, IsTerminal
  <2>3. QED
    BY <1>0, <2>1, <2>2, MoveKeepsBatches
<1>6. ASSUME NEW t \in Tasks, Resume(k, t) PROVE BatchesOK'
  <2>1. pausedFrom[t] \in TaskStates /\ pausedFrom[t] # "None"
    BY <1>6 DEF Resume, SetsAgree, TypeOK, TaskStates
  <2>2. outbox[k] = NoEvents /\ state[t] = "Paused" /\ UNCHANGED ended
        /\ MoveTo(With({t}, pausedFrom[t])) /\ Emit(k, Event({t}, pausedFrom[t]))
    BY <1>6, <2>1 DEF Resume, ClientFree
  <2>3. \A u \in {t} : ~IsTerminal(state[u])
    BY <2>2 DEF IsTerminal
  <2>4. QED
    BY <1>0, <2>1, <2>2, <2>3, MoveKeepsBatches
<1>7. ASSUME NEW t \in Tasks, PauseRunning(k, t) PROVE BatchesOK'
  BY <1>0, <1>7, SilentKeepsBatches DEF PauseRunning, nodeVars
<1>8. CASE PauseReturn(k) \/ PauseExpire(k) \/ TickScan(k)
  BY <1>0, <1>8, SilentKeepsBatches DEF PauseReturn, PauseExpire, TickScan, nodeVars
<1>9. QED
  BY <1>1, <1>2, <1>3, <1>4, <1>5, <1>6, <1>7, <1>8 DEF ClientStep

LEMMA FinishKeepsBatches ==
  ASSUME TypeOK, BatchesOK, NEW w \in Workers, NEW t \in Tasks, Finish(w, t), EndKept
  PROVE  BatchesOK'
<1> USE DEF seenVars
<1>0. w \in Threads
  BY DEF Threads
<1>1. CASE FinishOk(w, t)
  <2> DEFINE ev == [u \in Tasks |-> IF u = t THEN <<"Succeeded">> ELSE IF u \in Woken(t) THEN <<"Ready">> ELSE <<>>]
  <2>1. outbox[w] = NoEvents /\ Emit(w, ev) /\ UNCHANGED ended
    BY <1>1 DEF FinishOk, EndExecution, Executing, WorkerFree
  <2>2. /\ ~IsTerminal(state[t]) /\ state'[t] = "Succeeded"
        /\ \A u \in Tasks \ {t} : IsTerminal(state'[u]) <=> IsTerminal(state[u])
    BY <1>1 DEF FinishOk, MoveTo, Legal, Successors, IsTerminal, Woken
  <2>3. ev \in [Tasks -> Seq(TaskStates)]
    <3>1. <<"Succeeded">> \in Seq(TaskStates) /\ <<"Ready">> \in Seq(TaskStates)
      BY DEF TaskStates
    <3>2. QED
      BY <3>1
  <2>4. \A u \in Tasks : EndsLast(ev[u]) /\ (TellsEnd(ev[u]) <=> u = t)
    BY SmallBatches DEF IsTerminal
  <2> HIDE DEF ev
  <2>5. IsTerminal(state'[t])
    BY <2>2 DEF IsTerminal
  <2>6. QED
    BY <1>0, <2>1, <2>2, <2>3, <2>4, <2>5, EmitKeepsBatches
<1>2. ASSUME NEW s \in {"Failed", "Canceled"}, FinishWith(w, t, s) PROVE BatchesOK'
  <2> DEFINE ends == EndsAs(t, s)
             down == Downstream(t)
             ev == [u \in Tasks |-> IF u \in ends THEN <<s>> ELSE IF u \in down THEN <<"Canceled">> ELSE <<>>]
  <2>1. outbox[w] = NoEvents /\ Emit(w, ev) /\ UNCHANGED ended
        /\ \A u \in Tasks : state'[u] = IF u \in ends THEN s ELSE IF u \in down THEN "Canceled" ELSE state[u]
    BY <1>2 DEF FinishWith, EndExecution, Executing, WorkerFree, MoveTo
  <2>2. \A u \in Tasks : u \in ends \cup down => ~IsTerminal(state[u])
    BY DEF EndsAs, Downstream, Legal, Successors, IsTerminal
  <2>3. ev \in [Tasks -> Seq(TaskStates)]
    <3>1. <<s>> \in Seq(TaskStates) /\ <<"Canceled">> \in Seq(TaskStates)
      BY DEF TaskStates
    <3>2. QED
      BY <3>1
  <2>4. \A u \in Tasks : EndsLast(ev[u]) /\ (TellsEnd(ev[u]) <=> u \in ends \cup down)
    BY SmallBatches DEF IsTerminal
  <2> HIDE DEF ev, ends, down
  <2>5. \A u \in Tasks : u \in ends \cup down <=> IsTerminal(state'[u]) /\ ~IsTerminal(state[u])
    BY <2>1, <2>2 DEF IsTerminal
  <2>6. QED
    BY <1>0, <2>1, <2>3, <2>4, <2>5, EmitKeepsBatches
<1>3. QED
  BY <1>1, <1>2 DEF Finish, FinishLate, FinishErr

LEMMA WorkerKeepsBatches ==
  ASSUME TypeOK, BatchesOK, NEW w \in Workers, WorkerStep(w), EndKept
  PROVE  BatchesOK'
<1> USE DEF seenVars
<1>0. w \in Threads
  BY DEF Threads
<1>1. ASSUME NEW t \in Tasks, Dispatch(w, t) PROVE BatchesOK'
  <2>1. outbox[w] = NoEvents /\ state[t] = "Ready" /\ UNCHANGED ended
        /\ MoveTo(With({t}, "Running")) /\ Emit(w, Event({t}, "Running"))
    BY <1>1, PickedIsReady DEF Dispatch, WorkerFree
  <2>2. "Running" \in TaskStates /\ \A u \in {t} : ~IsTerminal(state[u])
    BY <2>1 DEF TaskStates, IsTerminal
  <2>3. QED
    BY <1>0, <2>1, <2>2, MoveKeepsBatches
<1>2. ASSUME NEW t, Emit(w, Event({t}, "Running")), outbox[w] = NoEvents, UNCHANGED <<state, ended>> PROVE BatchesOK'
  <2>1. Event({t}, "Running") \in [Tasks -> Seq(TaskStates)]
    BY WithType DEF TaskStates
  <2>2. \A u \in Tasks : Event({t}, "Running")[u] \in {<<>>, <<"Running">>, <<"Running", "Paused">>}
    BY DEF Event
  <2>3. QED
    BY <1>0, <1>2, <2>1, <2>2, ReportKeepsBatches
<1>3. ASSUME NEW t \in Tasks, Progress(w, t) PROVE BatchesOK'
  BY <1>2, <1>3 DEF Progress, Executing, WorkerFree, nodeVars
<1>4. CASE Unpark(w)
  <2>1. outbox[w] = NoEvents /\ UNCHANGED <<state, ended>>
    BY <1>4 DEF Unpark, WorkerFree, nodeVars
  <2>2. CASE state[wtask[w]] = "Running"
    BY <1>2, <1>4, <2>1, <2>2 DEF Unpark
  <2>3. CASE state[wtask[w]] # "Running"
    <3>1. Emit(w, NoEvents)
      BY <1>4, <2>3 DEF Unpark
    <3>2. NoEvents \in [Tasks -> Seq(TaskStates)] /\ \A u \in Tasks : NoEvents[u] = <<>>
      BY DEF NoEvents
    <3>3. QED
      BY <1>0, <2>1, <3>1, <3>2, ReportKeepsBatches
  <2>4. QED
    BY <2>2, <2>3
<1>5. ASSUME NEW t \in Tasks, Checkpoint(w, t) PROVE BatchesOK'
  <2> DEFINE ev == [NoEvents EXCEPT ![t] = <<"Running", "Paused">>]
  <2>1. outbox[w] = NoEvents /\ Emit(w, ev) /\ UNCHANGED ended /\ state[t] = "Running" /\ MoveTo(With({t}, "Paused"))
    BY <1>5 DEF Checkpoint, Executing, WorkerFree
  <2>2. \A u \in Tasks : state'[u] = state[u] \/ (~IsTerminal(state[u]) /\ ~IsTerminal(state'[u]))
    BY <2>1 DEF MoveTo, With, IsTerminal
  <2>3. ev \in [Tasks -> Seq(TaskStates)] /\ \A u \in Tasks : ev[u] \in {<<>>, <<"Running">>, <<"Running", "Paused">>}
    <3>1. <<"Running", "Paused">> \in Seq(TaskStates)
      BY DEF TaskStates
    <3>2. NoEvents \in [Tasks -> Seq(TaskStates)] /\ \A u \in Tasks : NoEvents[u] = <<>>
      BY DEF NoEvents
    <3>3. \A u \in Tasks : ev[u] = IF u = t THEN <<"Running", "Paused">> ELSE <<>>
      BY <3>2
    <3>4. QED
      BY <3>1, <3>2, <3>3
  <2> HIDE DEF ev
  <2>4. QED
    BY <1>0, <2>1, <2>2, <2>3, ReportKeepsBatches
<1>6. CASE Exit(w)
  BY <1>6, SilentKeepsBatches DEF Exit, nodeVars
<1>7. QED
  BY <1>1, <1>3, <1>4, <1>5, <1>6, FinishKeepsBatches DEF WorkerStep

(* pause() of a Running task leaves its caller with nothing to dispatch, and  *)
(* the caller does nothing else until the wait is over.                    *)
LEMMA StepKeepsSilence ==
  ASSUME TypeOK, WaitersSilent, [Next]_vars
  PROVE  WaitersSilent'
<1> USE DEF clientVars
<1>1. ASSUME NEW k \in Clients, ClientStep(k) PROVE WaitersSilent'
  <2> SUFFICES ASSUME NEW i \in Clients, cpc'[i] \in {"pauseWait", "pauseCancel"} PROVE outbox'[i] = NoEvents
    BY DEF WaitersSilent, NoEvents
  <2>1. k \in Threads /\ i \in Threads
    BY DEF Threads
  <2>2. ASSUME NEW ev, Emit(k, ev), cpc'[k] \notin {"pauseWait", "pauseCancel"},
               \A j \in Clients \ {k} : cpc'[j] = cpc[j]
        PROVE  outbox'[i] = NoEvents
    BY <2>1, <2>2 DEF Emit, TypeOK, WaitersSilent
  <2>3. ASSUME NEW t \in Tasks, NEW ds \in DepLists[t], SubmitAccept(k, t, ds) \/ SubmitBlocked(k, t, ds)
        PROVE  outbox'[i] = NoEvents
    BY <2>2, <2>3 DEF SubmitAccept, SubmitBlocked, Submittable, ClientFree
  <2>4. ASSUME NEW t \in Tasks, Cancel(k, t) \/ PauseIdle(k, t) \/ Resume(k, t)
        PROVE  outbox'[i] = NoEvents
    BY <2>2, <2>4 DEF Cancel, PauseIdle, Resume, CancelLocked, ClientFree
  <2>5. ASSUME NEW t \in Tasks, PauseCancel(k, t) \/ TickCancel(k, t)
        PROVE  outbox'[i] = NoEvents
    <3>1. cpc'[k] \in {"idle", "ticking"} /\ \A j \in Clients \ {k} : cpc'[j] = cpc[j]
      BY <2>5 DEF PauseCancel, TickCancel, TypeOK
    <3>2. \E ev : Emit(k, ev)
      BY <2>5 DEF PauseCancel, TickCancel, CancelLocked
    <3>3. QED
      BY <2>2, <3>1, <3>2
  <2>6. ASSUME NEW t \in Tasks, PauseRunning(k, t) PROVE outbox'[i] = NoEvents
    BY <2>6 DEF PauseRunning, ClientFree, WaitersSilent, TypeOK
  <2>7. ASSUME NEW t \in Tasks, NEW ds \in DepLists[t], SubmitReject(k, t, ds) PROVE outbox'[i] = NoEvents
    BY <2>7 DEF SubmitReject, WaitersSilent
  <2>8. CASE PauseReturn(k) \/ PauseExpire(k) \/ TickScan(k)
    BY <2>8 DEF PauseReturn, PauseExpire, TickScan, WaitersSilent, TypeOK
  <2>9. QED
    BY <1>1, <2>3, <2>4, <2>5, <2>6, <2>7, <2>8 DEF ClientStep
<1>2. ASSUME NEW w \in Workers, WorkerStep(w) PROVE WaitersSilent'
  <2>1. UNCHANGED cpc /\ (UNCHANGED outbox \/ \E ev : Emit(w, ev))
    BY <1>2 DEF WorkerStep, Dispatch, Progress, Checkpoint, Finish, FinishOk, FinishLate, FinishErr, FinishWith, Unpark, Exit
  <2>2. \A k \in Clients : outbox'[k] = outbox[k]
    <3>1. w \in Threads /\ \A k \in Clients : k \in Threads /\ k # w
      BY ThreadsAssumption DEF Threads
    <3>2. QED
      BY <2>1, <3>1 DEF Emit, TypeOK
  <2>3. QED
    BY <2>1, <2>2 DEF WaitersSilent, NoEvents
<1>3. ASSUME NEW x \in Threads, NEW t \in Tasks, Deliver(x, t) PROVE WaitersSilent'
  <2>1. outbox[x] # NoEvents /\ UNCHANGED cpc /\ outbox' = [outbox EXCEPT ![x][t] = Tail(@)]
    BY <1>3 DEF Deliver, NoEvents
  <2>2. \A k \in Clients : k # x => outbox'[k] = outbox[k]
    BY <2>1 DEF TypeOK, Threads
  <2>3. QED
    BY <2>1, <2>2 DEF WaitersSilent, NoEvents
<1>4. CASE Stop \/ ClockTick \/ UNCHANGED vars
  BY <1>4 DEF Stop, ClockTick, vars, WaitersSilent, NoEvents
<1>5. QED
  BY <1>1, <1>2, <1>3, <1>4 DEF Next

(* The books behind that count, as an invariant of the steps. *)
LEMMA BooksAlwaysKept == Spec => []AnnounceInv
<1>1. Init => AnnounceInv
  <2> SUFFICES ASSUME Init PROVE AnnounceInv
    OBVIOUS
  <2>1. \A x \in Threads, t \in Tasks : outbox[x][t] = <<>>
    BY DEF Init, NoEvents
  <2>2. \A t \in Tasks : Tellers(t) = {}
    BY <2>1, SmallBatches DEF Tellers
  <2>3. \A t \in Tasks : ToldOnce(t)
    BY <2>2 DEF Init, ToldOnce, IsTerminal
  <2>4. WaitersSilent
    BY DEF Init, WaitersSilent
  <2>5. QED
    BY <2>1, <2>3, <2>4, SmallBatches DEF AnnounceInv, BatchesOK
<1>2. TypeOK /\ SetsAgree /\ AnnounceInv /\ [Next]_vars => AnnounceInv'
  <2> SUFFICES ASSUME TypeOK, SetsAgree, AnnounceInv, [Next]_vars PROVE AnnounceInv'
    OBVIOUS
  <2>1. EndKept /\ BatchesOK
    BY StepKeepsEnds DEF AnnounceInv
  <2>2. ASSUME Stop \/ ClockTick \/ UNCHANGED vars PROVE BatchesOK'
    <3>1. UNCHANGED <<outbox, ended, state>>
      BY <2>2 DEF Stop, ClockTick, vars, nodeVars, seenVars
    <3>2. QED
      BY <2>1, <3>1, SilentKeepsBatches
  <2>3. BatchesOK'
    BY <2>1, <2>2, ClientKeepsBatches, WorkerKeepsBatches, DeliverKeepsBatches DEF Next, AnnounceInv
  <2>4. WaitersSilent'
    BY StepKeepsSilence DEF AnnounceInv
  <2>5. QED
    BY <2>3, <2>4 DEF AnnounceInv
<1>3. QED
  BY <1>1, <1>2, TypeCorrect, SetsAlwaysAgree, PTL DEF Spec

(* The callback hears of the end of every task exactly once, although         *)
(* cancel(), its propagation, the expiry of a pause and finalize_execution    *)
(* race to announce it.                                                    *)
THEOREM EndAlwaysAnnouncedOnce == Spec => []EndAnnouncedOnce
<1>1. AnnounceInv => EndAnnouncedOnce
  <2> SUFFICES ASSUME AnnounceInv, NEW t \in Tasks
               PROVE  ended[t] + Cardinality(Tellers(t)) = IF IsTerminal(state[t]) THEN 1 ELSE 0
    BY DEF EndAnnouncedOnce, Tellers, TellsEnd
  <2>1. ToldOnce(t)
    BY DEF AnnounceInv, BatchesOK
  <2>2. Cardinality({}) = 0 /\ \A x : Cardinality({x}) = 1
    BY FS_EmptySet, FS_Singleton
  <2>3. CASE Tellers(t) = {}
    BY <2>1, <2>2, <2>3 DEF ToldOnce
  <2>4. CASE \E x \in Threads : Tellers(t) = {x}
    <3>1. Cardinality(Tellers(t)) = 1 /\ Tellers(t) # {}
      BY <2>2, <2>4
    <3>2. QED
      BY <2>1, <3>1 DEF ToldOnce
  <2>5. QED
    BY <2>1, <2>3, <2>4 DEF ToldOnce
<1>2. QED
  BY <1>1, BooksAlwaysKept, PTL

-----------------------------------------------------------------------------
(* An end in a batch is the state its task has now: it was queued in the     *)
(* critical section that ended the task, and ends are final.               *)
Truthful(q, s) == \A i \in DOMAIN q : IsTerminal(q[i]) => q[i] = s
EndsAreTrue == \A x \in Threads, t \in Tasks : Truthful(outbox[x][t], state[t])

LEMMA SmallTruths ==
  ASSUME NEW s
  PROVE  /\ Truthful(<<>>, s) /\ Truthful(<<s>>, s)
         /\ Truthful(<<"Running", "Paused">>, s)
         /\ \A e : ~IsTerminal(e) => Truthful(<<e>>, s)
BY DEF Truthful, IsTerminal

LEMMA EmitIsTrue ==
  ASSUME TypeOK, EndsAreTrue, EndKept, NEW x \in Threads, NEW ev, Emit(x, ev),
         \A t \in Tasks : Truthful(ev[t], state'[t])
  PROVE  EndsAreTrue'
<1>1. \A y \in Threads : outbox'[y] = IF y = x THEN ev ELSE outbox[y]
  BY DEF Emit, TypeOK
<1>2. ASSUME NEW y \in Threads \ {x}, NEW t \in Tasks PROVE Truthful(outbox[y][t], state'[t])
  BY DEF EndsAreTrue, Truthful, EndKept
<1>3. \A y \in Threads, t \in Tasks : Truthful(outbox'[y][t], state'[t])
  BY <1>1, <1>2
<1>4. QED
  BY <1>3 DEF EndsAreTrue, Truthful

(* Tasks move to s, and the event says s. *)
LEMMA MoveIsTrue ==
  ASSUME TypeOK, EndsAreTrue, EndKept, NEW x \in Threads, NEW S, NEW s,
         MoveTo(With(S, s)), Emit(x, Event(S, s))
  PROVE  EndsAreTrue'
<1>1. ASSUME NEW t \in Tasks PROVE Truthful(Event(S, s)[t], state'[t])
  <2>1. Event(S, s)[t] = <<>> \/ (Event(S, s)[t] = <<s>> /\ state'[t] = s)
    BY DEF Event, MoveTo, With
  <2>2. QED
    BY <2>1, SmallTruths
<1>2. QED
  BY <1>1, EmitIsTrue

(* Whatever is reported without an end is true of any state. *)
LEMMA ReportIsTrue ==
  ASSUME TypeOK, EndsAreTrue, EndKept, NEW x \in Threads, NEW ev, Emit(x, ev),
         \A t \in Tasks : ev[t] \in {<<>>, <<"Running">>, <<"Running", "Paused">>}
  PROVE  EndsAreTrue'
<1>1. \A t \in Tasks : Truthful(ev[t], state'[t])
  BY SmallTruths DEF IsTerminal
<1>2. QED
  BY <1>1, EmitIsTrue

LEMMA FinishIsTrue ==
  ASSUME TypeOK, EndsAreTrue, EndKept, NEW w \in Workers, NEW t \in Tasks, Finish(w, t)
  PROVE  EndsAreTrue'
<1>0. w \in Threads
  BY DEF Threads
<1>1. CASE FinishOk(w, t)
  <2> DEFINE ev == [u \in Tasks |-> IF u = t THEN <<"Succeeded">> ELSE IF u \in Woken(t) THEN <<"Ready">> ELSE <<>>]
  <2>1. Emit(w, ev) /\ state'[t] = "Succeeded"
    BY <1>1 DEF FinishOk, MoveTo
  <2>2. \A u \in Tasks : ev[u] \in {<<>>, <<"Ready">>} \/ (ev[u] = <<"Succeeded">> /\ u = t)
    OBVIOUS
  <2>3. \A u \in Tasks : Truthful(ev[u], state'[u])
    BY <2>1, <2>2, SmallTruths DEF IsTerminal
  <2>4. QED
    BY <1>0, <2>1, <2>3, EmitIsTrue
<1>2. ASSUME NEW s \in {"Failed", "Canceled"}, FinishWith(w, t, s) PROVE EndsAreTrue'
  <2> DEFINE ends == EndsAs(t, s)
             down == Downstream(t)
             ev == [u \in Tasks |-> IF u \in ends THEN <<s>> ELSE IF u \in down THEN <<"Canceled">> ELSE <<>>]
  <2>1. Emit(w, ev) /\ \A u \in Tasks : state'[u] = IF u \in ends THEN s ELSE IF u \in down THEN "Canceled" ELSE state[u]
    BY <1>2 DEF FinishWith, MoveTo
  <2>2. \A u \in Tasks : ev[u] = <<>> \/ ev[u] = <<state'[u]>>
    BY <2>1
  <2>3. \A u \in Tasks : Truthful(ev[u], state'[u])
    BY <2>2, SmallTruths
  <2>4. QED
    BY <1>0, <2>1, <2>3, EmitIsTrue
<1>3. QED
  BY <1>1, <1>2 DEF Finish, FinishLate, FinishErr

LEMMA StepIsTrue ==
  ASSUME TypeOK, SetsAgree, EndsAreTrue, [Next]_vars
  PROVE  EndsAreTrue'
<1> USE DEF nodeVars, graphVars, pauseVars, runVars, workerVars, clientVars, seenVars
<1>0. EndKept
  BY StepKeepsEnds
<1>1. ASSUME NEW x \in Threads, NEW t \in Tasks, CancelLocked(x, t) PROVE EndsAreTrue'
  BY <1>0, <1>1, MoveIsTrue DEF CancelLocked
<1>2. ASSUME UNCHANGED <<outbox, state>> PROVE EndsAreTrue'
  BY <1>2 DEF EndsAreTrue, Truthful
<1>3. \A t \in Tasks : NoEvents[t] = <<>>
  BY DEF NoEvents
<1>4. ASSUME NEW k \in Clients, ClientStep(k) PROVE EndsAreTrue'
  <2>0. k \in Threads
    BY DEF Threads
  <2>1. ASSUME NEW t \in Tasks, NEW ds \in DepLists[t], SubmitAccept(k, t, ds) PROVE EndsAreTrue'
    <3>1. CASE Waiting(ds) = {}
      BY <1>0, <2>0, <2>1, <3>1, MoveIsTrue DEF SubmitAccept
    <3>2. CASE Waiting(ds) # {}
      BY <1>0, <1>3, <2>0, <2>1, <3>2, ReportIsTrue DEF SubmitAccept
    <3>3. QED
      BY <3>1, <3>2
  <2>2. ASSUME NEW t \in Tasks, NEW ds \in DepLists[t], SubmitBlocked(k, t, ds) PROVE EndsAreTrue'
    BY <1>0, <2>0, <2>2, MoveIsTrue DEF SubmitBlocked
  <2>3. ASSUME NEW t \in Tasks, Cancel(k, t) \/ PauseCancel(k, t) \/ TickCancel(k, t) PROVE EndsAreTrue'
    BY <1>1, <2>0, <2>3 DEF Cancel, PauseCancel, TickCancel
  <2>4. ASSUME NEW t \in Tasks, PauseIdle(k, t) \/ Resume(k, t) PROVE EndsAreTrue'
    BY <1>0, <2>0, <2>4, MoveIsTrue DEF PauseIdle, Resume
  <2>5. ASSUME NEW t \in Tasks, PauseRunning(k, t) \/ (\E ds \in DepLists[t] : SubmitReject(k, t, ds)) PROVE EndsAreTrue'
    BY <1>2, <2>5 DEF PauseRunning, SubmitReject
  <2>6. CASE PauseReturn(k) \/ PauseExpire(k) \/ TickScan(k)
    BY <1>2, <2>6 DEF PauseReturn, PauseExpire, TickScan
  <2>7. QED
    BY <1>4, <2>1, <2>2, <2>3, <2>4, <2>5, <2>6 DEF ClientStep
<1>5. ASSUME NEW w \in Workers, WorkerStep(w) PROVE EndsAreTrue'
  <2>0. w \in Threads
    BY DEF Threads
  <2>1. ASSUME NEW t \in Tasks, Dispatch(w, t) PROVE EndsAreTrue'
    BY <1>0, <2>0, <2>1, MoveIsTrue DEF Dispatch
  <2>2. ASSUME NEW t, Emit(w, Event({t}, "Running")) PROVE EndsAreTrue'
    <3>1. \A u \in Tasks : Event({t}, "Running")[u] \in {<<>>, <<"Running">>, <<"Running", "Paused">>}
      BY DEF Event
    <3>2. QED
      BY <1>0, <2>0, <2>2, <3>1, ReportIsTrue
  <2>3. ASSUME Emit(w, NoEvents) PROVE EndsAreTrue'
    BY <1>0, <1>3, <2>0, <2>3, ReportIsTrue
  <2>4. ASSUME NEW t \in Tasks, Checkpoint(w, t) PROVE EndsAreTrue'
    <3> DEFINE ev == [NoEvents EXCEPT ![t] = <<"Running", "Paused">>]
    <3>1. \A u \in Tasks : ev[u] \in {<<>>, <<"Running", "Paused">>}
      BY DEF NoEvents
    <3>2. Emit(w, ev)
      BY <2>4 DEF Checkpoint
    <3> HIDE DEF ev
    <3>3. QED
      BY <1>0, <2>0, <3>1, <3>2, ReportIsTrue
  <2>5. ASSUME NEW t \in Tasks, Progress(w, t) PROVE EndsAreTrue'
    BY <2>2, <2>5 DEF Progress
  <2>6. CASE Unpark(w)
    BY <2>2, <2>3, <2>6 DEF Unpark
  <2>7. CASE Exit(w)
    BY <1>2, <2>7 DEF Exit
  <2>8. ASSUME NEW t \in Tasks, Finish(w, t) PROVE EndsAreTrue'
    BY <1>0, <2>8, FinishIsTrue
  <2>9. QED
    BY <1>5, <2>1, <2>4, <2>5, <2>6, <2>7, <2>8 DEF WorkerStep
<1>6. ASSUME NEW x \in Threads, NEW t \in Tasks, Deliver(x, t) PROVE EndsAreTrue'
  <2> DEFINE q == outbox[x][t]
  <2>1. q \in Seq(TaskStates) /\ q # <<>> /\ UNCHANGED state
    BY <1>6 DEF TypeOK, Deliver
  <2>2. \A y \in Threads, u \in Tasks : outbox'[y][u] = IF y = x /\ u = t THEN Tail(q) ELSE outbox[y][u]
    BY <1>6 DEF Deliver, TypeOK
  <2>3. Truthful(Tail(q), state[t])
    <3>1. /\ Len(q) \in Nat \ {0} /\ DOMAIN q = 1..Len(q) /\ DOMAIN Tail(q) = 1..(Len(q) - 1)
          /\ \A i \in 1..(Len(q) - 1) : Tail(q)[i] = q[i + 1]
      BY <2>1, EmptySeq, LenProperties, HeadTailProperties
    <3>2. Truthful(q, state[t])
      BY DEF EndsAreTrue
    <3>3. QED
      BY <3>1, <3>2 DEF Truthful
  <2> HIDE DEF q
  <2>4. \A y \in Threads, u \in Tasks : Truthful(outbox'[y][u], state'[u])
    BY <2>1, <2>2, <2>3 DEF EndsAreTrue
  <2>5. QED
    BY <2>4 DEF EndsAreTrue, Truthful
<1>7. CASE Stop \/ ClockTick \/ UNCHANGED vars
  BY <1>2, <1>7 DEF Stop, ClockTick, vars
<1>8. QED
  BY <1>4, <1>5, <1>6, <1>7 DEF Next

(* What the callback hears of an end is how the task has ended, however late  *)
(* it hears it.                                                            *)
THEOREM EndsAlwaysTrue == Spec => []EndsAreTrue
<1>1. Init => EndsAreTrue
  <2> SUFFICES ASSUME Init PROVE EndsAreTrue
    OBVIOUS
  <2>1. \A x \in Threads, t \in Tasks : outbox[x][t] = <<>>
    BY DEF Init, NoEvents
  <2>2. QED
    BY <2>1, SmallTruths DEF EndsAreTrue
<1>2. TypeOK /\ SetsAgree /\ EndsAreTrue /\ [Next]_vars => EndsAreTrue'
  BY StepIsTrue
<1>3. QED
  BY <1>1, <1>2, TypeCorrect, SetsAlwaysAgree, PTL DEF Spec

-----------------------------------------------------------------------------
(* Whoever cancels a task a worker is executing cancels its token in the same *)
(* critical section: a stage that runs on for a Canceled task can find out. *)
THEOREM CanceledStageAlwaysTold == Spec => []CanceledStageIsTold
<1> USE DEF nodeVars, graphVars, pauseVars, runVars, workerVars, clientVars, seenVars
<1>1. Init => CanceledStageIsTold
  BY DEF Init, CanceledStageIsTold
<1>2. TypeOK /\ SetsAgree /\ CanceledStageIsTold /\ [Next]_vars => CanceledStageIsTold'
  <2> SUFFICES ASSUME TypeOK, SetsAgree, CanceledStageIsTold, [Next]_vars PROVE CanceledStageIsTold'
    OBVIOUS
  <2>1. ASSUME runningSet' \subseteq runningSet, canceled \subseteq canceled',
               \A u \in runningSet' : state'[u] = "Canceled" => state[u] = "Canceled" \/ TokenOf[u] \in canceled'
        PROVE  CanceledStageIsTold'
    BY <2>1 DEF CanceledStageIsTold
  <2>2. runningSet \subseteq Tasks
    BY DEF TypeOK
  <2>3. ASSUME NEW x \in Threads, NEW t \in Tasks, CancelLocked(x, t), UNCHANGED runningSet PROVE CanceledStageIsTold'
    BY <2>1, <2>2, <2>3 DEF CancelLocked, RequestCancel, MoveTo, With
  <2>4. ASSUME NEW t \in Tasks, NEW s \in TaskStates, MoveTo(With({t}, s)), s # "Canceled" \/ t \notin runningSet,
               UNCHANGED <<runningSet, canceled>>
        PROVE  CanceledStageIsTold'
    BY <2>1, <2>2, <2>4 DEF MoveTo, With
  <2>5. ASSUME NEW k \in Clients, ClientStep(k) PROVE CanceledStageIsTold'
    <3>0. k \in Threads
      BY DEF Threads
    <3>1. ASSUME NEW t \in Tasks, NEW ds \in DepLists[t], SubmitAccept(k, t, ds) PROVE CanceledStageIsTold'
      <4>1. \E s \in {"Ready", "Queued"} : MoveTo(With({t}, s)) /\ UNCHANGED <<runningSet, canceled>>
        BY <3>1 DEF SubmitAccept
      <4>2. QED
        BY <2>4, <4>1 DEF TaskStates
    <3>2. ASSUME NEW t \in Tasks, NEW ds \in DepLists[t], SubmitBlocked(k, t, ds) PROVE CanceledStageIsTold'
      <4>1. t \notin runningSet /\ MoveTo(With({t}, "Canceled")) /\ UNCHANGED <<runningSet, canceled>>
        BY <3>2 DEF SubmitBlocked, Submittable, SetsAgree, Active
      <4>2. QED
        BY <2>4, <4>1 DEF TaskStates
    <3>3. ASSUME NEW t \in Tasks, Cancel(k, t) \/ PauseCancel(k, t) \/ TickCancel(k, t) PROVE CanceledStageIsTold'
      BY <2>3, <3>0, <3>3 DEF Cancel, PauseCancel, TickCancel
    <3>4. ASSUME NEW t \in Tasks, PauseIdle(k, t) PROVE CanceledStageIsTold'
      <4>1. MoveTo(With({t}, "Paused")) /\ UNCHANGED <<runningSet, canceled>> /\ "Paused" \in TaskStates
        BY <3>4 DEF PauseIdle, TaskStates
      <4>2. QED
        BY <2>4, <4>1
    <3>5. ASSUME NEW t \in Tasks, Resume(k, t) PROVE CanceledStageIsTold'
      <4>1. pausedFrom[t] \in TaskStates /\ pausedFrom[t] \notin {"None", "Canceled"}
        BY <3>5 DEF Resume, SetsAgree, TypeOK, TaskStates
      <4>2. MoveTo(With({t}, pausedFrom[t])) /\ UNCHANGED <<runningSet, canceled>>
        BY <3>5, <4>1 DEF Resume
      <4>3. QED
        BY <2>4, <4>1, <4>2
    <3>6. ASSUME NEW t \in Tasks, PauseRunning(k, t) PROVE CanceledStageIsTold'
      BY <3>6 DEF PauseRunning, CanceledStageIsTold
    <3>7. ASSUME NEW t \in Tasks, NEW ds \in DepLists[t], SubmitReject(k, t, ds) PROVE CanceledStageIsTold'
      BY <3>7 DEF SubmitReject, CanceledStageIsTold
    <3>8. CASE PauseReturn(k) \/ PauseExpire(k) \/ TickScan(k)
      BY <3>8 DEF PauseReturn, PauseExpire, TickScan, CanceledStageIsTold
    <3>9. QED
      BY <2>5, <3>1, <3>2, <3>3, <3>4, <3>5, <3>6, <3>7, <3>8 DEF ClientStep
  <2>6. ASSUME NEW w \in Workers, WorkerStep(w) PROVE CanceledStageIsTold'
    <3>1. ASSUME NEW t \in Tasks, Dispatch(w, t) PROVE CanceledStageIsTold'
      BY <2>2, <3>1 DEF Dispatch, MoveTo, With, CanceledStageIsTold
    <3>2. ASSUME NEW t \in Tasks, Checkpoint(w, t) PROVE CanceledStageIsTold'
      <4>1. MoveTo(With({t}, "Paused")) /\ UNCHANGED <<runningSet, canceled>> /\ "Paused" \in TaskStates
        BY <3>2 DEF Checkpoint, TaskStates
      <4>2. QED
        BY <2>4, <4>1
    <3>3. ASSUME NEW t \in Tasks, FinishOk(w, t) PROVE CanceledStageIsTold'
      BY <2>1, <2>2, <3>3 DEF FinishOk, EndExecution, MoveTo
    <3>4. ASSUME NEW t \in Tasks, NEW s \in {"Failed", "Canceled"}, FinishWith(w, t, s) PROVE CanceledStageIsTold'
      <4>1. EndsAs(t, s) \subseteq {t}
        BY DEF EndsAs
      <4>2. QED
        BY <2>1, <2>2, <3>4, <4>1 DEF FinishWith, EndExecution, MoveTo, RequestCancel
    <3>5. ASSUME NEW t \in Tasks, Progress(w, t) PROVE CanceledStageIsTold'
      BY <3>5 DEF Progress, CanceledStageIsTold
    <3>6. CASE Unpark(w) \/ Exit(w)
      BY <3>6 DEF Unpark, Exit, CanceledStageIsTold
    <3>7. QED
      BY <2>6, <3>1, <3>2, <3>3, <3>4, <3>5, <3>6 DEF WorkerStep, Finish, FinishLate, FinishErr
  <2>7. CASE (\E x \in Threads, t \in Tasks : Deliver(x, t)) \/ Stop \/ ClockTick \/ UNCHANGED vars
    BY <2>7 DEF Deliver, Stop, ClockTick, vars, CanceledStageIsTold
  <2>8. QED
    BY <2>5, <2>6, <2>7 DEF Next
<1>3. QED
  BY <1>1, <1>2, TypeCorrect, SetsAlwaysAgree, PTL DEF Spec

-----------------------------------------------------------------------------
(* Sums over sets of tasks *)

(* Induction over finite sets, in the form of a minimal counterexample. *)
LEMMA MinimalSet ==
  ASSUME NEW U, IsFiniteSet(U), NEW B, B \subseteq SUBSET U, B # {}
  PROVE  \E m \in B : \A n \in B : n \subseteq m => n = m
<1>1. IsWellFoundedOn(StrictSubsetOrdering(U), SUBSET U)
  BY FS_StrictSubsetOrderingWellFounded, FS_FiniteSubsetsOfFinite
<1>2. PICK m \in B : \A n \in B : ~ (<<n, m>> \in StrictSubsetOrdering(U))
  BY <1>1, WFMin
<1>3. \A n \in B : n \subseteq m => n = m
  <2> TAKE n \in B
  <2>1. <<n, m>> \in (SUBSET U) \X (SUBSET U)
    OBVIOUS
  <2>2. n \subseteq m /\ n # m => <<n, m>> \in StrictSubsetOrdering(U)
    BY <2>1 DEF StrictSubsetOrdering
  <2>3. QED
    BY <1>2, <2>2
<1>4. QED
  BY <1>3

(* f gives every subset of U the sum of its demands. *)
Additive(f, r, U) ==
  /\ f \in [SUBSET U -> Nat]
  /\ f[{}] = 0
  /\ \A S \in SUBSET U, x \in U : x \notin S => f[S \cup {x}] = f[S] + Demand(x)[r]

LEMMA SumExists ==
  ASSUME NEW r \in Resources
  PROVE  \E f : Additive(f, r, Tasks)
<1> DEFINE B == {U \in SUBSET Tasks : ~\E f : Additive(f, r, U)}
<1>1. SUFFICES ASSUME B # {} PROVE FALSE
  BY Zenon
<1>2. PICK m \in B : \A n \in B : n \subseteq m => n = m
  <2>1. B \subseteq SUBSET Tasks
    OBVIOUS
  <2> HIDE DEF B
  <2>2. QED
    BY <1>1, <2>1, MinimalSet, ThreadsAssumption
<1>3. m # {}
  <2>1. Additive([S \in SUBSET {} |-> 0], r, {})
    BY DEF Additive
  <2>2. QED
    BY <2>1
<1>4. PICK x \in m : TRUE
  BY <1>3
<1>5. x \in Tasks /\ Demand(x)[r] \in Nat /\ \A y \in Tasks : Demand(y)[r] \in Nat
  BY DemandType
<1>6. PICK g : Additive(g, r, m \ {x})
  <2>1. m \ {x} \in SUBSET Tasks /\ m \ {x} # m /\ m \ {x} \subseteq m
    OBVIOUS
  <2>2. m \ {x} \notin B
    BY <1>2, <2>1
  <2>3. QED
    BY <2>1, <2>2
<1> DEFINE f == [S \in SUBSET m |-> IF x \in S THEN g[S \ {x}] + Demand(x)[r] ELSE g[S]]
<1>7. f \in [SUBSET m -> Nat]
  BY <1>5, <1>6 DEF Additive
<1>8. f[{}] = 0
  BY <1>6 DEF Additive
<1>9. ASSUME NEW S \in SUBSET m, NEW y \in m, y \notin S PROVE f[S \cup {y}] = f[S] + Demand(y)[r]
  <2>0. S \cup {y} \in SUBSET m /\ \A T \in SUBSET (m \ {x}) : g[T] \in Nat
    BY <1>6 DEF Additive
  <2>1. CASE y = x
    <3>1. (S \cup {y}) \ {x} = S /\ x \notin S
      BY <1>9, <2>1
    <3>2. QED
      BY <2>0, <2>1, <3>1
  <2>2. CASE y # x /\ x \in S
    <3>1. (S \cup {y}) \ {x} = (S \ {x}) \cup {y} /\ S \ {x} \in SUBSET (m \ {x}) /\ y \in m \ {x} /\ y \notin S \ {x}
      BY <1>9, <2>2
    <3>2. g[(S \ {x}) \cup {y}] = g[S \ {x}] + Demand(y)[r]
      BY <1>6, <3>1 DEF Additive
    <3>3. Demand(y)[r] \in Nat /\ Demand(x)[r] \in Nat /\ g[S \ {x}] \in Nat
      BY <1>5, <2>0, <3>1
    <3>4. f[S \cup {y}] = g[(S \ {x}) \cup {y}] + Demand(x)[r] /\ f[S] = g[S \ {x}] + Demand(x)[r]
      BY <2>0, <2>2, <3>1
    <3>5. QED
      BY <3>2, <3>3, <3>4
  <2>3. CASE y # x /\ x \notin S
    <3>1. S \in SUBSET (m \ {x}) /\ y \in m \ {x} /\ x \notin S \cup {y}
      BY <1>9, <2>3
    <3>2. g[S \cup {y}] = g[S] + Demand(y)[r]
      BY <1>6, <1>9, <3>1 DEF Additive
    <3>3. QED
      BY <2>0, <2>3, <3>1, <3>2
  <2>4. QED
    BY <2>1, <2>2, <2>3
<1>10. Additive(f, r, m)
  <2> HIDE DEF f
  <2> QED BY <1>7, <1>8, <1>9 DEF Additive
<1>11. QED
  BY <1>10

(* The fold the model sums with, as the function it chooses. *)
Pick(S) == CHOOSE x \in S : TRUE
SumsUp(h, r, U) ==
  h = [S \in SUBSET U |-> IF S = {} THEN 0 ELSE Demand(Pick(S))[r] + h[S \ {Pick(S)}]]

LEMMA FoldForm ==
  ASSUME NEW r, NEW U
  PROVE  SumOf(r, U) = (CHOOSE h : SumsUp(h, r, U))[U]
BY Zenon DEF SumOf, MapThenSumSet, MapThenFoldSet, SumsUp, Pick

LEMMA FoldIsAdditive ==
  ASSUME NEW r \in Resources, NEW f, Additive(f, r, Tasks), NEW U \in SUBSET Tasks
  PROVE  SumOf(r, U) = f[U]
<1>1. \A S \in SUBSET U : S # {} => Pick(S) \in S
  BY DEF Pick
<1>2. \A S \in SUBSET U : S # {} => f[S] = Demand(Pick(S))[r] + f[S \ {Pick(S)}]
  <2> TAKE S \in SUBSET U
  <2> HAVE S # {}
  <2>1. /\ Pick(S) \in Tasks /\ S \ {Pick(S)} \in SUBSET Tasks /\ Pick(S) \notin S \ {Pick(S)}
        /\ (S \ {Pick(S)}) \cup {Pick(S)} = S
    BY <1>1
  <2>2. f[S] = f[S \ {Pick(S)}] + Demand(Pick(S))[r]
    BY <2>1 DEF Additive
  <2>3. f[S \ {Pick(S)}] \in Nat /\ Demand(Pick(S))[r] \in Nat
    BY <2>1, DemandType DEF Additive
  <2>4. QED
    BY <2>2, <2>3
<1>3. SumsUp([S \in SUBSET U |-> f[S]], r, U)
  <2> DEFINE h == [S \in SUBSET U |-> f[S]]
  <2>1. \A S \in SUBSET U : S # {} => S \ {Pick(S)} \in SUBSET U
    BY <1>1
  <2>2. \A S \in SUBSET U : h[S] = IF S = {} THEN 0 ELSE Demand(Pick(S))[r] + h[S \ {Pick(S)}]
    BY <1>2, <2>1 DEF Additive
  <2>3. h = [S \in SUBSET U |-> h[S]]
    OBVIOUS
  <2> HIDE DEF h
  <2>4. SumsUp(h, r, U)
    BY <2>2, <2>3 DEF SumsUp
  <2>5. QED
    BY <2>4 DEF h
<1> DEFINE h == CHOOSE h : SumsUp(h, r, U)
<1>4. SumsUp(h, r, U)
  BY <1>3
<1> HIDE DEF h
<1>5. \A S \in SUBSET U : h[S] = f[S]
  <2> DEFINE B == {S \in SUBSET U : h[S] # f[S]}
  <2>1. SUFFICES ASSUME B # {} PROVE FALSE
    OBVIOUS
  <2>2. IsFiniteSet(U)
    BY ThreadsAssumption, FS_Subset
  <2>3. PICK m \in B : \A n \in B : n \subseteq m => n = m
    <3>1. B \subseteq SUBSET U
      OBVIOUS
    <3> HIDE DEF B
    <3>2. QED
      BY <2>1, <2>2, <3>1, MinimalSet
  <2>4. m # {}
    <3>1. h[{}] = 0
      BY <1>4 DEF SumsUp
    <3>2. f[{}] = 0
      BY DEF Additive
    <3>3. QED
      BY <3>1, <3>2
  <2>5. h[m] = Demand(Pick(m))[r] + h[m \ {Pick(m)}]
    BY <1>4, <2>4 DEF SumsUp
  <2>6. m \ {Pick(m)} \notin B /\ m \ {Pick(m)} \in SUBSET U
    BY <1>1, <2>3, <2>4
  <2>7. QED
    BY <1>2, <2>4, <2>5, <2>6
<1>6. QED
  BY <1>5, FoldForm DEF h

LEMMA SumProperties ==
  ASSUME NEW r \in Resources
  PROVE  /\ SumOf(r, {}) = 0
         /\ \A S \in SUBSET Tasks : SumOf(r, S) \in Nat
         /\ \A S \in SUBSET Tasks, x \in Tasks : x \notin S => SumOf(r, S \cup {x}) = SumOf(r, S) + Demand(x)[r]
<1>1. PICK f : Additive(f, r, Tasks)
  BY SumExists
<1>2. \A S \in SUBSET Tasks : SumOf(r, S) = f[S]
  BY <1>1, FoldIsAdditive
<1>3. QED
  BY <1>1, <1>2 DEF Additive

-----------------------------------------------------------------------------
(* The resources in use *)

(* The only steps that touch running_set_ and resource_in_use_. *)
LEMMA UsageSteps ==
  ASSUME TypeOK, SetsAgree, [Next]_vars
  PROVE  \/ UNCHANGED <<runningSet, inUse>>
         \/ \E t \in Tasks \ runningSet :
              t \in PickCandidates /\ Reserve(t) /\ runningSet' = runningSet \cup {t}
         \/ \E t \in runningSet : Release(t) /\ runningSet' = runningSet \ {t}
<1> USE DEF runVars
<1>1. ASSUME NEW w \in Workers, NEW t \in Tasks, Dispatch(w, t)
      PROVE  t \in Tasks \ runningSet /\ t \in PickCandidates /\ Reserve(t) /\ runningSet' = runningSet \cup {t}
  <2>1. state[t] = "Ready"
    BY <1>1, PickedIsReady DEF Dispatch
  <2>2. QED
    BY <1>1, <2>1 DEF Dispatch, SetsAgree, Active
<1>2. ASSUME NEW w \in Workers, NEW t \in Tasks, Finish(w, t)
      PROVE  t \in runningSet /\ Release(t) /\ runningSet' = runningSet \ {t}
  <2>1. EndExecution(w, t)
    BY <1>2 DEF Finish, FinishOk, FinishLate, FinishErr, FinishWith
  <2>2. QED
    BY <2>1, BusyWorker DEF EndExecution, Executing
<1>3. ASSUME NEW k \in Clients, ClientStep(k) PROVE UNCHANGED <<runningSet, inUse>>
  BY <1>3 DEF ClientStep, SubmitAccept, SubmitBlocked, SubmitReject, Cancel, PauseIdle, PauseRunning,
              PauseReturn, PauseExpire, PauseCancel, Resume, TickScan, TickCancel
<1>4. ASSUME NEW w \in Workers, WorkerStep(w), \A t \in Tasks : ~Dispatch(w, t) /\ ~Finish(w, t)
      PROVE  UNCHANGED <<runningSet, inUse>>
  BY <1>4 DEF WorkerStep, Progress, Checkpoint, Unpark, Exit
<1>5. CASE (\E x \in Threads, t \in Tasks : Deliver(x, t)) \/ Stop \/ ClockTick \/ UNCHANGED vars
  BY <1>5 DEF Deliver, Stop, ClockTick, vars
<1>6. QED
  BY <1>1, <1>2, <1>3, <1>4, <1>5 DEF Next

(* resource_in_use_ is always exactly the sum of what the tasks in           *)
(* running_set_ demand, so finalize_execution's clamp to zero never acts.  *)
THEOREM UsageAlwaysSumOfRunning == Spec => []UsageIsSumOfRunning
<1>0. UsageIsSumOfRunning <=> \A r \in Resources : inUse[r] = SumOf(r, runningSet)
  BY DEF UsageIsSumOfRunning
<1>1. Init => UsageIsSumOfRunning
  BY <1>0, SumProperties DEF Init
<1>2. TypeOK /\ SetsAgree /\ UsageIsSumOfRunning /\ [Next]_vars => UsageIsSumOfRunning'
  <2> SUFFICES ASSUME TypeOK, SetsAgree, UsageIsSumOfRunning, [Next]_vars, NEW r \in Resources
               PROVE  inUse'[r] = SumOf(r, runningSet')
    BY DEF UsageIsSumOfRunning
  <2>0. inUse[r] = SumOf(r, runningSet) /\ inUse[r] \in Nat /\ runningSet \in SUBSET Tasks
    BY <1>0 DEF TypeOK
  <2>1. ASSUME NEW t \in Tasks \ runningSet, Reserve(t), runningSet' = runningSet \cup {t}
        PROVE  inUse'[r] = SumOf(r, runningSet')
    BY <2>0, <2>1, SumProperties DEF Reserve
  <2>2. ASSUME NEW t \in runningSet, Release(t), runningSet' = runningSet \ {t}
        PROVE  inUse'[r] = SumOf(r, runningSet')
    <3>1. runningSet \ {t} \in SUBSET Tasks /\ t \in Tasks /\ (runningSet \ {t}) \cup {t} = runningSet
      BY <2>0
    <3>2. SumOf(r, runningSet) = SumOf(r, runningSet \ {t}) + Demand(t)[r] /\ SumOf(r, runningSet \ {t}) \in Nat
      BY <3>1, SumProperties
    <3>3. Demand(t)[r] \in Nat
      BY <3>1, DemandType
    <3>4. inUse'[r] = MaxOf(0, inUse[r] - Demand(t)[r])
      BY <2>2 DEF Release
    <3>5. QED
      BY <2>0, <2>2, <3>2, <3>3, <3>4 DEF MaxOf
  <2>3. CASE UNCHANGED <<runningSet, inUse>>
    BY <2>0, <2>3
  <2>4. QED
    BY <2>1, <2>2, <2>3, UsageSteps
<1>3. QED
  BY <1>1, <1>2, TypeCorrect, SetsAlwaysAgree, PTL DEF Spec

(* For every demand, limit and number of workers: RAM or VRAM exceed a soft  *)
(* limit only while one task runs alone.  The argument needs the sum: when  *)
(* the one over-budget task leaves, nothing is in use any more.            *)
THEOREM OverBudgetAlwaysAlone == Spec => []OverBudgetRunsAlone
<1> DEFINE Over == \/ RamSoft > 0 /\ inUse["ram"] > RamSoft
                   \/ VramSoft > 0 /\ inUse["vram"] > VramSoft
<1>0. OverBudgetRunsAlone <=> (Over => Cardinality(runningSet) = 1)
  BY DEF OverBudgetRunsAlone
<1>1. Init => OverBudgetRunsAlone
  BY ConfigAssumption DEF Init, OverBudgetRunsAlone, Resources
<1>2. TypeOK /\ SetsAgree /\ UsageIsSumOfRunning /\ UsageIsSumOfRunning' /\ OverBudgetRunsAlone /\ [Next]_vars
      => OverBudgetRunsAlone'
  <2> SUFFICES ASSUME TypeOK, SetsAgree, UsageIsSumOfRunning, UsageIsSumOfRunning', OverBudgetRunsAlone, [Next]_vars
               PROVE  OverBudgetRunsAlone'
    OBVIOUS
  <2>0. /\ "ram" \in Resources /\ "vram" \in Resources /\ RamSoft \in Int /\ VramSoft \in Int
        /\ inUse["ram"] \in Nat /\ inUse["vram"] \in Nat
    BY ConfigAssumption DEF TypeOK, Resources
  <2>1. ASSUME NEW t \in Tasks \ runningSet, t \in PickCandidates, Reserve(t), runningSet' = runningSet \cup {t}
        PROVE  OverBudgetRunsAlone'
    <3>1. inUse'["ram"] = inUse["ram"] + Demand(t)["ram"] /\ inUse'["vram"] = inUse["vram"] + Demand(t)["vram"]
      BY <2>0, <2>1 DEF Reserve
    <3>2. Demand(t)["ram"] \in Nat /\ Demand(t)["vram"] \in Nat
      BY <2>0, DemandType
    <3>3. FitsSoft(t) \/ runningSet = {}
      BY <2>1 DEF PickCandidates, Best
    <3>4. CASE FitsSoft(t)
      <4>1. /\ RamSoft <= 0 \/ inUse["ram"] + Demand(t)["ram"] <= RamSoft
            /\ VramSoft <= 0 \/ inUse["vram"] + Demand(t)["vram"] <= VramSoft
        BY <3>4 DEF FitsSoft
      <4>2. QED
        BY <2>0, <3>1, <3>2, <4>1 DEF OverBudgetRunsAlone
    <3>5. CASE runningSet = {}
      <4>1. runningSet' = {t}
        BY <2>1, <3>5
      <4>2. Cardinality(runningSet') = 1
        BY <4>1, FS_Singleton
      <4>3. QED
        BY <4>2 DEF OverBudgetRunsAlone
    <3>6. QED
      BY <3>3, <3>4, <3>5
  <2>2. ASSUME NEW t \in runningSet, Release(t), runningSet' = runningSet \ {t}
        PROVE  OverBudgetRunsAlone'
    <3>1. t \in Tasks
      BY DEF TypeOK
    <3>2. Demand(t)["ram"] \in Nat /\ Demand(t)["vram"] \in Nat
      BY <2>0, <3>1, DemandType
    <3>3. /\ inUse'["ram"] = MaxOf(0, inUse["ram"] - Demand(t)["ram"])
          /\ inUse'["vram"] = MaxOf(0, inUse["vram"] - Demand(t)["vram"])
      BY <2>0, <2>2 DEF Release
    <3>4. inUse'["ram"] <= inUse["ram"] /\ inUse'["vram"] <= inUse["vram"] /\ inUse'["ram"] \in Nat /\ inUse'["vram"] \in Nat
      BY <2>0, <3>2, <3>3 DEF MaxOf
    <3>5. Over' => Over
      BY <2>0, <3>4
    <3>6. ASSUME Over PROVE ~Over'
      <4>1. Cardinality(runningSet) = 1
        BY <1>0, <3>6
      <4>2. IsFiniteSet(runningSet)
        BY ThreadsAssumption, FS_Subset DEF TypeOK
      <4>3. runningSet = {t}
        BY <2>2, <4>1, <4>2, FS_Singleton
      <4>4. runningSet' = {}
        BY <2>2, <4>3
      <4>5. inUse'["ram"] = SumOf("ram", {}) /\ inUse'["vram"] = SumOf("vram", {})
        BY <2>0, <4>4 DEF UsageIsSumOfRunning
      <4>6. inUse'["ram"] = 0 /\ inUse'["vram"] = 0
        BY <2>0, <4>5, SumProperties
      <4>7. QED
        BY <2>0, <4>6
    <3>7. QED
      BY <3>5, <3>6 DEF OverBudgetRunsAlone
  <2>3. CASE UNCHANGED <<runningSet, inUse>>
    BY <2>3 DEF OverBudgetRunsAlone
  <2>4. QED
    BY <2>1, <2>2, <2>3, UsageSteps
<1>3. QED
  BY <1>1, <1>2, TypeCorrect, SetsAlwaysAgree, UsageAlwaysSumOfRunning, PTL DEF Spec
==============================================================================
