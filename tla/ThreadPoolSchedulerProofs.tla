---------------------- MODULE ThreadPoolSchedulerProofs ----------------------
(***************************************************************************)
(* Theorems about ThreadPoolScheduler, for every set of tasks, workers and *)
(* clients, every dependency graph and every budget.                       *)
(***************************************************************************)
EXTENDS ThreadPoolScheduler, FiniteSetTheorems, TLAPS

(* A set of positions of a dependency list has a natural cardinality. *)
LEMMA PositionsCount ==
  ASSUME NEW n \in Nat, NEW S \in SUBSET (1..n)
  PROVE  IsFiniteSet(S) /\ Cardinality(S) \in Nat
<1>1. IsFiniteSet(1..n)
  BY FS_Interval
<1>2. IsFiniteSet(S)
  BY <1>1, FS_Subset
<1> QED BY <1>2, FS_CardinalityType

LEMMA DemandType ==
  ASSUME NEW t \in Tasks
  PROVE  Demand(t) \in [cpu : Nat, ram : Nat, vram : Nat] /\ \A r \in Resources : Demand(t)[r] \in Nat
BY TaskAssumption DEF Demand, MaxOf, Resources

LEMMA CpuHardType == CpuHard \in Nat
BY ThreadsAssumption, ConfigAssumption, FS_CardinalityType DEF CpuHard

LEMMA MoveToType ==
  ASSUME TypeOK,
         NEW f \in [Tasks -> TaskStates \cup {"None"}],
         \A t \in Tasks : f[t] = "Paused" /\ state[t] # "Paused" => state[t] \in {"Queued", "Ready", "Running"},
         MoveTo(f)
  PROVE  /\ state' \in [Tasks -> TaskStates \cup {"None"}]
         /\ pausedFrom' \in [Tasks -> {"None", "Queued", "Ready", "Running"}]
         /\ readyAge' \in [Tasks -> 0..MaxAge]
<1>1. state' \in [Tasks -> TaskStates \cup {"None"}]
  BY DEF MoveTo
<1>2. pausedFrom' \in [Tasks -> {"None", "Queued", "Ready", "Running"}]
  BY DEF MoveTo, TypeOK, PausedFromAfter
<1>3. readyAge' \in [Tasks -> 0..MaxAge]
  BY ConfigAssumption DEF MoveTo, TypeOK
<1> QED BY <1>1, <1>2, <1>3

LEMMA WithType ==
  ASSUME TypeOK, NEW S, NEW s \in TaskStates
  PROVE  /\ With(S, s) \in [Tasks -> TaskStates \cup {"None"}]
         /\ Event(S, s) \in [Tasks -> Seq(TaskStates)]
         /\ NoEvents \in [Tasks -> Seq(TaskStates)]
BY DEF With, Event, NoEvents, TypeOK

LEMMA EmitType ==
  ASSUME TypeOK, NEW x \in Threads, NEW e \in [Tasks -> Seq(TaskStates)], Emit(x, e)
  PROVE  outbox' \in [Threads -> [Tasks -> Seq(TaskStates)]]
BY DEF Emit, TypeOK

-----------------------------------------------------------------------------
(* Type correctness *)

(* The node part of TypeOK, with what the thread has to tell. *)
NodeType ==
  /\ state \in [Tasks -> TaskStates \cup {"None"}]
  /\ pausedFrom \in [Tasks -> {"None", "Queued", "Ready", "Running"}]
  /\ readyAge \in [Tasks -> 0..MaxAge]
  /\ readySet \subseteq Tasks
  /\ outbox \in [Threads -> [Tasks -> Seq(TaskStates)]]

LEMMA RequestCancelType ==
  ASSUME TypeOK, NEW S \in SUBSET Tasks, RequestCancel(S)
  PROVE  canceled' \subseteq Tokens
<1>1. \A t \in S : TokenOf[t] \in Tokens
  BY TaskAssumption
<1>2. canceled \subseteq Tokens
  BY DEF TypeOK
<1> QED BY <1>1, <1>2 DEF RequestCancel

LEMMA CancelLockedType ==
  ASSUME TypeOK, NEW x \in Threads, NEW t \in Tasks, CancelLocked(x, t)
  PROVE  NodeType' /\ canceled' \subseteq Tokens /\ pauseReq' \in [Tasks -> BOOLEAN]
<1>1. CancelHits(t) \subseteq Tasks
  BY DEF CancelHits, Downstream, Descendants, Submitted
<1>2. state' \in [Tasks -> TaskStates \cup {"None"}] /\ pausedFrom' \in [Tasks -> {"None", "Queued", "Ready", "Running"}]
        /\ readyAge' \in [Tasks -> 0..MaxAge]
  <2>1. With(CancelHits(t), "Canceled") \in [Tasks -> TaskStates \cup {"None"}]
    BY WithType DEF TaskStates
  <2>2. \A u \in Tasks : With(CancelHits(t), "Canceled")[u] = "Paused" => state[u] = "Paused"
    BY DEF With
  <2> QED BY <2>1, <2>2, MoveToType DEF CancelLocked
<1>3. readySet' \subseteq Tasks
  BY DEF CancelLocked, EraseReady, TypeOK
<1>4. outbox' \in [Threads -> [Tasks -> Seq(TaskStates)]]
  BY WithType, EmitType DEF CancelLocked, TaskStates
<1>5. canceled' \subseteq Tokens
  BY <1>1, RequestCancelType DEF CancelLocked
<1>6. pauseReq' \in [Tasks -> BOOLEAN]
  BY DEF CancelLocked, TypeOK
<1> QED BY <1>2, <1>3, <1>4, <1>5, <1>6 DEF NodeType

LEMMA AddEdgesType ==
  ASSUME TypeOK, NEW t \in Tasks, NEW ds \in Seq(Tasks), NEW n \in 0..Len(ds), AddEdges(t, ds, n)
  PROVE  succ' \in [Tasks -> [Tasks -> Nat]]
<1> DEFINE edges(d) == Cardinality({i \in 1..n : ds[i] = d})
<1>1. \A d \in Tasks : edges(d) \in Nat
  <2> TAKE d \in Tasks
  <2> {i \in 1..n : ds[i] = d} \in SUBSET (1..n) /\ n \in Nat
    OBVIOUS
  <2> QED BY PositionsCount
<1>2. succ' = [d \in Tasks |-> [u \in Tasks |-> succ[d][u] + IF u = t THEN edges(d) ELSE 0]]
  BY DEF AddEdges
<1> HIDE DEF edges
<1>3. \A d, u \in Tasks : succ[d][u] + (IF u = t THEN edges(d) ELSE 0) \in Nat
  <2> TAKE d, u \in Tasks
  <2>1. succ[d][u] \in Nat
    BY DEF TypeOK
  <2>2. edges(d) \in Nat
    BY <1>1
  <2> QED BY <2>1, <2>2
<1> QED BY <1>2, <1>3

LEMMA SubmitType ==
  ASSUME TypeOK, NEW k \in Clients, NEW t \in Tasks, NEW ds \in DepLists[t],
         SubmitAccept(k, t, ds) \/ SubmitBlocked(k, t, ds) \/ SubmitReject(k, t, ds)
  PROVE  TypeOK'
<1> USE DEF nodeVars, graphVars, pauseVars, runVars, workerVars, clientVars, seenVars
<1>1. ds \in Seq(Tasks) /\ k \in Threads /\ Len(ds) \in Nat /\ DOMAIN ds = 1..Len(ds)
  BY TaskAssumption DEF Threads
<1>3. CASE SubmitAccept(k, t, ds)
  <2>1. succ' \in [Tasks -> [Tasks -> Nat]]
    BY <1>1, <1>3, AddEdgesType DEF SubmitAccept
  <2>2. Cardinality(Waiting(ds)) \in Nat
    BY <1>1, PositionsCount DEF Waiting
  <2>3. deps' \in [Tasks -> Seq(Tasks)] /\ unmet' \in [Tasks -> Nat]
    BY <1>1, <1>3, <2>2 DEF SubmitAccept, TypeOK
  <2> DEFINE s == IF Waiting(ds) = {} THEN "Ready" ELSE "Queued"
  <2>4. With({t}, s) \in [Tasks -> TaskStates \cup {"None"}] /\ Event({t}, "Ready") \in [Tasks -> Seq(TaskStates)]
          /\ NoEvents \in [Tasks -> Seq(TaskStates)]
    BY WithType DEF TaskStates
  <2>5. \A u \in Tasks : With({t}, s)[u] = "Paused" => state[u] = "Paused"
    BY DEF With
  <2>6. MoveTo(With({t}, s)) /\ readySet' \subseteq Tasks
    BY <1>3 DEF SubmitAccept, TypeOK
  <2>7. outbox' \in [Threads -> [Tasks -> Seq(TaskStates)]]
    <3>1. Emit(k, IF s = "Ready" THEN Event({t}, "Ready") ELSE NoEvents)
      BY <1>3 DEF SubmitAccept
    <3> QED BY <3>1, <2>4, <1>1, EmitType
  <2> HIDE DEF s
  <2>8. NodeType'
    BY <2>4, <2>5, <2>6, <2>7, MoveToType DEF NodeType
  <2> QED BY <1>3, <2>1, <2>3, <2>8 DEF SubmitAccept, TypeOK, NodeType
<1>4. CASE SubmitBlocked(k, t, ds)
  <2> PICK n \in 1..Len(ds) : /\ AddEdges(t, ds, n)
                              /\ unmet' = [unmet EXCEPT ![t] = Cardinality({i \in Waiting(ds) : i < n})]
    BY <1>1, <1>4 DEF SubmitBlocked
  <2>1. succ' \in [Tasks -> [Tasks -> Nat]]
    <3>1. n \in 0..Len(ds)
      BY <1>1
    <3> QED BY <3>1, <1>1, AddEdgesType
  <2>2. Cardinality({i \in Waiting(ds) : i < n}) \in Nat
    BY <1>1, PositionsCount DEF Waiting
  <2>3. deps' \in [Tasks -> Seq(Tasks)] /\ unmet' \in [Tasks -> Nat]
    BY <1>1, <1>4, <2>2 DEF SubmitBlocked, TypeOK
  <2>4. With({t}, "Canceled") \in [Tasks -> TaskStates \cup {"None"}] /\ Event({t}, "Canceled") \in [Tasks -> Seq(TaskStates)]
    BY WithType DEF TaskStates
  <2>5. \A u \in Tasks : With({t}, "Canceled")[u] = "Paused" => state[u] = "Paused"
    BY DEF With
  <2>6. MoveTo(With({t}, "Canceled")) /\ readySet' \subseteq Tasks /\ Emit(k, Event({t}, "Canceled"))
    BY <1>4 DEF SubmitBlocked, TypeOK
  <2>7. NodeType'
    BY <1>1, <2>4, <2>5, <2>6, MoveToType, EmitType DEF NodeType
  <2> QED BY <1>4, <2>1, <2>3, <2>7 DEF SubmitBlocked, TypeOK, NodeType
<1>5. CASE SubmitReject(k, t, ds)
  <2> PICK n \in 1..Len(ds) : AddEdges(t, ds, n - 1)
    BY <1>1, <1>5 DEF SubmitReject
  <2>1. n - 1 \in 0..Len(ds)
    BY <1>1
  <2>2. succ' \in [Tasks -> [Tasks -> Nat]]
    BY <1>1, <2>1, AddEdgesType
  <2> QED BY <1>5, <2>2 DEF SubmitReject, TypeOK
<1> QED BY <1>3, <1>4, <1>5

LEMMA ClientType ==
  ASSUME TypeOK, NEW k \in Clients, ClientStep(k)
  PROVE  TypeOK'
<1> USE DEF nodeVars, graphVars, pauseVars, runVars, workerVars, clientVars, seenVars
<1>0. k \in Threads
  BY DEF Threads
<1>1. ASSUME NEW t \in Tasks, NEW ds \in DepLists[t],
             SubmitAccept(k, t, ds) \/ SubmitBlocked(k, t, ds) \/ SubmitReject(k, t, ds)
      PROVE  TypeOK'
  BY <1>1, SubmitType
<1>2. ASSUME NEW t \in Tasks, Cancel(k, t)
      PROVE  TypeOK'
  <2>1. NodeType' /\ canceled' \subseteq Tokens /\ pauseReq' \in [Tasks -> BOOLEAN]
    BY <1>0, <1>2, CancelLockedType DEF Cancel
  <2> QED BY <1>2, <2>1 DEF Cancel, TypeOK, NodeType
<1>3. ASSUME NEW t \in Tasks, PauseIdle(k, t)
      PROVE  TypeOK'
  <2>1. With({t}, "Paused") \in [Tasks -> TaskStates \cup {"None"}] /\ Event({t}, "Paused") \in [Tasks -> Seq(TaskStates)]
    BY WithType DEF TaskStates
  <2>2. \A u \in Tasks : With({t}, "Paused")[u] = "Paused" /\ state[u] # "Paused" => state[u] \in {"Queued", "Ready", "Running"}
    BY <1>3 DEF With, PauseIdle
  <2>3. MoveTo(With({t}, "Paused")) /\ readySet' \subseteq Tasks /\ Emit(k, Event({t}, "Paused"))
    BY <1>3 DEF PauseIdle, EraseReady, TypeOK
  <2>4. NodeType'
    BY <1>0, <2>1, <2>2, <2>3, MoveToType, EmitType DEF NodeType
  <2> QED BY <1>3, <2>4 DEF PauseIdle, TypeOK, NodeType
<1>4. ASSUME NEW t \in Tasks, PauseRunning(k, t)
      PROVE  TypeOK'
  BY <1>4, ConfigAssumption DEF PauseRunning, TypeOK, ClientPcs
<1>5. ASSUME NEW t \in Tasks, PauseCancel(k, t)
      PROVE  TypeOK'
  <2>1. NodeType' /\ canceled' \subseteq Tokens /\ pauseReq' \in [Tasks -> BOOLEAN]
    BY <1>0, <1>5, CancelLockedType DEF PauseCancel
  <2>2. cpc' \in [Clients -> ClientPcs] /\ cset' \in [Clients -> SUBSET Tasks]
    BY <1>5 DEF PauseCancel, TypeOK, ClientPcs
  <2> QED BY <1>5, <2>1, <2>2 DEF PauseCancel, TypeOK, NodeType
<1>6. ASSUME NEW t \in Tasks, Resume(k, t)
      PROVE  TypeOK'
  <2> DEFINE target == IF pausedFrom[t] = "None" THEN "Running" ELSE pausedFrom[t]
  <2>1. target \in TaskStates /\ target # "Paused"
    BY DEF TypeOK, TaskStates
  <2>2. MoveTo(With({t}, target)) /\ Emit(k, Event({t}, target))
    BY <1>6 DEF Resume
  <2>3. readySet' \subseteq Tasks
    BY <1>6 DEF Resume, TypeOK
  <2> HIDE DEF target
  <2>4. \A u \in Tasks : With({t}, target)[u] = "Paused" => state[u] = "Paused"
    BY <2>1 DEF With
  <2>5. With({t}, target) \in [Tasks -> TaskStates \cup {"None"}] /\ Event({t}, target) \in [Tasks -> Seq(TaskStates)]
    BY <2>1, WithType
  <2>6. NodeType'
    BY <1>0, <2>2, <2>3, <2>4, <2>5, MoveToType, EmitType DEF NodeType
  <2>7. pauseReq' \in [Tasks -> BOOLEAN]
    BY <1>6 DEF Resume, TypeOK
  <2> QED BY <1>6, <2>6, <2>7 DEF Resume, TypeOK, NodeType
<1>7. ASSUME NEW t \in Tasks, TickCancel(k, t)
      PROVE  TypeOK'
  <2>1. NodeType' /\ canceled' \subseteq Tokens /\ pauseReq' \in [Tasks -> BOOLEAN]
    BY <1>0, <1>7, CancelLockedType DEF TickCancel
  <2>2. cpc' \in [Clients -> ClientPcs] /\ cset' \in [Clients -> SUBSET Tasks]
    BY <1>7 DEF TickCancel, TypeOK, ClientPcs
  <2> QED BY <1>7, <2>1, <2>2 DEF TickCancel, TypeOK, NodeType
<1>8. CASE PauseReturn(k)
  BY <1>8 DEF PauseReturn, TypeOK, ClientPcs
<1>9. CASE PauseExpire(k)
  BY <1>9 DEF PauseExpire, TypeOK, ClientPcs
<1>10. CASE TickScan(k)
  BY <1>10 DEF TickScan, TypeOK, ClientPcs, TimedOut
<1> QED BY <1>1, <1>2, <1>3, <1>4, <1>5, <1>6, <1>7, <1>8, <1>9, <1>10 DEF ClientStep

LEMMA UsageType ==
  ASSUME TypeOK, NEW t \in Tasks, Reserve(t) \/ Release(t)
  PROVE  inUse' \in [Resources -> Nat]
<1>1. \A r \in Resources : inUse[r] \in Nat /\ Demand(t)[r] \in Nat
  BY DemandType DEF TypeOK
<1>2. \A r \in Resources : inUse[r] + Demand(t)[r] \in Nat /\ MaxOf(0, inUse[r] - Demand(t)[r]) \in Nat
  BY <1>1 DEF MaxOf
<1> QED BY <1>2 DEF Reserve, Release

LEMMA FinishType ==
  ASSUME TypeOK, NEW w \in Workers, NEW t \in Tasks, Finish(w, t)
  PROVE  TypeOK'
<1> USE DEF nodeVars, graphVars, pauseVars, runVars, workerVars, clientVars, seenVars
<1>0. w \in Threads
  BY DEF Threads
<1>1. ASSUME EndExecution(w, t)
      PROVE  /\ runningSet' \subseteq Tasks /\ inUse' \in [Resources -> Nat]
             /\ wpc' \in [Workers -> WorkerPcs] /\ wtask' \in [Workers -> Tasks \cup {NoTask}]
  BY <1>1, UsageType DEF EndExecution, TypeOK, WorkerPcs
<1>2. CASE FinishOk(w, t)
  <2> DEFINE f == [u \in Tasks |-> IF u = t THEN "Succeeded" ELSE IF u \in Woken(t) THEN "Ready" ELSE state[u]]
             e == [u \in Tasks |-> IF u = t THEN <<"Succeeded">> ELSE IF u \in Woken(t) THEN <<"Ready">> ELSE <<>>]
  <2>1. MoveTo(f) /\ Emit(w, e) /\ EndExecution(w, t)
    BY <1>2 DEF FinishOk
  <2>2. f \in [Tasks -> TaskStates \cup {"None"}] /\ (\A u \in Tasks : f[u] = "Paused" => state[u] = "Paused")
    BY DEF TypeOK, TaskStates
  <2>3. e \in [Tasks -> Seq(TaskStates)]
    <3>1. "Succeeded" \in TaskStates /\ "Ready" \in TaskStates
      BY DEF TaskStates
    <3>2. <<"Succeeded">> \in Seq(TaskStates) /\ <<"Ready">> \in Seq(TaskStates) /\ <<>> \in Seq(TaskStates)
      BY <3>1
    <3> QED BY <3>2
  <2>4. readySet' \subseteq Tasks
    BY <1>2 DEF FinishOk, Woken, TypeOK
  <2> HIDE DEF f, e
  <2>5. NodeType'
    BY <1>0, <2>1, <2>2, <2>3, <2>4, MoveToType, EmitType DEF NodeType
  <2>6. unmet' \in [Tasks -> Nat]
    <3>1. unmet' = UnmetAfter(t)
      BY <1>2 DEF FinishOk
    <3>2. \A u \in Tasks : unmet[u] \in Nat /\ succ[t][u] \in Nat
      BY DEF TypeOK
    <3>3. \A u \in Tasks : MaxOf(0, unmet[u] - succ[t][u]) \in Nat
      BY <3>2 DEF MaxOf
    <3> QED BY <3>1, <3>2, <3>3 DEF UnmetAfter
  <2> QED BY <1>1, <1>2, <2>1, <2>5, <2>6 DEF FinishOk, TypeOK, NodeType
<1>3. ASSUME NEW s \in {"Failed", "Canceled"}, FinishWith(w, t, s)
      PROVE  TypeOK'
  <2> DEFINE f == [u \in Tasks |-> IF u \in EndsAs(t, s) THEN s ELSE IF u \in Downstream(t) THEN "Canceled" ELSE state[u]]
             e == [u \in Tasks |-> IF u \in EndsAs(t, s) THEN <<s>> ELSE IF u \in Downstream(t) THEN <<"Canceled">> ELSE <<>>]
  <2>1. MoveTo(f) /\ Emit(w, e) /\ EndExecution(w, t) /\ RequestCancel(Downstream(t)) /\ readySet' \subseteq Tasks
    BY <1>3 DEF FinishWith, EraseReady, TypeOK
  <2>2. f \in [Tasks -> TaskStates \cup {"None"}] /\ (\A u \in Tasks : f[u] = "Paused" => state[u] = "Paused")
    BY DEF TypeOK, TaskStates
  <2>3. e \in [Tasks -> Seq(TaskStates)]
    <3>1. s \in TaskStates /\ "Canceled" \in TaskStates
      BY DEF TaskStates
    <3>2. <<s>> \in Seq(TaskStates) /\ <<"Canceled">> \in Seq(TaskStates) /\ <<>> \in Seq(TaskStates)
      BY <3>1
    <3> QED BY <3>2
  <2> HIDE DEF f, e
  <2>4. NodeType'
    BY <1>0, <2>1, <2>2, <2>3, MoveToType, EmitType DEF NodeType
  <2>5. Downstream(t) \in SUBSET Tasks
    BY DEF Downstream, Descendants, Submitted
  <2>6. canceled' \subseteq Tokens
    BY <2>1, <2>5, RequestCancelType
  <2> QED BY <1>1, <1>3, <2>1, <2>4, <2>6 DEF FinishWith, TypeOK, NodeType
<1>4. CASE FinishLate(w, t)
  BY <1>3, <1>4 DEF FinishLate
<1>5. CASE FinishErr(w, t)
  BY <1>3, <1>5 DEF FinishErr
<1> QED BY <1>2, <1>4, <1>5 DEF Finish

LEMMA WorkerType ==
  ASSUME TypeOK, NEW w \in Workers, WorkerStep(w)
  PROVE  TypeOK'
<1> USE DEF nodeVars, graphVars, pauseVars, runVars, workerVars, clientVars, seenVars
<1>0. w \in Threads
  BY DEF Threads
<1>1. ASSUME NEW t \in Tasks, Dispatch(w, t)
      PROVE  TypeOK'
  <2>1. With({t}, "Running") \in [Tasks -> TaskStates \cup {"None"}] /\ Event({t}, "Running") \in [Tasks -> Seq(TaskStates)]
    BY WithType DEF TaskStates
  <2>2. \A u \in Tasks : With({t}, "Running")[u] = "Paused" => state[u] = "Paused"
    BY DEF With
  <2>3. MoveTo(With({t}, "Running")) /\ readySet' \subseteq Tasks /\ Emit(w, Event({t}, "Running")) /\ Reserve(t)
    BY <1>1 DEF Dispatch, EraseReady, TypeOK
  <2>4. NodeType' /\ inUse' \in [Resources -> Nat]
    BY <1>0, <2>1, <2>2, <2>3, MoveToType, EmitType, UsageType DEF NodeType
  <2>5. /\ wpc' \in [Workers -> WorkerPcs] /\ wtask' \in [Workers -> Tasks \cup {NoTask}]
        /\ runningSet' \subseteq Tasks /\ pauseReq' \in [Tasks -> BOOLEAN]
    BY <1>1 DEF Dispatch, TypeOK, WorkerPcs
  <2> QED BY <1>1, <2>4, <2>5 DEF Dispatch, TypeOK, NodeType
<1>2. ASSUME NEW t \in Tasks, Progress(w, t)
      PROVE  TypeOK'
  <2>1. Event({t}, "Running") \in [Tasks -> Seq(TaskStates)]
    BY WithType DEF TaskStates
  <2>2. outbox' \in [Threads -> [Tasks -> Seq(TaskStates)]]
    BY <1>0, <1>2, <2>1, EmitType DEF Progress
  <2> QED BY <1>2, <2>2 DEF Progress, TypeOK
<1>3. ASSUME NEW t \in Tasks, Checkpoint(w, t)
      PROVE  TypeOK'
  <2>1. With({t}, "Paused") \in [Tasks -> TaskStates \cup {"None"}]
    BY WithType DEF TaskStates
  <2>2. [NoEvents EXCEPT ![t] = <<"Running", "Paused">>] \in [Tasks -> Seq(TaskStates)]
    <3>1. "Running" \in TaskStates /\ "Paused" \in TaskStates
      BY DEF TaskStates
    <3>2. <<"Running", "Paused">> \in Seq(TaskStates) /\ <<>> \in Seq(TaskStates)
      BY <3>1
    <3> QED BY <3>2 DEF NoEvents
  <2>3. \A u \in Tasks : With({t}, "Paused")[u] = "Paused" /\ state[u] # "Paused" => state[u] \in {"Queued", "Ready", "Running"}
    BY <1>3 DEF With, Checkpoint
  <2>4. MoveTo(With({t}, "Paused")) /\ readySet' \subseteq Tasks /\ Emit(w, [NoEvents EXCEPT ![t] = <<"Running", "Paused">>])
    BY <1>3 DEF Checkpoint, TypeOK
  <2>5. NodeType'
    BY <1>0, <2>1, <2>2, <2>3, <2>4, MoveToType, EmitType DEF NodeType
  <2>6. wpc' \in [Workers -> WorkerPcs] /\ pauseReq' \in [Tasks -> BOOLEAN]
    BY <1>3 DEF Checkpoint, TypeOK, WorkerPcs
  <2> QED BY <1>3, <2>5, <2>6 DEF Checkpoint, TypeOK, NodeType
<1>4. ASSUME NEW t \in Tasks, Finish(w, t)
      PROVE  TypeOK'
  BY <1>4, FinishType
<1>5. CASE Unpark(w)
  <2> DEFINE e == IF state[wtask[w]] = "Running" THEN Event({wtask[w]}, "Running") ELSE NoEvents
  <2>1. e \in [Tasks -> Seq(TaskStates)]
    BY WithType DEF TaskStates
  <2>2. Emit(w, e)
    BY <1>5 DEF Unpark
  <2> HIDE DEF e
  <2>3. outbox' \in [Threads -> [Tasks -> Seq(TaskStates)]]
    BY <1>0, <2>1, <2>2, EmitType
  <2>4. wpc' \in [Workers -> WorkerPcs]
    BY <1>5 DEF Unpark, TypeOK, WorkerPcs
  <2> QED BY <1>5, <2>3, <2>4 DEF Unpark, TypeOK
<1>6. CASE Exit(w)
  BY <1>6 DEF Exit, TypeOK, WorkerPcs
<1> QED BY <1>1, <1>2, <1>3, <1>4, <1>5, <1>6 DEF WorkerStep

LEMMA DeliverType ==
  ASSUME TypeOK, NEW x \in Threads, NEW t \in Tasks, Deliver(x, t)
  PROVE  TypeOK'
<1> USE DEF nodeVars, graphVars, pauseVars, runVars, workerVars, clientVars
<1>1. outbox[x][t] \in Seq(TaskStates) /\ outbox[x][t] # <<>>
  BY DEF TypeOK, Deliver
<1>2. Head(outbox[x][t]) \in TaskStates /\ Tail(outbox[x][t]) \in Seq(TaskStates)
  BY <1>1
<1>3. outbox' \in [Threads -> [Tasks -> Seq(TaskStates)]]
  BY <1>2 DEF TypeOK, Deliver
<1>4. ended' \in [Tasks -> Nat]
  BY <1>2 DEF TypeOK, Deliver
<1> QED BY <1>3, <1>4 DEF TypeOK, Deliver

(* Every value of every field stays in its type, whatever the calls: the     *)
(* state a resume() goes back to exists, counts and totals are naturals.    *)
THEOREM TypeCorrect == Spec => []TypeOK
<1> USE DEF nodeVars, graphVars, pauseVars, runVars, workerVars, clientVars, seenVars
<1>1. Init => TypeOK
  <2> SUFFICES ASSUME Init PROVE TypeOK
    OBVIOUS
  <2>1. /\ state \in [Tasks -> TaskStates \cup {"None"}]
        /\ pausedFrom \in [Tasks -> {"None", "Queued", "Ready", "Running"}]
        /\ unmet \in [Tasks -> Nat] /\ succ \in [Tasks -> [Tasks -> Nat]]
        /\ pauseReq \in [Tasks -> BOOLEAN]
    BY DEF Init
  <2>2. deadline \in [Tasks -> 0..PauseTimeout] /\ readyAge \in [Tasks -> 0..MaxAge]
    BY ConfigAssumption DEF Init
  <2>3. deps \in [Tasks -> Seq(Tasks)] /\ outbox \in [Threads -> [Tasks -> Seq(TaskStates)]]
    BY DEF Init, NoEvents
  <2>4. /\ readySet \subseteq Tasks /\ runningSet \subseteq Tasks /\ inUse \in [Resources -> Nat]
        /\ canceled \subseteq Tokens
        /\ ended \in [Tasks -> Nat] /\ stopping \in BOOLEAN
    BY DEF Init
  <2>5. /\ wpc \in [Workers -> WorkerPcs] /\ wtask \in [Workers -> Tasks \cup {NoTask}]
        /\ cpc \in [Clients -> ClientPcs] /\ cset \in [Clients -> SUBSET Tasks]
    BY DEF Init, WorkerPcs, ClientPcs
  <2> QED BY <2>1, <2>2, <2>3, <2>4, <2>5 DEF TypeOK
<1>2. TypeOK /\ [Next]_vars => TypeOK'
  <2> SUFFICES ASSUME TypeOK, [Next]_vars PROVE TypeOK'
    OBVIOUS
  <2>1. ASSUME NEW k \in Clients, ClientStep(k) PROVE TypeOK'
    BY <2>1, ClientType
  <2>2. ASSUME NEW w \in Workers, WorkerStep(w) PROVE TypeOK'
    BY <2>2, WorkerType
  <2>3. ASSUME NEW x \in Threads, NEW t \in Tasks, Deliver(x, t) PROVE TypeOK'
    BY <2>3, DeliverType
  <2>4. CASE Stop
    BY <2>4 DEF Stop, TypeOK
  <2>5. CASE ClockTick
    <3>1. \A t \in Tasks : readyAge[t] \in 0..MaxAge /\ deadline[t] \in 0..PauseTimeout
      BY DEF TypeOK
    <3>2. readyAge' \in [Tasks -> 0..MaxAge]
      BY <2>5, <3>1, ConfigAssumption DEF ClockTick
    <3>3. \A t \in Tasks : MaxOf(0, deadline[t] - 1) \in 0..PauseTimeout
      BY <3>1, ConfigAssumption DEF MaxOf
    <3>4. deadline' \in [Tasks -> 0..PauseTimeout]
      BY <2>5, <3>3 DEF ClockTick
    <3> QED BY <2>5, <3>2, <3>4 DEF ClockTick, TypeOK
  <2>6. CASE UNCHANGED vars
    BY <2>6 DEF vars, TypeOK
  <2> QED BY <2>1, <2>2, <2>3, <2>4, <2>5, <2>6 DEF Next
<1> QED BY <1>1, <1>2, PTL DEF Spec

-----------------------------------------------------------------------------
(* The sets agree.  With TypeOK, SetsAgree is inductive. *)

(* What MoveTo does to state and paused_from. *)
LEMMA MoveToFacts ==
  ASSUME TypeOK, \A t \in Tasks : state[t] = "Paused" <=> pausedFrom[t] # "None",
         NEW f \in [Tasks -> TaskStates \cup {"None"}],
         \A t \in Tasks : f[t] = "Paused" /\ state[t] # "Paused" => state[t] \in {"Queued", "Ready", "Running"},
         MoveTo(f)
  PROVE  /\ \A t \in Tasks : state'[t] = f[t]
         /\ \A t \in Tasks : state'[t] = "Paused" <=> pausedFrom'[t] # "None"
         /\ \A t \in Tasks : f[t] = state[t] => pausedFrom'[t] = pausedFrom[t]
         /\ \A t \in Tasks : f[t] # state[t] /\ f[t] = "Paused" => pausedFrom'[t] = state[t]
<1>1. \A t \in Tasks : state'[t] = f[t]
  BY DEF MoveTo
<1>2. \A t \in Tasks : f[t] = state[t] => pausedFrom'[t] = pausedFrom[t]
  BY DEF MoveTo
<1>3. \A t \in Tasks : f[t] # state[t] /\ f[t] = "Paused" => pausedFrom'[t] = state[t]
  BY DEF MoveTo, PausedFromAfter
<1>4. \A t \in Tasks : f[t] # state[t] /\ f[t] # "Paused" => pausedFrom'[t] = "None"
  BY DEF MoveTo, PausedFromAfter
<1> QED BY <1>1, <1>2, <1>3, <1>4

(* A worker that is not in its loop's wait holds a task of running_set_. *)
LEMMA BusyWorker ==
  ASSUME TypeOK, SetsAgree, NEW w \in Workers, wpc[w] \in {"exec", "parked"}
  PROVE  wtask[w] \in Tasks /\ wtask[w] \in runningSet /\ wtask[w] # NoTask
<1>1. wtask[w] # NoTask
  BY DEF SetsAgree
<1>2. wtask[w] \in Tasks
  BY <1>1 DEF TypeOK
<1> QED BY <1>1, <1>2 DEF SetsAgree

LEMMA CancelLockedAgree ==
  ASSUME TypeOK, SetsAgree, NEW x \in Threads, NEW t \in Tasks, CancelLocked(x, t),
         UNCHANGED <<runningSet, wpc, wtask, stopping>>
  PROVE  SetsAgree'
<1>1. \A u \in CancelHits(t) : u \in Tasks /\ ~IsTerminal(state[u])
  BY DEF CancelHits, Downstream, Descendants, Submitted
<1>2. With(CancelHits(t), "Canceled") \in [Tasks -> TaskStates \cup {"None"}]
  BY WithType DEF TaskStates
<1>3. \A u \in Tasks : With(CancelHits(t), "Canceled")[u] = IF u \in CancelHits(t) THEN "Canceled" ELSE state[u]
  BY DEF With
<1>4. /\ \A u \in Tasks : state'[u] = IF u \in CancelHits(t) THEN "Canceled" ELSE state[u]
      /\ \A u \in Tasks : state'[u] = "Paused" <=> pausedFrom'[u] # "None"
      /\ \A u \in Tasks : u \notin CancelHits(t) => pausedFrom'[u] = pausedFrom[u]
  BY <1>2, <1>3, MoveToFacts DEF CancelLocked, SetsAgree
<1>5. readySet' = readySet \ CancelHits(t)
  BY DEF CancelLocked, EraseReady
<1>6. readySet' = {u \in Tasks : state'[u] = "Ready"}
  BY <1>4, <1>5 DEF SetsAgree
<1>7. \A u \in Tasks : Active(u)' => Active(u)
  BY <1>4 DEF Active
<1>8. \A u \in runningSet : Active(u)' \/ state'[u] = "Canceled"
  BY <1>4 DEF Active, SetsAgree, TypeOK
<1>9. \A w \in Workers : wpc[w] = "exec" /\ state'[wtask[w]] = "Paused" => stopping
  <2> SUFFICES ASSUME NEW w \in Workers, wpc[w] = "exec", state'[wtask[w]] = "Paused" PROVE stopping
    OBVIOUS
  <2>1. wtask[w] \in Tasks
    BY BusyWorker
  <2> QED BY <2>1, <1>4 DEF SetsAgree
<1> QED BY <1>4, <1>6, <1>7, <1>8, <1>9 DEF SetsAgree

(* A transition of one task that no worker holds, to a state other than     *)
(* Running or a Paused that came from it.                                  *)
LEMMA IdleMoveAgree ==
  ASSUME TypeOK, SetsAgree, NEW t \in Tasks, NEW s \in TaskStates,
         MoveTo(With({t}, s)),
         t \notin runningSet, s # "Running",
         s = "Paused" => state[t] \in {"Queued", "Ready"},
         readySet' = IF s = "Ready" THEN readySet \cup {t} ELSE readySet \ {t},
         UNCHANGED <<runningSet, wpc, wtask, stopping>>
  PROVE  SetsAgree'
<1>1. With({t}, s) \in [Tasks -> TaskStates \cup {"None"}]
  BY WithType
<1>2. \A u \in Tasks : With({t}, s)[u] = IF u = t THEN s ELSE state[u]
  BY DEF With
<1>3. /\ \A u \in Tasks : state'[u] = IF u = t THEN s ELSE state[u]
      /\ \A u \in Tasks : state'[u] = "Paused" <=> pausedFrom'[u] # "None"
      /\ \A u \in Tasks : u # t => pausedFrom'[u] = pausedFrom[u]
      /\ s = "Paused" => pausedFrom'[t] \in {"Queued", "Ready"}
  <2>1. \A u \in Tasks : state[u] = "Paused" <=> pausedFrom[u] # "None"
    BY DEF SetsAgree
  <2>2. \A u \in Tasks : With({t}, s)[u] = "Paused" /\ state[u] # "Paused" => state[u] \in {"Queued", "Ready", "Running"}
    BY <1>2
  <2>3. s = "Paused" => state[t] # "Paused"
    OBVIOUS
  <2> QED BY <1>1, <1>2, <2>1, <2>2, <2>3, MoveToFacts
<1>4. readySet' = {u \in Tasks : state'[u] = "Ready"}
  BY <1>3 DEF SetsAgree
<1>5. \A u \in Tasks : Active(u)' => Active(u) /\ u # t
  BY <1>3 DEF Active
<1>6. \A u \in runningSet : Active(u)' \/ state'[u] = "Canceled"
  BY <1>3 DEF Active, SetsAgree, TypeOK
<1>7. \A w \in Workers : wpc[w] = "exec" /\ state'[wtask[w]] = "Paused" => stopping
  <2> SUFFICES ASSUME NEW w \in Workers, wpc[w] = "exec", state'[wtask[w]] = "Paused" PROVE stopping
    OBVIOUS
  <2>1. wtask[w] \in Tasks /\ wtask[w] # t
    BY BusyWorker
  <2> QED BY <2>1, <1>3 DEF SetsAgree
<1> QED BY <1>3, <1>4, <1>5, <1>6, <1>7 DEF SetsAgree

LEMMA SubmitAgree ==
  ASSUME TypeOK, SetsAgree, NEW k \in Clients, NEW t \in Tasks, NEW ds \in DepLists[t],
         SubmitAccept(k, t, ds) \/ SubmitBlocked(k, t, ds) \/ SubmitReject(k, t, ds)
  PROVE  SetsAgree'
<1> USE DEF nodeVars, graphVars, pauseVars, runVars, workerVars, clientVars, seenVars
<1>1. state[t] = "None"
  BY DEF SubmitAccept, SubmitBlocked, SubmitReject, Submittable
<1>2. t \notin runningSet /\ t \notin readySet
  BY <1>1 DEF SetsAgree, Active
<1>3. CASE SubmitAccept(k, t, ds)
  <2> DEFINE s == IF Waiting(ds) = {} THEN "Ready" ELSE "Queued"
  <2>1. s \in TaskStates /\ s # "Running" /\ s # "Paused"
    BY DEF TaskStates
  <2>2. MoveTo(With({t}, s)) /\ readySet' = IF s = "Ready" THEN readySet \cup {t} ELSE readySet
    BY <1>3 DEF SubmitAccept
  <2>3. UNCHANGED <<runningSet, wpc, wtask, stopping>>
    BY <1>3 DEF SubmitAccept
  <2> HIDE DEF s
  <2>4. readySet' = IF s = "Ready" THEN readySet \cup {t} ELSE readySet \ {t}
    BY <1>2, <2>2
  <2> QED BY <1>2, <2>1, <2>2, <2>3, <2>4, IdleMoveAgree
<1>4. CASE SubmitBlocked(k, t, ds)
  <2>1. MoveTo(With({t}, "Canceled")) /\ UNCHANGED <<runningSet, wpc, wtask, stopping>> /\ readySet' = readySet \ {t}
    BY <1>2, <1>4 DEF SubmitBlocked
  <2>2. "Canceled" \in TaskStates
    BY DEF TaskStates
  <2> QED BY <1>2, <2>1, <2>2, IdleMoveAgree
<1>5. CASE SubmitReject(k, t, ds)
  BY <1>5 DEF SubmitReject, SetsAgree, Active
<1> QED BY <1>3, <1>4, <1>5

LEMMA ClientAgree ==
  ASSUME TypeOK, SetsAgree, NEW k \in Clients, ClientStep(k)
  PROVE  SetsAgree'
<1> USE DEF nodeVars, graphVars, pauseVars, runVars, workerVars, clientVars, seenVars
<1>0. k \in Threads
  BY DEF Threads
<1>1. ASSUME NEW t \in Tasks, NEW ds \in DepLists[t],
             SubmitAccept(k, t, ds) \/ SubmitBlocked(k, t, ds) \/ SubmitReject(k, t, ds)
      PROVE  SetsAgree'
  BY <1>1, SubmitAgree
<1>2. ASSUME NEW t \in Tasks, Cancel(k, t) \/ PauseCancel(k, t) \/ TickCancel(k, t)
      PROVE  SetsAgree'
  <2>1. CancelLocked(k, t) /\ UNCHANGED <<runningSet, wpc, wtask, stopping>>
    BY <1>2 DEF Cancel, PauseCancel, TickCancel
  <2> QED BY <1>0, <2>1, CancelLockedAgree
<1>3. ASSUME NEW t \in Tasks, PauseIdle(k, t)
      PROVE  SetsAgree'
  <2>1. /\ MoveTo(With({t}, "Paused")) /\ UNCHANGED <<runningSet, wpc, wtask, stopping>>
        /\ readySet' = readySet \ {t} /\ state[t] \in {"Queued", "Ready"}
    BY <1>3 DEF PauseIdle, EraseReady
  <2>2. t \notin runningSet
    BY <2>1 DEF SetsAgree, Active
  <2>3. "Paused" \in TaskStates
    BY DEF TaskStates
  <2> QED BY <2>1, <2>2, <2>3, IdleMoveAgree
<1>4. ASSUME NEW t \in Tasks, Resume(k, t)
      PROVE  SetsAgree'
  <2>1. state[t] = "Paused" /\ pausedFrom[t] \in {"Queued", "Ready", "Running"} /\ t \notin readySet /\ ~stopping
    BY <1>4 DEF Resume, SetsAgree, TypeOK, ClientFree
  <2>2. /\ MoveTo(With({t}, pausedFrom[t])) /\ UNCHANGED <<runningSet, wpc, wtask, stopping>>
        /\ readySet' = IF pausedFrom[t] = "Ready" THEN readySet \cup {t} ELSE readySet \ {t}
    BY <1>4, <2>1 DEF Resume
  <2>3. pausedFrom[t] \in TaskStates
    BY <2>1 DEF TaskStates
  <2>4. CASE pausedFrom[t] # "Running"
    <3>1. t \notin runningSet
      BY <2>1, <2>4 DEF SetsAgree, Active
    <3>2. pausedFrom[t] # "Paused"
      BY <2>1
    <3> QED BY <2>2, <2>3, <2>4, <3>1, <3>2, IdleMoveAgree
  <2>5. CASE pausedFrom[t] = "Running"
    <3>1. With({t}, "Running") \in [Tasks -> TaskStates \cup {"None"}]
      BY WithType DEF TaskStates
    <3>2. \A u \in Tasks : With({t}, "Running")[u] = IF u = t THEN "Running" ELSE state[u]
      BY DEF With
    <3>3. /\ \A u \in Tasks : state'[u] = IF u = t THEN "Running" ELSE state[u]
          /\ \A u \in Tasks : state'[u] = "Paused" <=> pausedFrom'[u] # "None"
          /\ \A u \in Tasks : u # t => pausedFrom'[u] = pausedFrom[u]
      <4>1. \A u \in Tasks : state[u] = "Paused" <=> pausedFrom[u] # "None"
        BY DEF SetsAgree
      <4>2. \A u \in Tasks : With({t}, "Running")[u] = "Paused" => state[u] = "Paused"
        BY <3>2
      <4>3. MoveTo(With({t}, "Running"))
        BY <2>2, <2>5
      <4> QED BY <3>1, <3>2, <4>1, <4>2, <4>3, MoveToFacts
    <3>4. \A u \in Tasks : Active(u)' <=> Active(u)
      BY <2>1, <2>5, <3>3 DEF Active
    <3>5. readySet' = {u \in Tasks : state'[u] = "Ready"}
      BY <2>1, <2>2, <2>5, <3>3 DEF SetsAgree
    <3>6. \A w \in Workers : wpc[w] = "exec" /\ state'[wtask[w]] = "Paused" => stopping
      <4> SUFFICES ASSUME NEW w \in Workers, wpc[w] = "exec", state'[wtask[w]] = "Paused" PROVE stopping
        OBVIOUS
      <4>1. wtask[w] \in Tasks
        BY BusyWorker
      <4> QED BY <4>1, <3>3 DEF SetsAgree
    <3>7. \A u \in runningSet : Active(u)' \/ state'[u] = "Canceled"
      <4>1. \A u \in runningSet : u \in Tasks /\ (Active(u) \/ state[u] = "Canceled")
        BY DEF SetsAgree
      <4> QED BY <3>3, <3>4, <2>1, <4>1
    <3> QED BY <2>2, <3>3, <3>4, <3>5, <3>6, <3>7 DEF SetsAgree
  <2> QED BY <2>4, <2>5
<1>5. ASSUME NEW t \in Tasks, PauseRunning(k, t)
      PROVE  SetsAgree'
  BY <1>5 DEF PauseRunning, SetsAgree, Active
<1>6. CASE PauseReturn(k) \/ PauseExpire(k) \/ TickScan(k)
  BY <1>6 DEF PauseReturn, PauseExpire, TickScan, SetsAgree, Active
<1> QED BY <1>1, <1>2, <1>3, <1>4, <1>5, <1>6 DEF ClientStep

(* The transition f of a step in which worker w lets go of t. *)
LEMMA EndAgree ==
  ASSUME TypeOK, SetsAgree, NEW w \in Workers, NEW t \in Tasks, EndExecution(w, t),
         NEW f \in [Tasks -> TaskStates \cup {"None"}], MoveTo(f),
         \A u \in Tasks : f[u] \in {state[u], "Ready", "Succeeded", "Failed", "Canceled"},
         \A u \in Tasks : f[u] = "Ready" /\ state[u] # "Ready" => state[u] = "Queued",
         \A u \in Tasks : u # t /\ f[u] # state[u] => f[u] \in {"Ready", "Canceled"},
         f[t] = "Paused" => stopping, f[t] # "Running",
         readySet' = {u \in Tasks : f[u] = "Ready"},
         stopping' = stopping
  PROVE  SetsAgree'
<1>1. wpc[w] = "exec" /\ wtask[w] = t /\ t \in runningSet /\ t # NoTask
  BY BusyWorker DEF EndExecution, Executing
<1>2. /\ runningSet' = runningSet \ {t}
      /\ wpc' = [wpc EXCEPT ![w] = "idle"] /\ wtask' = [wtask EXCEPT ![w] = NoTask]
  BY DEF EndExecution
<1>3. /\ \A u \in Tasks : state'[u] = f[u]
      /\ \A u \in Tasks : state'[u] = "Paused" <=> pausedFrom'[u] # "None"
      /\ \A u \in Tasks : f[u] = state[u] => pausedFrom'[u] = pausedFrom[u]
  <2>1. \A u \in Tasks : state[u] = "Paused" <=> pausedFrom[u] # "None"
    BY DEF SetsAgree
  <2>2. \A u \in Tasks : f[u] = "Paused" => state[u] = "Paused"
    OBVIOUS
  <2> QED BY <2>1, <2>2, MoveToFacts
<1>4. readySet' = {u \in Tasks : state'[u] = "Ready"}
  BY <1>3
<1>5. \A v \in Workers : wtask'[v] = NoTask <=> wpc'[v] \in {"idle", "exited"}
  BY <1>2 DEF SetsAgree, TypeOK
<1>6. \A v, x \in Workers : wtask'[v] = wtask'[x] /\ wtask'[v] # NoTask => v = x
  BY <1>2 DEF SetsAgree, TypeOK
<1>7. runningSet' = {u \in Tasks : \E v \in Workers : wtask'[v] = u}
  <2>1. \A v \in Workers : v # w => wtask'[v] = wtask[v] /\ wtask[v] # t
    BY <1>1, <1>2 DEF SetsAgree, TypeOK
  <2>2. wtask'[w] = NoTask
    BY <1>2 DEF TypeOK
  <2>3. runningSet = {u \in Tasks : \E v \in Workers : wtask[v] = u} /\ NoTask \notin Tasks
    BY ThreadsAssumption DEF SetsAgree, NoTask
  <2> QED BY <1>1, <1>2, <2>1, <2>2, <2>3
<1>8. \A u \in Tasks : Active(u)' => Active(u) /\ f[u] = state[u]
  BY <1>3 DEF Active
<1>9. \A u \in Tasks : Active(u)' => u \in runningSet' \/ stopping'
  <2> SUFFICES ASSUME NEW u \in Tasks, Active(u)' PROVE u \in runningSet' \/ stopping'
    OBVIOUS
  <2>1. u \in runningSet \/ stopping
    BY <1>8 DEF SetsAgree
  <2>2. u = t => stopping
    BY <1>3 DEF Active
  <2> QED BY <1>2, <2>1, <2>2
<1>10. \A u \in runningSet' : Active(u)' \/ state'[u] = "Canceled"
  <2> SUFFICES ASSUME NEW u \in runningSet', state'[u] # "Canceled" PROVE Active(u)'
    OBVIOUS
  <2>1. u \in Tasks /\ u # t /\ (Active(u) \/ state[u] = "Canceled")
    BY <1>2 DEF SetsAgree
  <2>2. f[u] = state[u]
    BY <1>3, <2>1 DEF Active
  <2> QED BY <1>3, <2>1, <2>2 DEF Active
<1>11. \A v \in Workers : wpc'[v] = "exec" /\ state'[wtask'[v]] = "Paused" => stopping'
  <2> SUFFICES ASSUME NEW v \in Workers, wpc'[v] = "exec", state'[wtask'[v]] = "Paused" PROVE stopping
    OBVIOUS
  <2>1. v # w
    BY <1>2 DEF TypeOK
  <2>2. wpc[v] = "exec" /\ wtask'[v] = wtask[v]
    BY <1>2, <2>1 DEF TypeOK
  <2>3. wtask[v] \in Tasks
    BY <2>2, BusyWorker
  <2>4. state[wtask[v]] = "Paused"
    BY <1>3, <2>2, <2>3
  <2> QED BY <2>2, <2>4 DEF SetsAgree
<1> QED BY <1>3, <1>4, <1>5, <1>6, <1>7, <1>9, <1>10, <1>11 DEF SetsAgree

LEMMA FinishAgree ==
  ASSUME TypeOK, SetsAgree, NEW w \in Workers, NEW t \in Tasks, Finish(w, t)
  PROVE  SetsAgree'
<1> USE DEF nodeVars, graphVars, pauseVars, runVars, workerVars, clientVars, seenVars
<1>1. CASE FinishOk(w, t)
  <2> DEFINE f == [u \in Tasks |-> IF u = t THEN "Succeeded" ELSE IF u \in Woken(t) THEN "Ready" ELSE state[u]]
  <2>1. MoveTo(f) /\ EndExecution(w, t) /\ readySet' = readySet \cup Woken(t) /\ stopping' = stopping
    BY <1>1 DEF FinishOk
  <2>2. f \in [Tasks -> TaskStates \cup {"None"}]
    BY DEF TypeOK, TaskStates
  <2>3. state[t] # "Ready" /\ t \notin Woken(t)
    <3>1. wtask[w] = t /\ t \in runningSet
      BY <2>1, BusyWorker DEF EndExecution, Executing
    <3> QED BY <3>1 DEF SetsAgree, Active, Woken
  <2>4. readySet' = {u \in Tasks : f[u] = "Ready"}
    BY <2>1, <2>3 DEF SetsAgree, Woken
  <2>5. \A u \in Tasks : f[u] \in {state[u], "Ready", "Succeeded", "Failed", "Canceled"}
    OBVIOUS
  <2>6. \A u \in Tasks : f[u] = "Ready" /\ state[u] # "Ready" => state[u] = "Queued"
    BY DEF Woken
  <2>7. (\A u \in Tasks : u # t /\ f[u] # state[u] => f[u] \in {"Ready", "Canceled"}) /\ f[t] = "Succeeded"
    OBVIOUS
  <2> HIDE DEF f
  <2> QED BY <2>1, <2>2, <2>4, <2>5, <2>6, <2>7, EndAgree
<1>2. ASSUME NEW s \in {"Failed", "Canceled"}, FinishWith(w, t, s)
      PROVE  SetsAgree'
  <2> DEFINE f == [u \in Tasks |-> IF u \in EndsAs(t, s) THEN s ELSE IF u \in Downstream(t) THEN "Canceled" ELSE state[u]]
  <2>1. MoveTo(f) /\ EndExecution(w, t) /\ readySet' = readySet \ Downstream(t) /\ stopping' = stopping
    BY <1>2 DEF FinishWith, EraseReady
  <2>2. f \in [Tasks -> TaskStates \cup {"None"}]
    BY DEF TypeOK, TaskStates
  <2>3. wpc[w] = "exec" /\ wtask[w] = t /\ t \in runningSet
    BY <2>1, BusyWorker DEF EndExecution, Executing
  <2>4. state[t] # "Ready" /\ EndsAs(t, s) \subseteq {t}
    BY <2>3 DEF SetsAgree, Active, EndsAs
  <2>5. readySet' = {u \in Tasks : f[u] = "Ready"}
    BY <2>1, <2>4 DEF SetsAgree
  <2>6. \A u \in Tasks : f[u] \in {state[u], "Ready", "Succeeded", "Failed", "Canceled"}
    OBVIOUS
  <2>7. \A u \in Tasks : f[u] = "Ready" => state[u] = "Ready"
    OBVIOUS
  <2>8. \A u \in Tasks : u # t /\ f[u] # state[u] => f[u] \in {"Ready", "Canceled"}
    BY <2>4
  <2>9. f[t] # "Running" /\ (f[t] = "Paused" => stopping)
    <3>1. state[t] = "Running" => t \in EndsAs(t, s)
      BY DEF EndsAs, Legal, Successors
    <3>2. state[t] = "Paused" => stopping
      BY <2>3 DEF SetsAgree
    <3> QED BY <3>1, <3>2
  <2> HIDE DEF f
  <2> QED BY <2>1, <2>2, <2>5, <2>6, <2>7, <2>8, <2>9, EndAgree
<1>3. CASE FinishLate(w, t)
  BY <1>2, <1>3 DEF FinishLate
<1>4. CASE FinishErr(w, t)
  BY <1>2, <1>4 DEF FinishErr
<1> QED BY <1>1, <1>3, <1>4 DEF Finish

LEMMA PickedIsReady ==
  ASSUME NEW t \in PickCandidates
  PROVE  t \in readySet /\ state[t] = "Ready" /\ FitsCpuHard(t)
BY DEF PickCandidates, Best

LEMMA DispatchAgree ==
  ASSUME TypeOK, SetsAgree, NEW w \in Workers, NEW t \in Tasks, Dispatch(w, t)
  PROVE  SetsAgree'
<1> USE DEF graphVars, clientVars, seenVars
<1>1. t \in readySet /\ state[t] = "Ready" /\ t \notin runningSet
  BY PickedIsReady DEF Dispatch, SetsAgree, Active
<1>2. /\ readySet' = readySet \ {t} /\ runningSet' = runningSet \cup {t} /\ stopping' = stopping
      /\ wpc[w] = "idle" /\ wpc' = [wpc EXCEPT ![w] = "exec"] /\ wtask' = [wtask EXCEPT ![w] = t]
      /\ MoveTo(With({t}, "Running"))
  BY DEF Dispatch, EraseReady
<1>3. With({t}, "Running") \in [Tasks -> TaskStates \cup {"None"}]
  BY WithType DEF TaskStates
<1>4. \A u \in Tasks : With({t}, "Running")[u] = IF u = t THEN "Running" ELSE state[u]
  BY DEF With
<1>5. /\ \A u \in Tasks : state'[u] = IF u = t THEN "Running" ELSE state[u]
      /\ \A u \in Tasks : state'[u] = "Paused" <=> pausedFrom'[u] # "None"
      /\ \A u \in Tasks : u # t => pausedFrom'[u] = pausedFrom[u]
  <2>1. \A u \in Tasks : state[u] = "Paused" <=> pausedFrom[u] # "None"
    BY DEF SetsAgree
  <2>2. \A u \in Tasks : With({t}, "Running")[u] = "Paused" => state[u] = "Paused"
    BY <1>4
  <2> QED BY <1>2, <1>3, <1>4, <2>1, <2>2, MoveToFacts
<1>6. readySet' = {u \in Tasks : state'[u] = "Ready"}
  BY <1>2, <1>5 DEF SetsAgree
<1>7. NoTask \notin Tasks
  BY ThreadsAssumption DEF NoTask
<1>8. wtask[w] = NoTask /\ \A v \in Workers : wtask[v] # t
  BY <1>1, <1>2 DEF SetsAgree
<1>9. wtask'[w] = t /\ wpc'[w] = "exec" /\ \A v \in Workers : v # w => wtask'[v] = wtask[v] /\ wpc'[v] = wpc[v]
  BY <1>2 DEF TypeOK
<1>10. \A v \in Workers : wtask'[v] = NoTask <=> wpc'[v] \in {"idle", "exited"}
  BY <1>7, <1>9 DEF SetsAgree
<1>11. \A v, x \in Workers : wtask'[v] = wtask'[x] /\ wtask'[v] # NoTask => v = x
  BY <1>8, <1>9 DEF SetsAgree
<1>12. runningSet' = {u \in Tasks : \E v \in Workers : wtask'[v] = u}
  <2>1. runningSet = {u \in Tasks : \E v \in Workers : wtask[v] = u}
    BY DEF SetsAgree
  <2> QED BY <1>2, <1>7, <1>8, <1>9, <2>1
<1>13. \A u \in Tasks : u # t => (Active(u)' <=> Active(u))
  BY <1>5 DEF Active
<1>14. \A u \in Tasks : Active(u)' => u \in runningSet' \/ stopping'
  BY <1>2, <1>13 DEF SetsAgree
<1>15. \A u \in runningSet' : Active(u)' \/ state'[u] = "Canceled"
  <2>1. Active(t)'
    BY <1>5 DEF Active
  <2>2. \A u \in runningSet : u \in Tasks /\ u # t /\ (Active(u) \/ state[u] = "Canceled")
    BY <1>1 DEF SetsAgree
  <2> QED BY <1>2, <1>5, <1>13, <2>1, <2>2
<1>16. \A v \in Workers : wpc'[v] = "exec" /\ state'[wtask'[v]] = "Paused" => stopping'
  <2> SUFFICES ASSUME NEW v \in Workers, wpc'[v] = "exec", state'[wtask'[v]] = "Paused" PROVE stopping
    BY <1>2
  <2>1. v # w
    BY <1>5, <1>9
  <2>2. wpc[v] = "exec" /\ wtask'[v] = wtask[v]
    BY <1>9, <2>1
  <2>3. wtask[v] \in Tasks /\ wtask[v] # t
    BY <1>8, <2>2, BusyWorker
  <2> QED BY <1>5, <2>2, <2>3 DEF SetsAgree
<1> QED BY <1>5, <1>6, <1>10, <1>11, <1>12, <1>14, <1>15, <1>16 DEF SetsAgree

LEMMA CheckpointAgree ==
  ASSUME TypeOK, SetsAgree, NEW w \in Workers, NEW t \in Tasks, Checkpoint(w, t)
  PROVE  SetsAgree'
<1> USE DEF graphVars, runVars, clientVars, seenVars
<1>1. /\ state[t] = "Running" /\ wpc[w] = "exec" /\ wtask[w] = t
      /\ MoveTo(With({t}, "Paused")) /\ wpc' = [wpc EXCEPT ![w] = "parked"]
      /\ UNCHANGED <<readySet, runningSet, wtask, stopping>>
  BY DEF Checkpoint, Executing
<1>2. With({t}, "Paused") \in [Tasks -> TaskStates \cup {"None"}]
  BY WithType DEF TaskStates
<1>3. \A u \in Tasks : With({t}, "Paused")[u] = IF u = t THEN "Paused" ELSE state[u]
  BY DEF With
<1>4. /\ \A u \in Tasks : state'[u] = IF u = t THEN "Paused" ELSE state[u]
      /\ \A u \in Tasks : state'[u] = "Paused" <=> pausedFrom'[u] # "None"
      /\ \A u \in Tasks : u # t => pausedFrom'[u] = pausedFrom[u]
      /\ pausedFrom'[t] = "Running"
  <2>1. \A u \in Tasks : state[u] = "Paused" <=> pausedFrom[u] # "None"
    BY DEF SetsAgree
  <2>2. \A u \in Tasks : With({t}, "Paused")[u] = "Paused" /\ state[u] # "Paused" => state[u] \in {"Queued", "Ready", "Running"}
    BY <1>1, <1>3
  <2> QED BY <1>1, <1>2, <1>3, <2>1, <2>2, MoveToFacts
<1>5. \A u \in Tasks : Active(u)' <=> Active(u)
  BY <1>1, <1>4 DEF Active
<1>6. readySet' = {u \in Tasks : state'[u] = "Ready"}
  BY <1>1, <1>4 DEF SetsAgree
<1>7. \A v \in Workers : wtask'[v] = NoTask <=> wpc'[v] \in {"idle", "exited"}
  BY <1>1 DEF SetsAgree, TypeOK
<1>8. \A u \in runningSet : Active(u)' \/ state'[u] = "Canceled"
  <2>1. \A u \in runningSet : u \in Tasks /\ (Active(u) \/ state[u] = "Canceled")
    BY DEF SetsAgree
  <2> QED BY <1>1, <1>4, <1>5, <2>1
<1>9. \A v \in Workers : wpc'[v] = "exec" /\ state'[wtask'[v]] = "Paused" => stopping'
  <2> SUFFICES ASSUME NEW v \in Workers, wpc'[v] = "exec", state'[wtask[v]] = "Paused" PROVE stopping
    BY <1>1
  <2>1. v # w /\ wpc[v] = "exec"
    BY <1>1 DEF TypeOK
  <2>2. wtask[v] \in Tasks /\ wtask[v] # t
    BY <1>1, <2>1, BusyWorker DEF SetsAgree
  <2> QED BY <1>4, <2>1, <2>2 DEF SetsAgree
<1> QED BY <1>1, <1>4, <1>5, <1>6, <1>7, <1>8, <1>9 DEF SetsAgree

LEMMA WorkerAgree ==
  ASSUME TypeOK, SetsAgree, NEW w \in Workers, WorkerStep(w)
  PROVE  SetsAgree'
<1> USE DEF nodeVars, graphVars, pauseVars, runVars, workerVars, clientVars, seenVars
<1>1. ASSUME NEW t \in Tasks, Dispatch(w, t) \/ Checkpoint(w, t) \/ Finish(w, t)
      PROVE  SetsAgree'
  BY <1>1, DispatchAgree, CheckpointAgree, FinishAgree
<1>2. ASSUME NEW t \in Tasks, Progress(w, t)
      PROVE  SetsAgree'
  BY <1>2 DEF Progress, SetsAgree, Active
<1>3. CASE Unpark(w)
  <2>1. /\ wpc[w] = "parked" /\ (stopping \/ state[wtask[w]] # "Paused") /\ wpc' = [wpc EXCEPT ![w] = "exec"]
        /\ UNCHANGED <<state, pausedFrom, readySet, runningSet, wtask, stopping>>
    BY <1>3 DEF Unpark, MayProceed
  <2>2. \A v \in Workers : wtask'[v] = NoTask <=> wpc'[v] \in {"idle", "exited"}
    BY <2>1 DEF SetsAgree, TypeOK
  <2>3. \A v \in Workers : wpc'[v] = "exec" /\ state'[wtask'[v]] = "Paused" => stopping'
    BY <2>1 DEF SetsAgree, TypeOK
  <2> QED BY <2>1, <2>2, <2>3 DEF SetsAgree, Active
<1>4. CASE Exit(w)
  <2>1. wpc[w] = "idle" /\ wpc' = [wpc EXCEPT ![w] = "exited"] /\ stopping
        /\ UNCHANGED <<state, pausedFrom, readySet, runningSet, wtask, stopping>>
    BY <1>4 DEF Exit
  <2>2. \A v \in Workers : wtask'[v] = NoTask <=> wpc'[v] \in {"idle", "exited"}
    BY <2>1 DEF SetsAgree, TypeOK
  <2> QED BY <2>1, <2>2 DEF SetsAgree, Active
<1> QED BY <1>1, <1>2, <1>3, <1>4 DEF WorkerStep

(* After every critical section ready_set_, running_set_, the worker threads *)
(* and the task states agree: in particular no two workers ever execute the *)
(* same task, and every active task has a worker.                          *)
THEOREM SetsAlwaysAgree == Spec => []SetsAgree
<1> USE DEF nodeVars, graphVars, pauseVars, runVars, workerVars, clientVars, seenVars
<1>1. Init => SetsAgree
  <2>1. NoTask \notin Tasks
    BY ThreadsAssumption DEF NoTask
  <2> QED BY <2>1 DEF Init, SetsAgree, Active
<1>2. TypeOK /\ SetsAgree /\ [Next]_vars => SetsAgree'
  <2> SUFFICES ASSUME TypeOK, SetsAgree, [Next]_vars PROVE SetsAgree'
    OBVIOUS
  <2>1. ASSUME NEW k \in Clients, ClientStep(k) PROVE SetsAgree'
    BY <2>1, ClientAgree
  <2>2. ASSUME NEW w \in Workers, WorkerStep(w) PROVE SetsAgree'
    BY <2>2, WorkerAgree
  <2>3. ASSUME NEW x \in Threads, NEW t \in Tasks, Deliver(x, t) PROVE SetsAgree'
    BY <2>3 DEF Deliver, SetsAgree, Active
  <2>4. CASE Stop
    BY <2>4 DEF Stop, SetsAgree, Active
  <2>5. CASE ClockTick
    BY <2>5 DEF ClockTick, SetsAgree, Active
  <2>6. CASE UNCHANGED vars
    BY <2>6 DEF vars, SetsAgree, Active
  <2> QED BY <2>1, <2>2, <2>3, <2>4, <2>5, <2>6 DEF Next
<1> QED BY <1>1, <1>2, TypeCorrect, PTL DEF Spec

-----------------------------------------------------------------------------
(* The hard CPU budget *)

(* No sequence of dispatches, cancellations and ends takes more CPU slots    *)
(* than the budget, for every demand and every number of workers.          *)
THEOREM CpuAlwaysWithinBudget == Spec => []CpuWithinBudget
<1> USE DEF nodeVars, graphVars, pauseVars, runVars, workerVars, clientVars, seenVars
<1>1. Init => CpuWithinBudget
  BY CpuHardType DEF Init, CpuWithinBudget, Resources
<1>2. TypeOK /\ CpuWithinBudget /\ [Next]_vars => CpuWithinBudget'
  <2> SUFFICES ASSUME TypeOK, CpuWithinBudget, [Next]_vars PROVE CpuWithinBudget'
    OBVIOUS
  <2>0. inUse["cpu"] \in Nat /\ "cpu" \in Resources
    BY DEF TypeOK, Resources
  <2>1. ASSUME NEW w \in Workers, NEW t \in Tasks, Dispatch(w, t) PROVE CpuWithinBudget'
    <3>1. inUse["cpu"] + Demand(t)["cpu"] <= CpuHard
      BY <2>1, PickedIsReady DEF Dispatch, FitsCpuHard
    <3>2. inUse'["cpu"] = inUse["cpu"] + Demand(t)["cpu"]
      BY <2>0, <2>1 DEF Dispatch, Reserve
    <3> QED BY <3>1, <3>2 DEF CpuWithinBudget, CpuHard
  <2>2. ASSUME NEW w \in Workers, NEW t \in Tasks, Finish(w, t) PROVE CpuWithinBudget'
    <3>1. Release(t)
      BY <2>2 DEF Finish, FinishOk, FinishLate, FinishErr, FinishWith, EndExecution
    <3>2. inUse'["cpu"] = MaxOf(0, inUse["cpu"] - Demand(t)["cpu"])
      BY <2>0, <3>1 DEF Release
    <3>3. Demand(t)["cpu"] \in Nat
      BY <2>0, DemandType
    <3>4. inUse'["cpu"] <= inUse["cpu"]
      BY <2>0, <3>2, <3>3 DEF MaxOf
    <3>5. inUse'["cpu"] \in Nat
      BY <2>0, <3>2, <3>3 DEF MaxOf
    <3> QED BY <2>0, <3>4, <3>5, CpuHardType DEF CpuWithinBudget, CpuHard
  <2>3. ASSUME NEW k \in Clients, ClientStep(k) PROVE UNCHANGED inUse
    BY <2>3 DEF ClientStep, SubmitAccept, SubmitBlocked, SubmitReject, Cancel, PauseIdle, PauseRunning,
                PauseReturn, PauseExpire, PauseCancel, Resume, TickScan, TickCancel
  <2>4. ASSUME NEW w \in Workers, WorkerStep(w),
               \A t \in Tasks : ~Dispatch(w, t) /\ ~Finish(w, t)
        PROVE  UNCHANGED inUse
    BY <2>4 DEF WorkerStep, Progress, Checkpoint, Unpark, Exit
  <2>5. CASE (\E x \in Threads, t \in Tasks : Deliver(x, t)) \/ Stop \/ ClockTick \/ UNCHANGED vars
    BY <2>5 DEF Deliver, Stop, ClockTick, vars, CpuWithinBudget, CpuHard
  <2> QED BY <2>1, <2>2, <2>3, <2>4, <2>5 DEF Next, CpuWithinBudget, CpuHard
<1> QED BY <1>1, <1>2, TypeCorrect, PTL DEF Spec

-----------------------------------------------------------------------------
(* Ends are final *)

EndKept == \A t \in Tasks : IsTerminal(state[t]) => state'[t] = state[t]

LEMMA WithKeepsEnds ==
  ASSUME TypeOK, NEW S, NEW s, MoveTo(With(S, s)), \A t \in Tasks \cap S : ~IsTerminal(state[t])
  PROVE  EndKept
BY DEF MoveTo, With, EndKept

LEMMA StepKeepsEnds ==
  ASSUME TypeOK, [Next]_vars
  PROVE  EndKept
<1> USE DEF nodeVars, graphVars, pauseVars, runVars, workerVars, clientVars, seenVars
<1>1. ASSUME NEW x \in Threads, NEW t \in Tasks, CancelLocked(x, t)
      PROVE  EndKept
  <2>1. \A u \in Tasks \cap CancelHits(t) : ~IsTerminal(state[u])
    BY DEF CancelHits, Downstream
  <2> QED BY <1>1, <2>1, WithKeepsEnds DEF CancelLocked
<1>2. ASSUME NEW k \in Clients, ClientStep(k)
      PROVE  EndKept
  <2>1. ASSUME NEW t \in Tasks, Cancel(k, t) \/ PauseCancel(k, t) \/ TickCancel(k, t)
        PROVE  EndKept
    <3>1. k \in Threads /\ CancelLocked(k, t)
      BY <2>1 DEF Threads, Cancel, PauseCancel, TickCancel
    <3> QED BY <1>1, <3>1
  <2>2. ASSUME NEW t \in Tasks, NEW s, MoveTo(With({t}, s)), state[t] \in {"None", "Queued", "Ready", "Paused"}
        PROVE  EndKept
    <3>1. \A u \in Tasks \cap {t} : ~IsTerminal(state[u])
      BY <2>2 DEF IsTerminal
    <3> QED BY <2>2, <3>1, WithKeepsEnds
  <2>3. ASSUME NEW t \in Tasks, NEW ds \in DepLists[t], SubmitAccept(k, t, ds) \/ SubmitBlocked(k, t, ds)
        PROVE  EndKept
    <3>1. state[t] = "None" /\ \E s : MoveTo(With({t}, s))
      BY <2>3 DEF SubmitAccept, SubmitBlocked, Submittable
    <3> QED BY <2>2, <3>1
  <2>4. ASSUME NEW t \in Tasks, PauseIdle(k, t) \/ Resume(k, t)
        PROVE  EndKept
    <3>1. state[t] \in {"Queued", "Ready", "Paused"} /\ \E s : MoveTo(With({t}, s))
      BY <2>4 DEF PauseIdle, Resume
    <3> QED BY <2>2, <3>1
  <2>5. ASSUME NEW t \in Tasks, NEW ds \in DepLists[t], SubmitReject(k, t, ds)
        PROVE  EndKept
    BY <2>5 DEF SubmitReject, EndKept
  <2>6. ASSUME NEW t \in Tasks, PauseRunning(k, t)
        PROVE  EndKept
    BY <2>6 DEF PauseRunning, EndKept
  <2>7. CASE PauseReturn(k) \/ PauseExpire(k) \/ TickScan(k)
    BY <2>7 DEF PauseReturn, PauseExpire, TickScan, EndKept
  <2> QED BY <1>2, <2>1, <2>3, <2>4, <2>5, <2>6, <2>7 DEF ClientStep
<1>3. ASSUME NEW w \in Workers, WorkerStep(w)
      PROVE  EndKept
  <2>1. ASSUME NEW t \in Tasks, Dispatch(w, t) \/ Checkpoint(w, t)
        PROVE  EndKept
    <3>1. state[t] \in {"Ready", "Running"} /\ \E s : MoveTo(With({t}, s))
      BY <2>1, PickedIsReady DEF Dispatch, Checkpoint
    <3>2. \A u \in Tasks \cap {t} : ~IsTerminal(state[u])
      BY <3>1 DEF IsTerminal
    <3> QED BY <3>1, <3>2, WithKeepsEnds
  <2>2. ASSUME NEW t \in Tasks, FinishOk(w, t)
        PROVE  EndKept
    <3>1. ~IsTerminal(state[t]) /\ \A u \in Woken(t) : ~IsTerminal(state[u])
      BY <2>2 DEF FinishOk, Legal, Successors, IsTerminal, Woken
    <3> QED BY <2>2, <3>1 DEF FinishOk, MoveTo, EndKept
  <2>3. ASSUME NEW t \in Tasks, NEW s \in {"Failed", "Canceled"}, FinishWith(w, t, s)
        PROVE  EndKept
    <3>1. \A u \in EndsAs(t, s) : ~IsTerminal(state[u])
      BY DEF EndsAs, Legal, Successors, IsTerminal
    <3>2. \A u \in Downstream(t) : ~IsTerminal(state[u])
      BY DEF Downstream
    <3> QED BY <2>3, <3>1, <3>2 DEF FinishWith, MoveTo, EndKept
  <2>4. ASSUME NEW t \in Tasks, Finish(w, t)
        PROVE  EndKept
    BY <2>2, <2>3, <2>4 DEF Finish, FinishLate, FinishErr
  <2>5. ASSUME NEW t \in Tasks, Progress(w, t)
        PROVE  EndKept
    BY <2>5 DEF Progress, EndKept
  <2>6. CASE Unpark(w) \/ Exit(w)
    BY <2>6 DEF Unpark, Exit, EndKept
  <2> QED BY <1>3, <2>1, <2>4, <2>5, <2>6 DEF WorkerStep
<1>4. CASE (\E x \in Threads, t \in Tasks : Deliver(x, t)) \/ Stop \/ ClockTick \/ UNCHANGED vars
  BY <1>4 DEF Deliver, Stop, ClockTick, vars, EndKept
<1> QED BY <1>2, <1>3, <1>4 DEF Next

(* A task that has ended is never revived or relabelled, by a late stage    *)
(* result, a resume, a propagated or a repeated cancellation.              *)
THEOREM EndsAreFinal == Spec => EndIsFinal
<1>1. TypeOK /\ [Next]_vars => [EndKept]_vars
  BY StepKeepsEnds
<1>2. [EndKept]_vars <=> [\A t \in Tasks : IsTerminal(state[t]) => state'[t] = state[t]]_vars
  BY DEF EndKept
<1> QED BY <1>1, <1>2, TypeCorrect, PTL DEF Spec, EndIsFinal
==============================================================================
