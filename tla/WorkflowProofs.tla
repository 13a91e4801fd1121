---------------------------- MODULE WorkflowProofs ----------------------------
(***************************************************************************)
(* Theorems about Workflow.  Every step of the engine and the presenter is  *)
(* a step of the scheduler or leaves it alone, so the scheduler's theorems  *)
(* hold here; on them rests what the engine counts and the presenter shows. *)
(***************************************************************************)
EXTENDS Workflow, ThreadPoolAccountProofs

-----------------------------------------------------------------------------
(* Plans *)

LEMMA UiIsThread == Ui \in Clients /\ Ui \in Threads
BY WorkflowAssumption DEF Threads

LEMMA PlanFacts ==
  ASSUME NEW g \in Workflows
  PROVE  /\ Plan[g] \in Seq(Tasks) /\ Len(Plan[g]) \in Nat
         /\ TasksOf(g) = {Plan[g][i] : i \in 1..Len(Plan[g])}
         /\ TasksOf(g) \subseteq Tasks /\ IsFiniteSet(TasksOf(g))
         /\ Cardinality(TasksOf(g)) \in Nat /\ Cardinality(TasksOf(g)) <= Len(Plan[g])
<1>1. Plan[g] \in Seq(Tasks)
  BY WorkflowAssumption
<1>2. Len(Plan[g]) \in Nat /\ DOMAIN Plan[g] = 1..Len(Plan[g]) /\ Plan[g] \in [1..Len(Plan[g]) -> Tasks]
  BY <1>1, LenProperties
<1>3. TasksOf(g) = {Plan[g][i] : i \in 1..Len(Plan[g])} /\ TasksOf(g) \subseteq Tasks
  BY <1>2 DEF TasksOf
<1>4. IsFiniteSet(1..Len(Plan[g])) /\ Cardinality(1..Len(Plan[g])) = Len(Plan[g])
  BY <1>2, FS_Interval
<1>5. Plan[g] \in Surjection(1..Len(Plan[g]), TasksOf(g))
  BY <1>2, <1>3 DEF Surjection
<1>6. IsFiniteSet(TasksOf(g)) /\ Cardinality(TasksOf(g)) <= Len(Plan[g])
  BY <1>4, <1>5, FS_Surjection
<1>7. QED
  BY <1>1, <1>2, <1>3, <1>6, FS_CardinalityType

(* What start_workflow still has to submit is the rest of the plan. *)
RestOfPlan(g, q) ==
  /\ Len(q) <= Len(Plan[g])
  /\ \A i \in 1..Len(q) : q[i] = Plan[g][Len(Plan[g]) - Len(q) + i]

(* What it has submitted so far. *)
SoFar(g, q) == {Plan[g][i] : i \in 1..(Len(Plan[g]) - Len(q))}

LEMMA NextOfPlan ==
  ASSUME NEW g \in Workflows, NEW q \in Seq(Tasks), q # <<>>, RestOfPlan(g, q)
  PROVE  /\ Head(q) \in TasksOf(g) /\ Head(q) \in Tasks
         /\ Tail(q) \in Seq(Tasks) /\ RestOfPlan(g, Tail(q))
         /\ SoFar(g, Tail(q)) = SoFar(g, q) \cup {Head(q)}
<1>1. /\ Len(q) \in Nat \ {0} /\ Head(q) = q[1] /\ Tail(q) \in Seq(Tasks) /\ Len(Tail(q)) = Len(q) - 1
      /\ \A i \in 1..(Len(q) - 1) : Tail(q)[i] = q[i + 1]
  BY EmptySeq, LenProperties, HeadTailProperties
<1> DEFINE n == Len(Plan[g]) - Len(q)
<1>2. Len(Plan[g]) \in Nat /\ n \in Nat /\ n + 1 \in 1..Len(Plan[g]) /\ Head(q) = Plan[g][n + 1]
  BY <1>1, PlanFacts DEF RestOfPlan
<1>3. RestOfPlan(g, Tail(q))
  <2>1. Len(Tail(q)) <= Len(Plan[g])
    BY <1>1, <1>2 DEF RestOfPlan
  <2>2. ASSUME NEW i \in 1..Len(Tail(q)) PROVE Tail(q)[i] = Plan[g][Len(Plan[g]) - Len(Tail(q)) + i]
    <3>1. i + 1 \in 1..Len(q) /\ Tail(q)[i] = q[i + 1]
      BY <1>1, <2>2
    <3>2. q[i + 1] = Plan[g][Len(Plan[g]) - Len(q) + (i + 1)]
      BY <3>1 DEF RestOfPlan
    <3>3. \A m, l, j \in Int : m - l + (j + 1) = m - (l - 1) + j
      OBVIOUS
    <3>4. i \in Int /\ Len(q) \in Int /\ Len(Plan[g]) \in Int /\ Len(Tail(q)) = Len(q) - 1
      BY <1>1, <1>2
    <3>5. QED
      BY <3>1, <3>2, <3>3, <3>4
  <2>3. QED
    BY <2>1, <2>2 DEF RestOfPlan
<1>4. 1..(Len(Plan[g]) - Len(Tail(q))) = 1..n \cup {n + 1}
  BY <1>1, <1>2
<1>5. SoFar(g, Tail(q)) = SoFar(g, q) \cup {Head(q)}
  BY <1>2, <1>4 DEF SoFar
<1>6. QED
  BY <1>1, <1>2, <1>3, <1>5, PlanFacts

LEMMA WholePlan ==
  ASSUME NEW g \in Workflows
  PROVE  /\ RestOfPlan(g, Plan[g]) /\ SoFar(g, Plan[g]) = {}
         /\ SoFar(g, <<>>) = TasksOf(g)
<1>1. Len(Plan[g]) \in Nat /\ Len(<<>>) = 0
  BY PlanFacts, EmptySeq
<1>2. /\ 1..(Len(Plan[g]) - Len(Plan[g])) = {} /\ Len(Plan[g]) - Len(<<>>) = Len(Plan[g])
      /\ \A i \in 1..Len(Plan[g]) : Len(Plan[g]) - Len(Plan[g]) + i = i
  BY <1>1
<1>3. TasksOf(g) = {Plan[g][i] : i \in 1..Len(Plan[g])}
  BY PlanFacts
<1>4. RestOfPlan(g, Plan[g])
  BY <1>1, <1>2 DEF RestOfPlan
<1>5. SoFar(g, Plan[g]) = {}
  BY <1>2 DEF SoFar
<1>6. SoFar(g, <<>>) = TasksOf(g)
  BY <1>2, <1>3 DEF SoFar
<1>7. QED
  BY <1>4, <1>5, <1>6

-----------------------------------------------------------------------------
(* The calls of the interface thread *)

InterfaceOK ==
  /\ upc \in {"idle", "starting", "rollback", "canceling"}
  /\ todo \in Seq(Tasks)
  /\ registered \subseteq Workflows
  /\ trace \in registered \cup {NoWorkflow}
  /\ gen \in Workflows \cup {NoWorkflow}
  /\ upc # "idle" => gen \in Workflows
  /\ upc = "canceling" => gen \in registered
  /\ upc = "starting" => RestOfPlan(gen, todo)

LEMMA InterfaceStep ==
  ASSUME InterfaceOK, [WNext]_wvars
  PROVE  InterfaceOK'
<1> USE DEF uiVars, engineVars, InterfaceOK
<1>1. ASSUME NEW g \in Workflows, StartRefused(g) PROVE InterfaceOK'
  BY <1>1 DEF StartRefused, UiIdle
<1>2. ASSUME NEW g \in Workflows, StartGeneration(g) PROVE InterfaceOK'
  BY <1>2, PlanFacts, WholePlan DEF StartGeneration
<1>3. CASE SubmitNext
  <2>1. Tail(todo) \in Seq(Tasks) /\ RestOfPlan(gen, Tail(todo))
    BY <1>3, NextOfPlan DEF SubmitNext
  <2>2. QED
    BY <1>3, <2>1 DEF SubmitNext
<1>4. CASE SubmitFails
  <2> DEFINE k == Len(Plan[gen]) - Len(todo) + 1
  <2>1. gen \in Workflows /\ Len(Plan[gen]) \in Nat /\ Len(todo) \in Nat \ {0} /\ Len(todo) <= Len(Plan[gen])
    BY <1>4, PlanFacts, EmptySeq DEF SubmitFails, RestOfPlan
  <2>2. k \in 1..Len(Plan[gen])
    BY <2>1
  <2>3. \A i \in 1..k : Plan[gen][i] \in Tasks
    BY <2>1, <2>2, PlanFacts
  <2>4. SubSeq(Plan[gen], 1, k) \in Seq(Tasks)
    BY <2>2, <2>3, SubSeqProperties
  <2>5. QED
    BY <1>4, <2>1, <2>4 DEF SubmitFails
<1>5. CASE Register
  BY <1>5 DEF Register
<1>6. CASE StartFailed
  BY <1>6 DEF StartFailed
<1>7. CASE CancelGeneration
  <2>1. trace \in Workflows /\ Plan[trace] \in Seq(Tasks)
    BY <1>7, PlanFacts DEF CancelGeneration
  <2>2. QED
    BY <1>7, <2>1 DEF CancelGeneration
<1>8. CASE CancelNext
  <2>1. Tail(todo) \in Seq(Tasks)
    BY <1>8, HeadTailProperties DEF CancelNext
  <2>2. QED
    BY <1>8, <2>1 DEF CancelNext
<1>9. CASE CancelReturns
  BY <1>9 DEF CancelReturns
<1>10. CASE CompletionRuns \/ OnTick
  BY <1>10 DEF CompletionRuns, OnTick
<1>11. ASSUME NEW w \in Workers, WorkerActs(w) PROVE InterfaceOK'
  BY <1>11 DEF WorkerActs
<1>12. ASSUME NEW a \in Threads, ThreadHandles(a) PROVE InterfaceOK'
  BY <1>12 DEF ThreadHandles, HandleEvent, CountDone, TestDone
<1>13. CASE UNCHANGED wvars
  BY <1>13 DEF wvars
<1>14. QED
  BY <1>1, <1>2, <1>3, <1>4, <1>5, <1>6, <1>7, <1>8, <1>9, <1>10, <1>11, <1>12, <1>13
     DEF WNext, UserActs, UiGoesOn

LEMMA InterfaceAlwaysOK == WSpec => []InterfaceOK
<1>1. WInit => InterfaceOK
  BY EmptySeq DEF WInit, InterfaceOK
<1>2. InterfaceOK /\ [WNext]_wvars => InterfaceOK'
  BY InterfaceStep
<1>3. QED
  BY <1>1, <1>2, PTL DEF WSpec

(* What a step of the engine or the presenter is to the scheduler. *)
LEMMA PoolStep ==
  ASSUME InterfaceOK, [WNext]_wvars
  PROVE  [Next]_vars
<1> USE DEF poolVars
<1>1. CASE SubmitNext
  <2>1. upc = "starting" /\ gen \in Workflows /\ todo # <<>> /\ RestOfPlan(gen, todo) /\ todo \in Seq(Tasks)
    BY <1>1 DEF SubmitNext, InterfaceOK
  <2>2. Head(todo) \in Tasks /\ DepsOf(gen, Head(todo)) \in DepLists[Head(todo)]
    BY <2>1, NextOfPlan, WorkflowAssumption
  <2>3. ClientStep(Ui)
    BY <1>1, <2>2 DEF SubmitNext, ClientStep
  <2>4. QED
    BY <2>3, UiIsThread DEF Next
<1>2. CASE CancelNext
  <2>1. Head(todo) \in Tasks
    BY <1>2, HeadTailProperties DEF CancelNext, InterfaceOK
  <2>2. CASE state[Head(todo)] = "None"
    BY <1>2, <2>2 DEF CancelNext, CancelTask
  <2>3. CASE state[Head(todo)] # "None"
    <3>1. Cancel(Ui, Head(todo))
      BY <1>2, <2>1, <2>3, WorkflowAssumption DEF CancelNext, CancelTask, Cancel, UiFree, Submitted
    <3>2. QED
      BY <2>1, <3>1, UiIsThread DEF Next, ClientStep
  <2>4. QED
    BY <2>2, <2>3
<1>3. ASSUME NEW w \in Workers, WorkerActs(w) PROVE [Next]_vars
  <2>1. WorkerStep(w)
    BY <1>3 DEF WorkerActs, StageReturns, WorkerStep, Finish
  <2>2. QED
    BY <2>1 DEF Next
<1>4. ASSUME NEW a \in Threads, NEW t \in Tasks, HandleEvent(a, t) PROVE [Next]_vars
  BY <1>4 DEF HandleEvent, Next
<1>5. ASSUME NEW a \in Threads, CountDone(a) \/ TestDone(a) PROVE UNCHANGED vars
  BY <1>5 DEF CountDone, TestDone
<1>6. CASE UserActs
  BY <1>6 DEF UserActs, CancelGeneration, StartRefused, StartGeneration
<1>7. CASE SubmitFails \/ Register \/ StartFailed \/ CancelReturns \/ CompletionRuns \/ OnTick
  BY <1>7 DEF SubmitFails, Register, StartFailed, CancelReturns, CompletionRuns, OnTick
<1>8. CASE UNCHANGED wvars
  BY <1>8 DEF wvars
<1>9. QED
  BY <1>1, <1>2, <1>3, <1>4, <1>5, <1>6, <1>7, <1>8 DEF WNext, UiGoesOn, ThreadHandles

(* The engine uses the scheduler as its clients may, so whatever holds of     *)
(* the scheduler for every client holds under the engine and the presenter. *)
THEOREM WorkflowUsesScheduler == WSpec => Spec
<1>1. WInit => Init
  BY DEF WInit
<1>2. InterfaceOK /\ [WNext]_wvars => [Next]_vars
  BY PoolStep
<1>3. QED
  BY <1>1, <1>2, InterfaceAlwaysOK, PTL DEF WSpec, Spec

-----------------------------------------------------------------------------
(* What the engine holds *)

Steps == {"none", "write", "test"}

EngineOK ==
  /\ completed \in [Workflows -> Nat]
  /\ handling \in [Threads -> [step : Steps, wf : Workflows \cup {NoWorkflow}, seen : Nat]]
  /\ \A a \in Threads : handling[a].wf \in registered \cup {NoWorkflow}
  /\ \A a \in Threads : handling[a].step # "none" => handling[a].wf \in registered
  /\ inbox \in Seq(registered)

(* The workflow an event is about, where there is one. *)
Concerned(t) == CHOOSE g \in registered : t \in TasksOf(g)

(* What the callback does with one event, in the three cases. *)
LEMMA EventCases ==
  ASSUME InterfaceOK, EngineOK, NEW a \in Threads, NEW t \in Tasks, HandleEvent(a, t)
  PROVE  /\ Deliver(a, t) /\ UNCHANGED <<uiVars, registered, completed, inbox>>
         /\ \/ (\A g \in registered : t \notin TasksOf(g)) /\ UNCHANGED handling
            \/ /\ \E g \in registered : t \in TasksOf(g)
               /\ Concerned(t) \in registered /\ Concerned(t) \in Workflows /\ t \in TasksOf(Concerned(t))
               /\ \/ /\ Head(outbox[a][t]) = "Succeeded"
                     /\ handling' = [handling EXCEPT ![a] =
                                       [step |-> "write", wf |-> Concerned(t), seen |-> completed[Concerned(t)]]]
                  \/ handling' = [handling EXCEPT ![a] = [step |-> "test", wf |-> Concerned(t), seen |-> 0]]
<1>1. Deliver(a, t) /\ UNCHANGED <<uiVars, registered, completed, inbox>>
  BY DEF HandleEvent
<1>2. CASE \E g \in registered : t \in TasksOf(g)
  <2>1. Concerned(t) \in registered /\ t \in TasksOf(Concerned(t))
    BY <1>2 DEF Concerned
  <2>2. handling' = [handling EXCEPT ![a] =
          [step |-> IF Head(outbox[a][t]) = "Succeeded" THEN "write" ELSE "test", wf |-> Concerned(t),
           seen |-> IF Head(outbox[a][t]) = "Succeeded" THEN completed[Concerned(t)] ELSE 0]]
    BY <1>2 DEF HandleEvent, CountsAsDone, Concerned
  <2>3. QED
    BY <1>1, <1>2, <2>1, <2>2 DEF InterfaceOK
<1>3. CASE \A g \in registered : t \notin TasksOf(g)
  BY <1>1, <1>3 DEF HandleEvent
<1>4. QED
  BY <1>1, <1>2, <1>3

LEMMA EngineStep ==
  ASSUME InterfaceOK, EngineOK, [WNext]_wvars
  PROVE  EngineOK'
<1> USE DEF uiVars, engineVars
<1>1. ASSUME NEW a \in Threads, NEW t \in Tasks, HandleEvent(a, t) PROVE EngineOK'
  <2>1. UNCHANGED <<registered, completed, inbox>>
    BY <1>1, EventCases
  <2>2. CASE UNCHANGED handling
    BY <2>1, <2>2 DEF EngineOK
  <2>3. ASSUME NEW g \in registered, g \in Workflows, NEW s \in {"write", "test"}, NEW n \in Nat,
               handling' = [handling EXCEPT ![a] = [step |-> s, wf |-> g, seen |-> n]]
        PROVE  EngineOK'
    BY <2>1, <2>3 DEF EngineOK, Steps
  <2>4. ASSUME handling' # handling PROVE EngineOK'
    <3>1. Concerned(t) \in registered /\ Concerned(t) \in Workflows /\ completed[Concerned(t)] \in Nat
      BY <1>1, <2>4, EventCases DEF EngineOK
    <3>2. \E s \in {"write", "test"}, n \in Nat :
            handling' = [handling EXCEPT ![a] = [step |-> s, wf |-> Concerned(t), seen |-> n]]
      BY <1>1, <2>4, <3>1, EventCases
    <3>3. QED
      BY <2>3, <3>1, <3>2
  <2>5. QED
    BY <2>2, <2>4
<1>2. ASSUME NEW a \in Threads, CountDone(a) PROVE EngineOK'
  <2>1. handling[a] \in [step : Steps, wf : Workflows \cup {NoWorkflow}, seen : Nat] /\ handling[a].wf \in registered
    BY <1>2 DEF CountDone, EngineOK
  <2>2. /\ \A b \in Threads \ {a} : handling'[b] = handling[b]
        /\ handling'[a] = [step |-> "test", wf |-> handling[a].wf, seen |-> 0]
        /\ handling' \in [Threads -> [step : Steps, wf : Workflows \cup {NoWorkflow}, seen : Nat]]
    BY <1>2, <2>1 DEF CountDone, EngineOK, Steps
  <2>3. handling[a].seen + 1 \in Nat
    BY <2>1
  <2>4. completed' \in [Workflows -> Nat]
    BY <1>2, <2>3 DEF CountDone, EngineOK
  <2>5. registered' = registered /\ inbox' \in Seq(registered')
    BY <1>2 DEF CountDone, EngineOK
  <2>6. ASSUME NEW b \in Threads
        PROVE  /\ handling'[b].wf \in registered \cup {NoWorkflow}
               /\ handling'[b].step # "none" => handling'[b].wf \in registered
    <3>1. CASE b = a
      BY <2>1, <2>2, <3>1
    <3>2. CASE b # a
      BY <2>2, <3>2 DEF EngineOK
    <3>3. QED
      BY <3>1, <3>2
  <2>7. QED
    BY <2>2, <2>4, <2>5, <2>6 DEF EngineOK
<1>3. ASSUME NEW a \in Threads, TestDone(a) PROVE EngineOK'
  <2>1. handling[a].wf \in registered
    BY <1>3 DEF TestDone, EngineOK
  <2>2. inbox' \in Seq(registered) /\ UNCHANGED <<registered, completed>>
    BY <1>3, <2>1 DEF TestDone, EngineOK
  <2>3. handling' = [handling EXCEPT ![a] = NotHandling]
    BY <1>3 DEF TestDone
  <2>4. QED
    BY <2>2, <2>3 DEF EngineOK, Steps, NotHandling
<1>4. CASE CompletionRuns
  <2>1. Tail(inbox) \in Seq(registered)
    BY <1>4, HeadTailProperties DEF CompletionRuns, EngineOK
  <2>2. QED
    BY <1>4, <2>1 DEF CompletionRuns, EngineOK
<1>5. CASE Register
  <2>1. registered \subseteq registered' /\ inbox \in Seq(registered) /\ UNCHANGED <<completed, handling, inbox>>
    BY <1>5 DEF Register, EngineOK
  <2>2. inbox \in Seq(registered')
    BY <2>1, SeqMonotonic
  <2>3. QED
    BY <2>1, <2>2 DEF EngineOK
<1>6. CASE UserActs \/ SubmitNext \/ SubmitFails \/ StartFailed \/ CancelNext \/ CancelReturns \/ OnTick
  BY <1>6 DEF UserActs, CancelGeneration, StartRefused, StartGeneration, SubmitNext, SubmitFails, StartFailed,
              CancelNext, CancelReturns, OnTick, EngineOK
<1>7. ASSUME NEW w \in Workers, WorkerActs(w) PROVE EngineOK'
  BY <1>7 DEF WorkerActs, EngineOK
<1>8. CASE UNCHANGED wvars
  BY <1>8 DEF wvars, EngineOK
<1>9. QED
  BY <1>1, <1>2, <1>3, <1>4, <1>5, <1>6, <1>7, <1>8 DEF WNext, UiGoesOn, ThreadHandles

LEMMA EngineAlwaysOK == WSpec => []EngineOK
<1>1. WInit => EngineOK
  BY EmptySeq DEF WInit, EngineOK, NotHandling, Steps
<1>2. InterfaceOK /\ EngineOK /\ [WNext]_wvars => EngineOK'
  BY EngineStep
<1>3. QED
  BY <1>1, <1>2, InterfaceAlwaysOK, PTL DEF WSpec

-----------------------------------------------------------------------------
(* What a step does to the tasks *)

(* A task that exists and has not ended. *)
Live == {t \in Tasks : state[t] # "None" /\ ~IsTerminal(state[t])}

(* No task comes to be but the one submit() is called for. *)
NoneAdded == \A t \in Tasks : state'[t] = "None" <=> state[t] = "None"

LEMMA PoolKeepsTasks ==
  ASSUME TypeOK, SetsAgree
  PROVE  /\ \A x \in Threads, t \in Submitted : CancelLocked(x, t) => NoneAdded
         /\ \A w \in Workers : WorkerStep(w) => NoneAdded
<1> USE DEF nodeVars, graphVars, pauseVars, runVars, workerVars, clientVars, seenVars
<1>1. ASSUME NEW x \in Threads, NEW t \in Submitted, CancelLocked(x, t) PROVE NoneAdded
  <2>1. CancelHits(t) \subseteq Submitted
    BY DEF CancelHits, Downstream, Descendants
  <2>2. QED
    BY <1>1, <2>1 DEF CancelLocked, MoveTo, With, NoneAdded, Submitted
<1>2. ASSUME NEW w \in Workers, WorkerStep(w) PROVE NoneAdded
  <2>1. ASSUME NEW t \in Tasks, Dispatch(w, t) PROVE NoneAdded
    BY <2>1, PickedIsReady DEF Dispatch, MoveTo, With, NoneAdded
  <2>2. ASSUME NEW t \in Tasks, Checkpoint(w, t) PROVE NoneAdded
    BY <2>2 DEF Checkpoint, MoveTo, With, NoneAdded
  <2>3. ASSUME NEW t \in Tasks, Progress(w, t) PROVE NoneAdded
    BY <2>3 DEF Progress, NoneAdded
  <2>4. CASE Unpark(w) \/ Exit(w)
    BY <2>4 DEF Unpark, Exit, NoneAdded
  <2>5. ASSUME NEW t \in Tasks, Executing(w, t) PROVE state[t] # "None"
    <3>1. t \in runningSet
      BY <2>5, BusyWorker DEF Executing
    <3>2. QED
      BY <3>1 DEF SetsAgree, Active
  <2>6. ASSUME NEW t \in Tasks, FinishOk(w, t) PROVE NoneAdded
    <3>1. state[t] # "None"
      BY <2>5, <2>6 DEF FinishOk, EndExecution
    <3>2. \A u \in Woken(t) : state[u] # "None"
      BY DEF Woken
    <3>3. QED
      BY <2>6, <3>1, <3>2 DEF FinishOk, MoveTo, NoneAdded
  <2>7. ASSUME NEW t \in Tasks, NEW s \in {"Failed", "Canceled"}, FinishWith(w, t, s) PROVE NoneAdded
    <3>1. state[t] # "None"
      BY <2>5, <2>7 DEF FinishWith, EndExecution
    <3>2. EndsAs(t, s) \subseteq {t} /\ Downstream(t) \subseteq Submitted
      BY DEF EndsAs, Downstream, Descendants
    <3>3. QED
      BY <2>7, <3>1, <3>2 DEF FinishWith, MoveTo, NoneAdded, Submitted
  <2>8. QED
    BY <1>2, <2>1, <2>2, <2>3, <2>4, <2>6, <2>7 DEF WorkerStep, Finish, FinishLate, FinishErr
<1>3. QED
  BY <1>1, <1>2

(* submit() creates one task and leaves the others alone. *)
LEMMA SubmitAddsOne ==
  ASSUME TypeOK, InterfaceOK, SubmitNext
  PROVE  /\ gen \in Workflows /\ Head(todo) \in TasksOf(gen) /\ Head(todo) \in Tasks
         /\ state[Head(todo)] = "None" /\ state'[Head(todo)] # "None"
         /\ \A u \in Tasks \ {Head(todo)} : state'[u] = state[u]
<1>1. gen \in Workflows /\ Head(todo) \in TasksOf(gen) /\ Head(todo) \in Tasks
  BY NextOfPlan DEF SubmitNext, InterfaceOK
<1>2. state[Head(todo)] = "None"
  BY DEF SubmitNext, SubmitAccept, SubmitBlocked, Submittable
<1>3. \E s \in {"Ready", "Queued", "Canceled"} : MoveTo(With({Head(todo)}, s))
  BY DEF SubmitNext, SubmitAccept, SubmitBlocked
<1>4. QED
  BY <1>1, <1>2, <1>3 DEF MoveTo, With

LEMMA OnlySubmitAdds ==
  ASSUME TypeOK, SetsAgree, InterfaceOK, [WNext]_wvars
  PROVE  SubmitNext \/ NoneAdded
<1> USE DEF poolVars, vars, nodeVars
<1>1. CASE CancelNext
  <2>1. Head(todo) \in Tasks
    BY <1>1, HeadTailProperties DEF CancelNext, InterfaceOK
  <2>2. CASE state[Head(todo)] = "None"
    BY <1>1, <2>2 DEF CancelNext, CancelTask, NoneAdded
  <2>3. CASE state[Head(todo)] # "None"
    BY <1>1, <2>1, <2>3, PoolKeepsTasks, UiIsThread DEF CancelNext, CancelTask, Submitted
  <2>4. QED
    BY <2>2, <2>3
<1>2. ASSUME NEW w \in Workers, WorkerActs(w) PROVE NoneAdded
  <2>1. WorkerStep(w)
    BY <1>2 DEF WorkerActs, StageReturns, WorkerStep, Finish
  <2>2. QED
    BY <2>1, PoolKeepsTasks
<1>3. ASSUME NEW a \in Threads, ThreadHandles(a) PROVE NoneAdded
  BY <1>3 DEF ThreadHandles, HandleEvent, Deliver, CountDone, TestDone, NoneAdded
<1>4. CASE UserActs
  BY <1>4 DEF UserActs, CancelGeneration, StartRefused, StartGeneration, NoneAdded
<1>5. CASE SubmitFails \/ Register \/ StartFailed \/ CancelReturns \/ CompletionRuns \/ OnTick
  BY <1>5 DEF SubmitFails, Register, StartFailed, CancelReturns, CompletionRuns, OnTick, NoneAdded
<1>6. CASE UNCHANGED wvars
  BY <1>6 DEF wvars, NoneAdded
<1>7. QED
  BY <1>1, <1>2, <1>3, <1>4, <1>5, <1>6 DEF WNext, UiGoesOn

(* The scheduler's invariants that the rest needs. *)
PoolOK == TypeOK /\ SetsAgree /\ AnnounceInv /\ EndsAreTrue

LEMMA PoolAlwaysOK == WSpec => []PoolOK
BY WorkflowUsesScheduler, TypeCorrect, SetsAlwaysAgree, BooksAlwaysKept, EndsAlwaysTrue, PTL DEF PoolOK

LEMMA EndsStay ==
  ASSUME PoolOK, InterfaceOK, [WNext]_wvars
  PROVE  EndKept /\ Live' \subseteq Live \cup (IF SubmitNext THEN {Head(todo)} ELSE {})
<1>1. EndKept
  BY PoolStep, StepKeepsEnds DEF PoolOK
<1>2. SubmitNext \/ NoneAdded
  BY OnlySubmitAdds DEF PoolOK
<1>3. CASE SubmitNext
  BY <1>1, <1>3, SubmitAddsOne DEF PoolOK, Live
<1>4. CASE ~SubmitNext
  BY <1>1, <1>2, <1>4 DEF NoneAdded, Live, EndKept
<1>5. QED
  BY <1>3, <1>4

-----------------------------------------------------------------------------
(* completed counts ends the callback was told of *)

DoneTold(g) == {t \in TasksOf(g) : ended[t] > 0 /\ state[t] = "Succeeded"}

CountsCovered ==
  /\ \A g \in Workflows : completed[g] <= Cardinality(DoneTold(g))
  /\ \A a \in Threads, g \in Workflows : handling[a].step = "write" /\ handling[a].wf = g =>
       handling[a].seen + 1 <= Cardinality(DoneTold(g))

LEMMA DoneToldFinite ==
  ASSUME NEW g \in Workflows
  PROVE  /\ IsFiniteSet(DoneTold(g)) /\ Cardinality(DoneTold(g)) \in Nat
         /\ Cardinality(DoneTold(g)) <= Cardinality(TasksOf(g))
         /\ Cardinality(DoneTold(g)) = Cardinality(TasksOf(g)) => DoneTold(g) = TasksOf(g)
<1>1. DoneTold(g) \in SUBSET TasksOf(g) /\ IsFiniteSet(TasksOf(g))
  BY PlanFacts DEF DoneTold
<1>2. QED
  BY <1>1, FS_Subset, FS_CardinalityType

(* Only the callback is told, and it is never untold. *)
LEMMA ToldStays ==
  ASSUME PoolOK, InterfaceOK, [WNext]_wvars
  PROVE  \A t \in Tasks : ended[t] > 0 => ended'[t] > 0
<1> USE DEF poolVars, vars, seenVars
<1>0. ended \in [Tasks -> Nat]
  BY DEF PoolOK, TypeOK
<1>1. ASSUME UNCHANGED ended PROVE \A t \in Tasks : ended[t] > 0 => ended'[t] > 0
  BY <1>1
<1>2. CASE SubmitNext
  BY <1>1, <1>2 DEF SubmitNext, SubmitAccept, SubmitBlocked
<1>3. CASE CancelNext
  BY <1>1, <1>3 DEF CancelNext, CancelTask
<1>4. ASSUME NEW w \in Workers, WorkerActs(w) PROVE UNCHANGED ended
  BY <1>4 DEF WorkerActs, StageReturns, Dispatch, Progress, FinishOk, FinishLate, FinishErr, FinishWith
<1>5. ASSUME NEW a \in Threads, NEW t \in Tasks, HandleEvent(a, t)
      PROVE  \A u \in Tasks : ended[u] > 0 => ended'[u] > 0
  <2>1. \A u \in Tasks : ended'[u] = ended[u] \/ ended'[u] = ended[u] + 1
    BY <1>0, <1>5 DEF HandleEvent, Deliver
  <2>2. QED
    BY <1>0, <2>1
<1>6. ASSUME NEW a \in Threads, CountDone(a) \/ TestDone(a) PROVE UNCHANGED ended
  BY <1>6 DEF CountDone, TestDone
<1>7. CASE UserActs
  BY <1>1, <1>7 DEF UserActs, CancelGeneration, StartRefused, StartGeneration
<1>8. CASE SubmitFails \/ Register \/ StartFailed \/ CancelReturns \/ CompletionRuns \/ OnTick
  BY <1>1, <1>8 DEF SubmitFails, Register, StartFailed, CancelReturns, CompletionRuns, OnTick
<1>9. CASE UNCHANGED wvars
  BY <1>1, <1>9 DEF wvars
<1>10. QED
  BY <1>1, <1>2, <1>3, <1>4, <1>5, <1>6, <1>7, <1>8, <1>9 DEF WNext, UiGoesOn, ThreadHandles

LEMMA DoneToldGrows ==
  ASSUME PoolOK, InterfaceOK, [WNext]_wvars, NEW g \in Workflows
  PROVE  /\ DoneTold(g) \subseteq DoneTold(g)' /\ IsFiniteSet(DoneTold(g)')
         /\ Cardinality(DoneTold(g)') \in Nat /\ Cardinality(DoneTold(g)) <= Cardinality(DoneTold(g)')
<1>1. DoneTold(g) \subseteq DoneTold(g)'
  BY EndsStay, ToldStays, PlanFacts DEF DoneTold, EndKept, IsTerminal
<1>2. DoneTold(g)' \in SUBSET TasksOf(g) /\ IsFiniteSet(TasksOf(g))
  BY PlanFacts DEF DoneTold
<1>3. IsFiniteSet(DoneTold(g)') /\ Cardinality(DoneTold(g)') \in Nat
  BY <1>2, FS_Subset, FS_CardinalityType
<1>4. Cardinality(DoneTold(g)) <= Cardinality(DoneTold(g)')
  BY <1>1, <1>3, FS_Subset
<1>5. QED
  BY <1>1, <1>3, <1>4

(* The callback hears of a success once, and of a task that did succeed. *)
LEMMA SuccessIsNews ==
  ASSUME PoolOK, NEW a \in Threads, NEW t \in Tasks, Deliver(a, t), Head(outbox[a][t]) = "Succeeded"
  PROVE  state[t] = "Succeeded" /\ state'[t] = "Succeeded" /\ ended[t] = 0 /\ ended'[t] = 1
<1> DEFINE q == outbox[a][t]
<1>1. q \in Seq(TaskStates) /\ q # <<>> /\ EndsLast(q) /\ Truthful(q, state[t]) /\ ToldOnce(t)
  BY DEF PoolOK, TypeOK, Deliver, AnnounceInv, BatchesOK, EndsAreTrue
<1>2. IsTerminal("Succeeded")
  BY DEF IsTerminal
<1>3. TellsEnd(q)
  BY <1>1, <1>2, DropFirst
<1>4. state[t] = "Succeeded"
  <2>1. Len(q) \in Nat \ {0} /\ DOMAIN q = 1..Len(q) /\ Head(q) = q[1]
    BY <1>1, EmptySeq, LenProperties, HeadTailProperties
  <2>2. QED
    BY <1>1, <1>2, <2>1 DEF Truthful
<1>5. ended[t] = 0
  BY <1>1, <1>2, <1>3, <1>4 DEF ToldOnce, Tellers
<1>6. ended'[t] = 1 /\ state' = state
  BY <1>2, <1>5 DEF Deliver, PoolOK, TypeOK, nodeVars
<1>7. QED
  BY <1>4, <1>5, <1>6

LEMMA CountsStep ==
  ASSUME PoolOK, InterfaceOK, EngineOK, CountsCovered, [WNext]_wvars
  PROVE  CountsCovered'
<1> USE DEF uiVars, engineVars
<1>0. /\ \A g \in Workflows : completed[g] \in Nat /\ completed[g] <= Cardinality(DoneTold(g))
      /\ \A g \in Workflows : Cardinality(DoneTold(g)) \in Nat
      /\ \A a \in Threads, g \in Workflows : handling[a].step = "write" /\ handling[a].wf = g =>
           handling[a].seen \in Nat /\ handling[a].seen + 1 <= Cardinality(DoneTold(g))
  BY DoneToldFinite DEF EngineOK, InterfaceOK, CountsCovered
<1>1. \A g \in Workflows : /\ Cardinality(DoneTold(g)) <= Cardinality(DoneTold(g)')
                           /\ Cardinality(DoneTold(g)') \in Nat
  BY DoneToldGrows
<1>2. \A g \in Workflows : completed[g] <= Cardinality(DoneTold(g)')
  BY <1>0, <1>1
<1>3. \A a \in Threads, g \in Workflows : handling[a].step = "write" /\ handling[a].wf = g =>
        handling[a].seen + 1 <= Cardinality(DoneTold(g)')
  BY <1>0, <1>1
<1>4. ASSUME UNCHANGED <<completed, handling>> PROVE CountsCovered'
  BY <1>2, <1>3, <1>4 DEF CountsCovered
<1>5. ASSUME NEW a \in Threads, NEW t \in Tasks, HandleEvent(a, t) PROVE CountsCovered'
  <2>1. CASE UNCHANGED handling
    BY <1>4, <1>5, <2>1 DEF HandleEvent
  <2>2. ASSUME handling' # handling PROVE CountsCovered'
    <3>0. PICK g \in Workflows : g = Concerned(t)
      BY <1>5, <2>2, EventCases
    <3>1. t \in Tasks /\ t \in TasksOf(g) /\ Deliver(a, t) /\ UNCHANGED completed
      BY <1>5, <2>2, <3>0, EventCases
    <3>2. \A b \in Threads \ {a} : handling'[b] = handling[b]
      BY <1>5, <2>2, EventCases DEF EngineOK
    <3>3. ASSUME handling'[a].step = "write"
          PROVE  handling'[a].wf = g /\ handling'[a].seen = completed[g] /\ Head(outbox[a][t]) = "Succeeded"
      BY <1>5, <2>2, <3>0, <3>3, EventCases DEF EngineOK
    <3>4. ASSUME Head(outbox[a][t]) = "Succeeded" PROVE completed[g] + 1 <= Cardinality(DoneTold(g)')
      <4>1. t \notin DoneTold(g) /\ t \in DoneTold(g)'
        BY <3>1, <3>4, SuccessIsNews DEF DoneTold
      <4>2. DoneTold(g) \subseteq DoneTold(g)' /\ IsFiniteSet(DoneTold(g)') /\ Cardinality(DoneTold(g)') \in Nat
        BY <3>1, DoneToldGrows
      <4>3. Cardinality(DoneTold(g)) # Cardinality(DoneTold(g)')
        BY <4>1, <4>2, FS_Subset
      <4>4. QED
        BY <1>0, <1>1, <3>1, <4>2, <4>3
    <3>5. ASSUME NEW b \in Threads, NEW h \in Workflows, handling'[b].step = "write", handling'[b].wf = h
          PROVE  handling'[b].seen + 1 <= Cardinality(DoneTold(h)')
      <4>1. CASE b = a
        BY <3>3, <3>4, <3>5, <4>1
      <4>2. CASE b # a
        BY <1>3, <3>2, <3>5, <4>2
      <4>3. QED
        BY <4>1, <4>2
    <3>6. QED
      BY <1>2, <3>1, <3>5 DEF CountsCovered
  <2>3. QED
    BY <2>1, <2>2
<1>6. ASSUME NEW a \in Threads, CountDone(a) PROVE CountsCovered'
  <2>2. \A g \in Workflows : completed'[g] = IF g = handling[a].wf THEN handling[a].seen + 1 ELSE completed[g]
    BY <1>6 DEF CountDone, EngineOK
  <2>3. \A b \in Threads : handling'[b].step = "write" => b # a /\ handling'[b] = handling[b]
    BY <1>6 DEF CountDone, EngineOK
  <2>4. \A g \in Workflows : completed'[g] <= Cardinality(DoneTold(g)')
    BY <1>2, <1>3, <1>6, <2>2 DEF CountDone
  <2>5. QED
    BY <1>3, <2>3, <2>4 DEF CountsCovered
<1>7. ASSUME NEW a \in Threads, TestDone(a) PROVE CountsCovered'
  <2>1. \A b \in Threads : handling'[b].step = "write" => b # a /\ handling'[b] = handling[b]
    BY <1>7 DEF TestDone, EngineOK, NotHandling
  <2>2. UNCHANGED completed
    BY <1>7 DEF TestDone
  <2>3. QED
    BY <1>2, <1>3, <2>1, <2>2 DEF CountsCovered
<1>8. CASE UserActs \/ UiGoesOn \/ CompletionRuns \/ OnTick
  BY <1>4, <1>8 DEF UserActs, UiGoesOn, CancelGeneration, StartRefused, StartGeneration, SubmitNext, SubmitFails,
                    Register, StartFailed, CancelNext, CancelReturns, CompletionRuns, OnTick
<1>9. ASSUME NEW w \in Workers, WorkerActs(w) PROVE CountsCovered'
  BY <1>4, <1>9 DEF WorkerActs
<1>10. CASE UNCHANGED wvars
  BY <1>4, <1>10 DEF wvars
<1>11. QED
  BY <1>5, <1>6, <1>7, <1>8, <1>9, <1>10 DEF WNext, ThreadHandles

LEMMA CountsAlwaysCovered == WSpec => []CountsCovered
<1>1. WInit /\ EngineOK => CountsCovered
  <2> SUFFICES ASSUME WInit PROVE CountsCovered
    OBVIOUS
  <2>1. \A g \in Workflows : completed[g] = 0 /\ Cardinality(DoneTold(g)) \in Nat
    BY DoneToldFinite DEF WInit
  <2>2. \A a \in Threads : handling[a].step # "write"
    BY DEF WInit, NotHandling
  <2>3. QED
    BY <2>1, <2>2 DEF CountsCovered
<1>2. PoolOK /\ InterfaceOK /\ EngineOK /\ CountsCovered /\ [WNext]_wvars => CountsCovered'
  BY CountsStep
<1>3. QED
  BY <1>1, <1>2, PoolAlwaysOK, InterfaceAlwaysOK, EngineAlwaysOK, PTL DEF WSpec

(* completed stays within the plan, although two threads may write it between *)
(* each other's reads, and everything else has its type.                   *)
THEOREM WorkflowTypeCorrect == WSpec => []WTypeOK
<1>1. ASSUME WInit PROVE busy \in BOOLEAN /\ timer \in BOOLEAN /\ shown \in {"nothing", "failed", "done"}
  BY <1>1 DEF WInit
<1> DEFINE Shows == busy \in BOOLEAN /\ timer \in BOOLEAN /\ shown \in {"nothing", "failed", "done"}
<1>2. Shows /\ [WNext]_wvars => Shows'
  BY DEF WNext, UserActs, UiGoesOn, ThreadHandles, CancelGeneration, StartRefused, StartGeneration, SubmitNext,
         SubmitFails, Register, StartFailed, CancelNext, CancelReturns, CompletionRuns, OnTick, WorkerActs,
         HandleEvent, CountDone, TestDone, uiVars, wvars
<1>3. InterfaceOK /\ EngineOK /\ CountsCovered /\ Shows => WTypeOK
  <2> SUFFICES ASSUME InterfaceOK, EngineOK, CountsCovered, Shows PROVE WTypeOK
    OBVIOUS
  <2>1. ASSUME NEW g \in Workflows PROVE completed[g] \in 0..Len(Plan[g])
    <3>1. completed[g] \in Nat /\ completed[g] <= Cardinality(DoneTold(g))
      BY DEF EngineOK, CountsCovered
    <3>2. QED
      BY <3>1, DoneToldFinite, PlanFacts
  <2>2. ASSUME NEW a \in Threads
        PROVE  /\ handling[a].step \in {"none", "write", "test"} /\ handling[a].seen \in Nat
               /\ handling[a].wf \in registered \cup {NoWorkflow}
    BY DEF EngineOK, Steps
  <2>3. QED
    BY <2>1, <2>2 DEF WTypeOK, InterfaceOK, EngineOK
<1> HIDE DEF Shows
<1>4. WInit => Shows
  BY <1>1 DEF Shows
<1>5. QED
  BY <1>2, <1>3, <1>4, InterfaceAlwaysOK, EngineAlwaysOK, CountsAlwaysCovered, PTL DEF WSpec

-----------------------------------------------------------------------------
(* Announced completions *)

AllSucceeded(g) == \A t \in TasksOf(g) : state[t] = "Succeeded"
AnnouncedOK == \A i \in 1..Len(inbox) : AllSucceeded(inbox[i])

LEMMA CompleteMeansAll ==
  ASSUME InterfaceOK, EngineOK, CountsCovered, NEW g \in Workflows, completed[g] = Len(Plan[g])
  PROVE  AllSucceeded(g)
<1>1. completed[g] <= Cardinality(DoneTold(g)) /\ completed[g] \in Nat
  BY DEF CountsCovered, EngineOK
<1>2. DoneTold(g) = TasksOf(g)
  BY <1>1, PlanFacts, DoneToldFinite
<1>3. QED
  BY <1>2 DEF AllSucceeded, DoneTold

LEMMA SuccessStays ==
  ASSUME PoolOK, InterfaceOK, [WNext]_wvars, NEW g \in Workflows, AllSucceeded(g)
  PROVE  AllSucceeded(g)'
BY EndsStay, PlanFacts DEF AllSucceeded, EndKept, IsTerminal

(* The queue of posted completions grows at its end and shrinks at its head.  *)
LEMMA InboxSteps ==
  ASSUME InterfaceOK, EngineOK, [WNext]_wvars
  PROVE  \/ UNCHANGED inbox
         \/ CompletionRuns /\ Len(inbox) \in Nat \ {0} /\ Head(inbox) = inbox[1]
            /\ Len(inbox') = Len(inbox) - 1 /\ \A i \in 1..Len(inbox') : inbox'[i] = inbox[i + 1]
         \/ \E a \in Threads : /\ TestDone(a) /\ completed[handling[a].wf] = Len(Plan[handling[a].wf])
              /\ Len(inbox') = Len(inbox) + 1 /\ inbox'[Len(inbox) + 1] = handling[a].wf
              /\ \A i \in 1..Len(inbox) : inbox'[i] = inbox[i]
<1> USE DEF uiVars, engineVars
<1>1. CASE CompletionRuns
  <2>1. inbox \in Seq(registered) /\ inbox # <<>> /\ inbox' = Tail(inbox)
    BY <1>1 DEF CompletionRuns, EngineOK
  <2>2. QED
    BY <1>1, <2>1, EmptySeq, HeadTailProperties
<1>2. ASSUME NEW a \in Threads, TestDone(a), inbox' # inbox
      PROVE  /\ completed[handling[a].wf] = Len(Plan[handling[a].wf])
             /\ Len(inbox') = Len(inbox) + 1 /\ inbox'[Len(inbox) + 1] = handling[a].wf
             /\ \A i \in 1..Len(inbox) : inbox'[i] = inbox[i]
  <2>1. inbox' = Append(inbox, handling[a].wf) /\ completed[handling[a].wf] = Len(Plan[handling[a].wf])
    BY <1>2 DEF TestDone
  <2>2. inbox \in Seq(registered) /\ handling[a].wf \in registered
    BY <1>2 DEF EngineOK, TestDone
  <2>3. QED
    BY <2>1, <2>2, AppendProperties
<1>3. CASE UserActs \/ UiGoesOn \/ OnTick
  BY <1>3 DEF UserActs, UiGoesOn, CancelGeneration, StartRefused, StartGeneration, SubmitNext, SubmitFails,
              Register, StartFailed, CancelNext, CancelReturns, OnTick
<1>4. ASSUME NEW w \in Workers, WorkerActs(w) PROVE UNCHANGED inbox
  BY <1>4 DEF WorkerActs
<1>5. ASSUME NEW a \in Threads, CountDone(a) \/ \E t \in Tasks : HandleEvent(a, t) PROVE UNCHANGED inbox
  BY <1>5 DEF CountDone, HandleEvent
<1>6. CASE UNCHANGED wvars
  BY <1>6 DEF wvars
<1>7. QED
  BY <1>1, <1>2, <1>3, <1>4, <1>5, <1>6 DEF WNext, ThreadHandles

LEMMA AnnouncedStep ==
  ASSUME PoolOK, InterfaceOK, EngineOK, CountsCovered, AnnouncedOK, [WNext]_wvars
  PROVE  AnnouncedOK'
<1>1. inbox \in Seq(registered) /\ Len(inbox) \in Nat /\ registered \subseteq Workflows
  BY LenProperties DEF EngineOK, InterfaceOK
<1>2. ASSUME NEW i \in 1..Len(inbox) PROVE inbox[i] \in Workflows /\ AllSucceeded(inbox[i])
  BY <1>1, ElementOfSeq DEF AnnouncedOK
<1>3. ASSUME NEW i \in 1..Len(inbox), NEW g, g = inbox[i] PROVE AllSucceeded(g)'
  BY <1>2, <1>3, SuccessStays
<1>4. SUFFICES ASSUME NEW i \in 1..Len(inbox'), NEW g, g = inbox'[i] PROVE AllSucceeded(g)'
  BY DEF AnnouncedOK, AllSucceeded
<1>5. CASE UNCHANGED inbox
  BY <1>3, <1>4, <1>5
<1>6. CASE Len(inbox) \in Nat \ {0} /\ Len(inbox') = Len(inbox) - 1 /\ \A j \in 1..Len(inbox') : inbox'[j] = inbox[j + 1]
  <2>1. i + 1 \in 1..Len(inbox) /\ g = inbox[i + 1]
    BY <1>4, <1>6
  <2>2. QED
    BY <1>3, <2>1
<1>7. ASSUME NEW a \in Threads, TestDone(a), completed[handling[a].wf] = Len(Plan[handling[a].wf]),
             Len(inbox') = Len(inbox) + 1, inbox'[Len(inbox) + 1] = handling[a].wf,
             \A j \in 1..Len(inbox) : inbox'[j] = inbox[j]
      PROVE  AllSucceeded(g)'
  <2>1. CASE i = Len(inbox) + 1
    <3>1. g = handling[a].wf /\ g \in Workflows
      BY <1>1, <1>4, <1>7, <2>1 DEF EngineOK, TestDone
    <3>2. AllSucceeded(g)
      BY <1>7, <3>1, CompleteMeansAll
    <3>3. QED
      BY <3>1, <3>2, SuccessStays
  <2>2. CASE i # Len(inbox) + 1
    <3>1. i \in 1..Len(inbox) /\ g = inbox[i]
      BY <1>1, <1>4, <1>7, <2>2
    <3>2. QED
      BY <1>3, <3>1
  <2>3. QED
    BY <2>1, <2>2
<1>8. QED
  BY <1>5, <1>6, <1>7, InboxSteps

(* The engine announces a generation only when every task of it has           *)
(* Succeeded, whatever the order of the events and of the writes to         *)
(* completed, and however many generations follow one another.             *)
THEOREM CompletionAlwaysEarned == WSpec => []AnnouncedEarned
<1>1. WInit => AnnouncedOK
  <2> SUFFICES ASSUME WInit PROVE AnnouncedOK
    OBVIOUS
  <2>1. Len(inbox) = 0
    BY EmptySeq DEF WInit
  <2>2. QED
    BY <2>1 DEF AnnouncedOK
<1>2. PoolOK /\ InterfaceOK /\ EngineOK /\ CountsCovered /\ AnnouncedOK /\ [WNext]_wvars => AnnouncedOK'
  BY AnnouncedStep
<1>3. EngineOK /\ AnnouncedOK => AnnouncedEarned
  <2> SUFFICES ASSUME EngineOK, AnnouncedOK PROVE AnnouncedEarned
    OBVIOUS
  <2>1. DOMAIN inbox = 1..Len(inbox)
    BY LenProperties DEF EngineOK
  <2>2. QED
    BY <2>1 DEF AnnouncedEarned, AnnouncedOK, AllSucceeded
<1>4. QED
  BY <1>1, <1>2, <1>3, PoolAlwaysOK, InterfaceAlwaysOK, EngineAlwaysOK, CountsAlwaysCovered, PTL DEF WSpec

-----------------------------------------------------------------------------
(* Cancellation *)

(* The tasks a call still has to visit. *)
Named(q) == {q[i] : i \in 1..Len(q)}

LEMMA NamedFacts ==
  /\ Named(<<>>) = {}
  /\ \A q \in Seq(Tasks) : q # <<>> => Named(q) = {Head(q)} \cup Named(Tail(q)) /\ Head(q) \in Tasks
  /\ \A g \in Workflows : Named(Plan[g]) = TasksOf(g)
<1>1. Named(<<>>) = {}
  <2>1. Len(<<>>) = 0
    BY EmptySeq
  <2>2. QED
    BY <2>1 DEF Named
<1>2. ASSUME NEW q \in Seq(Tasks), q # <<>>
      PROVE  Named(q) = {Head(q)} \cup Named(Tail(q)) /\ Head(q) \in Tasks
  <2>1. /\ Len(q) \in Nat \ {0} /\ Head(q) = q[1] /\ Head(q) \in Tasks /\ Len(Tail(q)) = Len(q) - 1
        /\ \A i \in 1..(Len(q) - 1) : Tail(q)[i] = q[i + 1]
    BY <1>2, EmptySeq, LenProperties, HeadTailProperties
  <2>2. ASSUME NEW i \in 1..Len(q) PROVE q[i] \in {Head(q)} \cup Named(Tail(q))
    <3>1. CASE i = 1
      BY <2>1, <3>1
    <3>2. CASE i # 1
      <4>1. i - 1 \in 1..(Len(q) - 1) /\ (i - 1) + 1 = i
        BY <2>1, <3>2
      <4>2. Tail(q)[i - 1] = q[i]
        BY <2>1, <4>1
      <4>3. QED
        BY <2>1, <4>1, <4>2 DEF Named
    <3>3. QED
      BY <3>1, <3>2
  <2>3. ASSUME NEW i \in 1..(Len(q) - 1) PROVE Tail(q)[i] \in Named(q)
    <3>1. i + 1 \in 1..Len(q) /\ Tail(q)[i] = q[i + 1]
      BY <2>1
    <3>2. QED
      BY <3>1 DEF Named
  <2>4. Head(q) \in Named(q)
    BY <2>1 DEF Named
  <2>5. QED
    BY <2>1, <2>2, <2>3, <2>4 DEF Named
<1>3. \A g \in Workflows : Named(Plan[g]) = TasksOf(g)
  BY PlanFacts DEF Named
<1>4. QED
  BY <1>1, <1>2, <1>3

LEMMA CancelEnds ==
  ASSUME PoolOK, InterfaceOK, CancelNext
  PROVE  Head(todo) \notin Live'
<1> DEFINE t == Head(todo)
<1>1. t \in Tasks
  BY NamedFacts DEF CancelNext, InterfaceOK
<1>2. CASE state[t] = "None"
  <2>1. state' = state
    BY <1>2 DEF CancelNext, CancelTask, poolVars, vars, nodeVars
  <2>2. QED
    BY <1>2, <2>1 DEF Live
<1>3. CASE state[t] # "None"
  <2>1. state'[t] = IF t \in CancelHits(t) THEN "Canceled" ELSE state[t]
    BY <1>1, <1>3 DEF CancelNext, CancelTask, CancelLocked, MoveTo, With
  <2>2. t \in CancelHits(t) \/ IsTerminal(state[t])
    BY DEF CancelHits
  <2>3. IsTerminal(state'[t])
    BY <2>1, <2>2 DEF IsTerminal
  <2>4. QED
    BY <2>3 DEF Live
<1>4. QED
  BY <1>2, <1>3

(* What the interface thread's calls have done so far. *)
ProgressOK ==
  /\ \A g \in registered : \A t \in TasksOf(g) : state[t] # "None"
  /\ upc = "starting" => \A t \in TasksOf(gen) : state[t] # "None" <=> t \in SoFar(gen, todo)
  /\ upc \in {"canceling", "rollback"} => TasksOf(gen) \cap Live \subseteq Named(todo)

LEMMA ExistingStay ==
  ASSUME PoolOK, InterfaceOK, [WNext]_wvars
  PROVE  \A t \in Tasks : state[t] # "None" => state'[t] # "None"
BY OnlySubmitAdds, SubmitAddsOne DEF PoolOK, NoneAdded

(* The rollback visits all that was submitted. *)
LEMMA RollbackVisits ==
  ASSUME InterfaceOK, SubmitFails
  PROVE  /\ upc = "starting" /\ upc' = "rollback" /\ gen \in Workflows
         /\ UNCHANGED <<vars, gen, timer, registered>>
         /\ SoFar(gen, todo) \subseteq Named(todo)'
<1> USE DEF poolVars, engineVars
<1> DEFINE k == Len(Plan[gen]) - Len(todo) + 1
<1>1. /\ upc = "starting" /\ upc' = "rollback" /\ todo # <<>> /\ todo' = SubSeq(Plan[gen], 1, k)
      /\ UNCHANGED <<vars, gen, timer, registered>>
  BY DEF SubmitFails
<1>2. gen \in Workflows /\ Len(Plan[gen]) \in Nat /\ Len(todo) \in Nat \ {0} /\ Len(todo) <= Len(Plan[gen])
  BY <1>1, PlanFacts, EmptySeq DEF InterfaceOK, RestOfPlan
<1>3. k \in 1..Len(Plan[gen])
  BY <1>2
<1>4. \A i \in 1..k : Plan[gen][i] \in Tasks
  BY <1>2, <1>3, PlanFacts
<1>5. Len(todo') = k /\ \A i \in 1..k : todo'[i] = Plan[gen][i]
  BY <1>1, <1>3, <1>4, SubSeqProperties
<1>6. \A i \in 1..(Len(Plan[gen]) - Len(todo)) : i \in 1..k
  BY <1>2, <1>3
<1>7. QED
  BY <1>1, <1>2, <1>5, <1>6 DEF SoFar, Named

LEMMA ProgressStep ==
  ASSUME PoolOK, InterfaceOK, ProgressOK, [WNext]_wvars
  PROVE  ProgressOK'
<1> USE DEF uiVars, engineVars, poolVars
<1>0. /\ \A t \in Tasks : state[t] # "None" => state'[t] # "None"
      /\ \A g \in Workflows : TasksOf(g) \subseteq Tasks
      /\ registered \subseteq Workflows /\ gen \in Workflows \cup {NoWorkflow} /\ todo \in Seq(Tasks)
      /\ gen \in Workflows => SoFar(gen, todo) \subseteq Tasks
  <2>1. ASSUME gen \in Workflows PROVE SoFar(gen, todo) \subseteq Tasks
    <3>1. Len(todo) \in Nat
      BY LenProperties DEF InterfaceOK
    <3>2. QED
      BY <2>1, <3>1, PlanFacts DEF SoFar
  <2>2. QED
    BY <2>1, ExistingStay, PlanFacts DEF InterfaceOK
<1>1. \A g \in registered : \A t \in TasksOf(g) : state'[t] # "None"
  BY <1>0 DEF ProgressOK
<1>2. ASSUME UNCHANGED <<upc, gen, todo, registered>>, ~SubmitNext PROVE ProgressOK'
  <2>1. Live' \subseteq Live
    BY <1>2, EndsStay
  <2>2. ASSUME upc = "starting" PROVE \A t \in TasksOf(gen) : state'[t] # "None" <=> t \in SoFar(gen, todo)
    <3>1. NoneAdded /\ gen \in Workflows
      BY <1>2, <2>2, OnlySubmitAdds DEF InterfaceOK, PoolOK
    <3>2. QED
      BY <1>0, <2>2, <3>1 DEF ProgressOK, NoneAdded
  <2>3. QED
    BY <1>1, <1>2, <2>1, <2>2 DEF ProgressOK, SoFar, TasksOf, Named
<1>3. ASSUME NEW g \in Workflows, StartGeneration(g) PROVE ProgressOK'
  <2>1. upc' = "starting" /\ gen' = g /\ todo' = Plan[g] /\ registered' = registered
    BY <1>3 DEF StartGeneration
  <2>2. SoFar(g, Plan[g]) = {} /\ \A t \in TasksOf(g) : state'[t] = "None"
    BY <1>0, <1>3, WholePlan DEF StartGeneration, Submitted, vars, nodeVars
  <2>3. QED
    BY <1>1, <2>1, <2>2 DEF ProgressOK, SoFar, TasksOf
<1>4. CASE SubmitNext
  <2>1. upc = "starting" /\ upc' = upc /\ gen' = gen /\ todo' = Tail(todo) /\ registered' = registered /\ todo # <<>>
    BY <1>4 DEF SubmitNext
  <2>2. gen \in Workflows /\ SoFar(gen, Tail(todo)) = SoFar(gen, todo) \cup {Head(todo)} /\ Len(todo) \in Nat
    BY <2>1, NextOfPlan, LenProperties DEF InterfaceOK
  <2>3. \A t \in TasksOf(gen) : state'[t] # "None" <=> t \in SoFar(gen, Tail(todo))
    BY <1>0, <1>4, <2>1, <2>2, SubmitAddsOne DEF ProgressOK, PoolOK
  <2>4. QED
    BY <1>1, <2>1, <2>3 DEF ProgressOK, SoFar, TasksOf
<1>5. CASE Register
  <2>1. upc = "starting" /\ todo = <<>> /\ registered' = registered \cup {gen} /\ upc' = "idle"
    BY <1>5 DEF Register
  <2>2. \A t \in TasksOf(gen) : state'[t] # "None"
    BY <1>0, <2>1, WholePlan, PlanFacts DEF ProgressOK, InterfaceOK
  <2>3. QED
    BY <1>1, <2>1, <2>2 DEF ProgressOK, TasksOf
<1>6. CASE SubmitFails
  <2>1. TasksOf(gen) \cap Live' \subseteq Named(todo)'
    BY <1>6, RollbackVisits DEF ProgressOK, Live, vars, nodeVars
  <2>2. QED
    BY <1>1, <1>6, <2>1, RollbackVisits DEF ProgressOK, TasksOf
<1>13. CASE StartFailed \/ CancelReturns
  BY <1>1, <1>13 DEF StartFailed, CancelReturns, ProgressOK, TasksOf
<1>7. CASE CancelGeneration
  <2>1. upc' = "canceling" /\ gen' = trace /\ todo' = Plan[trace] /\ registered' = registered /\ trace \in Workflows
    BY <1>0, <1>7 DEF CancelGeneration
  <2>2. TasksOf(trace) = Named(Plan[trace])
    BY <2>1, NamedFacts
  <2>3. QED
    BY <1>1, <2>1, <2>2 DEF ProgressOK, TasksOf, Named
<1>8. CASE CancelNext
  <2>1. /\ upc \in {"canceling", "rollback"} /\ upc' = upc /\ gen' = gen /\ todo' = Tail(todo) /\ todo # <<>>
        /\ registered' = registered
    BY <1>8 DEF CancelNext
  <2>2. Head(todo) \notin Live' /\ Live' \subseteq Live
    BY <1>8, <2>1, CancelEnds, EndsStay DEF SubmitNext
  <2>3. Named(todo) = {Head(todo)} \cup Named(Tail(todo))
    BY <1>0, <2>1, NamedFacts
  <2>4. TasksOf(gen) \cap Live' \subseteq Named(Tail(todo))
    BY <2>1, <2>2, <2>3 DEF ProgressOK
  <2>5. QED
    BY <1>1, <2>1, <2>4 DEF ProgressOK, TasksOf, Named
<1>9. CASE CompletionRuns \/ OnTick \/ \E g \in Workflows : StartRefused(g)
  BY <1>2, <1>9 DEF CompletionRuns, OnTick, StartRefused, UiIdle, SubmitNext
<1>10. ASSUME NEW w \in Workers, WorkerActs(w) PROVE ProgressOK'
  BY <1>2, <1>4, <1>10 DEF WorkerActs
<1>11. ASSUME NEW a \in Threads, ThreadHandles(a) PROVE ProgressOK'
  BY <1>2, <1>4, <1>11 DEF ThreadHandles, HandleEvent, CountDone, TestDone
<1>12. CASE UNCHANGED wvars
  BY <1>2, <1>4, <1>12 DEF wvars
<1>14. QED
  BY <1>3, <1>4, <1>5, <1>6, <1>7, <1>8, <1>9, <1>10, <1>11, <1>12, <1>13 DEF WNext, UserActs, UiGoesOn

LEMMA ProgressAlwaysOK == WSpec => []ProgressOK
<1>1. WInit => ProgressOK
  BY DEF WInit, ProgressOK
<1>2. PoolOK /\ InterfaceOK /\ ProgressOK /\ [WNext]_wvars => ProgressOK'
  BY ProgressStep
<1>3. QED
  BY <1>1, <1>2, PoolAlwaysOK, InterfaceAlwaysOK, PTL DEF WSpec

(* When cancel_workflow returns, every task of the workflow has ended, and     *)
(* when a failed start returns, every task it submitted has, for any plan    *)
(* and any number of workers acting between the cancel() calls.             *)
THEOREM CancelAlwaysComplete == WSpec => CancelIsComplete
<1> DEFINE Complete ==
      upc' = "idle" => /\ upc = "canceling" => \A t \in TasksOf(gen) : IsTerminal(state[t])
                       /\ upc = "rollback"  => \A t \in TasksOf(gen) \cap Submitted : IsTerminal(state[t])
<1>1. InterfaceOK /\ ProgressOK /\ [WNext]_wvars => [Complete]_wvars
  <2> SUFFICES ASSUME InterfaceOK, ProgressOK, WNext, upc \in {"canceling", "rollback"}, upc' = "idle"
               PROVE  Complete
    OBVIOUS
  <2>1. CancelReturns \/ StartFailed
    BY DEF WNext, UserActs, UiGoesOn, ThreadHandles, CancelGeneration, StartRefused, StartGeneration, SubmitNext,
           SubmitFails, Register, CancelNext, CompletionRuns, OnTick, UiIdle, WorkerActs,
           HandleEvent, CountDone, TestDone, uiVars
  <2>2. todo = <<>> /\ gen \in Workflows /\ (upc = "canceling" => gen \in registered)
    BY <2>1 DEF CancelReturns, StartFailed, InterfaceOK
  <2>3. TasksOf(gen) \cap Live = {} /\ TasksOf(gen) \subseteq Tasks
    BY <2>2, NamedFacts, PlanFacts DEF ProgressOK
  <2>4. QED
    BY <2>2, <2>3 DEF Live, ProgressOK, Submitted
<1>2. QED
  BY <1>1, InterfaceAlwaysOK, ProgressAlwaysOK, PTL DEF WSpec, CancelIsComplete

-----------------------------------------------------------------------------
(* The timer *)

(* Without the timer, only what a call has submitted and not yet rolled back  *)
(* is alive.                                                               *)
TimerInv ==
  /\ upc \in {"idle", "canceling"} /\ ~timer => Live = {}
  /\ upc = "starting" /\ ~timer => Live \subseteq SoFar(gen, todo)
  /\ upc = "rollback" /\ ~timer => Live \subseteq Named(todo)

LEMMA TimerStep ==
  ASSUME PoolOK, InterfaceOK, TimerInv, [WNext]_wvars
  PROVE  TimerInv'
<1> USE DEF uiVars, engineVars, poolVars
<1>0. InterfaceOK /\ (~SubmitNext => Live' \subseteq Live)
  BY EndsStay
<1>1. ASSUME UNCHANGED uiVars, ~SubmitNext PROVE TimerInv'
  BY <1>0, <1>1 DEF TimerInv, SoFar, Named, TasksOf
<1>2. ASSUME UNCHANGED vars PROVE Live' = Live
  BY <1>2 DEF vars, nodeVars, Live
<1>3. ASSUME NEW g \in Workflows, StartRefused(g) PROVE TimerInv'
  <2>1. UNCHANGED <<vars, upc, gen, todo, timer>> /\ upc = "idle"
    BY <1>3 DEF StartRefused, UiIdle
  <2>2. QED
    BY <1>2, <2>1 DEF TimerInv, TasksOf
<1>4. ASSUME NEW g \in Workflows, StartGeneration(g) PROVE TimerInv'
  <2>1. UNCHANGED <<vars, timer>> /\ upc = "idle" /\ upc' = "starting"
    BY <1>4 DEF StartGeneration, UiIdle
  <2>2. QED
    BY <1>2, <2>1 DEF TimerInv
<1>5. CASE SubmitNext
  <2>1. /\ upc = "starting" /\ todo # <<>> /\ todo' = Tail(todo)
        /\ UNCHANGED <<upc, gen, timer>>
    BY <1>5 DEF SubmitNext
  <2>2. SoFar(gen, Tail(todo)) = SoFar(gen, todo) \cup {Head(todo)}
    BY <1>0, <2>1, NextOfPlan DEF InterfaceOK
  <2>3. Live' \subseteq Live \cup {Head(todo)}
    BY <1>0, <1>5, EndsStay
  <2>4. ~timer => Live' \subseteq SoFar(gen, Tail(todo))
    BY <2>1, <2>2, <2>3 DEF TimerInv
  <2>5. QED
    BY <2>1, <2>4 DEF TimerInv, SoFar
<1>6. CASE SubmitFails
  BY <1>2, <1>6, RollbackVisits DEF TimerInv
<1>7. CASE Register
  BY <1>7 DEF Register, TimerInv
<1>8. CASE StartFailed
  <2>1. upc = "rollback" /\ upc' = "idle" /\ todo = <<>> /\ UNCHANGED <<vars, timer>>
    BY <1>8 DEF StartFailed
  <2>2. ~timer => Live' = {}
    BY <1>2, <2>1, NamedFacts DEF TimerInv
  <2>3. QED
    BY <2>1, <2>2 DEF TimerInv
<1>9. CASE CancelGeneration \/ CancelReturns
  <2>1. /\ upc \in {"idle", "canceling"} /\ upc' \in {"idle", "canceling"}
        /\ UNCHANGED <<vars, timer>>
    BY <1>9 DEF CancelGeneration, CancelReturns, UiIdle
  <2>2. QED
    BY <1>2, <2>1 DEF TimerInv, TasksOf
<1>10. CASE CancelNext
  <2>1. /\ upc \in {"canceling", "rollback"} /\ todo # <<>> /\ todo' = Tail(todo)
        /\ UNCHANGED <<upc, timer>>
    BY <1>10 DEF CancelNext
  <2>2. Head(todo) \notin Live' /\ Live' \subseteq Live
    BY <1>0, <1>10, <2>1, CancelEnds DEF SubmitNext
  <2>3. Named(todo) = {Head(todo)} \cup Named(Tail(todo))
    BY <1>0, <2>1, NamedFacts DEF InterfaceOK
  <2>4. upc = "rollback" /\ ~timer => Live' \subseteq Named(Tail(todo))
    BY <2>2, <2>3 DEF TimerInv
  <2>5. QED
    BY <2>1, <2>2, <2>4 DEF TimerInv, Named, TasksOf
<1>11. CASE CompletionRuns
  <2>1. upc = "idle" /\ UNCHANGED <<vars, upc, timer>>
    BY <1>11 DEF CompletionRuns, UiIdle
  <2>2. QED
    BY <1>2, <2>1 DEF TimerInv
<1>12. CASE OnTick
  <2>1. upc = "idle" /\ UNCHANGED <<vars, upc>> /\ ~HasPendingTasks
    BY <1>12 DEF OnTick, UiIdle
  <2>2. Live = {}
    BY <2>1 DEF HasPendingTasks, Submitted, Live
  <2>3. QED
    BY <1>2, <2>1, <2>2 DEF TimerInv
<1>13. ASSUME NEW w \in Workers, WorkerActs(w) PROVE TimerInv'
  BY <1>1, <1>5, <1>13 DEF WorkerActs
<1>14. ASSUME NEW a \in Threads, ThreadHandles(a) PROVE TimerInv'
  BY <1>1, <1>5, <1>14 DEF ThreadHandles, HandleEvent, CountDone, TestDone
<1>15. CASE UNCHANGED wvars
  BY <1>1, <1>5, <1>15 DEF wvars
<1>16. QED
  BY <1>3, <1>4, <1>5, <1>6, <1>7, <1>8, <1>9, <1>10, <1>11, <1>12, <1>13, <1>14, <1>15
     DEF WNext, UserActs, UiGoesOn

LEMMA TimerAlwaysOK == WSpec => []TimerInv
<1>1. WInit => TimerInv
  BY DEF WInit, Init, Live, TimerInv
<1>2. PoolOK /\ InterfaceOK /\ TimerInv /\ [WNext]_wvars => TimerInv'
  BY TimerStep
<1>3. QED
  BY <1>1, <1>2, PoolAlwaysOK, InterfaceAlwaysOK, PTL DEF WSpec

(* A presenter between two calls whose timer is not active has an idle        *)
(* scheduler, for any number of generations and also after a rollback: no    *)
(* task is left without the tick that looks after it.                       *)
THEOREM TimerAlwaysStopsLast == WSpec => []TimerStopsLast
<1>1. TimerInv => TimerStopsLast
  BY DEF TimerInv, TimerStopsLast, HasPendingTasks, Live, Submitted
<1>2. QED
  BY <1>1, TimerAlwaysOK, PTL
=============================================================================
