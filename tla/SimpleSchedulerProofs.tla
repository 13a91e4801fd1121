------------------------ MODULE SimpleSchedulerProofs ------------------------
(***************************************************************************)
(* Theorems about SimpleScheduler, for any task graph and any control      *)
(* calls.                                                                  *)
(***************************************************************************)
EXTENDS SimpleScheduler, TLAPS

Typed ==
  /\ state \in [Tasks -> TaskStates \cup {"None"}]
  /\ pausedFrom \in [Tasks -> {"None", "Queued", "Ready", "Running"}]
  /\ deps \in [Tasks -> SUBSET Tasks]
  /\ outputs \subseteq Tasks
  /\ executing \in Tasks \cup {NoTask}
  /\ told \in [Tasks -> TaskStates \cup {"None"}]

(* paused_from has a value exactly while the task is Paused. *)
PauseRemembered(t) == pausedFrom[t] = "None" <=> state[t] # "Paused"

(* The task in execution is Running, or was canceled or paused since. *)
ExecutingRuns(t) == t = executing => state[t] \in {"Running", "Canceled"} \/ pausedFrom[t] = "Running"

(* t was found without unmet dependencies, now or before it was paused. *)
Eligible(t) ==
  \/ t = executing
  \/ state[t] \in {"Ready", "Running", "Succeeded"}
  \/ pausedFrom[t] \in {"Ready", "Running"}

DepsMet(t) == Eligible(t) => \A d \in deps[t] : state[d] = "Succeeded"

OutputsStored(t) == state[t] = "Succeeded" => t \in outputs

ToldIsTrue(t) ==
  /\ state[t] = "None" => told[t] = "None"
  /\ told[t] \in TaskStates /\ told[t] # state[t] =>
       state[t] \in {"Canceled", "Paused"} /\ told[t] \in {"Running", "Succeeded", "Failed", "Canceled"}

TaskOK(t) ==
  /\ PauseRemembered(t) /\ ExecutingRuns(t)
  /\ DepsMet(t) /\ OutputsStored(t) /\ ToldIsTrue(t)

SimpleInv == Typed /\ \A t \in Tasks : TaskOK(t)

-----------------------------------------------------------------------------
(* What transition_to allows, edge by edge. *)
LEMMA LegalEdges ==
  ASSUME NEW from \in TaskStates, NEW to, Legal(from, to)
  PROVE  /\ from \notin {"Canceled", "Succeeded"}
         /\ to = "Queued" => from \in {"Paused", "Failed"}
         /\ to = "Ready" => from \in {"Queued", "Paused"}
         /\ to = "Running" => from \in {"Ready", "Paused"}
         /\ to = "Paused" => from \in {"Queued", "Ready", "Running"}
         /\ to \in {"Succeeded", "Failed"} => from = "Running"
         /\ to \in TaskStates
BY DEF Legal, Successors, TaskStates

(* A Succeeded task stays so, and the result of a Running task is accepted. *)
LEMMA RunningEnds ==
  ASSUME NEW s \in {"Succeeded", "Failed", "Canceled"}
  PROVE  Legal("Running", s)
BY DEF Legal, Successors

(* A task that is not touched keeps its invariant as long as no Succeeded     *)
(* task leaves that state.                                                 *)
LEMMA StillTaskOK ==
  ASSUME NEW u \in Tasks, TaskOK(u),
         state'[u] = state[u], pausedFrom'[u] = pausedFrom[u], told'[u] = told[u], deps'[u] = deps[u],
         u = executing' => u = executing, outputs \subseteq outputs',
         \A d \in deps[u] : state[d] = "Succeeded" => state'[d] = "Succeeded"
  PROVE  TaskOK(u)'
BY DEF TaskOK, PauseRemembered, ExecutingRuns, Eligible, DepsMet, OutputsStored, ToldIsTrue

(* A control call that moves t legally to s, tells so, and makes t eligible   *)
(* only if it was before, keeps the invariant.                             *)
LEMMA MoveKeepsInv ==
  ASSUME SimpleInv, NEW t \in Submitted, NEW s,
         Legal(state[t], s), Transition(t, s), Notify(t, s),
         s \in {"Canceled", "Paused"} \/ (s = "Running" /\ state[t] = "Ready")
           \/ (state[t] = "Paused" /\ s = pausedFrom[t]),
         UNCHANGED <<deps, outputs, executing>>
  PROVE  SimpleInv'
<1>1. t \in Tasks /\ state[t] \in TaskStates /\ Typed /\ TaskOK(t)
  BY DEF Submitted, SimpleInv, Typed
<1>2. /\ state[t] \notin {"Canceled", "Succeeded"} /\ s \in TaskStates
      /\ s = "Paused" => state[t] \in {"Queued", "Ready", "Running"}
  BY <1>1, LegalEdges
<1>3. Typed'
  BY <1>1, <1>2 DEF Typed, Transition, Notify, PausedFromAfter, TaskStates
<1>4. /\ state'[t] = s /\ told'[t] = s
      /\ pausedFrom'[t] = PausedFromAfter(pausedFrom[t], state[t], s)
      /\ \A u \in Tasks \ {t} : state'[u] = state[u] /\ pausedFrom'[u] = pausedFrom[u] /\ told'[u] = told[u]
  BY <1>1 DEF Typed, Transition, Notify
<1>5. \A d \in Tasks : state[d] = "Succeeded" => state'[d] = "Succeeded"
  BY <1>2, <1>4
<1>6. ASSUME NEW u \in Tasks, u # t PROVE TaskOK(u)'
  <2>1. deps[u] \subseteq Tasks /\ TaskOK(u)
    BY <1>1 DEF Typed, SimpleInv
  <2>2. QED
    BY <1>4, <1>5, <1>6, <2>1, StillTaskOK
<1>7. TaskOK(t)'
  <2>1. pausedFrom[t] \in {"None", "Queued", "Ready", "Running"} /\ deps[t] \subseteq Tasks
    BY <1>1 DEF Typed
  <2>2. s = "Paused" \/ state[t] = "Paused" \/ pausedFrom[t] = "None"
    BY <1>1 DEF TaskOK, PauseRemembered
  <2>3. PauseRemembered(t)'
    BY <1>1, <1>2, <1>4, <2>1 DEF TaskOK, PauseRemembered, PausedFromAfter
  <2>4. ExecutingRuns(t)'
    BY <1>1, <1>2, <1>4, <2>1 DEF TaskOK, PauseRemembered, ExecutingRuns, PausedFromAfter
  <2>5. Eligible(t)' => Eligible(t)
    BY <1>1, <1>2, <1>4, <2>1, <2>2 DEF Eligible, PausedFromAfter
  <2>6. QED
    BY <1>1, <1>2, <1>4, <1>5, <2>1, <2>3, <2>4, <2>5 DEF TaskOK, DepsMet, OutputsStored, ToldIsTrue, TaskStates
<1>8. QED
  BY <1>3, <1>6, <1>7 DEF SimpleInv

LEMMA CancelKeepsInv ==
  ASSUME SimpleInv, NEW t \in Tasks, Cancel(t)
  PROVE  SimpleInv'
<1>1. CASE Legal(state[t], "Canceled")
  BY <1>1, MoveKeepsInv DEF Cancel, TellCanceled
<1>2. CASE ~Legal(state[t], "Canceled")
  BY <1>2, StillTaskOK DEF Cancel, TellCanceled, SimpleInv, Typed
<1>3. QED
  BY <1>1, <1>2

LEMMA PauseKeepsInv ==
  ASSUME SimpleInv, NEW t \in Tasks, Pause(t)
  PROVE  SimpleInv'
BY MoveKeepsInv DEF Pause

(* resume() of a task that was never paused is legal only from Ready. *)
LEMMA ResumeKeepsInv ==
  ASSUME SimpleInv, NEW t \in Tasks, Resume(t)
  PROVE  SimpleInv'
<1> DEFINE target == IF pausedFrom[t] = "None" THEN "Running" ELSE pausedFrom[t]
<1>1. state[t] \in TaskStates /\ PauseRemembered(t)
  BY DEF Resume, Submitted, SimpleInv, Typed, TaskOK
<1>2. Legal(state[t], target)
  BY DEF Resume
<1>3. (target = "Running" /\ state[t] = "Ready") \/ (state[t] = "Paused" /\ target = pausedFrom[t])
  BY <1>1, <1>2, LegalEdges DEF PauseRemembered
<1>4. t \in Submitted /\ Transition(t, target) /\ Notify(t, target) /\ UNCHANGED <<deps, outputs, executing>>
  BY DEF Resume
<1> HIDE DEF target
<1>5. QED
  BY <1>2, <1>3, <1>4, MoveKeepsInv

(* submit() starts t with its dependencies unmet, or without any. *)
LEMMA SubmitKeepsInv ==
  ASSUME SimpleInv, NEW t \in Tasks, NEW D \in DepSets[t], Submit(t, D)
  PROVE  SimpleInv'
<1>1. D \subseteq Tasks /\ Typed /\ TaskOK(t) /\ state[t] = "None" /\ executing = NoTask /\ t # NoTask
  BY SimpleAssumption DEF SimpleInv, Submit, NoTask
<1>2. Typed'
  BY <1>1 DEF Typed, Submit, TaskStates
<1>3. ASSUME NEW u \in Tasks, u # t PROVE TaskOK(u)'
  BY <1>1, <1>3, StillTaskOK DEF Typed, Submit, SimpleInv
<1>4. TaskOK(t)'
  BY <1>1 DEF Typed, Submit, TaskOK, PauseRemembered, ExecutingRuns, Eligible, DepsMet, OutputsStored, ToldIsTrue, TaskStates
<1>5. QED
  BY <1>2, <1>3, <1>4 DEF SimpleInv

(* tick() up to the unlock: what it promotes and what it picks has its        *)
(* dependencies met.                                                       *)
LEMMA TickBeginKeepsInv ==
  ASSUME SimpleInv, TickBegin
  PROVE  SimpleInv'
<1>1. PICK t \in Pickable : executing' = t
        /\ state' = [u \in Tasks |-> IF u = t THEN "Running" ELSE IF u \in Promotable THEN "Ready" ELSE state[u]]
        /\ told'  = [u \in Tasks |-> IF u = t THEN "Running" ELSE IF u \in Promotable THEN "Ready" ELSE told[u]]
  BY DEF TickBegin, Best
<1>2. /\ t \in Tasks /\ Typed /\ executing = NoTask /\ NoTask \notin Tasks
      /\ UNCHANGED <<pausedFrom, deps, outputs>>
  BY SimpleAssumption DEF TickBegin, SimpleInv, Pickable, Promotable, NoTask
<1>3. Typed'
  BY <1>1, <1>2 DEF Typed, TaskStates
<1>4. \A d \in Tasks : state[d] = "Succeeded" => state'[d] = "Succeeded"
  BY <1>1, <1>2 DEF Promotable, Pickable
<1>5. \A u \in Promotable \cup {t} : /\ state[u] \in {"Queued", "Ready"}
                                      /\ \A d \in deps[u] : state[d] = "Succeeded"
  BY <1>1, <1>2 DEF Promotable, Pickable, SimpleInv, TaskOK, DepsMet, Eligible
<1>6. ASSUME NEW u \in Tasks, u \notin Promotable \cup {t} PROVE TaskOK(u)'
  BY <1>1, <1>2, <1>4, <1>6, StillTaskOK DEF SimpleInv, Typed
<1>7. ASSUME NEW u \in Promotable \cup {t} PROVE TaskOK(u)'
  <2>1. u \in Tasks /\ state'[u] = told'[u] /\ state'[u] \in {"Ready", "Running"} /\ (u = t => state'[u] = "Running")
    BY <1>1, <1>2, <1>7 DEF Promotable
  <2>2. TaskOK(u) /\ state[u] \in {"Queued", "Ready"}
    BY <1>5, <1>7, <2>1 DEF SimpleInv
  <2>3. \A d \in deps'[u] : state'[d] = "Succeeded"
    BY <1>2, <1>4, <1>5, <1>7, <2>1 DEF Typed
  <2>4. QED
    BY <1>1, <1>2, <2>1, <2>2, <2>3 DEF TaskOK, PauseRemembered, ExecutingRuns, Eligible, DepsMet, OutputsStored, ToldIsTrue
<1>8. QED
  BY <1>3, <1>6, <1>7 DEF SimpleInv

LEMMA ProgressKeepsInv ==
  ASSUME SimpleInv, Progress
  PROVE  SimpleInv'
<1>. PICK t \in Tasks : t = executing
  BY DEF Progress, SimpleInv, Typed
<1>1. Typed /\ TaskOK(t) /\ t = executing'
  BY DEF Progress, SimpleInv, Typed
<1>2. Typed'
  BY <1>1 DEF Progress, Notify, Typed, TaskStates
<1>3. ASSUME NEW u \in Tasks, u # t PROVE TaskOK(u)'
  BY <1>3, StillTaskOK DEF Progress, Notify, SimpleInv, Typed
<1>4. TaskOK(t)'
  <2>1. told'[t] = "Running"
    BY <1>1 DEF Progress, Notify, Typed
  <2>2. QED
    BY <1>1, <2>1 DEF Progress, TaskOK, PauseRemembered, ExecutingRuns, Eligible, DepsMet, OutputsStored, ToldIsTrue
<1>5. QED
  BY <1>2, <1>3, <1>4 DEF SimpleInv

(* tick() after the stage: a result is accepted only from a Running task, and *)
(* the outputs are stored before the task can be seen Succeeded.           *)
LEMMA TickEndKeepsInv ==
  ASSUME SimpleInv, NEW s \in {"Succeeded", "Failed", "Canceled"}, TickEnd(s)
  PROVE  SimpleInv'
<1>. PICK t \in Tasks : t = executing
  BY DEF TickEnd, SimpleInv, Typed
<1>1. t \in Tasks /\ Typed /\ TaskOK(t) /\ t # executing' /\ UNCHANGED deps
  BY SimpleAssumption DEF TickEnd, SimpleInv, Typed, NoTask
<1>2. state[t] \in {"Running", "Canceled", "Paused"}
  BY <1>1 DEF TaskOK, ExecutingRuns, PauseRemembered, Typed
<1>3. outputs \subseteq outputs' /\ outputs' \subseteq Tasks /\ (s = "Succeeded" => t \in outputs')
  BY <1>1 DEF TickEnd, Typed
<1>4. told' = [told EXCEPT ![t] = s]
  BY DEF TickEnd, Notify
<1>5. \/ state' = [state EXCEPT ![t] = s] /\ s = "Canceled" /\ state[t] = "Paused"
          /\ pausedFrom' = [pausedFrom EXCEPT ![t] = "None"]
      \/ state' = [state EXCEPT ![t] = s] /\ state[t] = "Running" /\ UNCHANGED pausedFrom
      \/ UNCHANGED <<state, pausedFrom>> /\ state[t] \in {"Canceled", "Paused"}
  <2>1. CASE Legal(state[t], s)
    <3>1. state[t] = "Running" \/ (state[t] = "Paused" /\ s = "Canceled")
      BY <1>2, <2>1, LegalEdges DEF TaskStates
    <3>2. PausedFromAfter(pausedFrom[t], state[t], s) = IF state[t] = "Paused" THEN "None" ELSE pausedFrom[t]
      BY <3>1 DEF PausedFromAfter
    <3>3. state' = [state EXCEPT ![t] = s]
          /\ pausedFrom' = [pausedFrom EXCEPT ![t] = PausedFromAfter(@, state[t], s)]
      BY <2>1 DEF TickEnd, Settle, Transition
    <3>4. CASE state[t] = "Running"
      BY <1>1, <3>2, <3>3, <3>4 DEF Typed
    <3>5. CASE state[t] = "Paused" /\ s = "Canceled"
      BY <1>1, <3>2, <3>3, <3>5 DEF Typed
    <3>6. QED
      BY <3>1, <3>4, <3>5
  <2>2. CASE ~Legal(state[t], s)
    BY <1>2, <2>2, RunningEnds DEF TickEnd, Settle
  <2>3. QED
    BY <2>1, <2>2
<1>6. executing' = NoTask
  BY DEF TickEnd
<1>7. Typed'
  BY <1>1, <1>3, <1>4, <1>5, <1>6 DEF Typed, TaskStates
<1>8. ASSUME NEW u \in Tasks, u # t PROVE TaskOK(u)'
  <2>1. deps[u] \subseteq Tasks /\ u # executing'
    BY <1>1, <1>6, SimpleAssumption DEF Typed, NoTask
  <2>2. \A d \in deps[u] : state[d] = "Succeeded" => state'[d] = "Succeeded"
    BY <1>1, <1>2, <1>5, <2>1 DEF Typed
  <2>3. QED
    BY <1>1, <1>3, <1>4, <1>5, <1>8, <2>1, <2>2, StillTaskOK DEF SimpleInv, Typed
<1>9. TaskOK(t)'
  <2>1. deps[t] \subseteq Tasks /\ t = executing
    BY <1>1 DEF Typed
  <2>2. \A d \in deps'[t] : state'[d] = "Succeeded"
    BY <1>1, <1>2, <1>5, <2>1 DEF Typed, TaskOK, DepsMet, Eligible
  <2>3. /\ state'[t] = s \/ state'[t] \in {"Canceled", "Paused"}
        /\ state'[t] = "Succeeded" => s = "Succeeded"
        /\ told'[t] = s
    BY <1>1, <1>4, <1>5 DEF Typed
  <2>4. PauseRemembered(t)'
    BY <1>1, <1>5 DEF Typed, TaskOK, PauseRemembered
  <2>5. QED
    BY <1>1, <1>3, <2>2, <2>3, <2>4 DEF TaskOK, ExecutingRuns, DepsMet, OutputsStored, ToldIsTrue, TaskStates
<1>10. QED
  BY <1>7, <1>8, <1>9 DEF SimpleInv

LEMMA AlwaysSimpleInv == Spec => []SimpleInv
<1>1. Init => SimpleInv
  <2> SUFFICES ASSUME Init PROVE SimpleInv
    OBVIOUS
  <2>1. Typed
    BY DEF Init, Typed
  <2>2. ASSUME NEW t \in Tasks PROVE TaskOK(t)
    BY SimpleAssumption DEF Init, TaskOK, PauseRemembered, ExecutingRuns, Eligible, DepsMet, OutputsStored, ToldIsTrue, NoTask, TaskStates
  <2>3. QED
    BY <2>1, <2>2 DEF SimpleInv
<1>2. SimpleInv /\ [Next]_vars => SimpleInv'
  <2> SUFFICES ASSUME SimpleInv, [Next]_vars PROVE SimpleInv'
    OBVIOUS
  <2>1. CASE UNCHANGED vars
    BY <2>1, StillTaskOK DEF vars, SimpleInv, Typed
  <2>2. CASE Next
    BY <2>2, SubmitKeepsInv, CancelKeepsInv, PauseKeepsInv, ResumeKeepsInv,
       TickBeginKeepsInv, TickEndKeepsInv, ProgressKeepsInv DEF Next, Tick
  <2>3. QED
    BY <2>1, <2>2
<1>3. QED
  BY <1>1, <1>2, PTL DEF Spec

-----------------------------------------------------------------------------
(* tick() executes a task only with every dependency Succeeded and its        *)
(* outputs stored, whatever cancel(), pause() and resume() do in between.   *)
THEOREM InputsAlwaysPresent == Spec => []InputsPresent
<1>1. SimpleInv => InputsPresent
  <2> SUFFICES ASSUME SimpleInv, NEW t \in Tasks, t = executing \/ state[t] = "Succeeded", NEW d \in deps[t]
               PROVE  state[d] = "Succeeded" /\ d \in outputs
    BY DEF InputsPresent
  <2>1. d \in Tasks /\ TaskOK(t) /\ TaskOK(d)
    BY DEF SimpleInv, Typed
  <2>2. QED
    BY <2>1 DEF TaskOK, DepsMet, Eligible, OutputsStored
<1>2. QED
  BY <1>1, AlwaysSimpleInv, PTL

(* The callback knows the true state of every task, except for one canceled   *)
(* or paused while tick() executed it.                                     *)
THEOREM AlwaysToldTheTruth == Spec => []ToldTheTruth
<1>1. SimpleInv => ToldTheTruth
  BY DEF SimpleInv, TaskOK, ToldIsTrue, ToldTheTruth
<1>2. QED
  BY <1>1, AlwaysSimpleInv, PTL
==============================================================================
