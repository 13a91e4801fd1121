--------------------------- MODULE SimpleScheduler ---------------------------
(***************************************************************************)
(* The M1 scheduler of core/src/scheduler.cpp, still selected by           *)
(* STV_SCHEDULER=simple.  One thread calls tick(), which executes at most   *)
(* one task; the lock is released for the execution, so cancel(), pause()   *)
(* and resume() of another thread can come in between ("allows cancel from *)
(* another thread").  Callbacks run inside the calls.                      *)
(***************************************************************************)
EXTENDS Integers, Sequences, FiniteSets, TaskState

CONSTANTS
  Tasks,
  Tokens, TokenOf,    \* cancel tokens; tasks of one workflow share one
  DepSets,            \* DepSets[t]: the sets of deps t may be submitted with
  Priority,
  Calls               \* which of the control calls are made

ASSUME SimpleAssumption ==
  /\ "None" \notin Tasks
  /\ TokenOf \in [Tasks -> Tokens]
  /\ DepSets \in [Tasks -> SUBSET SUBSET Tasks]
  /\ Priority \in [Tasks -> Int]
  /\ Calls \subseteq {"cancel", "pause", "resume"}

VARIABLES
  entries,     \* entries_: the task ids in the order of submission
  state,       \* Entry.task.state; "None": no such entry
  pausedFrom,  \* Entry.task.paused_from
  deps,        \* Entry.task.deps
  outputs,     \* the tasks whose last_outputs have been stored
  canceled,    \* the tokens on which request_cancel was called
  executing,   \* the task tick() is executing, its lock released
  told         \* the state the callback was told last

vars == <<entries, state, pausedFrom, deps, outputs, canceled, executing, told>>

NoTask == "None"
Submitted == {t \in Tasks : state[t] # "None"}

-----------------------------------------------------------------------------
(* transition_to, and the notification that follows if it is legal. *)
Transition(t, s) ==
  /\ state' = [state EXCEPT ![t] = s]
  /\ pausedFrom' = [pausedFrom EXCEPT ![t] = PausedFromAfter(@, state[t], s)]

Notify(t, s) == told' = [told EXCEPT ![t] = s]

(* submit(): a known id, a task that needs itself and a dependency that is   *)
(* not there are refused without effect.  No callback: Ready or Queued is   *)
(* told only by a later tick().  It is not called while a stage executes.  *)
Submit(t, D) ==
  /\ executing = NoTask
  /\ state[t] = "None"
  /\ t \notin D /\ D \subseteq Submitted
  /\ entries' = Append(entries, t)
  /\ deps' = [deps EXCEPT ![t] = D]
  /\ state' = [state EXCEPT ![t] = IF D = {} THEN "Ready" ELSE "Queued"]
  /\ UNCHANGED <<pausedFrom, outputs, canceled, executing, told>>

(* Faulty variant: the ended task is told once more, with no transition. *)
CancelTellsAlways(t) == told' = [told EXCEPT ![t] = "Canceled"]

(* The token is canceled in any state; the transition may be illegal. *)
TellCanceled(t) == IF Legal(state[t], "Canceled") THEN Notify(t, "Canceled") ELSE UNCHANGED told

Cancel(t) ==
  /\ "cancel" \in Calls /\ t \in Submitted
  /\ canceled' = canceled \cup {TokenOf[t]}
  /\ IF Legal(state[t], "Canceled") THEN Transition(t, "Canceled")
     ELSE UNCHANGED <<state, pausedFrom>>
  /\ TellCanceled(t)
  /\ UNCHANGED <<entries, deps, outputs, executing>>

Pause(t) ==
  /\ "pause" \in Calls /\ t \in Submitted
  /\ Legal(state[t], "Paused")
  /\ Transition(t, "Paused")
  /\ Notify(t, "Paused")
  /\ UNCHANGED <<entries, deps, outputs, canceled, executing>>

(* A task that was never paused resumes to Running, which is legal from     *)
(* Ready: it is Running although nobody executes it.                       *)
Resume(t) ==
  LET target == IF pausedFrom[t] = "None" THEN "Running" ELSE pausedFrom[t]
  IN /\ "resume" \in Calls /\ t \in Submitted
     /\ Legal(state[t], target)
     /\ Transition(t, target)
     /\ Notify(t, target)
     /\ UNCHANGED <<entries, deps, outputs, canceled, executing>>

-----------------------------------------------------------------------------
(* tick() *)

(* Faulty variants: a dependency only has to have ended; tasks with more    *)
(* than one dependency are overlooked.                                     *)
PromotableOnEnd == {t \in Tasks : state[t] = "Queued" /\ \A d \in deps[t] : IsTerminal(state[d])}
PromotableByOne ==
  {t \in Tasks : state[t] = "Queued" /\ \A c, d \in deps[t] : c = d /\ state[d] = "Succeeded"}

Promotable ==
  {t \in Tasks : state[t] = "Queued" /\ deps[t] # {} /\ \A d \in deps[t] : state[d] = "Succeeded"}

(* The best Ready task after the promotions: the highest priority, and the  *)
(* first submitted among equals.                                           *)
Before(t, u) == \E i, j \in DOMAIN entries : i < j /\ entries[i] = t /\ entries[j] = u

Pickable == Promotable \cup {t \in Tasks : state[t] = "Ready"}

Best ==
  {t \in Pickable : \A u \in Pickable \ {t} :
     Priority[t] > Priority[u] \/ (Priority[t] = Priority[u] /\ Before(t, u))}

HasPendingTasks == \E t \in Submitted : ~IsTerminal(state[t])

(* Up to the unlock: the promotions, and the choice of a task to execute.   *)
(* The presenter's timer calls tick() only while tasks are pending.        *)
TickBegin ==
  /\ executing = NoTask /\ HasPendingTasks
  /\ Pickable # {}
  /\ \E t \in Best :
       /\ executing' = t
       /\ state' = [u \in Tasks |-> IF u = t THEN "Running"
                                    ELSE IF u \in Promotable THEN "Ready" ELSE state[u]]
       /\ told'  = [u \in Tasks |-> IF u = t THEN "Running"
                                    ELSE IF u \in Promotable THEN "Ready" ELSE told[u]]
  /\ UNCHANGED <<entries, pausedFrom, deps, outputs, canceled>>

(* on_progress looks at no state: it reports Running. *)
Progress ==
  /\ executing # NoTask
  /\ Notify(executing, "Running")
  /\ UNCHANGED <<entries, state, pausedFrom, deps, outputs, canceled, executing>>

(* The transition is tried; its failure is ignored. *)
Settle(t, s) == IF Legal(state[t], s) THEN Transition(t, s) ELSE UNCHANGED <<state, pausedFrom>>

(* After the stage: Ok, an error of category Canceled, or another error.    *)
(* The callback is told the result even if the state did not follow it.    *)
TickEnd(s) ==
  /\ executing # NoTask
  /\ Settle(executing, s)
  /\ Notify(executing, s)
  /\ outputs' = IF s = "Succeeded" THEN outputs \cup {executing} ELSE outputs
  /\ executing' = NoTask
  /\ UNCHANGED <<entries, deps, canceled>>

-----------------------------------------------------------------------------
Init ==
  /\ entries = <<>>
  /\ state = [t \in Tasks |-> "None"]
  /\ pausedFrom = [t \in Tasks |-> "None"]
  /\ deps = [t \in Tasks |-> {}]
  /\ outputs = {} /\ canceled = {}
  /\ executing = NoTask
  /\ told = [t \in Tasks |-> "None"]

Tick == TickBegin \/ \E s \in {"Succeeded", "Failed", "Canceled"} : TickEnd(s)

Next ==
  \/ \E t \in Tasks : (\E D \in DepSets[t] : Submit(t, D)) \/ Cancel(t) \/ Pause(t) \/ Resume(t)
  \/ Tick
  \/ Progress

Spec == Init /\ [][Next]_vars

(* The timer keeps ticking while tasks are pending, and stages return. *)
FairSpec == Spec /\ WF_vars(Tick)

-----------------------------------------------------------------------------
(* What tick() executes finds the inputs it needs: every dependency has      *)
(* Succeeded and its outputs are stored, although cancels, pauses and       *)
(* resumes of tasks and of dependencies come between the promotion and the *)
(* execution, and outputs are stored for results that were not accepted.   *)
InputsPresent ==
  \A t \in Tasks : t = executing \/ state[t] = "Succeeded" =>
    \A d \in deps[t] : state[d] = "Succeeded" /\ d \in outputs

(* The callback is told the true state of every task, except that a task     *)
(* canceled or paused while its stage executed may be reported Running or   *)
(* with the stage's result.                                                *)
ToldTheTruth ==
  \A t \in Tasks : told[t] \in TaskStates /\ told[t] # state[t] =>
    state[t] \in {"Canceled", "Paused"} /\ told[t] \in {"Running", "Succeeded", "Failed", "Canceled"}

(* A Running task is being executed by tick(): resume() gives nobody's task    *)
(* the state Running.  The code does not keep this: resume() of a Ready task *)
(* that was never paused makes it Running (see Halted).                    *)
RunningIsExecuted == \A t \in Tasks : state[t] = "Running" => executing = t

(* t does not go on by itself: it is paused, ended without success, or was   *)
(* made Running by a resume() with nobody to execute it.                   *)
Halted(t) ==
  \/ state[t] \in {"Paused", "Failed", "Canceled"}
  \/ state[t] = "Running" /\ executing # t

(* t and the tasks it needs, directly or not. *)
Upstream(t) ==
  {u \in Tasks : \A S \in SUBSET Tasks : t \in S /\ (\A v \in S : deps[v] \subseteq S) => u \in S}

(* Every submitted task ends, unless it or a task it needs is paused, was    *)
(* resumed without having been paused, or ended without success: tick()      *)
(* overlooks no task.                                                      *)
EndsOrIsHalted == \A t \in Tasks : (t \in Submitted) ~> (IsTerminal(state[t]) \/ \E u \in Upstream(t) : Halted(u))
==============================================================================
