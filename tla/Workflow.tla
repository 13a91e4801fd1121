------------------------------ MODULE Workflow ------------------------------
(***************************************************************************)
(* A story-to-video generation on the thread-pool scheduler: the           *)
(* WorkflowEngine of core/src/orchestrator.cpp, driven by the Presenter of *)
(* app/src/presenter.cpp.                                                  *)
(*                                                                         *)
(* The user-interface thread is the scheduler's only client.  A generation *)
(* is a chain of calls on it, one submit() or cancel() per step, while the  *)
(* workers execute.  handle_state_change runs, without a lock, on whichever *)
(* thread delivers an event; what it reports is posted to the interface     *)
(* thread's event queue.  Nobody pauses, so time plays no part.  What the    *)
(* presenter displays beside the outcome (status text, progress, log) is   *)
(* left out, and so is WorkflowState.failed, which nothing reads.          *)
(***************************************************************************)
EXTENDS ThreadPoolScheduler

CONSTANTS
  Ui,                  \* the interface thread
  Workflows, Plan,     \* Plan[g]: the storyboard, image and compose tasks of g
  NullStage,           \* the tasks for which the stage factory may return null
  Requires, Provides   \* the inputs a stage insists on, and its outputs

VARIABLES
  upc, gen, todo,      \* interface thread: the call it is in, on which
                       \* workflow, and the tasks the call still has to visit
  busy, trace, timer,  \* busy_, current_trace_id_, tick_timer_ is active
  shown,               \* the outcome generationCompleted announced
  registered,          \* the workflows in active_workflows_
  completed,           \* WorkflowState.completed
  handling,            \* per thread: where it is in handle_state_change
  inbox                \* completions posted and not yet run

poolVars   == vars
uiVars     == <<upc, gen, todo, busy, trace, timer, shown>>
engineVars == <<registered, completed, handling, inbox>>
wvars      == <<poolVars, uiVars, engineVars>>

NoWorkflow == "None"
TasksOf(g) == {Plan[g][i] : i \in DOMAIN Plan[g]}
SceneCount(g) == Len(Plan[g]) - 2

(* Images depend on the storyboard, the composition on all images. *)
DepsOf(g, t) ==
  LET i == CHOOSE i \in DOMAIN Plan[g] : Plan[g][i] = t
  IN IF i = 1 THEN <<>>
     ELSE IF i = Len(Plan[g]) THEN SubSeq(Plan[g], 2, i - 1) ELSE <<Plan[g][1]>>

ASSUME WorkflowAssumption ==
  /\ Clients = {Ui} /\ "None" \notin Workflows
  /\ Plan \in [Workflows -> Seq(Tasks)]
  /\ NullStage \subseteq Tasks
  /\ {Requires, Provides} \subseteq [Tasks -> SUBSET STRING]
  /\ "cancel" \in Calls
  /\ \A g \in Workflows : \A t \in TasksOf(g) : DepsOf(g, t) \in DepLists[t]

(* A thread between two scheduler calls or steps. *)
NotHandling == [step |-> "none", wf |-> NoWorkflow, seen |-> 0]
UiFree == ClientFree(Ui) /\ handling[Ui] = NotHandling
UiIdle == upc = "idle" /\ UiFree

-----------------------------------------------------------------------------
(* Presenter::startGeneration, up to the first submit(). *)

StartRefused(g) ==
  /\ UiIdle /\ ~busy
  /\ SceneCount(g) <= 0
  /\ shown' = "failed"
  /\ UNCHANGED <<poolVars, engineVars, upc, gen, todo, busy, trace, timer>>

StartGeneration(g) ==
  /\ UiIdle /\ ~busy
  /\ SceneCount(g) > 0 /\ TasksOf(g) \cap Submitted = {}
  /\ busy' = TRUE /\ shown' = "nothing"
  /\ upc' = "starting" /\ gen' = g /\ todo' = Plan[g]
  /\ UNCHANGED <<poolVars, engineVars, trace, timer>>

(* start_workflow: one submit() per task. *)
SubmitNext ==
  /\ upc = "starting" /\ UiFree /\ todo # <<>>
  /\ LET t == Head(todo)
     IN SubmitAccept(Ui, t, DepsOf(gen, t)) \/ SubmitBlocked(Ui, t, DepsOf(gen, t))
  /\ todo' = Tail(todo)
  /\ UNCHANGED <<engineVars, upc, gen, busy, trace, timer, shown>>

(* submit() fails: cancel everything on the list, the failed task included. *)
SubmitFails ==
  /\ upc = "starting" /\ UiFree /\ todo # <<>>
  /\ Head(todo) \in NullStage \/ Demand(Head(todo)).cpu > CpuHard
  /\ upc' = "rollback"
  /\ todo' = SubSeq(Plan[gen], 1, Len(Plan[gen]) - Len(todo) + 1)
  /\ UNCHANGED <<poolVars, engineVars, gen, busy, trace, timer, shown>>

(* Only now does the engine know of the workflow; the presenter takes the   *)
(* trace id and starts the timer.                                          *)
Register ==
  /\ upc = "starting" /\ UiFree /\ todo = <<>>
  /\ registered' = registered \cup {gen}
  /\ trace' = gen /\ timer' = TRUE /\ upc' = "idle"
  /\ UNCHANGED <<poolVars, completed, handling, inbox, gen, todo, busy, shown>>

StartFailed ==
  /\ upc = "rollback" /\ UiFree /\ todo = <<>>
  /\ busy' = FALSE /\ shown' = "failed" /\ upc' = "idle"
  /\ UNCHANGED <<poolVars, engineVars, gen, todo, trace, timer>>

-----------------------------------------------------------------------------
(* Presenter::cancelGeneration and cancel_workflow: one cancel() per task. *)

CancelGeneration ==
  /\ UiIdle /\ busy /\ trace \in registered
  /\ upc' = "canceling" /\ gen' = trace /\ todo' = Plan[trace]
  /\ UNCHANGED <<poolVars, engineVars, busy, trace, timer, shown>>

(* Faulty variant: a running task is left to its stage. *)
CancelUnlessRunning(t) == IF state[t] \in {"None", "Running"} THEN UNCHANGED poolVars
  ELSE /\ CancelLocked(Ui, t)
       /\ UNCHANGED <<graphVars, deadline, runVars, workerVars, clientVars, seenVars, stopping>>

(* cancel() of a task that is not there is an error the caller ignores. *)
CancelTask(t) == IF state[t] = "None" THEN UNCHANGED poolVars
  ELSE /\ CancelLocked(Ui, t)
       /\ UNCHANGED <<graphVars, deadline, runVars, workerVars, clientVars, seenVars, stopping>>

CancelNext ==
  /\ upc \in {"canceling", "rollback"} /\ UiFree /\ todo # <<>>
  /\ CancelTask(Head(todo))
  /\ todo' = Tail(todo)
  /\ UNCHANGED <<engineVars, upc, gen, busy, trace, timer, shown>>

CancelReturns ==
  /\ upc = "canceling" /\ UiFree /\ todo = <<>>
  /\ upc' = "idle"
  /\ UNCHANGED <<poolVars, engineVars, gen, todo, busy, trace, timer, shown>>

-----------------------------------------------------------------------------
(* handle_state_change: an event of a workflow not registered is dropped.   *)
(* completed++ is a read and a write, and the test reads once more.        *)

(* Faulty variants: every end counts; progress counts. *)
CountsWhenEnded(s) == IsTerminal(s)
CountsProgress(s) == s \in {"Running", "Succeeded"}

CountsAsDone(s) == s = "Succeeded"

HandleEvent(a, t) ==
  /\ handling[a] = NotHandling
  /\ Deliver(a, t)
  /\ LET s == Head(outbox[a][t])
     IN IF \E g \in registered : t \in TasksOf(g)
        THEN LET g == CHOOSE g \in registered : t \in TasksOf(g)
             IN handling' = [handling EXCEPT ![a] =
                  [step |-> IF CountsAsDone(s) THEN "write" ELSE "test", wf |-> g,
                   seen |-> IF CountsAsDone(s) THEN completed[g] ELSE 0]]
        ELSE UNCHANGED handling
  /\ UNCHANGED <<uiVars, registered, completed, inbox>>

CountDone(a) ==
  /\ handling[a].step = "write"
  /\ completed' = [completed EXCEPT ![handling[a].wf] = handling[a].seen + 1]
  /\ handling' = [handling EXCEPT ![a].step = "test", ![a].seen = 0]
  /\ UNCHANGED <<poolVars, uiVars, registered, inbox>>

(* The completion is posted whenever the test holds, however often. *)
TestDone(a) ==
  /\ handling[a].step = "test"
  /\ LET g == handling[a].wf
     IN inbox' = IF completed[g] = Len(Plan[g]) THEN Append(inbox, g) ELSE inbox
  /\ handling' = [handling EXCEPT ![a] = NotHandling]
  /\ UNCHANGED <<poolVars, uiVars, registered, completed>>

(* The posted completion runs; it ignores which workflow it is about. *)
CompletionRuns ==
  /\ UiIdle /\ inbox # <<>>
  /\ busy' = FALSE /\ shown' = "done"
  /\ inbox' = Tail(inbox)
  /\ UNCHANGED <<poolVars, upc, gen, todo, trace, timer, registered, completed, handling>>

HasPendingTasks == \E t \in Submitted : ~IsTerminal(state[t])

(* onTick: the scheduler's tick() has no pause deadline to look after. *)
OnTick ==
  /\ UiIdle /\ timer
  /\ ~HasPendingTasks
  /\ timer' = FALSE
  /\ UNCHANGED <<poolVars, engineVars, upc, gen, todo, busy, trace, shown>>

-----------------------------------------------------------------------------
(* The stages.  The scheduler hands a stage the outputs of its dependencies *)
(* and nothing else; a stage without the input it insists on fails.        *)

Fed(t) == Requires[t] \subseteq UNION {Provides[deps[t][i]] : i \in DOMAIN deps[t]}

StageReturns(w, t) ==
  \/ Fed(t) /\ (FinishOk(w, t) \/ FinishLate(w, t))
  \/ FinishErr(w, t)

WorkerActs(w) ==
  /\ handling[w] = NotHandling
  /\ \E t \in Tasks : Dispatch(w, t) \/ Progress(w, t) \/ StageReturns(w, t)
  /\ UNCHANGED <<uiVars, engineVars>>

-----------------------------------------------------------------------------
WInit ==
  /\ Init
  /\ upc = "idle" /\ gen = NoWorkflow /\ todo = <<>>
  /\ busy = FALSE /\ trace = NoWorkflow /\ timer = FALSE /\ shown = "nothing"
  /\ registered = {}
  /\ completed = [g \in Workflows |-> 0]
  /\ handling = [a \in Threads |-> NotHandling]
  /\ inbox = <<>>

(* The user's choices. *)
UserActs == CancelGeneration \/ \E g \in Workflows : StartRefused(g) \/ StartGeneration(g)

(* The rest of a call the interface thread is in. *)
UiGoesOn ==
  \/ SubmitNext \/ SubmitFails \/ Register \/ StartFailed
  \/ CancelNext \/ CancelReturns

ThreadHandles(a) == CountDone(a) \/ TestDone(a) \/ \E t \in Tasks : HandleEvent(a, t)

WNext ==
  \/ UserActs \/ UiGoesOn \/ CompletionRuns \/ OnTick
  \/ \E w \in Workers : WorkerActs(w)
  \/ \E a \in Threads : ThreadHandles(a)

WSpec == WInit /\ [][WNext]_wvars

(* Every thread goes on with what it can do; the event loop serves posted   *)
(* completions and the timer however often the user clicks; a stage makes    *)
(* finitely many progress calls and returns.                               *)
WFairSpec ==
  /\ WSpec
  /\ WF_wvars(UiGoesOn) /\ SF_wvars(CompletionRuns) /\ SF_wvars(OnTick)
  /\ \A a \in Threads : WF_wvars(ThreadHandles(a))
  /\ \A w \in Workers :
       /\ WF_wvars(WorkerActs(w) /\ wpc[w] = "idle")
       /\ SF_wvars(WorkerActs(w) /\ wpc'[w] # wpc[w])

-----------------------------------------------------------------------------
(* Presenter and engine hold values of their types; completed never goes     *)
(* above the number of tasks, or the completion would not be recognised.   *)
WTypeOK ==
  /\ upc \in {"idle", "starting", "rollback", "canceling"}
  /\ gen \in Workflows \cup {NoWorkflow} /\ trace \in registered \cup {NoWorkflow}
  /\ todo \in Seq(Tasks) /\ inbox \in Seq(registered)
  /\ {busy, timer} \subseteq BOOLEAN /\ shown \in {"nothing", "failed", "done"}
  /\ registered \subseteq Workflows
  /\ \A g \in Workflows : completed[g] \in 0..Len(Plan[g])
  /\ \A a \in Threads :
       /\ handling[a].step \in {"none", "write", "test"}
       /\ handling[a].wf \in registered \cup {NoWorkflow}
       /\ handling[a].seen \in Nat

(* The engine announces a generation only if every one of its tasks has      *)
(* Succeeded: no lost, early or late event, no race on completed and no      *)
(* second generation makes up a success.                                   *)
AnnouncedEarned ==
  \A i \in DOMAIN inbox : \A t \in TasksOf(inbox[i]) : state[t] = "Succeeded"

(* What the presenter shows as done, "Workflow completed successfully", did   *)
(* succeed.  The code does not keep this: two threads that test after the    *)
(* last success both post the completion, and as the presenter's handler     *)
(* ignores the trace id, the second one is taken for the next generation's. *)
SuccessIsEarned == shown = "done" => \A t \in TasksOf(trace) : state[t] = "Succeeded"

(* onTick stops the timer, and a later generation is rolled back, only with   *)
(* nothing left to do in the scheduler, for any number of generations.      *)
TimerStopsLast == upc = "idle" /\ ~timer => ~HasPendingTasks

(* When the presenter is free for a new generation, the scheduler has         *)
(* nothing left to do: also after a submission failed half-way and was       *)
(* rolled back.  This is for a presenter with one generation: what makes up  *)
(* a success of the second (SuccessIsEarned) also frees it.                *)
FreeMeansFinished == upc = "idle" /\ ~busy => ~HasPendingTasks

(* When cancel_workflow returns, no task of the workflow is alive, although  *)
(* the workers go on finishing tasks and waking successors between its      *)
(* cancel() calls; when start_workflow gives up after its rollback, no task  *)
(* it did submit is.                                                       *)
CancelIsComplete ==
  [][upc' = "idle" =>
       /\ upc = "canceling" => \A t \in TasksOf(gen) : IsTerminal(state[t])
       /\ upc = "rollback"  => \A t \in TasksOf(gen) \cap Submitted : IsTerminal(state[t])]_wvars

(* Whatever fails, is canceled or goes unheard, a generation winds down: the *)
(* scheduler runs out of tasks and the presenter stops its timer.          *)
GenerationWindsDown == timer ~> ~timer

(* The presenter does not stay busy for ever. *)
BusyEnds == busy ~> ~busy
=============================================================================
