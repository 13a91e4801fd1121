------------------------- MODULE ThreadPoolScheduler -------------------------
(***************************************************************************)
(* The M3 scheduler of core/src/thread_pool_scheduler.cpp.                 *)
(*                                                                         *)
(* Worker threads run worker_loop; client threads call submit, cancel,     *)
(* pause, resume and tick; one of them finally runs the destructor.  Every *)
(* critical section under mutex_ is one action.  What happens outside the  *)
(* mutex is a step of its own: the callbacks dispatch_events makes, the    *)
(* stage's execution, the gap between pause()'s timed-out wait and its     *)
(* cancel(), and the gap between tick()'s scan and its cancels.  A wait on *)
(* cv_ is the guard of the step that follows it: every change of the state *)
(* a wait looks at is followed by notify_all.                              *)
(***************************************************************************)
EXTENDS Integers, Sequences, FiniteSets, FiniteSetsExt, TaskState

CONSTANTS
  Tasks,                    \* task ids
  Workers, Clients,         \* threads
  Tokens, TokenOf,          \* cancel tokens; tasks of one workflow share one
  DepLists,                 \* DepLists[t]: the deps vectors t may be submitted with
  CpuDemand, RamDemand, VramDemand,      \* TaskDescriptor.resource_demand
  CpuSlotsHard, RamSoft, VramSoft,       \* ResourceBudget; a soft limit <= 0 is off
  Priority, AgingInterval, AgingBoost,   \* AgingPolicy
  PauseTimeout,             \* PausePolicy.checkpoint_timeout_ms, in clock units
  MaxAge,                   \* bound: a Ready task's measured wait saturates here
  Calls                     \* which of the control calls the clients make

ASSUME ThreadsAssumption ==
  /\ IsFiniteSet(Tasks) /\ IsFiniteSet(Workers)
  /\ Workers \cap Clients = {} /\ "None" \notin Tasks
ASSUME TaskAssumption ==
  /\ TokenOf \in [Tasks -> Tokens]
  /\ DepLists \in [Tasks -> SUBSET Seq(Tasks)]
  /\ {CpuDemand, RamDemand, VramDemand, Priority} \subseteq [Tasks -> Int]
ASSUME ConfigAssumption ==
  /\ CpuSlotsHard \in Int /\ RamSoft \in Int /\ VramSoft \in Int
  /\ AgingInterval \in Nat \ {0} /\ AgingBoost \in Nat \ {0}
  /\ PauseTimeout \in Nat \ {0} /\ MaxAge \in Nat
  /\ Calls \subseteq {"cancel", "pause", "resume", "tick", "stop"}

VARIABLES
  state,       \* Node.task.state; "None": no such node in nodes_
  pausedFrom,  \* Node.task.paused_from
  deps,        \* Node.task.deps
  unmet,       \* Node.unmet_deps
  succ,        \* succ[d][t]: how often t occurs in successors_[d]
  pauseReq,    \* Node.pause_requested, and whether pause_deadline has a value
  deadline,    \* clock units left until the time stored in pause_deadline
  readySet,    \* ready_set_
  readyAge,    \* clock units since Node.ready_since; 0 unless Ready
  runningSet,  \* running_set_, and Node.running
  inUse,       \* resource_in_use_
  canceled,    \* the tokens on which request_cancel was called
  wpc, wtask,  \* worker: where it is, and the task it is executing
  cpc, cset,   \* client: where it is, and the tasks it is about to act on
  outbox,      \* per thread and task: events collected and not yet dispatched
  ended,       \* the callback's view: the number of ends it was told
  stopping     \* stopping_

nodeVars   == <<state, pausedFrom, readySet, readyAge>>
graphVars  == <<deps, unmet, succ>>
pauseVars  == <<pauseReq, deadline>>
runVars    == <<runningSet, inUse>>
workerVars == <<wpc, wtask>>
clientVars == <<cpc, cset>>
seenVars   == <<ended>>
vars == <<nodeVars, graphVars, pauseVars, runVars, canceled, workerVars,
          clientVars, outbox, seenVars, stopping>>

Threads    == Workers \cup Clients
Resources  == {"cpu", "ram", "vram"}
NoTask     == "None"
Submitted  == {t \in Tasks : state[t] # "None"}

MaxOf(a, b) == IF a >= b THEN a ELSE b

-----------------------------------------------------------------------------
(* Configuration and demands, as the constructor and submit() adjust them. *)

CpuHard == IF CpuSlotsHard <= 0 THEN Cardinality(Workers) ELSE CpuSlotsHard

Demand(t) ==
  [cpu  |-> IF CpuDemand[t] <= 0 THEN 1 ELSE CpuDemand[t],
   ram  |-> MaxOf(0, RamDemand[t]),
   vram |-> MaxOf(0, VramDemand[t])]

-----------------------------------------------------------------------------
(* The dependency graph. *)

EdgeClosed(S, through) ==
  \A d \in S \cap through, t \in Tasks : succ[d][t] > 0 => t \in S

(* The DFS of creates_cycle_locked follows every edge, also those to an id  *)
(* whose submission failed.                                                *)
Reachable(from) ==
  {t \in Tasks : \A S \in SUBSET Tasks : from \subseteq S /\ EdgeClosed(S, Tasks) => t \in S}

CreatesCycle(t, ds) == t \in Reachable({ds[i] : i \in DOMAIN ds})

(* What propagate_dependency_canceled_locked visits: descendants of root,  *)
(* through nodes that exist, terminal ones included.                       *)
Descendants(root) ==
  {t \in Submitted : \A S \in SUBSET Tasks :
      /\ \A u \in Tasks : succ[root][u] > 0 => u \in S
      /\ EdgeClosed(S, Submitted)
      => t \in S}

(* Faulty variant: nothing downstream is canceled. *)
NoDownstream(root) == {}

(* The unfinished ones among them: these are canceled. *)
Downstream(root) == {t \in Descendants(root) : ~IsTerminal(state[t])}

-----------------------------------------------------------------------------
(* Events.  A thread collects them under the mutex and hands them to the   *)
(* callback afterwards; the order between two tasks of one batch is free.  *)

NoEvents == [t \in Tasks |-> <<>>]
Event(S, s) == [t \in Tasks |-> IF t \in S THEN <<s>> ELSE <<>>]

Emit(a, events) == outbox' = [outbox EXCEPT ![a] = events]

Deliver(a, t) ==
  /\ outbox[a][t] # <<>>
  /\ LET s == Head(outbox[a][t])
     IN ended' = [ended EXCEPT ![t] = IF IsTerminal(s) THEN @ + 1 ELSE @]
  /\ outbox' = [outbox EXCEPT ![a][t] = Tail(@)]
  /\ UNCHANGED <<nodeVars, graphVars, pauseVars, runVars, canceled, workerVars, clientVars, stopping>>

-----------------------------------------------------------------------------
(* Transitions: every task moves to f[t] (its own state for most of them). *)

MoveTo(f) ==
  /\ state' = f
  /\ pausedFrom' = [t \in Tasks |-> IF f[t] = state[t] THEN pausedFrom[t]
                                     ELSE PausedFromAfter(pausedFrom[t], state[t], f[t])]
  /\ readyAge' = [t \in Tasks |-> IF f[t] = state[t] THEN readyAge[t] ELSE 0]

With(S, s) == [t \in Tasks |-> IF t \in S THEN s ELSE state[t]]

(* Faulty variants: the tokens stay; the ids stay in ready_set_; an ended   *)
(* task is canceled once more.                                             *)
RequestNothing(S) == UNCHANGED canceled
KeepReady(S) == UNCHANGED readySet
CancelHitsEnded(t) == {t} \cup Downstream(t)

RequestCancel(S) == canceled' = canceled \cup {TokenOf[t] : t \in S}
EraseReady(S) == readySet' = readySet \ S
CancelHits(t) == IF IsTerminal(state[t]) THEN {} ELSE {t} \cup Downstream(t)

(* The part of cancel() under the mutex, with the propagation it ends in.   *)
(* The token is canceled whatever the state; the rest only if t is live.   *)
CancelLocked(a, t) ==
  /\ RequestCancel({t} \cup CancelHits(t))
  /\ MoveTo(With(CancelHits(t), "Canceled"))
  /\ EraseReady(CancelHits(t))
  /\ pauseReq' = [pauseReq EXCEPT ![t] = FALSE]
  /\ Emit(a, Event(CancelHits(t), "Canceled"))

-----------------------------------------------------------------------------
(* submit(): a null stage, a known id, too large a CPU demand or a cycle     *)
(* is refused without effect.  The loop over deps then adds one edge per    *)
(* entry and stops at the first that is missing or has failed.             *)

ClientFree(c) == ~stopping /\ cpc[c] = "idle" /\ outbox[c] = NoEvents

(* Faulty variant: a Canceled dependency does not stop the submission. *)
ObstaclesButCanceled(ds) == {i \in DOMAIN ds : state[ds[i]] \in {"None", "Failed"}}

Obstacles(ds) == {i \in DOMAIN ds : state[ds[i]] \in {"None", "Failed", "Canceled"}}
StopsAt(ds, k) == k \in Obstacles(ds) /\ \A j \in Obstacles(ds) : k <= j

AddEdges(t, ds, n) ==
  succ' = [d \in Tasks |-> [u \in Tasks |->
             succ[d][u] + IF u = t THEN Cardinality({i \in 1..n : ds[i] = d}) ELSE 0]]

Submittable(c, t, ds) ==
  /\ ClientFree(c)
  /\ state[t] = "None"
  /\ Demand(t).cpu <= CpuHard
  /\ ~CreatesCycle(t, ds)

Waiting(ds) == {i \in DOMAIN ds : state[ds[i]] # "Succeeded"}

SubmitAccept(c, t, ds) ==
  /\ Submittable(c, t, ds)
  /\ Obstacles(ds) = {}
  /\ AddEdges(t, ds, Len(ds))
  /\ deps'  = [deps EXCEPT ![t] = ds]
  /\ unmet' = [unmet EXCEPT ![t] = Cardinality(Waiting(ds))]
  /\ LET s == IF Waiting(ds) = {} THEN "Ready" ELSE "Queued"
     IN /\ MoveTo(With({t}, s))
        /\ readySet' = IF s = "Ready" THEN readySet \cup {t} ELSE readySet
        /\ Emit(c, IF s = "Ready" THEN Event({t}, "Ready") ELSE NoEvents)
  /\ UNCHANGED <<pauseVars, runVars, canceled, workerVars, clientVars, seenVars, stopping>>

(* A dependency has already failed: the node is stored Canceled. *)
SubmitBlocked(c, t, ds) ==
  /\ Submittable(c, t, ds)
  /\ \E k \in DOMAIN ds :
       /\ StopsAt(ds, k) /\ state[ds[k]] # "None"
       /\ AddEdges(t, ds, k)
       /\ unmet' = [unmet EXCEPT ![t] = Cardinality({i \in Waiting(ds) : i < k})]
  /\ deps' = [deps EXCEPT ![t] = ds]
  /\ MoveTo(With({t}, "Canceled"))
  /\ Emit(c, Event({t}, "Canceled"))
  /\ UNCHANGED <<readySet, pauseVars, runVars, canceled, workerVars, clientVars, seenVars, stopping>>

(* A dependency is missing: submit() fails, but the edges it had already    *)
(* pushed into successors_ stay.                                           *)
SubmitReject(c, t, ds) ==
  /\ Submittable(c, t, ds)
  /\ \E k \in DOMAIN ds :
       /\ StopsAt(ds, k) /\ state[ds[k]] = "None"
       /\ AddEdges(t, ds, k - 1)
  /\ UNCHANGED <<nodeVars, deps, unmet, pauseVars, runVars, canceled, workerVars,
                 clientVars, outbox, seenVars, stopping>>

-----------------------------------------------------------------------------
(* cancel, pause, resume, tick *)

Cancel(c, t) ==
  /\ "cancel" \in Calls /\ ClientFree(c) /\ t \in Submitted
  /\ CancelLocked(c, t)
  /\ UNCHANGED <<graphVars, deadline, runVars, workerVars, clientVars, seenVars, stopping>>

PauseIdle(c, t) ==
  /\ "pause" \in Calls /\ ClientFree(c)
  /\ state[t] \in {"Queued", "Ready"}
  /\ MoveTo(With({t}, "Paused"))
  /\ EraseReady({t})
  /\ Emit(c, Event({t}, "Paused"))
  /\ UNCHANGED <<graphVars, pauseVars, runVars, canceled, workerVars, clientVars, seenVars, stopping>>

(* pause() of a Running task stores the request and the deadline and waits. *)
PauseRunning(c, t) ==
  /\ "pause" \in Calls /\ ClientFree(c)
  /\ state[t] = "Running"
  /\ pauseReq' = [pauseReq EXCEPT ![t] = TRUE]
  /\ deadline' = [deadline EXCEPT ![t] = PauseTimeout]
  /\ cpc'  = [cpc EXCEPT ![c] = "pauseWait"]
  /\ cset' = [cset EXCEPT ![c] = {t}]
  /\ UNCHANGED <<nodeVars, graphVars, runVars, canceled, workerVars, outbox, seenVars, stopping>>

PauseReached(t) == state[t] = "Paused" \/ IsTerminal(state[t])

PauseReturn(c) ==
  /\ cpc[c] = "pauseWait"
  /\ \A t \in cset[c] : PauseReached(t)
  /\ cpc'  = [cpc EXCEPT ![c] = "idle"]
  /\ cset' = [cset EXCEPT ![c] = {}]
  /\ UNCHANGED <<nodeVars, graphVars, pauseVars, runVars, canceled, workerVars, outbox, seenVars, stopping>>

(* Faulty variant: the wait ends only if the request has been withdrawn. *)
ExpiredWithdrawn(t) == ~PauseReached(t) /\ deadline[t] = 0 /\ ~pauseReq[t]

(* wait_until gives up.  It was handed the deadline by reference, so it     *)
(* reads the time stored last, also when another call has replaced it or   *)
(* reset the optional (which leaves the stored value in place).            *)
Expired(t) == ~PauseReached(t) /\ deadline[t] = 0

PauseExpire(c) ==
  /\ cpc[c] = "pauseWait"
  /\ \A t \in cset[c] : Expired(t)
  /\ cpc' = [cpc EXCEPT ![c] = "pauseCancel"]
  /\ UNCHANGED <<nodeVars, graphVars, pauseVars, runVars, canceled, workerVars, cset, outbox, seenVars, stopping>>

(* ... and, the mutex released and taken again, cancels the task. *)
PauseCancel(c, t) ==
  /\ cpc[c] = "pauseCancel" /\ t \in cset[c]
  /\ CancelLocked(c, t)
  /\ cpc'  = [cpc EXCEPT ![c] = "idle"]
  /\ cset' = [cset EXCEPT ![c] = {}]
  /\ UNCHANGED <<graphVars, deadline, runVars, workerVars, seenVars, stopping>>

Resume(c, t) ==
  /\ "resume" \in Calls /\ ClientFree(c)
  /\ state[t] = "Paused"
  /\ LET target == IF pausedFrom[t] = "None" THEN "Running" ELSE pausedFrom[t]
     IN /\ MoveTo(With({t}, target))
        /\ readySet' = IF target = "Ready" THEN readySet \cup {t} ELSE readySet
        /\ Emit(c, Event({t}, target))
  /\ pauseReq' = [pauseReq EXCEPT ![t] = FALSE]
  /\ UNCHANGED <<graphVars, deadline, runVars, canceled, workerVars, clientVars, seenVars, stopping>>

TimedOut == {t \in Tasks : state[t] = "Running" /\ pauseReq[t] /\ deadline[t] = 0}

TickScan(c) ==
  /\ "tick" \in Calls /\ ClientFree(c)
  /\ TimedOut # {}
  /\ cpc'  = [cpc EXCEPT ![c] = "ticking"]
  /\ cset' = [cset EXCEPT ![c] = TimedOut]
  /\ UNCHANGED <<nodeVars, graphVars, pauseVars, runVars, canceled, workerVars, outbox, seenVars, stopping>>

TickCancel(c, t) ==
  /\ cpc[c] = "ticking" /\ t \in cset[c] /\ outbox[c] = NoEvents
  /\ CancelLocked(c, t)
  /\ cset' = [cset EXCEPT ![c] = @ \ {t}]
  /\ cpc'  = [cpc EXCEPT ![c] = IF cset[c] = {t} THEN "idle" ELSE "ticking"]
  /\ UNCHANGED <<graphVars, deadline, runVars, workerVars, seenVars, stopping>>

-----------------------------------------------------------------------------
(* pick_candidate_locked *)

(* Faulty variant: any free slot will do, however many the task needs. *)
FitsOneSlot(t) == inUse.cpu < CpuHard

FitsCpuHard(t) == inUse.cpu + Demand(t).cpu <= CpuHard

FitsSoft(t) ==
  /\ RamSoft <= 0 \/ inUse.ram + Demand(t).ram <= RamSoft
  /\ VramSoft <= 0 \/ inUse.vram + Demand(t).vram <= VramSoft

Score(t) == Priority[t] + (readyAge[t] \div AgingInterval) * AgingBoost

(* t is strictly better than u.  Tasks made Ready within one clock unit are *)
(* unordered here: the code's finer clock and the task_id decide.          *)
BetterThan(t, u) == Score(t) > Score(u) \/ (Score(t) = Score(u) /\ readyAge[t] > readyAge[u])

Best(S) == {t \in S : \A u \in S : ~BetterThan(u, t)}

(* Faulty variants: the escape does not look at running_set_; no escape. *)
PickEscapeAlways ==
  LET fitting  == {t \in readySet : state[t] = "Ready" /\ FitsCpuHard(t)}
      softFit  == {t \in fitting : FitsSoft(t)}
  IN IF softFit # {} THEN Best(softFit) ELSE Best(fitting)
PickNoEscape ==
  Best({t \in readySet : state[t] = "Ready" /\ FitsCpuHard(t) /\ FitsSoft(t)})

PickCandidates ==
  LET fitting  == {t \in readySet : state[t] = "Ready" /\ FitsCpuHard(t)}
      softFit  == {t \in fitting : FitsSoft(t)}
  IN IF softFit # {} THEN Best(softFit)
     ELSE IF runningSet = {} THEN Best(fitting) ELSE {}

-----------------------------------------------------------------------------
(* worker_loop *)

WorkerFree(w) == outbox[w] = NoEvents

Reserve(t) == inUse' = [r \in Resources |-> inUse[r] + Demand(t)[r]]
(* Faulty variant: a Canceled task's resources are not given back. *)
ReleaseUnlessCanceled(t) ==
  inUse' = IF state[t] = "Canceled" THEN inUse
           ELSE [r \in Resources |-> MaxOf(0, inUse[r] - Demand(t)[r])]

Release(t) == inUse' = [r \in Resources |-> MaxOf(0, inUse[r] - Demand(t)[r])]

Dispatch(w, t) ==
  /\ wpc[w] = "idle" /\ WorkerFree(w) /\ ~stopping
  /\ t \in PickCandidates
  /\ EraseReady({t})
  /\ MoveTo(With({t}, "Running"))
  /\ Reserve(t)
  /\ runningSet' = runningSet \cup {t}
  /\ pauseReq' = [pauseReq EXCEPT ![t] = FALSE]
  /\ wpc'   = [wpc EXCEPT ![w] = "exec"]
  /\ wtask' = [wtask EXCEPT ![w] = t]
  /\ Emit(w, Event({t}, "Running"))
  /\ UNCHANGED <<graphVars, deadline, canceled, clientVars, seenVars, stopping>>

Executing(w, t) == wpc[w] = "exec" /\ wtask[w] = t /\ WorkerFree(w)

(* handle_progress_callback without a pause request only reports. *)
Progress(w, t) ==
  /\ Executing(w, t)
  /\ state[t] = "Running" /\ ~pauseReq[t]
  /\ Emit(w, Event({t}, "Running"))
  /\ UNCHANGED <<nodeVars, graphVars, pauseVars, runVars, canceled, workerVars, clientVars, seenVars, stopping>>

(* With one it is the checkpoint: the task is Paused and the worker waits,  *)
(* keeping its resources.                                                  *)
Checkpoint(w, t) ==
  /\ Executing(w, t)
  /\ state[t] = "Running" /\ pauseReq[t]
  /\ MoveTo(With({t}, "Paused"))
  /\ pauseReq' = [pauseReq EXCEPT ![t] = FALSE]
  /\ wpc' = [wpc EXCEPT ![w] = "parked"]
  /\ Emit(w, [NoEvents EXCEPT ![t] = <<"Running", "Paused">>])
  /\ UNCHANGED <<readySet, graphVars, deadline, runVars, canceled, wtask, clientVars, seenVars, stopping>>

(* Faulty variant: a parked worker does not look at stopping_. *)
ResumedOnly(t) == state[t] # "Paused"

MayProceed(t) == stopping \/ state[t] # "Paused"

Unpark(w) ==
  /\ wpc[w] = "parked" /\ WorkerFree(w)
  /\ MayProceed(wtask[w])
  /\ wpc' = [wpc EXCEPT ![w] = "exec"]
  /\ Emit(w, IF state[wtask[w]] = "Running" THEN Event({wtask[w]}, "Running") ELSE NoEvents)
  /\ UNCHANGED <<nodeVars, graphVars, pauseVars, runVars, canceled, wtask, clientVars, seenVars, stopping>>

(* finalize_execution: the first lines, common to every outcome. *)
EndExecution(w, t) ==
  /\ Executing(w, t)
  /\ runningSet' = runningSet \ {t}
  /\ Release(t)
  /\ wpc'   = [wpc EXCEPT ![w] = "idle"]
  /\ wtask' = [wtask EXCEPT ![w] = NoTask]

(* Faulty variant: the first dependency to succeed wakes the task. *)
WokenByAny(d) == {t \in Tasks : state[t] = "Queued" /\ succ[d][t] > 0}

(* wake_successors_locked: t is decremented once per edge while it is       *)
(* Queued, and becomes Ready when the count reaches 0.                     *)
Woken(d) == {t \in Tasks : state[t] = "Queued" /\ unmet[t] > 0 /\ unmet[t] <= succ[d][t]}
UnmetAfter(d) ==
  [t \in Tasks |-> IF state[t] = "Queued" THEN MaxOf(0, unmet[t] - succ[d][t]) ELSE unmet[t]]

FinishOk(w, t) ==
  /\ EndExecution(w, t)
  /\ Legal(state[t], "Succeeded")
  /\ unmet' = UnmetAfter(t)
  /\ MoveTo([u \in Tasks |-> IF u = t THEN "Succeeded"
                             ELSE IF u \in Woken(t) THEN "Ready" ELSE state[u]])
  /\ readySet' = readySet \cup Woken(t)
  /\ Emit(w, [u \in Tasks |-> IF u = t THEN <<"Succeeded">>
                              ELSE IF u \in Woken(t) THEN <<"Ready">> ELSE <<>>])
  /\ UNCHANGED <<deps, succ, pauseVars, canceled, clientVars, seenVars, stopping>>

(* Faulty variant: the result overwrites the state Canceled. *)
EndsAsAlways(t, target) == {t}

(* {t} if the result decides t's state: not if t is Canceled already, nor   *)
(* if it is still Paused at shutdown, when neither Succeeded nor Failed is  *)
(* a legal state for it.                                                   *)
EndsAs(t, target) == IF state[t] # "Canceled" /\ Legal(state[t], target) THEN {t} ELSE {}

(* Every end but success cancels the descendants. *)
FinishWith(w, t, target) ==
  LET ends == EndsAs(t, target)
      down == Downstream(t)
  IN /\ EndExecution(w, t)
     /\ RequestCancel(down)
     /\ MoveTo([u \in Tasks |-> IF u \in ends THEN target
                                ELSE IF u \in down THEN "Canceled" ELSE state[u]])
     /\ EraseReady(down)
     /\ Emit(w, [u \in Tasks |-> IF u \in ends THEN <<target>>
                                 ELSE IF u \in down THEN <<"Canceled">> ELSE <<>>])
     /\ UNCHANGED <<graphVars, pauseVars, clientVars, seenVars, stopping>>

(* The stage returned Ok, but Succeeded is not legal from here. *)
FinishLate(w, t) ==
  /\ Executing(w, t) /\ ~Legal(state[t], "Succeeded")
  /\ FinishWith(w, t, "Failed")

(* The stage returned an error: of category Canceled, or any while the      *)
(* token is canceled, makes the task Canceled; any other makes it Failed.  *)
FinishErr(w, t) ==
  \E category \in {"Canceled", "Other"} :
     FinishWith(w, t, IF category = "Canceled" \/ TokenOf[t] \in canceled
                      THEN "Canceled" ELSE "Failed")

Exit(w) ==
  /\ stopping /\ wpc[w] = "idle" /\ WorkerFree(w)
  /\ wpc' = [wpc EXCEPT ![w] = "exited"]
  /\ UNCHANGED <<nodeVars, graphVars, pauseVars, runVars, canceled, wtask, clientVars, outbox, seenVars, stopping>>

-----------------------------------------------------------------------------
(* The destructor runs when no client is inside the scheduler. *)
Stop ==
  /\ "stop" \in Calls /\ \A c \in Clients : ClientFree(c)
  /\ stopping' = TRUE
  /\ UNCHANGED <<nodeVars, graphVars, pauseVars, runVars, canceled, workerVars, clientVars, outbox, seenVars>>

(* One unit of the monotonic clock. *)
ClockTick ==
  /\ readyAge' = [t \in Tasks |-> IF state[t] = "Ready" /\ readyAge[t] < MaxAge
                                  THEN readyAge[t] + 1 ELSE readyAge[t]]
  /\ deadline' = [t \in Tasks |-> MaxOf(0, deadline[t] - 1)]
  /\ UNCHANGED <<state, pausedFrom, readySet, graphVars, pauseReq, runVars, canceled,
                 workerVars, clientVars, outbox, seenVars, stopping>>

-----------------------------------------------------------------------------
Init ==
  /\ state = [t \in Tasks |-> "None"]
  /\ pausedFrom = [t \in Tasks |-> "None"]
  /\ deps = [t \in Tasks |-> <<>>]
  /\ unmet = [t \in Tasks |-> 0]
  /\ succ = [d \in Tasks |-> [t \in Tasks |-> 0]]
  /\ pauseReq = [t \in Tasks |-> FALSE]
  /\ deadline = [t \in Tasks |-> 0]
  /\ readySet = {}
  /\ readyAge = [t \in Tasks |-> 0]
  /\ runningSet = {}
  /\ inUse = [r \in Resources |-> 0]
  /\ canceled = {}
  /\ wpc = [w \in Workers |-> "idle"]
  /\ wtask = [w \in Workers |-> NoTask]
  /\ cpc = [c \in Clients |-> "idle"]
  /\ cset = [c \in Clients |-> {}]
  /\ outbox = [a \in Threads |-> NoEvents]
  /\ ended = [t \in Tasks |-> 0]
  /\ stopping = FALSE

ClientStep(c) ==
  \/ \E t \in Tasks :
       \/ \E ds \in DepLists[t] :
            SubmitAccept(c, t, ds) \/ SubmitBlocked(c, t, ds) \/ SubmitReject(c, t, ds)
       \/ Cancel(c, t) \/ PauseIdle(c, t) \/ PauseRunning(c, t) \/ PauseCancel(c, t)
       \/ Resume(c, t) \/ TickCancel(c, t)
  \/ PauseReturn(c) \/ PauseExpire(c) \/ TickScan(c)

Finish(w, t) == FinishOk(w, t) \/ FinishLate(w, t) \/ FinishErr(w, t)

WorkerStep(w) ==
  \/ \E t \in Tasks : Dispatch(w, t) \/ Progress(w, t) \/ Checkpoint(w, t) \/ Finish(w, t)
  \/ Unpark(w) \/ Exit(w)

Next ==
  \/ \E c \in Clients : ClientStep(c)
  \/ \E w \in Workers : WorkerStep(w)
  \/ \E a \in Threads, t \in Tasks : Deliver(a, t)
  \/ Stop
  \/ ClockTick

Spec == Init /\ [][Next]_vars

(* A thread that can take its next step under the mutex, or deliver its    *)
(* next event, eventually does; time passes.                               *)
ThreadFairness ==
  /\ WF_vars(ClockTick)
  /\ \A a \in Threads : WF_vars(\E t \in Tasks : Deliver(a, t))
  /\ \A w \in Workers :
       WF_vars(\E t \in Tasks : Dispatch(w, t)) /\ WF_vars(Unpark(w)) /\ WF_vars(Exit(w))
  /\ \A c \in Clients :
       /\ WF_vars(PauseReturn(c)) /\ WF_vars(PauseExpire(c))
       /\ WF_vars(\E t \in Tasks : PauseCancel(c, t) \/ TickCancel(c, t))

(* A stage makes finitely many progress calls and then returns: strong      *)
(* fairness, because each of them interrupts the execution.                *)
StageFairness == \A w \in Workers : SF_vars(\E t \in Tasks : Finish(w, t))

ThreadFairSpec == Spec /\ ThreadFairness
FairSpec == ThreadFairSpec /\ StageFairness

-----------------------------------------------------------------------------
WorkerPcs == {"idle", "exec", "parked", "exited"}
ClientPcs == {"idle", "pauseWait", "pauseCancel", "ticking"}

(* Every field of the scheduler holds a value of its type: in particular    *)
(* paused_from never names a state resume() could not go back to, and no   *)
(* count or resource total goes below zero.                                *)
TypeOK ==
  /\ state \in [Tasks -> TaskStates \cup {"None"}]
  /\ pausedFrom \in [Tasks -> {"None", "Queued", "Ready", "Running"}]
  /\ deps \in [Tasks -> Seq(Tasks)]
  /\ unmet \in [Tasks -> Nat]
  /\ succ \in [Tasks -> [Tasks -> Nat]]
  /\ pauseReq \in [Tasks -> BOOLEAN]
  /\ deadline \in [Tasks -> 0..PauseTimeout]
  /\ readySet \subseteq Tasks
  /\ readyAge \in [Tasks -> 0..MaxAge]
  /\ runningSet \subseteq Tasks
  /\ inUse \in [Resources -> Nat]
  /\ canceled \subseteq Tokens
  /\ wpc \in [Workers -> WorkerPcs]
  /\ wtask \in [Workers -> Tasks \cup {NoTask}]
  /\ cpc \in [Clients -> ClientPcs]
  /\ cset \in [Clients -> SUBSET Tasks]
  /\ outbox \in [Threads -> [Tasks -> Seq(TaskStates)]]
  /\ ended \in [Tasks -> Nat]
  /\ stopping \in BOOLEAN

(* t holds a worker: it is executing, or paused at one of its checkpoints. *)
Active(t) == state[t] = "Running" \/ (state[t] = "Paused" /\ pausedFrom[t] = "Running")

(* ready_set_, running_set_, the workers and the states of the nodes agree  *)
(* after every critical section, whatever cancel, pause and resume do to a  *)
(* task while a worker executes it: ready_set_ holds exactly the Ready      *)
(* tasks, running_set_ exactly the tasks some worker is executing, no two  *)
(* workers execute the same task, every active task has its worker until    *)
(* the destructor makes parked workers let go, a worker only ever executes *)
(* an active or a Canceled task, and goes on with a Paused one only when   *)
(* the destructor is waiting for it.                                       *)
SetsAgree ==
  /\ readySet = {t \in Tasks : state[t] = "Ready"}
  /\ \A t \in Tasks : state[t] = "Paused" <=> pausedFrom[t] # "None"
  /\ \A w \in Workers : wtask[w] = NoTask <=> wpc[w] \in {"idle", "exited"}
  /\ \A v, w \in Workers : wtask[v] = wtask[w] /\ wtask[v] # NoTask => v = w
  /\ runningSet = {t \in Tasks : \E w \in Workers : wtask[w] = t}
  /\ \A t \in Tasks : Active(t) => t \in runningSet \/ stopping
  /\ \A t \in runningSet : Active(t) \/ state[t] = "Canceled"
  /\ \A w \in Workers : wpc[w] = "exec" /\ state[wtask[w]] = "Paused" => stopping

(* The CPU slots in use never exceed the hard budget of                     *)
(* pick_candidate_locked.                                                  *)
CpuWithinBudget == inUse["cpu"] <= CpuHard

(* What the tasks of S demand together. *)
SumOf(r, S) == MapThenSumSet(LAMBDA t : Demand(t)[r], S)

(* resource_in_use_ is exactly what the tasks in running_set_ demand: no     *)
(* path reserves or releases twice, or forgets to.                         *)
UsageIsSumOfRunning ==
  \A r \in Resources : inUse[r] = SumOf(r, runningSet)

(* RAM or VRAM exceed their soft limit only while a single task runs: the   *)
(* escape of pick_candidate_locked never lets a second task join one that  *)
(* is over budget, nor an over-budget task join others.                    *)
OverBudgetRunsAlone ==
  \/ RamSoft > 0 /\ inUse["ram"] > RamSoft
  \/ VramSoft > 0 /\ inUse["vram"] > VramSoft
  => Cardinality(runningSet) = 1

(* A task that was released to the workers has all its dependencies         *)
(* Succeeded, so worker_loop finds every input in their last_outputs.      *)
DependenciesMet ==
  \A t \in Tasks :
    \/ state[t] \in {"Ready", "Succeeded", "Failed"}
    \/ Active(t)
    \/ state[t] = "Paused" /\ pausedFrom[t] = "Ready"
    => \A i \in DOMAIN deps[t] : state[deps[t][i]] = "Succeeded"

(* No task is left behind a dependency that ended without success, whether  *)
(* the dependency failed, was canceled, or had ended before the submit.    *)
NoOrphans ==
  \A t \in Submitted : \A i \in DOMAIN deps[t] :
    state[deps[t][i]] \in {"Failed", "Canceled"} => state[t] = "Canceled"

(* A Queued task waits for something: one of its dependencies has not         *)
(* Succeeded yet, so a wakeup is still to come.  The code does not keep this: *)
(* a task paused while Queued misses the wakeup of its last dependency and   *)
(* is Queued again after resume().                                         *)
QueuedTaskWaits ==
  \A t \in Tasks : state[t] = "Queued" => \E i \in DOMAIN deps[t] : state[deps[t][i]] # "Succeeded"

(* A stage that executes finds its token canceled only if a task that shares  *)
(* the token was Canceled: cancel() of a task that has ended asks nobody to   *)
(* stop.  The code does not keep this: cancel() cancels the token first.    *)
TokenMeansCanceled ==
  \A t \in runningSet : TokenOf[t] \in canceled =>
    \E u \in Tasks : TokenOf[u] = TokenOf[t] /\ state[u] = "Canceled"

(* A stage still running for a task that was Canceled can find out: its     *)
(* cancel token is canceled, on every path that cancels the task.          *)
CanceledStageIsTold ==
  \A t \in runningSet : state[t] = "Canceled" => TokenOf[t] \in canceled

(* The callback hears of the end of each task exactly once, although        *)
(* cancel(), the propagation and finalize_execution race to announce it:    *)
(* one terminal event has been delivered or is on its way once the task    *)
(* is terminal, and none before.                                           *)
EndAnnouncedOnce ==
  \A t \in Tasks :
    LET onTheWay == {a \in Threads : outbox[a][t] # <<>> /\ IsTerminal(outbox[a][t][Len(outbox[a][t])])}
    IN ended[t] + Cardinality(onTheWay) = IF IsTerminal(state[t]) THEN 1 ELSE 0

(* A task that has ended never changes state again: a late stage result, a  *)
(* resume or a propagated cancellation cannot revive or relabel it.        *)
EndIsFinal == [][\A t \in Tasks : IsTerminal(state[t]) => state'[t] = state[t]]_vars

(* The refinement mapping: what each state is to a user of the scheduler. *)
StatusOf(t) ==
  CASE state[t] = "None" -> "absent"
    [] state[t] = "Succeeded" -> "done"
    [] state[t] \in {"Failed", "Canceled"} -> "aborted"
    [] Active(t) -> "active"
    [] OTHER -> "pending"

Lifecycle == INSTANCE TaskLifecycle
  WITH status <- [t \in Tasks |-> StatusOf(t)],
       needs  <- [t \in Tasks |-> {deps[t][i] : i \in DOMAIN deps[t]}]

(* The scheduler implements the task lifecycle: a task starts only after    *)
(* all it needs has succeeded, and failure or cancellation atomically       *)
(* takes along exactly the tasks downstream.                               *)
ImplementsLifecycle == Lifecycle!Spec

(* Every submitted task ends, if nobody pauses: dispatch is work-conserving *)
(* under both budgets, the escape admits a task over the soft limit, and    *)
(* no wakeup is lost.                                                      *)
EverySubmittedEnds == \A t \in Tasks : (t \in Submitted) ~> IsTerminal(state[t])

(* pause() returns to its caller even if the stage never reaches a          *)
(* checkpoint and never ends.                                              *)
PauseCallReturns == \A k \in Clients : (cpc[k] # "idle") ~> (cpc[k] = "idle")

(* The destructor's joins wait for stages and for nothing else: every         *)
(* worker leaves its loop, those parked at a checkpoint included, except     *)
(* one inside a stage that does not return.                                *)
DestructorReturns == stopping ~> (\A w \in Workers : wpc[w] \in {"exited", "exec"})
==============================================================================
