------------------------ MODULE ThreadPoolGraphProofs ------------------------
(***************************************************************************)
(* Theorems about the dependency graph of ThreadPoolScheduler: a task is   *)
(* released only after its dependencies succeeded, no task waits behind    *)
(* one that failed, and the scheduler implements TaskLifecycle.            *)
(*                                                                         *)
(* They hold for clients that keep to one set of dependencies per task id. *)
(* A submit() that fails at a missing dependency leaves the edges it had   *)
(* recorded; a later submit() of the id that names one of their sources is *)
(* refused as a cycle, but one that names none of them would be accepted   *)
(* and released by the old edges.                                          *)
(***************************************************************************)
EXTENDS ThreadPoolSchedulerProofs

NamesOf(ds)   == {ds[i] : i \in DOMAIN ds}
Copies(ds, x) == {i \in DOMAIN ds : ds[i] = x}

SameDeps == \A t \in Tasks : \A p, q \in DepLists[t] : NamesOf(p) = NamesOf(q)

Accepted(t) == state[t] \notin {"None", "Canceled"}
Pending(t)  == state[t] = "Queued" \/ (state[t] = "Paused" /\ pausedFrom[t] = "Queued")
Released(t) ==
  \/ state[t] \in {"Ready", "Succeeded", "Failed"}
  \/ Active(t)
  \/ state[t] = "Paused" /\ pausedFrom[t] = "Ready"

(* Edges to an id without a node were left by a failed submit of that id. *)
StrayEdges ==
  \A t \in Tasks : state[t] = "None" =>
    \A x \in Tasks : succ[x][t] > 0 => \E ds \in DepLists[t] : x \in NamesOf(ds)

(* successors_ holds an accepted task once per entry of its deps. *)
EdgesMatch ==
  \A t \in Tasks : Accepted(t) => \A x \in Tasks : succ[x][t] = Cardinality(Copies(deps[t], x))

DepsKnown == \A t \in Tasks : Accepted(t) => NamesOf(deps[t]) \subseteq Submitted

(* unmet_deps never undercounts; a task paused while Queued may be          *)
(* overcounted, for wake_successors_locked passes it over.                 *)
CountsCover == \A t \in Tasks : Pending(t) => Cardinality(Waiting(deps[t])) <= unmet[t]

GraphInv == StrayEdges /\ EdgesMatch /\ DepsKnown /\ CountsCover /\ DependenciesMet

-----------------------------------------------------------------------------
(* The steps, by what they do to the graph *)

(* H is canceled or fails; root is where the propagation began. *)
AbortStep(root, H) ==
  /\ H \in {{}, Downstream(root), {root} \cup Downstream(root)}
  /\ state[root] \notin {"None", "Succeeded"} \/ H = {}
  /\ \A u \in H : /\ u \in Submitted /\ ~IsTerminal(state[u])
                  /\ state'[u] = "Canceled" \/ (state'[u] = "Failed" /\ Active(u))
  /\ \A u \in Tasks \ H : state'[u] = state[u] /\ pausedFrom'[u] = pausedFrom[u]
  /\ UNCHANGED graphVars

(* Pausing, resuming and reporting. *)
QuietStep ==
  /\ UNCHANGED graphVars
  /\ \A u \in Tasks :
       /\ \A s \in {"None", "Succeeded", "Failed", "Canceled"} : state'[u] = s <=> state[u] = s
       /\ Pending(u)' <=> Pending(u)
       /\ Active(u)' <=> Active(u)

GraphStep ==
  \/ \E k \in Clients, t \in Tasks : \E ds \in DepLists[t] :
       SubmitAccept(k, t, ds) \/ SubmitBlocked(k, t, ds) \/ SubmitReject(k, t, ds)
  \/ \E root \in Tasks, H \in SUBSET Tasks : AbortStep(root, H)
  \/ \E w \in Workers, t \in Tasks : FinishOk(w, t) \/ Dispatch(w, t)
  \/ QuietStep

LEMMA MoveOne ==
  ASSUME TypeOK, SetsAgree, NEW t \in Tasks, NEW s \in TaskStates, MoveTo(With({t}, s)),
         s = "Paused" => state[t] \in {"Queued", "Ready", "Running"}
  PROVE  /\ state'[t] = s
         /\ \A u \in Tasks : u # t => state'[u] = state[u] /\ pausedFrom'[u] = pausedFrom[u]
         /\ s = "Paused" => pausedFrom'[t] = state[t]
<1> DEFINE f == With({t}, s)
<1>1. f \in [Tasks -> TaskStates \cup {"None"}]
  BY WithType
<1>2. \A u \in Tasks : f[u] = IF u = t THEN s ELSE state[u]
  BY DEF With
<1> HIDE DEF f
<1>3. \A u \in Tasks : state[u] = "Paused" <=> pausedFrom[u] # "None"
  BY DEF SetsAgree
<1>4. \A u \in Tasks : f[u] = "Paused" /\ state[u] # "Paused" => state[u] \in {"Queued", "Ready", "Running"}
  BY <1>2
<1>5. MoveTo(f)
  BY DEF f
<1>6. QED
  BY <1>1, <1>2, <1>3, <1>4, <1>5, MoveToFacts

(* Pausing or resuming one task. *)
LEMMA MoveIsQuiet ==
  ASSUME TypeOK, SetsAgree, SetsAgree', NEW t \in Tasks, NEW s \in TaskStates, MoveTo(With({t}, s)), UNCHANGED graphVars,
         \/ s = "Paused" /\ state[t] \in {"Queued", "Ready", "Running"}
         \/ state[t] = "Paused" /\ s = pausedFrom[t] /\ s \in {"Queued", "Ready", "Running"}
  PROVE  QuietStep
<1>1. /\ state'[t] = s
      /\ \A u \in Tasks : u # t => state'[u] = state[u] /\ pausedFrom'[u] = pausedFrom[u]
      /\ s = "Paused" => pausedFrom'[t] = state[t]
  BY MoveOne
<1>2. QED
  BY <1>1 DEF QuietStep, Pending, Active

LEMMA CancelIsAbort ==
  ASSUME TypeOK, SetsAgree, NEW x \in Threads, NEW t \in Submitted, CancelLocked(x, t), UNCHANGED graphVars
  PROVE  \E H \in SUBSET Tasks : AbortStep(t, H)
<1>1. t \in Tasks /\ \A u \in CancelHits(t) : u \in Submitted /\ u \in Tasks /\ ~IsTerminal(state[u])
  BY DEF CancelHits, Downstream, Descendants, Submitted
<1>2. /\ CancelHits(t) \in {{}, {t} \cup Downstream(t)}
      /\ state[t] \notin {"None", "Succeeded"} \/ CancelHits(t) = {}
  BY DEF CancelHits, IsTerminal, Submitted
<1>3. \A u \in Tasks : state'[u] = IF u \in CancelHits(t) THEN "Canceled" ELSE state[u]
  BY DEF CancelLocked, MoveTo, With
<1>4. \A u \in Tasks : u \notin CancelHits(t) => pausedFrom'[u] = pausedFrom[u]
  BY DEF CancelLocked, MoveTo, With
<1>5. AbortStep(t, CancelHits(t))
  BY <1>1, <1>2, <1>3, <1>4 DEF AbortStep
<1>6. QED
  BY <1>1, <1>5

LEMMA FinishIsAbort ==
  ASSUME TypeOK, SetsAgree, NEW w \in Workers, NEW t \in Tasks, NEW s \in {"Failed", "Canceled"}, FinishWith(w, t, s)
  PROVE  \E H \in SUBSET Tasks : AbortStep(t, H)
<1> DEFINE H == EndsAs(t, s) \cup Downstream(t)
<1>1. t \in runningSet /\ state[t] \in {"Running", "Paused", "Canceled"}
  <2>1. t \in runningSet
    BY BusyWorker DEF FinishWith, EndExecution, Executing
  <2>2. QED
    BY <2>1 DEF SetsAgree, Active
<1>2. EndsAs(t, s) \in {{}, {t}} /\ \A u \in EndsAs(t, s) : u = t /\ state[t] # "Canceled"
  BY DEF EndsAs
<1>3. H \in {{}, Downstream(t), {t} \cup Downstream(t)}
  BY <1>2
<1>4. \A u \in Downstream(t) : u \in Submitted /\ u \in Tasks /\ ~IsTerminal(state[u])
  BY DEF Downstream, Descendants, Submitted
<1>5. \A u \in H : u \in Submitted /\ u \in Tasks /\ ~IsTerminal(state[u])
  BY <1>1, <1>2, <1>4 DEF Submitted, IsTerminal
<1>6. s = "Failed" => \A u \in EndsAs(t, s) : Active(u)
  BY <1>1, <1>2 DEF EndsAs, Legal, Successors, Active
<1>7. /\ \A u \in H : state'[u] = "Canceled" \/ (state'[u] = "Failed" /\ Active(u))
      /\ \A u \in Tasks \ H : state'[u] = state[u] /\ pausedFrom'[u] = pausedFrom[u]
  BY <1>5, <1>6 DEF FinishWith, MoveTo
<1>8. UNCHANGED graphVars
  BY DEF FinishWith
<1> HIDE DEF H
<1>9. AbortStep(t, H)
  BY <1>1, <1>3, <1>5, <1>7, <1>8 DEF AbortStep
<1>10. QED
  BY <1>5, <1>9

LEMMA FrameIsQuiet ==
  ASSUME UNCHANGED <<state, pausedFrom, graphVars>>
  PROVE  QuietStep
BY DEF QuietStep, Pending, Active, graphVars

(* What pause() and tick() are about to cancel was submitted. *)
SetsNamed == \A k \in Clients : cset[k] \subseteq Submitted

LEMMA StepKinds ==
  ASSUME TypeOK, SetsAgree, SetsAgree', SetsNamed, [Next]_vars
  PROVE  GraphStep
<1>1. ASSUME NEW k \in Clients, ClientStep(k) PROVE GraphStep
  <2>0. k \in Threads
    BY DEF Threads
  <2>1. ASSUME NEW t \in Tasks, NEW ds \in DepLists[t],
               SubmitAccept(k, t, ds) \/ SubmitBlocked(k, t, ds) \/ SubmitReject(k, t, ds)
        PROVE  GraphStep
    BY <2>1 DEF GraphStep
  <2>2. ASSUME NEW t \in Tasks, Cancel(k, t) \/ PauseCancel(k, t) \/ TickCancel(k, t) PROVE GraphStep
    <3>1. t \in Submitted /\ CancelLocked(k, t) /\ UNCHANGED graphVars
      BY <2>2 DEF Cancel, PauseCancel, TickCancel, SetsNamed
    <3>2. QED
      BY <2>0, <3>1, CancelIsAbort DEF GraphStep, Submitted
  <2>3. ASSUME NEW t \in Tasks, PauseIdle(k, t) PROVE GraphStep
    <3>1. MoveTo(With({t}, "Paused")) /\ UNCHANGED graphVars /\ state[t] \in {"Queued", "Ready"} /\ "Paused" \in TaskStates
      BY <2>3 DEF PauseIdle, TaskStates
    <3>2. QED
      BY <3>1, MoveIsQuiet DEF GraphStep
  <2>4. ASSUME NEW t \in Tasks, Resume(k, t) PROVE GraphStep
    <3>1. pausedFrom[t] \in {"Queued", "Ready", "Running"} /\ pausedFrom[t] \in TaskStates /\ state[t] = "Paused"
      BY <2>4 DEF Resume, SetsAgree, TypeOK, TaskStates
    <3>2. MoveTo(With({t}, pausedFrom[t])) /\ UNCHANGED graphVars
      BY <2>4, <3>1 DEF Resume
    <3>3. QED
      BY <3>1, <3>2, MoveIsQuiet DEF GraphStep
  <2>5. ASSUME NEW t \in Tasks, PauseRunning(k, t) PROVE GraphStep
    BY <2>5, FrameIsQuiet DEF PauseRunning, nodeVars, GraphStep
  <2>6. CASE PauseReturn(k) \/ PauseExpire(k) \/ TickScan(k)
    BY <2>6, FrameIsQuiet DEF PauseReturn, PauseExpire, TickScan, nodeVars, GraphStep
  <2>7. QED
    BY <1>1, <2>1, <2>2, <2>3, <2>4, <2>5, <2>6 DEF ClientStep
<1>2. ASSUME NEW w \in Workers, WorkerStep(w) PROVE GraphStep
  <2>1. ASSUME NEW t \in Tasks, Dispatch(w, t) \/ FinishOk(w, t) PROVE GraphStep
    BY <2>1 DEF GraphStep
  <2>2. ASSUME NEW t \in Tasks, NEW s \in {"Failed", "Canceled"}, FinishWith(w, t, s) PROVE GraphStep
    BY <2>2, FinishIsAbort DEF GraphStep
  <2>3. ASSUME NEW t \in Tasks, Checkpoint(w, t) PROVE GraphStep
    <3>1. MoveTo(With({t}, "Paused")) /\ UNCHANGED graphVars /\ state[t] = "Running" /\ "Paused" \in TaskStates
      BY <2>3 DEF Checkpoint, TaskStates
    <3>2. QED
      BY <3>1, MoveIsQuiet DEF GraphStep
  <2>4. ASSUME NEW t \in Tasks, Progress(w, t) PROVE GraphStep
    BY <2>4, FrameIsQuiet DEF Progress, nodeVars, GraphStep
  <2>5. CASE Unpark(w) \/ Exit(w)
    BY <2>5, FrameIsQuiet DEF Unpark, Exit, nodeVars, GraphStep
  <2>6. QED
    BY <1>2, <2>1, <2>2, <2>3, <2>4, <2>5 DEF WorkerStep, Finish, FinishLate, FinishErr
<1>3. CASE (\E x \in Threads, t \in Tasks : Deliver(x, t)) \/ Stop \/ ClockTick \/ UNCHANGED vars
  BY <1>3, FrameIsQuiet DEF Deliver, Stop, ClockTick, vars, nodeVars, GraphStep
<1>4. QED
  BY <1>1, <1>2, <1>3 DEF Next

LEMMA AcceptFacts ==
  ASSUME TypeOK, NEW k \in Clients, NEW t \in Tasks, NEW ds \in DepLists[t], SubmitAccept(k, t, ds)
  PROVE  /\ state'[t] = IF Waiting(ds) = {} THEN "Ready" ELSE "Queued"
         /\ \A u \in Tasks : u # t => state'[u] = state[u] /\ pausedFrom'[u] = pausedFrom[u]
BY DEF SubmitAccept, MoveTo, With

LEMMA BlockedFacts ==
  ASSUME TypeOK, NEW k \in Clients, NEW t \in Tasks, NEW ds \in DepLists[t], SubmitBlocked(k, t, ds)
  PROVE  /\ state'[t] = "Canceled"
         /\ \A u \in Tasks : u # t => state'[u] = state[u] /\ pausedFrom'[u] = pausedFrom[u]
BY DEF SubmitBlocked, MoveTo, With

LEMMA OkFacts ==
  ASSUME TypeOK, SetsAgree, NEW w \in Workers, NEW t \in Tasks, FinishOk(w, t)
  PROVE  /\ state[t] = "Running"
         /\ \A u \in Tasks : state'[u] = IF u = t THEN "Succeeded" ELSE IF u \in Woken(t) THEN "Ready" ELSE state[u]
         /\ \A u \in Tasks : u # t /\ u \notin Woken(t) => pausedFrom'[u] = pausedFrom[u]
<1>1. state[t] = "Running"
  <2>1. t \in runningSet /\ Legal(state[t], "Succeeded")
    BY BusyWorker DEF FinishOk, EndExecution, Executing
  <2>2. state[t] \in {"Running", "Paused", "Canceled"}
    BY <2>1 DEF SetsAgree, Active
  <2>3. QED
    BY <2>1, <2>2 DEF Legal, Successors
<1>2. QED
  BY <1>1 DEF FinishOk, MoveTo

LEMMA DispatchFacts ==
  ASSUME TypeOK, NEW w \in Workers, NEW t \in Tasks, Dispatch(w, t)
  PROVE  /\ state[t] = "Ready" /\ state'[t] = "Running"
         /\ \A u \in Tasks : u # t => state'[u] = state[u] /\ pausedFrom'[u] = pausedFrom[u]
BY PickedIsReady DEF Dispatch, MoveTo, With

LEMMA SubmittedGrows ==
  ASSUME TypeOK, SetsAgree, GraphStep
  PROVE  Submitted \subseteq Submitted'
<1>1. CASE \E k \in Clients, t \in Tasks : \E ds \in DepLists[t] : SubmitAccept(k, t, ds) \/ SubmitBlocked(k, t, ds)
  BY <1>1, AcceptFacts, BlockedFacts DEF Submitted
<1>2. CASE \E k \in Clients, t \in Tasks : \E ds \in DepLists[t] : SubmitReject(k, t, ds)
  BY <1>2 DEF SubmitReject, nodeVars, Submitted
<1>3. CASE \E root \in Tasks, H \in SUBSET Tasks : AbortStep(root, H)
  BY <1>3 DEF AbortStep, Submitted
<1>4. CASE \E w \in Workers, t \in Tasks : FinishOk(w, t)
  BY <1>4, OkFacts DEF Submitted
<1>5. CASE \E w \in Workers, t \in Tasks : Dispatch(w, t)
  BY <1>5, DispatchFacts DEF Submitted
<1>6. CASE QuietStep
  BY <1>6 DEF QuietStep, Submitted
<1>7. QED
  BY <1>1, <1>2, <1>3, <1>4, <1>5, <1>6 DEF GraphStep

(* The ids pause() and tick() remember between two critical sections name   *)
(* submitted tasks when they are canceled.                                 *)
THEOREM RememberedAreSubmitted == Spec => []SetsNamed
<1>1. Init => SetsNamed
  BY DEF Init, SetsNamed
<1>2. TypeOK /\ SetsAgree /\ SetsAgree' /\ SetsNamed /\ [Next]_vars => SetsNamed'
  <2> SUFFICES ASSUME TypeOK, SetsAgree, SetsAgree', SetsNamed, [Next]_vars PROVE SetsNamed'
    OBVIOUS
  <2>1. Submitted \subseteq Submitted'
    BY StepKinds, SubmittedGrows
  <2>2. \A k \in Clients : cset'[k] \subseteq cset[k] \cup Submitted
    <3>1. ASSUME NEW k \in Clients, ClientStep(k) PROVE \A j \in Clients : cset'[j] \subseteq cset[j] \cup Submitted
      <4>0. cset \in [Clients -> SUBSET Tasks]
        BY DEF TypeOK
      <4>1. ASSUME NEW S \in SUBSET (cset[k] \cup Submitted), cset' = [cset EXCEPT ![k] = S]
            PROVE  \A j \in Clients : cset'[j] \subseteq cset[j] \cup Submitted
        BY <4>0, <4>1
      <4>2. ASSUME NEW t \in Tasks, PauseRunning(k, t) PROVE \A j \in Clients : cset'[j] \subseteq cset[j] \cup Submitted
        <5>1. cset' = [cset EXCEPT ![k] = {t}] /\ t \in Submitted
          BY <4>2 DEF PauseRunning, Submitted
        <5>2. QED
          BY <4>1, <5>1
      <4>3. ASSUME NEW t \in Tasks, PauseCancel(k, t) \/ TickCancel(k, t)
            PROVE  \A j \in Clients : cset'[j] \subseteq cset[j] \cup Submitted
        <5>1. cset' = [cset EXCEPT ![k] = {}] \/ cset' = [cset EXCEPT ![k] = cset[k] \ {t}]
          BY <4>3 DEF PauseCancel, TickCancel
        <5>2. QED
          BY <4>1, <5>1
      <4>4. CASE PauseReturn(k)
        BY <4>1, <4>4 DEF PauseReturn
      <4>5. CASE TickScan(k)
        <5>1. cset' = [cset EXCEPT ![k] = TimedOut] /\ TimedOut \subseteq Submitted
          BY <4>5 DEF TickScan, TimedOut, Submitted
        <5>2. QED
          BY <4>1, <5>1
      <4>6. ASSUME NEW t \in Tasks, Cancel(k, t) \/ PauseIdle(k, t) \/ Resume(k, t) PROVE UNCHANGED cset
        BY <4>6 DEF Cancel, PauseIdle, Resume, clientVars
      <4>7. ASSUME NEW t \in Tasks, NEW ds \in DepLists[t],
                   SubmitAccept(k, t, ds) \/ SubmitBlocked(k, t, ds) \/ SubmitReject(k, t, ds)
            PROVE  UNCHANGED cset
        BY <4>7 DEF SubmitAccept, SubmitBlocked, SubmitReject, clientVars
      <4>8. CASE PauseExpire(k)
        BY <4>8 DEF PauseExpire
      <4>9. QED
        BY <3>1, <4>2, <4>3, <4>4, <4>5, <4>6, <4>7, <4>8 DEF ClientStep
    <3>2. ASSUME NEW w \in Workers, WorkerStep(w) PROVE UNCHANGED cset
      BY <3>2 DEF WorkerStep, Dispatch, Progress, Checkpoint, Finish, FinishOk, FinishLate, FinishErr, FinishWith,
                  Unpark, Exit, clientVars
    <3>3. CASE (\E x \in Threads, t \in Tasks : Deliver(x, t)) \/ Stop \/ ClockTick \/ UNCHANGED vars
      BY <3>3 DEF Deliver, Stop, ClockTick, vars, clientVars
    <3>4. QED
      BY <3>1, <3>2, <3>3 DEF Next
  <2>3. QED
    BY <2>1, <2>2 DEF SetsNamed
<1>3. QED
  BY <1>1, <1>2, TypeCorrect, SetsAlwaysAgree, PTL DEF Spec

-----------------------------------------------------------------------------
(* The invariant of the graph *)

LEMMA ListFacts ==
  ASSUME NEW ds \in Seq(Tasks)
  PROVE  /\ Len(ds) \in Nat /\ DOMAIN ds = 1..Len(ds) /\ \A i \in DOMAIN ds : ds[i] \in Tasks
         /\ IsFiniteSet(Waiting(ds)) /\ Cardinality(Waiting(ds)) \in Nat
         /\ \A x : IsFiniteSet(Copies(ds, x)) /\ Cardinality(Copies(ds, x)) \in Nat
<1>1. Len(ds) \in Nat /\ DOMAIN ds = 1..Len(ds) /\ \A i \in DOMAIN ds : ds[i] \in Tasks
  OBVIOUS
<1>2. Waiting(ds) \in SUBSET (1..Len(ds)) /\ \A x : Copies(ds, x) \in SUBSET (1..Len(ds))
  BY <1>1 DEF Waiting, Copies
<1>3. QED
  BY <1>1, <1>2, PositionsCount

(* In an accepted task's list exactly the sources of its edges are named. *)
LEMMA EdgeMeansNamed ==
  ASSUME TypeOK, EdgesMatch, NEW t \in Tasks, Accepted(t), NEW x \in Tasks
  PROVE  succ[x][t] > 0 <=> x \in NamesOf(deps[t])
<1>1. deps[t] \in Seq(Tasks)
  BY DEF TypeOK
<1>2. IsFiniteSet(Copies(deps[t], x)) /\ Cardinality(Copies(deps[t], x)) \in Nat
  BY <1>1, ListFacts
<1>3. Cardinality(Copies(deps[t], x)) = 0 <=> Copies(deps[t], x) = {}
  BY <1>2, FS_EmptySet
<1>4. Copies(deps[t], x) = {} <=> x \notin NamesOf(deps[t])
  BY DEF Copies, NamesOf
<1>5. succ[x][t] = Cardinality(Copies(deps[t], x))
  BY DEF EdgesMatch
<1>6. QED
  BY <1>2, <1>3, <1>4, <1>5

(* Steps that leave the lists, the edges and the counts alone. *)
LEMMA FrameKeepsGraph ==
  ASSUME TypeOK, GraphInv, UNCHANGED graphVars,
         \A u \in Tasks : (state'[u] = "None" <=> state[u] = "None") /\ (state'[u] = "Succeeded" <=> state[u] = "Succeeded"),
         \A u \in Tasks : state[u] = "Canceled" => state'[u] = "Canceled",
         \A u \in Tasks : (Pending(u)' => Pending(u)) /\ (Released(u)' => Released(u))
  PROVE  GraphInv'
<1> USE DEF graphVars
<1>1. StrayEdges'
  BY DEF GraphInv, StrayEdges
<1>2. \A u \in Tasks : Accepted(u)' => Accepted(u)
  BY DEF Accepted
<1>3. EdgesMatch'
  BY <1>2 DEF GraphInv, EdgesMatch
<1>4. DepsKnown'
  BY <1>2 DEF GraphInv, DepsKnown, Submitted
<1>5. ASSUME NEW u \in Tasks PROVE Waiting(deps[u])' = Waiting(deps[u])
  <2>1. deps[u] \in Seq(Tasks) /\ deps'[u] = deps[u]
    BY DEF TypeOK
  <2>2. \A i \in DOMAIN deps[u] : deps[u][i] \in Tasks
    BY <2>1, ListFacts
  <2>3. QED
    BY <2>1, <2>2 DEF Waiting
<1>6. CountsCover'
  BY <1>5 DEF GraphInv, CountsCover
<1>7. DependenciesMet'
  <2>1. ASSUME NEW u \in Tasks, Released(u)', NEW i \in DOMAIN deps'[u] PROVE state'[deps'[u][i]] = "Succeeded"
    <3>1. deps[u] \in Seq(Tasks) /\ deps'[u] = deps[u] /\ Released(u)
      BY <2>1 DEF TypeOK
    <3>2. state[deps[u][i]] = "Succeeded" /\ deps[u][i] \in Tasks
      BY <2>1, <3>1, ListFacts DEF GraphInv, DependenciesMet, Released
    <3>3. QED
      BY <3>1, <3>2
  <2>2. QED
    BY <2>1 DEF DependenciesMet, Released, Active
<1>8. QED
  BY <1>1, <1>3, <1>4, <1>6, <1>7 DEF GraphInv

LEMMA AbortKeepsGraph ==
  ASSUME TypeOK, GraphInv, NEW root \in Tasks, NEW H \in SUBSET Tasks, AbortStep(root, H)
  PROVE  GraphInv'
<1>1. \A u \in Tasks : (state'[u] = "None" <=> state[u] = "None") /\ (state'[u] = "Succeeded" <=> state[u] = "Succeeded")
  BY DEF AbortStep, IsTerminal, Submitted
<1>2. \A u \in Tasks : state[u] = "Canceled" => state'[u] = "Canceled"
  BY DEF AbortStep, IsTerminal
<1>3. \A u \in Tasks : (Pending(u)' => Pending(u)) /\ (Released(u)' => Released(u))
  BY DEF AbortStep, Pending, Released, Active
<1>4. UNCHANGED graphVars
  BY DEF AbortStep
<1>5. QED
  BY <1>1, <1>2, <1>3, <1>4, FrameKeepsGraph

(* An accepted task that has not been released is waiting. *)
LEMMA PendingOrReleased ==
  ASSUME TypeOK, SetsAgree, NEW u \in Tasks, Accepted(u)
  PROVE  Released(u) <=> ~Pending(u)
<1>1. state[u] \in TaskStates /\ pausedFrom[u] \in {"None", "Queued", "Ready", "Running"}
  BY DEF TypeOK, Accepted
<1>2. state[u] = "Paused" <=> pausedFrom[u] # "None"
  BY DEF SetsAgree
<1>3. QED
  BY <1>1, <1>2 DEF Released, Pending, Active, Accepted, TaskStates

LEMMA QuietKeepsGraph ==
  ASSUME TypeOK, TypeOK', SetsAgree, SetsAgree', GraphInv, QuietStep
  PROVE  GraphInv'
<1>1. \A u \in Tasks : (state'[u] = "None" <=> state[u] = "None") /\ (state'[u] = "Succeeded" <=> state[u] = "Succeeded")
  BY DEF QuietStep
<1>2. \A u \in Tasks : state[u] = "Canceled" <=> state'[u] = "Canceled"
  BY DEF QuietStep
<1>3. \A u \in Tasks : Pending(u)' => Pending(u)
  BY DEF QuietStep
<1>4. ASSUME NEW u \in Tasks, Released(u)' PROVE Released(u)
  <2>1. Accepted(u)'
    BY <1>4 DEF Released, Accepted, Active
  <2>2. Accepted(u)
    BY <1>1, <1>2, <2>1 DEF Accepted
  <2>3. state'[u] \in TaskStates /\ (state'[u] = "Paused" <=> pausedFrom'[u] # "None")
    BY <2>1 DEF TypeOK, Accepted, SetsAgree
  <2>4. ~Pending(u)'
    BY <1>4, <2>3 DEF Released, Pending, Active
  <2>5. ~Pending(u)
    BY <2>4 DEF QuietStep
  <2>6. QED
    BY <2>2, <2>5, PendingOrReleased
<1>5. UNCHANGED graphVars
  BY DEF QuietStep
<1>6. QED
  BY <1>1, <1>2, <1>3, <1>4, <1>5, FrameKeepsGraph

LEMMA DispatchKeepsGraph ==
  ASSUME TypeOK, GraphInv, NEW w \in Workers, NEW t \in Tasks, Dispatch(w, t)
  PROVE  GraphInv'
<1>0. /\ state[t] = "Ready" /\ state'[t] = "Running"
      /\ \A u \in Tasks : u # t => state'[u] = state[u] /\ pausedFrom'[u] = pausedFrom[u]
  BY DispatchFacts
<1>1. \A u \in Tasks : (state'[u] = "None" <=> state[u] = "None") /\ (state'[u] = "Succeeded" <=> state[u] = "Succeeded")
  BY <1>0
<1>2. \A u \in Tasks : state[u] = "Canceled" => state'[u] = "Canceled"
  BY <1>0
<1>3. \A u \in Tasks : (Pending(u)' => Pending(u)) /\ (Released(u)' => Released(u))
  BY <1>0 DEF Pending, Released, Active
<1>4. UNCHANGED graphVars
  BY DEF Dispatch
<1>5. QED
  BY <1>1, <1>2, <1>3, <1>4, FrameKeepsGraph

(* A step that gives t a node: what it leaves of the invariant to show. *)
LEMMA NewNodeKeepsOthers ==
  ASSUME TypeOK, GraphInv, NEW t \in Tasks, state[t] = "None", state'[t] \notin {"None", "Succeeded"},
         \A u \in Tasks : u # t => /\ state'[u] = state[u] /\ pausedFrom'[u] = pausedFrom[u]
                                  /\ deps'[u] = deps[u] /\ unmet'[u] = unmet[u]
                                  /\ \A x \in Tasks : succ'[x][u] = succ[x][u]
  PROVE  /\ StrayEdges'
         /\ \A u \in Tasks : u # t =>
              /\ Accepted(u)' => /\ \A x \in Tasks : succ'[x][u] = Cardinality(Copies(deps'[u], x))
                                 /\ NamesOf(deps'[u]) \subseteq Submitted'
              /\ Pending(u)' => Cardinality(Waiting(deps[u])') <= unmet'[u]
              /\ Released(u)' => \A i \in DOMAIN deps'[u] : state'[deps'[u][i]] = "Succeeded"
<1>1. StrayEdges'
  BY DEF GraphInv, StrayEdges
<1>2. ASSUME NEW u \in Tasks, u # t
      PROVE  /\ Accepted(u)' => /\ \A x \in Tasks : succ'[x][u] = Cardinality(Copies(deps'[u], x))
                                /\ NamesOf(deps'[u]) \subseteq Submitted'
             /\ Pending(u)' => Cardinality(Waiting(deps[u])') <= unmet'[u]
             /\ Released(u)' => \A i \in DOMAIN deps'[u] : state'[deps'[u][i]] = "Succeeded"
  <2>1. (Accepted(u)' <=> Accepted(u)) /\ (Pending(u)' <=> Pending(u)) /\ (Released(u)' <=> Released(u))
    BY <1>2 DEF Accepted, Pending, Released, Active
  <2>2. deps[u] \in Seq(Tasks) /\ deps'[u] = deps[u]
    BY <1>2 DEF TypeOK
  <2>3. \A i \in DOMAIN deps[u] : deps[u][i] \in Tasks
    BY <2>2, ListFacts
  <2>4. \A x \in Tasks : state'[x] = "Succeeded" <=> state[x] = "Succeeded"
    OBVIOUS
  <2>5. Waiting(deps[u])' = Waiting(deps[u])
    BY <2>2, <2>3, <2>4 DEF Waiting
  <2>6. Submitted \subseteq Submitted'
    BY DEF Submitted
  <2>7. Accepted(u) => /\ \A x \in Tasks : succ'[x][u] = Cardinality(Copies(deps'[u], x))
                       /\ NamesOf(deps'[u]) \subseteq Submitted'
    BY <1>2, <2>2, <2>6 DEF GraphInv, EdgesMatch, DepsKnown
  <2>8. Pending(u) => Cardinality(Waiting(deps[u])') <= unmet'[u]
    BY <1>2, <2>5 DEF GraphInv, CountsCover
  <2>9. Released(u) => \A i \in DOMAIN deps'[u] : state'[deps'[u][i]] = "Succeeded"
    BY <2>2, <2>3, <2>4 DEF GraphInv, DependenciesMet, Released
  <2>10. QED
    BY <2>1, <2>7, <2>8, <2>9
<1>3. QED
  BY <1>1, <1>2

(* submit() is refused as a cycle while an edge of a failed submit of the    *)
(* same dependencies is there.                                             *)
LEMMA AcceptedIsFresh ==
  ASSUME TypeOK, GraphInv, SameDeps, NEW t \in Tasks, NEW ds \in DepLists[t],
         state[t] = "None", ~CreatesCycle(t, ds)
  PROVE  \A x \in Tasks : succ[x][t] = 0
<1>1. SUFFICES ASSUME NEW x \in Tasks, succ[x][t] # 0 PROVE FALSE
  OBVIOUS
<1>2. succ[x][t] > 0
  BY <1>1 DEF TypeOK
<1>3. x \in NamesOf(ds)
  BY <1>2 DEF GraphInv, StrayEdges, SameDeps
<1>4. \A S \in SUBSET Tasks : NamesOf(ds) \subseteq S /\ EdgeClosed(S, Tasks) => t \in S
  BY <1>2, <1>3 DEF EdgeClosed
<1>5. t \in Reachable(NamesOf(ds))
  BY <1>4 DEF Reachable
<1>6. QED
  BY <1>5 DEF CreatesCycle, NamesOf

LEMMA AddedEdges ==
  ASSUME TypeOK, NEW t \in Tasks, NEW ds \in Seq(Tasks), NEW n \in 0..Len(ds), AddEdges(t, ds, n)
  PROVE  /\ \A x, u \in Tasks : u # t => succ'[x][u] = succ[x][u]
         /\ \A x \in Tasks : succ'[x][t] = succ[x][t] + Cardinality({i \in 1..n : ds[i] = x})
<1>1. \A x, u \in Tasks : succ[x][u] \in Nat
  BY DEF TypeOK
<1>2. QED
  BY <1>1 DEF AddEdges

LEMMA AcceptKeepsGraph ==
  ASSUME TypeOK, TypeOK', SetsAgree, SetsAgree', GraphInv, SameDeps,
         NEW k \in Clients, NEW t \in Tasks, NEW ds \in DepLists[t], SubmitAccept(k, t, ds)
  PROVE  GraphInv'
<1>0. ds \in Seq(Tasks) /\ state[t] = "None" /\ ~CreatesCycle(t, ds) /\ Obstacles(ds) = {}
  BY TaskAssumption DEF SubmitAccept, Submittable
<1>1. /\ state'[t] = IF Waiting(ds) = {} THEN "Ready" ELSE "Queued"
      /\ \A u \in Tasks : u # t => state'[u] = state[u] /\ pausedFrom'[u] = pausedFrom[u]
  BY AcceptFacts
<1>2. /\ Len(ds) \in Nat /\ DOMAIN ds = 1..Len(ds) /\ \A i \in DOMAIN ds : ds[i] \in Tasks
      /\ Cardinality(Waiting(ds)) \in Nat
      /\ \A x : Cardinality(Copies(ds, x)) \in Nat
  BY <1>0, ListFacts
<1>3. /\ \A x, u \in Tasks : u # t => succ'[x][u] = succ[x][u]
      /\ \A x \in Tasks : succ'[x][t] = succ[x][t] + Cardinality({i \in 1..Len(ds) : ds[i] = x})
  <2>1. Len(ds) \in 0..Len(ds) /\ AddEdges(t, ds, Len(ds))
    BY <1>2 DEF SubmitAccept
  <2>2. QED
    BY <1>0, <2>1, AddedEdges
<1>4. \A x \in Tasks : succ'[x][t] = Cardinality(Copies(ds, x))
  <2> TAKE x \in Tasks
  <2>1. {i \in 1..Len(ds) : ds[i] = x} = Copies(ds, x)
    BY <1>2 DEF Copies
  <2>2. succ[x][t] = 0
    BY <1>0, AcceptedIsFresh
  <2>3. Cardinality(Copies(ds, x)) \in Nat
    BY <1>2
  <2>4. succ'[x][t] = succ[x][t] + Cardinality({i \in 1..Len(ds) : ds[i] = x})
    BY <1>3
  <2>5. succ'[x][t] = 0 + Cardinality(Copies(ds, x))
    BY <2>1, <2>2, <2>4
  <2>6. QED
    BY <2>3, <2>5
<1>5. /\ deps'[t] = ds /\ \A u \in Tasks : u # t => deps'[u] = deps[u]
      /\ unmet'[t] = Cardinality(Waiting(ds)) /\ \A u \in Tasks : u # t => unmet'[u] = unmet[u]
  BY DEF SubmitAccept, TypeOK
<1>6. \A i \in DOMAIN ds : ds[i] # t /\ state'[ds[i]] = state[ds[i]] /\ state[ds[i]] # "None"
  BY <1>0, <1>1, <1>2 DEF Obstacles
<1>7. Waiting(ds)' = Waiting(ds)
  BY <1>6 DEF Waiting
<1>8. /\ StrayEdges'
      /\ \A u \in Tasks : u # t =>
           /\ Accepted(u)' => /\ \A x \in Tasks : succ'[x][u] = Cardinality(Copies(deps'[u], x))
                              /\ NamesOf(deps'[u]) \subseteq Submitted'
           /\ Pending(u)' => Cardinality(Waiting(deps[u])') <= unmet'[u]
           /\ Released(u)' => \A i \in DOMAIN deps'[u] : state'[deps'[u][i]] = "Succeeded"
  <2>1. state'[t] \notin {"None", "Succeeded"}
    BY <1>1
  <2>2. QED
    BY <1>0, <1>1, <1>3, <1>5, <2>1, NewNodeKeepsOthers
<1>9. NamesOf(deps'[t]) \subseteq Submitted'
  BY <1>2, <1>5, <1>6 DEF NamesOf, Submitted
<1>10. Cardinality(Waiting(deps[t])') <= unmet'[t]
  <2>1. Waiting(deps[t])' = Waiting(ds)
    BY <1>5, <1>7 DEF Waiting
  <2>2. QED
    BY <1>2, <1>5, <2>1
<1>11. Released(t)' => \A i \in DOMAIN deps'[t] : state'[deps'[t][i]] = "Succeeded"
  <2>1. Released(t)' => Waiting(ds) = {}
    BY <1>1 DEF Released, Active
  <2>2. QED
    BY <1>5, <1>7, <2>1 DEF Waiting
<1>12. EdgesMatch'
  BY <1>4, <1>5, <1>8 DEF EdgesMatch
<1>13. DepsKnown'
  BY <1>8, <1>9 DEF DepsKnown
<1>14. CountsCover'
  BY <1>8, <1>10 DEF CountsCover
<1>15. DependenciesMet'
  BY <1>8, <1>11 DEF DependenciesMet, Released
<1>16. QED
  BY <1>8, <1>12, <1>13, <1>14, <1>15 DEF GraphInv

LEMMA BlockedKeepsGraph ==
  ASSUME TypeOK, SetsAgree', GraphInv,
         NEW k \in Clients, NEW t \in Tasks, NEW ds \in DepLists[t], SubmitBlocked(k, t, ds)
  PROVE  GraphInv'
<1>0. ds \in Seq(Tasks) /\ state[t] = "None"
  BY TaskAssumption DEF SubmitBlocked, Submittable
<1>1. /\ state'[t] = "Canceled"
      /\ \A u \in Tasks : u # t => state'[u] = state[u] /\ pausedFrom'[u] = pausedFrom[u]
  BY BlockedFacts
<1>2. PICK i \in DOMAIN ds : /\ AddEdges(t, ds, i)
                             /\ unmet' = [unmet EXCEPT ![t] = Cardinality({j \in Waiting(ds) : j < i})]
  BY DEF SubmitBlocked
<1>3. i \in 0..Len(ds)
  BY <1>0, ListFacts
<1>4. \A x, u \in Tasks : u # t => succ'[x][u] = succ[x][u]
  BY <1>0, <1>2, <1>3, AddedEdges
<1>5. \A u \in Tasks : u # t => deps'[u] = deps[u] /\ unmet'[u] = unmet[u]
  BY <1>2 DEF SubmitBlocked, TypeOK
<1>6. /\ StrayEdges'
      /\ \A u \in Tasks : u # t =>
           /\ Accepted(u)' => /\ \A x \in Tasks : succ'[x][u] = Cardinality(Copies(deps'[u], x))
                              /\ NamesOf(deps'[u]) \subseteq Submitted'
           /\ Pending(u)' => Cardinality(Waiting(deps[u])') <= unmet'[u]
           /\ Released(u)' => \A n \in DOMAIN deps'[u] : state'[deps'[u][n]] = "Succeeded"
  BY <1>0, <1>1, <1>4, <1>5, NewNodeKeepsOthers
<1>7. ~Accepted(t)' /\ ~Pending(t)' /\ ~Released(t)'
  BY <1>1 DEF Accepted, Pending, Released, Active
<1>8. EdgesMatch' /\ DepsKnown'
  BY <1>6, <1>7 DEF EdgesMatch, DepsKnown
<1>9. CountsCover'
  BY <1>6, <1>7 DEF CountsCover
<1>10. DependenciesMet'
  BY <1>6, <1>7 DEF DependenciesMet, Released
<1>11. QED
  BY <1>6, <1>8, <1>9, <1>10 DEF GraphInv

LEMMA RejectKeepsGraph ==
  ASSUME TypeOK, GraphInv, NEW k \in Clients, NEW t \in Tasks, NEW ds \in DepLists[t], SubmitReject(k, t, ds)
  PROVE  GraphInv'
<1>0. ds \in Seq(Tasks) /\ state[t] = "None" /\ UNCHANGED <<state, pausedFrom, deps, unmet>>
  BY TaskAssumption DEF SubmitReject, Submittable, nodeVars
<1>1. PICK i \in DOMAIN ds : AddEdges(t, ds, i - 1)
  BY DEF SubmitReject
<1>2. i - 1 \in 0..Len(ds) /\ 1..(i - 1) \subseteq DOMAIN ds /\ Len(ds) \in Nat /\ i \in Nat
  BY <1>0, ListFacts
<1>3. /\ \A x, u \in Tasks : u # t => succ'[x][u] = succ[x][u]
      /\ \A x \in Tasks : succ'[x][t] = succ[x][t] + Cardinality({j \in 1..(i - 1) : ds[j] = x})
  BY <1>0, <1>1, <1>2, AddedEdges
<1>4. StrayEdges'
  <2>1. ASSUME NEW x \in Tasks, succ'[x][t] > 0 PROVE \E p \in DepLists[t] : x \in NamesOf(p)
    <3>1. CASE succ[x][t] > 0
      BY <1>0, <3>1 DEF GraphInv, StrayEdges
    <3>2. CASE ~(succ[x][t] > 0)
      <4>1. succ[x][t] = 0
        BY <3>2 DEF TypeOK
      <4>2. {j \in 1..(i - 1) : ds[j] = x} # {}
        BY <1>3, <2>1, <4>1, FS_EmptySet
      <4>3. x \in NamesOf(ds)
        BY <1>2, <4>2 DEF NamesOf
      <4>4. QED
        BY <4>3
    <3>3. QED
      BY <3>1, <3>2
  <2>2. QED
    BY <1>0, <1>3, <2>1 DEF GraphInv, StrayEdges
<1>5. \A u \in Tasks : Accepted(u) => u # t
  BY <1>0 DEF Accepted
<1>6. EdgesMatch'
  BY <1>0, <1>3, <1>5 DEF GraphInv, EdgesMatch, Accepted
<1>7. DepsKnown' /\ CountsCover'
  BY <1>0 DEF GraphInv, DepsKnown, CountsCover, Accepted, Submitted, Pending, Waiting
<1>8. DependenciesMet'
  BY <1>0 DEF GraphInv, DependenciesMet, Active
<1>9. QED
  BY <1>4, <1>6, <1>7, <1>8 DEF GraphInv

(* wake_successors_locked releases exactly those whose last unmet            *)
(* dependency this was.                                                    *)
LEMMA OkKeepsGraph ==
  ASSUME TypeOK, TypeOK', SetsAgree, SetsAgree', GraphInv, NEW w \in Workers, NEW t \in Tasks, FinishOk(w, t)
  PROVE  GraphInv'
<1>0. UNCHANGED <<deps, succ>> /\ unmet' = UnmetAfter(t)
  BY DEF FinishOk
<1>1. /\ state[t] = "Running"
      /\ \A u \in Tasks : state'[u] = IF u = t THEN "Succeeded" ELSE IF u \in Woken(t) THEN "Ready" ELSE state[u]
      /\ \A u \in Tasks : u # t /\ u \notin Woken(t) => pausedFrom'[u] = pausedFrom[u]
  BY OkFacts
<1>2. \A u \in Woken(t) : u \in Tasks /\ state[u] = "Queued" /\ u # t
  BY <1>1 DEF Woken
<1>3. StrayEdges'
  BY <1>0, <1>1, <1>2 DEF GraphInv, StrayEdges
<1>4. \A u \in Tasks : Accepted(u)' => Accepted(u)
  BY <1>1, <1>2 DEF Accepted
<1>5. EdgesMatch'
  BY <1>0, <1>4 DEF GraphInv, EdgesMatch
<1>6. DepsKnown'
  <2>1. Submitted \subseteq Submitted'
    BY <1>1 DEF Submitted
  <2>2. QED
    BY <1>0, <1>4, <2>1 DEF GraphInv, DepsKnown
<1>7. ASSUME NEW u \in Tasks, Accepted(u)
      PROVE  /\ Copies(deps[u], t) \subseteq Waiting(deps[u])
             /\ Waiting(deps[u])' = Waiting(deps[u]) \ Copies(deps[u], t)
             /\ IsFiniteSet(Waiting(deps[u])) /\ Cardinality(Waiting(deps[u])) \in Nat
             /\ succ[t][u] = Cardinality(Copies(deps[u], t)) /\ succ[t][u] \in Nat
             /\ Cardinality(Waiting(deps[u])') = Cardinality(Waiting(deps[u])) - succ[t][u]
             /\ Cardinality(Waiting(deps[u])') \in Nat /\ IsFiniteSet(Waiting(deps[u])')
  <2>1. deps[u] \in Seq(Tasks)
    BY DEF TypeOK
  <2>2. /\ \A i \in DOMAIN deps[u] : deps[u][i] \in Tasks
        /\ IsFiniteSet(Waiting(deps[u])) /\ Cardinality(Waiting(deps[u])) \in Nat
    BY <2>1, ListFacts
  <2>3. Copies(deps[u], t) \subseteq Waiting(deps[u])
    BY <1>1 DEF Copies, Waiting
  <2>4. \A x \in Tasks : state'[x] # "Succeeded" <=> state[x] # "Succeeded" /\ x # t
    BY <1>1, <1>2
  <2>5. Waiting(deps[u])' = Waiting(deps[u]) \ Copies(deps[u], t)
    BY <1>0, <2>2, <2>4 DEF Waiting, Copies
  <2>6. succ[t][u] = Cardinality(Copies(deps[u], t)) /\ succ[t][u] \in Nat
    BY <1>7 DEF GraphInv, EdgesMatch, TypeOK
  <2>7. Waiting(deps[u]) \cap Copies(deps[u], t) = Copies(deps[u], t)
    BY <2>3
  <2>8. /\ IsFiniteSet(Waiting(deps[u]) \ Copies(deps[u], t))
        /\ Cardinality(Waiting(deps[u]) \ Copies(deps[u], t))
             = Cardinality(Waiting(deps[u])) - Cardinality(Waiting(deps[u]) \cap Copies(deps[u], t))
    BY <2>2, FS_Difference
  <2>9. Cardinality(Waiting(deps[u]) \ Copies(deps[u], t)) \in Nat
    BY <2>8, FS_CardinalityType
  <2>10. QED
    BY <2>2, <2>3, <2>5, <2>6, <2>7, <2>8, <2>9
<1>8. ASSUME NEW u \in Tasks, Pending(u)' PROVE Cardinality(Waiting(deps[u])') <= unmet'[u]
  <2>1. u # t /\ u \notin Woken(t) /\ state'[u] = state[u] /\ pausedFrom'[u] = pausedFrom[u]
    BY <1>1, <1>2, <1>8 DEF Pending
  <2>2. Pending(u) /\ Accepted(u)
    BY <1>8, <2>1 DEF Pending, Accepted
  <2>3. Cardinality(Waiting(deps[u])) <= unmet[u] /\ unmet[u] \in Nat
    BY <2>2 DEF GraphInv, CountsCover, TypeOK
  <2>4. unmet'[u] = IF state[u] = "Queued" THEN MaxOf(0, unmet[u] - succ[t][u]) ELSE unmet[u]
    BY <1>0 DEF UnmetAfter
  <2>5. QED
    BY <1>7, <2>2, <2>3, <2>4 DEF MaxOf
<1>9. ASSUME NEW u \in Tasks, Released(u)', NEW i \in DOMAIN deps'[u] PROVE state'[deps'[u][i]] = "Succeeded"
  <2>1. CASE u \in Woken(t)
    <3>1. Pending(u) /\ Accepted(u)
      BY <1>2, <2>1 DEF Pending, Accepted
    <3>2. Cardinality(Waiting(deps[u])) <= unmet[u] /\ unmet[u] \in Nat /\ unmet[u] <= succ[t][u]
      BY <2>1, <3>1 DEF GraphInv, CountsCover, TypeOK, Woken
    <3>3. Cardinality(Waiting(deps[u])') = 0
      <4>1. /\ Cardinality(Waiting(deps[u])) \in Nat /\ succ[t][u] \in Nat /\ Cardinality(Waiting(deps[u])') \in Nat
            /\ Cardinality(Waiting(deps[u])') = Cardinality(Waiting(deps[u])) - succ[t][u]
        BY <1>7, <3>1
      <4>2. QED
        BY <3>2, <4>1
    <3>4. IsFiniteSet(Waiting(deps[u])')
      BY <1>7, <3>1
    <3>5. Waiting(deps[u])' = {}
      BY <3>3, <3>4, FS_EmptySet
    <3>6. QED
      BY <1>9, <3>5 DEF Waiting
  <2>2. CASE u \notin Woken(t)
    <3>1. Released(u)
      BY <1>1, <1>9, <2>2 DEF Released, Active
    <3>2. deps[u] \in Seq(Tasks) /\ deps'[u] = deps[u]
      BY <1>0 DEF TypeOK
    <3>3. state[deps[u][i]] = "Succeeded" /\ deps[u][i] \in Tasks
      BY <1>9, <3>1, <3>2, ListFacts DEF GraphInv, DependenciesMet, Released
    <3>4. QED
      BY <1>1, <1>2, <3>2, <3>3
  <2>3. QED
    BY <2>1, <2>2
<1>10. CountsCover'
  BY <1>8 DEF CountsCover
<1>11. DependenciesMet'
  BY <1>9 DEF DependenciesMet, Released, Active
<1>12. QED
  BY <1>3, <1>5, <1>6, <1>10, <1>11 DEF GraphInv

LEMMA StepKeepsGraph ==
  ASSUME SameDeps, TypeOK, TypeOK', SetsAgree, SetsAgree', SetsNamed, GraphInv, [Next]_vars
  PROVE  GraphInv'
<1>1. GraphStep
  BY StepKinds
<1>2. CASE \E k \in Clients, t \in Tasks : \E ds \in DepLists[t] :
             SubmitAccept(k, t, ds) \/ SubmitBlocked(k, t, ds) \/ SubmitReject(k, t, ds)
  BY <1>2, AcceptKeepsGraph, BlockedKeepsGraph, RejectKeepsGraph
<1>3. CASE \E root \in Tasks, H \in SUBSET Tasks : AbortStep(root, H)
  BY <1>3, AbortKeepsGraph
<1>4. CASE \E w \in Workers, t \in Tasks : FinishOk(w, t) \/ Dispatch(w, t)
  BY <1>4, OkKeepsGraph, DispatchKeepsGraph
<1>5. CASE QuietStep
  BY <1>5, QuietKeepsGraph
<1>6. QED
  BY <1>1, <1>2, <1>3, <1>4, <1>5 DEF GraphStep

LEMMA GraphAlways == SameDeps => (Spec => []GraphInv)
<1> SUFFICES ASSUME SameDeps PROVE Spec => []GraphInv
  OBVIOUS
<1>1. Init => GraphInv
  <2> SUFFICES ASSUME Init PROVE GraphInv
    OBVIOUS
  <2>1. \A t \in Tasks : state[t] = "None" /\ \A x \in Tasks : succ[x][t] = 0
    BY DEF Init
  <2>2. QED
    BY <2>1 DEF GraphInv, StrayEdges, EdgesMatch, DepsKnown, CountsCover, DependenciesMet, Accepted, Pending, Active
<1>2. TypeOK /\ TypeOK' /\ SetsAgree /\ SetsAgree' /\ SetsNamed /\ GraphInv /\ [Next]_vars => GraphInv'
  BY StepKeepsGraph
<1>3. QED
  BY <1>1, <1>2, TypeCorrect, SetsAlwaysAgree, RememberedAreSubmitted, PTL DEF Spec

(* worker_loop finds every input of a task it takes: a task is released only *)
(* when all its dependencies have succeeded, whatever is paused, resumed,   *)
(* canceled or submitted again meanwhile.                                  *)
THEOREM DependenciesAlwaysMet == SameDeps => (Spec => []DependenciesMet)
<1>1. GraphInv => DependenciesMet
  BY DEF GraphInv
<1>2. QED
  BY <1>1, GraphAlways, PTL

-----------------------------------------------------------------------------
(* Nothing waits behind a failure *)

(* The propagation reaches every task with an edge from one it reached. *)
LEMMA DescendantsClosed ==
  ASSUME NEW root \in Tasks, NEW x \in Submitted, x = root \/ x \in Descendants(root),
         NEW u \in Submitted, succ[x][u] > 0
  PROVE  u \in Descendants(root)
<1>1. x \in Tasks /\ u \in Tasks
  BY DEF Submitted
<1>2. ASSUME NEW S \in SUBSET Tasks, \A v \in Tasks : succ[root][v] > 0 => v \in S, EdgeClosed(S, Submitted)
      PROVE  u \in S
  <2>1. CASE x = root
    BY <1>1, <1>2, <2>1
  <2>2. CASE x \in Descendants(root)
    <3>1. x \in S
      BY <1>2, <2>2 DEF Descendants
    <3>2. QED
      BY <1>1, <1>2, <3>1 DEF EdgeClosed
  <2>3. QED
    BY <2>1, <2>2
<1>3. QED
  BY <1>2 DEF Descendants

(* A waiting task that needs an aborted one is aborted in the same step. *)
LEMMA AbortTakesDependents ==
  ASSUME TypeOK, SetsAgree, GraphInv, NEW root \in Tasks, NEW H \in SUBSET Tasks, AbortStep(root, H),
         NEW u \in Tasks, Accepted(u), NEW x \in NamesOf(deps[u]), x \in H
  PROVE  u \in H /\ Pending(u)
<1>1. x \in Submitted /\ x \in Tasks /\ ~IsTerminal(state[x]) /\ H # {}
  BY DEF AbortStep
<1>2. ~Released(u)
  <2>1. Released(u) => state[x] = "Succeeded"
    BY DEF GraphInv, DependenciesMet, Released, NamesOf
  <2>2. QED
    BY <1>1, <2>1 DEF IsTerminal
<1>3. Pending(u)
  BY <1>2, PendingOrReleased
<1>4. succ[x][u] > 0
  BY <1>1, EdgeMeansNamed DEF GraphInv
<1>5. x = root \/ x \in Descendants(root)
  BY <1>1 DEF AbortStep, Downstream
<1>6. u \in Submitted /\ ~IsTerminal(state[u])
  BY <1>3 DEF Pending, Submitted, IsTerminal
<1>7. u \in Downstream(root)
  BY <1>1, <1>4, <1>5, <1>6, DescendantsClosed DEF Downstream
<1>8. QED
  BY <1>1, <1>3, <1>7 DEF AbortStep

LEMMA AbortLeavesNoOrphans ==
  ASSUME TypeOK, SetsAgree, GraphInv, NoOrphans, EndKept,
         NEW root \in Tasks, NEW H \in SUBSET Tasks, AbortStep(root, H)
  PROVE  NoOrphans'
<1> SUFFICES ASSUME NEW u \in Tasks, state'[u] # "None", NEW i \in DOMAIN deps'[u],
                    state'[deps'[u][i]] \in {"Failed", "Canceled"}
             PROVE  state'[u] = "Canceled"
  BY DEF NoOrphans, Submitted
<1> DEFINE x == deps[u][i]
<1>0. deps' = deps /\ deps[u] \in Seq(Tasks) /\ x \in Tasks /\ x \in NamesOf(deps[u])
  <2>1. deps' = deps /\ deps[u] \in Seq(Tasks)
    BY DEF AbortStep, graphVars, TypeOK
  <2>2. QED
    BY <2>1, ListFacts DEF NamesOf
<1>1. u \in Submitted
  BY DEF AbortStep, Submitted
<1>2. CASE state[u] = "Canceled"
  BY <1>2 DEF EndKept, IsTerminal
<1>3. CASE state[u] # "Canceled"
  <2>1. Accepted(u)
    BY <1>1, <1>3 DEF Accepted, Submitted
  <2>2. x \in H
    <3>1. state[x] \notin {"Failed", "Canceled"}
      BY <1>0, <1>1, <1>3 DEF NoOrphans
    <3>2. QED
      BY <1>0, <3>1 DEF AbortStep
  <2>3. u \in H /\ Pending(u)
    BY <1>0, <2>1, <2>2, AbortTakesDependents
  <2>4. QED
    BY <2>3 DEF AbortStep, Pending, Active
<1>4. QED
  BY <1>2, <1>3

LEMMA StepLeavesNoOrphans ==
  ASSUME TypeOK, SetsAgree, SetsAgree', SetsNamed, GraphInv, NoOrphans, [Next]_vars
  PROVE  NoOrphans'
<1>0. GraphStep /\ EndKept
  BY StepKinds, StepKeepsEnds
<1>1. ASSUME NEW k \in Clients, NEW t \in Tasks, NEW ds \in DepLists[t], SubmitAccept(k, t, ds) \/ SubmitBlocked(k, t, ds)
      PROVE  NoOrphans'
  <2>0. ds \in Seq(Tasks) /\ state[t] = "None"
    BY <1>1, TaskAssumption DEF SubmitAccept, SubmitBlocked, Submittable
  <2>1. deps'[t] = ds /\ \A u \in Tasks : u # t => deps'[u] = deps[u] /\ state'[u] = state[u]
    <3>1. deps' = [deps EXCEPT ![t] = ds] /\ deps \in [Tasks -> Seq(Tasks)]
      BY <1>1 DEF SubmitAccept, SubmitBlocked, TypeOK
    <3>2. \A u \in Tasks : u # t => state'[u] = state[u]
      BY <1>1, AcceptFacts, BlockedFacts
    <3>3. QED
      BY <3>1, <3>2
  <2>2. ASSUME NEW u \in Tasks, u # t, state'[u] # "None", NEW i \in DOMAIN deps'[u],
               state'[deps'[u][i]] \in {"Failed", "Canceled"}
        PROVE  state'[u] = "Canceled"
    <3>1. u \in Submitted /\ deps'[u] = deps[u] /\ state'[u] = state[u] /\ deps[u] \in Seq(Tasks)
      BY <2>1, <2>2 DEF Submitted, TypeOK
    <3>2. deps[u][i] \in Tasks /\ deps[u][i] \in NamesOf(deps[u])
      BY <2>2, <3>1, ListFacts DEF NamesOf
    <3>3. state[u] # "Canceled" => deps[u][i] # t
      BY <2>0, <3>1, <3>2 DEF GraphInv, DepsKnown, Accepted, Submitted
    <3>4. QED
      BY <2>1, <2>2, <3>1, <3>2, <3>3 DEF NoOrphans
  <2>3. ASSUME state'[t] # "Canceled", NEW i \in DOMAIN deps'[t], state'[deps'[t][i]] \in {"Failed", "Canceled"}
        PROVE  FALSE
    <3>1. SubmitAccept(k, t, ds)
      BY <1>1, <2>3, BlockedFacts
    <3>2. ds[i] \in Tasks /\ i \in DOMAIN ds
      BY <2>0, <2>1, <2>3, ListFacts
    <3>3. state[ds[i]] \notin {"None", "Failed", "Canceled"}
      BY <3>1, <3>2 DEF SubmitAccept, Obstacles
    <3>4. QED
      BY <2>0, <2>1, <2>3, <3>2, <3>3
  <2>4. QED
    BY <2>2, <2>3 DEF NoOrphans, Submitted
<1>2. ASSUME UNCHANGED deps, \A u \in Tasks : state'[u] = "None" <=> state[u] = "None",
             \A u \in Tasks : state'[u] \in {"Failed", "Canceled"} => state[u] \in {"Failed", "Canceled"}
      PROVE  NoOrphans'
  <2> SUFFICES ASSUME NEW u \in Tasks, state'[u] # "None", NEW i \in DOMAIN deps'[u],
                      state'[deps'[u][i]] \in {"Failed", "Canceled"}
               PROVE  state'[u] = "Canceled"
    BY DEF NoOrphans, Submitted
  <2>1. deps[u] \in Seq(Tasks) /\ deps'[u] = deps[u]
    BY <1>2 DEF TypeOK
  <2>2. deps[u][i] \in Tasks /\ u \in Submitted
    BY <1>2, <2>1, ListFacts DEF Submitted
  <2>3. state[u] = "Canceled"
    BY <1>2, <2>1, <2>2 DEF NoOrphans
  <2>4. QED
    BY <1>0, <2>3 DEF EndKept, IsTerminal
<1>3. ASSUME NEW k \in Clients, NEW t \in Tasks, NEW ds \in DepLists[t], SubmitReject(k, t, ds) PROVE NoOrphans'
  <2>1. UNCHANGED <<state, deps>>
    BY <1>3 DEF SubmitReject, nodeVars
  <2>2. QED
    BY <1>2, <2>1
<1>4. ASSUME NEW w \in Workers, NEW t \in Tasks, FinishOk(w, t) PROVE NoOrphans'
  <2>1. UNCHANGED deps
    BY <1>4 DEF FinishOk
  <2>2. /\ state[t] = "Running"
        /\ \A u \in Tasks : state'[u] = IF u = t THEN "Succeeded" ELSE IF u \in Woken(t) THEN "Ready" ELSE state[u]
    BY <1>4, OkFacts
  <2>3. \A u \in Woken(t) : state[u] = "Queued"
    BY DEF Woken
  <2>4. QED
    BY <1>2, <2>1, <2>2, <2>3
<1>5. ASSUME NEW w \in Workers, NEW t \in Tasks, Dispatch(w, t) PROVE NoOrphans'
  <2>1. UNCHANGED deps
    BY <1>5 DEF Dispatch, graphVars
  <2>2. QED
    BY <1>2, <1>5, <2>1, DispatchFacts
<1>6. CASE QuietStep
  BY <1>2, <1>6 DEF QuietStep, graphVars
<1>7. QED
  BY <1>0, <1>1, <1>3, <1>4, <1>5, <1>6, AbortLeavesNoOrphans DEF GraphStep

(* A task whose dependency failed or was canceled is itself canceled, in     *)
(* the critical section that ended the dependency or in its own submit().  *)
THEOREM NeverOrphans == SameDeps => (Spec => []NoOrphans)
<1> SUFFICES ASSUME SameDeps PROVE Spec => []NoOrphans
  OBVIOUS
<1>1. Init => NoOrphans
  BY DEF Init, NoOrphans, Submitted
<1>2. TypeOK /\ SetsAgree /\ SetsAgree' /\ SetsNamed /\ GraphInv /\ NoOrphans /\ [Next]_vars => NoOrphans'
  BY StepLeavesNoOrphans
<1>3. QED
  BY <1>1, <1>2, TypeCorrect, SetsAlwaysAgree, RememberedAreSubmitted, GraphAlways, PTL DEF Spec

-----------------------------------------------------------------------------
(* The scheduler implements TaskLifecycle *)

(* Whatever succeeded had every dependency succeed, so nothing downstream of *)
(* root has.                                                               *)
LEMMA EdgeToSucceeded ==
  ASSUME TypeOK, GraphInv, NEW x \in Tasks, NEW u \in Tasks, succ[x][u] > 0, state[u] = "Succeeded"
  PROVE  state[x] = "Succeeded"
<1>1. x \in NamesOf(deps[u])
  BY EdgeMeansNamed DEF GraphInv, Accepted
<1>2. QED
  BY <1>1 DEF GraphInv, DependenciesMet, NamesOf

(* Each task the propagation cancels needs another that it cancels, or root. *)
LEMMA ReachedThroughNeeds ==
  ASSUME TypeOK, GraphInv, NoOrphans, NEW root \in Tasks, state[root] \notin {"None", "Succeeded"},
         NEW u \in Downstream(root)
  PROVE  NamesOf(deps[u]) \cap ({root} \cup Downstream(root)) # {}
<1>1. SUFFICES ASSUME NamesOf(deps[u]) \cap ({root} \cup Downstream(root)) = {} PROVE FALSE
  OBVIOUS
<1>2. u \in Tasks /\ u \in Submitted /\ u \in Descendants(root) /\ ~IsTerminal(state[u]) /\ Accepted(u)
  BY DEF Downstream, Descendants, Submitted, Accepted, IsTerminal
<1> DEFINE S == {x \in Tasks : state[x] = "None" \/ (x \in Descendants(root) /\ x # u /\ state[x] # "Succeeded")}
<1>3. ASSUME NEW x \in Submitted, state[x] # "Succeeded", x = root \/ (x \in Descendants(root) /\ x # u),
             NEW v \in Tasks, succ[x][v] > 0
      PROVE  v \in S
  <2>0. x \in Tasks /\ state[x] # "None"
    BY DEF Submitted
  <2>1. SUFFICES ASSUME state[v] # "None" PROVE v \in S
    OBVIOUS
  <2>2. v \in Descendants(root)
    BY <1>3, <2>1, DescendantsClosed DEF Submitted
  <2>3. state[v] # "Succeeded"
    BY <1>3, <2>0, EdgeToSucceeded
  <2>4. v # u
    <3>1. SUFFICES ASSUME v = u PROVE FALSE
      OBVIOUS
    <3>2. x \in NamesOf(deps[u])
      BY <1>2, <1>3, <2>0, <3>1, EdgeMeansNamed DEF GraphInv
    <3>3. state[x] \notin {"Failed", "Canceled"}
      BY <1>2, <3>2 DEF NoOrphans, NamesOf, IsTerminal
    <3>4. x = root \/ x \in Downstream(root)
      BY <1>3, <3>3 DEF Downstream, IsTerminal
    <3>5. QED
      BY <1>1, <3>2, <3>4
  <2>5. QED
    BY <2>2, <2>3, <2>4
<1>4. \A v \in Tasks : succ[root][v] > 0 => v \in S
  BY <1>3 DEF Submitted
<1>5. EdgeClosed(S, Submitted)
  BY <1>3 DEF EdgeClosed, Submitted
<1>6. S \in SUBSET Tasks
  OBVIOUS
<1>7. u \in S
  <2> HIDE DEF S
  <2> QED BY <1>2, <1>4, <1>5, <1>6 DEF Descendants
<1>8. QED
  BY <1>2, <1>7 DEF Submitted

Status == [t \in Tasks |-> StatusOf(t)]
Needs  == [t \in Tasks |-> NamesOf(deps[t])]

LEMMA AcceptAdmits ==
  ASSUME TypeOK, TypeOK', SetsAgree', NEW k \in Clients, NEW t \in Tasks, NEW ds \in DepLists[t], SubmitAccept(k, t, ds)
  PROVE  Lifecycle!Admit(t, NamesOf(ds))
<1>0. ds \in Seq(Tasks) /\ state[t] = "None" /\ Obstacles(ds) = {}
  BY TaskAssumption DEF SubmitAccept, Submittable
<1>1. /\ state'[t] \in {"Ready", "Queued"}
      /\ \A u \in Tasks : u # t => state'[u] = state[u] /\ pausedFrom'[u] = pausedFrom[u]
  BY AcceptFacts
<1>2. \A u \in Tasks : deps'[u] = IF u = t THEN ds ELSE deps[u]
  BY DEF SubmitAccept, TypeOK
<1>3. StatusOf(t) = "absent" /\ StatusOf(t)' = "pending" /\ \A u \in Tasks : u # t => StatusOf(u)' = StatusOf(u)
  BY <1>0, <1>1 DEF StatusOf, Active
<1>4. Status' = [Status EXCEPT ![t] = "pending"]
  BY <1>3 DEF Status
<1>5. Needs' = [Needs EXCEPT ![t] = NamesOf(ds)]
  BY <1>2 DEF Needs
<1>6. \A x \in NamesOf(ds) : Status[x] \in {"pending", "active", "done"}
  <2>1. \A x \in NamesOf(ds) : x \in Tasks /\ state[x] \notin {"None", "Failed", "Canceled"}
    BY <1>0, ListFacts DEF NamesOf, Obstacles
  <2>2. QED
    BY <2>1 DEF Status, StatusOf
<1>7. Status[t] = "absent"
  BY <1>3 DEF Status
<1>8. QED
  BY <1>4, <1>5, <1>6, <1>7 DEF Lifecycle!Admit, Status, Needs, NamesOf

LEMMA BlockedAdmits ==
  ASSUME TypeOK, NEW k \in Clients, NEW t \in Tasks, NEW ds \in DepLists[t], SubmitBlocked(k, t, ds)
  PROVE  Lifecycle!Admit(t, NamesOf(ds))
<1>0. ds \in Seq(Tasks) /\ state[t] = "None"
  BY TaskAssumption DEF SubmitBlocked, Submittable
<1>1. /\ state'[t] = "Canceled"
      /\ \A u \in Tasks : u # t => state'[u] = state[u] /\ pausedFrom'[u] = pausedFrom[u]
  BY BlockedFacts
<1>2. \A u \in Tasks : deps'[u] = IF u = t THEN ds ELSE deps[u]
  BY DEF SubmitBlocked, TypeOK
<1>3. StatusOf(t) = "absent" /\ StatusOf(t)' = "aborted" /\ \A u \in Tasks : u # t => StatusOf(u)' = StatusOf(u)
  BY <1>0, <1>1 DEF StatusOf, Active
<1>4. Status' = [Status EXCEPT ![t] = "aborted"]
  BY <1>3 DEF Status
<1>5. Needs' = [Needs EXCEPT ![t] = NamesOf(ds)]
  BY <1>2 DEF Needs
<1>6. \E x \in NamesOf(ds) : Status[x] = "aborted"
  <2>1. PICK i \in DOMAIN ds : StopsAt(ds, i) /\ state[ds[i]] # "None"
    BY DEF SubmitBlocked
  <2>2. state[ds[i]] \in {"Failed", "Canceled"} /\ ds[i] \in Tasks /\ ds[i] \in NamesOf(ds)
    BY <1>0, <2>1, ListFacts DEF StopsAt, Obstacles, NamesOf
  <2>3. StatusOf(ds[i]) = "aborted"
    BY <2>2 DEF StatusOf, Active
  <2>4. QED
    BY <2>2, <2>3 DEF Status
<1>7. Status[t] = "absent"
  BY <1>3 DEF Status
<1>8. QED
  BY <1>4, <1>5, <1>6, <1>7 DEF Lifecycle!Admit, Status, Needs, NamesOf

LEMMA DispatchStarts ==
  ASSUME TypeOK, GraphInv, NEW w \in Workers, NEW t \in Tasks, Dispatch(w, t)
  PROVE  Lifecycle!Start(t)
<1>1. /\ state[t] = "Ready" /\ state'[t] = "Running"
      /\ \A u \in Tasks : u # t => state'[u] = state[u] /\ pausedFrom'[u] = pausedFrom[u]
  BY DispatchFacts
<1>2. UNCHANGED deps
  BY DEF Dispatch, graphVars
<1>3. StatusOf(t) = "pending" /\ StatusOf(t)' = "active" /\ \A u \in Tasks : u # t => StatusOf(u)' = StatusOf(u)
  BY <1>1 DEF StatusOf, Active
<1>4. Status' = [Status EXCEPT ![t] = "active"] /\ Status[t] = "pending"
  BY <1>3 DEF Status
<1>5. UNCHANGED Needs
  BY <1>2 DEF Needs
<1>6. \A x \in Needs[t] : Status[x] = "done"
  <2>1. deps[t] \in Seq(Tasks)
    BY DEF TypeOK
  <2>2. \A x \in NamesOf(deps[t]) : x \in Tasks /\ state[x] = "Succeeded"
    BY <1>1, <2>1, ListFacts DEF GraphInv, DependenciesMet, NamesOf
  <2>3. \A x \in NamesOf(deps[t]) : StatusOf(x) = "done"
    BY <2>2 DEF StatusOf, Active
  <2>4. QED
    BY <2>2, <2>3 DEF Needs, Status
<1>7. QED
  BY <1>4, <1>5, <1>6 DEF Lifecycle!Start, Status, Needs, NamesOf

LEMMA OkCompletes ==
  ASSUME TypeOK, SetsAgree, SetsAgree', NEW w \in Workers, NEW t \in Tasks, FinishOk(w, t)
  PROVE  Lifecycle!Complete(t)
<1>1. /\ state[t] = "Running"
      /\ \A u \in Tasks : state'[u] = IF u = t THEN "Succeeded" ELSE IF u \in Woken(t) THEN "Ready" ELSE state[u]
      /\ \A u \in Tasks : u # t /\ u \notin Woken(t) => pausedFrom'[u] = pausedFrom[u]
  BY OkFacts
<1>2. UNCHANGED deps
  BY DEF FinishOk
<1>3. \A u \in Woken(t) : state[u] = "Queued"
  BY DEF Woken
<1>4. StatusOf(t) = "active" /\ StatusOf(t)' = "done" /\ \A u \in Tasks : u # t => StatusOf(u)' = StatusOf(u)
  BY <1>1, <1>3 DEF StatusOf, Active
<1>5. Status' = [Status EXCEPT ![t] = "done"] /\ Status[t] = "active"
  BY <1>4 DEF Status
<1>6. UNCHANGED Needs
  BY <1>2 DEF Needs
<1>7. QED
  BY <1>5, <1>6 DEF Lifecycle!Complete, Status, Needs, NamesOf

LEMMA AbortAborts ==
  ASSUME TypeOK, SetsAgree, GraphInv, NoOrphans, NEW root \in Tasks, NEW H \in SUBSET Tasks, AbortStep(root, H)
  PROVE  Lifecycle!Abort(H)
<1>1. \A u \in H : /\ u \in Tasks /\ state[u] \notin {"None", "Succeeded", "Failed", "Canceled"}
                  /\ state'[u] \in {"Failed", "Canceled"}
  BY DEF AbortStep, IsTerminal, Submitted
<1>2. \A u \in H : StatusOf(u) \in {"pending", "active"} /\ StatusOf(u)' = "aborted"
  BY <1>1 DEF StatusOf, Active
<1>3. \A u \in Tasks \ H : StatusOf(u)' = StatusOf(u)
  BY DEF AbortStep, StatusOf, Active
<1>4. Status' = [u \in Tasks |-> IF u \in H THEN "aborted" ELSE Status[u]]
  BY <1>2, <1>3 DEF Status
<1>5. UNCHANGED Needs
  BY DEF AbortStep, graphVars, Needs
<1>6. \A u \in H : Status[u] \in {"pending", "active"}
  BY <1>1, <1>2 DEF Status
<1>7. \A u \in Tasks : Status[u] = "pending" /\ Needs[u] \cap H # {} => u \in H
  <2>1. SUFFICES ASSUME NEW u \in Tasks, Status[u] = "pending", NEW x \in Needs[u], x \in H PROVE u \in H
    OBVIOUS
  <2>2. Accepted(u) /\ x \in NamesOf(deps[u])
    BY <2>1 DEF Status, StatusOf, Accepted, Needs
  <2>3. QED
    BY <2>1, <2>2, AbortTakesDependents
<1>8. \A u \in H \ {root} : Needs[u] \cap (H \cup {root}) # {}
  <2>1. SUFFICES ASSUME NEW u \in H, u # root PROVE Needs[u] \cap (H \cup {root}) # {}
    OBVIOUS
  <2>2. u \in Downstream(root) /\ Downstream(root) \subseteq H /\ state[root] \notin {"None", "Succeeded"} /\ u \in Tasks
    BY <2>1 DEF AbortStep
  <2>3. NamesOf(deps[u]) \cap ({root} \cup Downstream(root)) # {}
    BY <2>2, ReachedThroughNeeds
  <2>4. QED
    BY <2>2, <2>3 DEF Needs
<1>9. QED
  BY <1>4, <1>5, <1>6, <1>7, <1>8 DEF Lifecycle!Abort, Status, Needs, NamesOf

LEMMA QuietStutters ==
  ASSUME TypeOK, QuietStep
  PROVE  UNCHANGED <<Status, Needs>>
<1>1. \A u \in Tasks : StatusOf(u)' = StatusOf(u)
  <2>1. ASSUME NEW u \in Tasks PROVE StatusOf(u)' = StatusOf(u)
    <3>1. /\ state'[u] = "None" <=> state[u] = "None"
          /\ state'[u] = "Succeeded" <=> state[u] = "Succeeded"
          /\ state'[u] = "Failed" <=> state[u] = "Failed"
          /\ state'[u] = "Canceled" <=> state[u] = "Canceled"
          /\ Active(u)' <=> Active(u)
      BY DEF QuietStep
    <3>2. QED
      BY <3>1 DEF StatusOf
  <2>2. QED
    BY <2>1
<1>2. UNCHANGED deps
  BY DEF QuietStep, graphVars
<1>3. QED
  BY <1>1, <1>2 DEF Status, Needs

LEMMA StepRefines ==
  ASSUME TypeOK, TypeOK', SetsAgree, SetsAgree', SetsNamed, GraphInv, NoOrphans, [Next]_vars
  PROVE  [Lifecycle!Next]_(Lifecycle!vars)
<1>0. GraphStep
  BY StepKinds
<1>1. ASSUME UNCHANGED <<Status, Needs>> PROVE UNCHANGED Lifecycle!vars
  BY <1>1 DEF Status, Needs, NamesOf, Lifecycle!vars
<1>2. ASSUME NEW k \in Clients, NEW t \in Tasks, NEW ds \in DepLists[t], SubmitAccept(k, t, ds) \/ SubmitBlocked(k, t, ds)
      PROVE  Lifecycle!Next
  <2>1. ds \in Seq(Tasks)
    BY TaskAssumption
  <2>2. NamesOf(ds) \in SUBSET Tasks
    BY <2>1, ListFacts DEF NamesOf
  <2>3. Lifecycle!Admit(t, NamesOf(ds))
    BY <1>2, AcceptAdmits, BlockedAdmits
  <2>4. QED
    BY <2>2, <2>3 DEF Lifecycle!Next
<1>3. ASSUME NEW k \in Clients, NEW t \in Tasks, NEW ds \in DepLists[t], SubmitReject(k, t, ds)
      PROVE  UNCHANGED Lifecycle!vars
  <2>1. UNCHANGED <<state, pausedFrom, deps>>
    BY <1>3 DEF SubmitReject, nodeVars
  <2>2. UNCHANGED <<Status, Needs>>
    BY <2>1 DEF Status, Needs, StatusOf, Active
  <2>3. QED
    BY <1>1, <2>2
<1>4. ASSUME NEW root \in Tasks, NEW H \in SUBSET Tasks, AbortStep(root, H) PROVE Lifecycle!Next
  BY <1>4, AbortAborts DEF Lifecycle!Next
<1>5. ASSUME NEW w \in Workers, NEW t \in Tasks, FinishOk(w, t) PROVE Lifecycle!Next
  BY <1>5, OkCompletes DEF Lifecycle!Next
<1>6. ASSUME NEW w \in Workers, NEW t \in Tasks, Dispatch(w, t) PROVE Lifecycle!Next
  BY <1>6, DispatchStarts DEF Lifecycle!Next
<1>7. CASE QuietStep
  BY <1>1, <1>7, QuietStutters
<1>8. QED
  BY <1>0, <1>2, <1>3, <1>4, <1>5, <1>6, <1>7 DEF GraphStep

(* For every task set, graph, budget and thread population the scheduler     *)
(* implements TaskLifecycle: submit() admits, a dispatch starts a task all   *)
(* of whose needs are done, and every cancellation or failure aborts, in     *)
(* one step, exactly what needs it.                                        *)
THEOREM SchedulerImplementsLifecycle == SameDeps => (Spec => ImplementsLifecycle)
<1> SUFFICES ASSUME SameDeps PROVE Spec => ImplementsLifecycle
  OBVIOUS
<1>1. Init => Lifecycle!Init
  <2> SUFFICES ASSUME Init PROVE Lifecycle!Init
    OBVIOUS
  <2>1. \A t \in Tasks : state[t] = "None" /\ deps[t] = <<>>
    BY DEF Init
  <2>2. \A t \in Tasks : StatusOf(t) = "absent" /\ NamesOf(deps[t]) = {}
    BY <2>1 DEF StatusOf, Active, NamesOf
  <2>3. Status = [t \in Tasks |-> "absent"] /\ Needs = [t \in Tasks |-> {}]
    BY <2>2 DEF Status, Needs
  <2>4. QED
    BY <2>3 DEF Lifecycle!Init, Status, Needs, NamesOf
<1>2. TypeOK /\ TypeOK' /\ SetsAgree /\ SetsAgree' /\ SetsNamed /\ GraphInv /\ NoOrphans /\ [Next]_vars
      => [Lifecycle!Next]_(Lifecycle!vars)
  BY StepRefines
<1>3. QED
  BY <1>1, <1>2, TypeCorrect, SetsAlwaysAgree, RememberedAreSubmitted, GraphAlways, NeverOrphans, PTL
     DEF Spec, ImplementsLifecycle, Lifecycle!Spec
==============================================================================
