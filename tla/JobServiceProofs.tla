-------------------------- MODULE JobServiceProofs --------------------------
(***************************************************************************)
(* Theorems about JobService, for any number of jobs, users and requests.  *)
(***************************************************************************)
EXTENDS JobService, FiniteSetTheorems, TLAPS

(* The index of the store is a pair of total functions on the job ids. *)
IndexOK == owner \in [Jobs -> Users \cup {"None"}] /\ key = [j \in Jobs |-> key[j]]

KeyInv == IndexOK /\ OneJobPerKey

(* Of all the steps only the creation of a job writes Job.UserID and        *)
(* Job.IdempotencyKey.                                                     *)
LEMMA OnlyCreateWrites ==
  ASSUME [Next]_vars, ~ \E c \in Clients : StartCreate(c)
  PROVE  UNCHANGED <<owner, key>>
<1>1. CASE UNCHANGED vars
  BY <1>1 DEF vars, storeVars
<1>2. ASSUME NEW c \in Clients, ClientStep(c)
      PROVE  UNCHANGED <<owner, key>>
  <2>1. ASSUME NEW k \in Keys, StartJob(c, k) PROVE UNCHANGED <<owner, key>>
    BY <2>1 DEF StartJob, storeVars
  <2>2. ASSUME NEW j \in Jobs, CancelJob(c, j) \/ RetryJob(c, j) PROVE UNCHANGED <<owner, key>>
    BY <2>2 DEF CancelJob, RetryJob, storeVars
  <2>3. CASE StartQuota(c) \/ StartProject(c) \/ Launch(c) \/ CancelPut(c)
    BY <2>3 DEF StartQuota, StartProject, Launch, CancelPut, storeVars
  <2>4. CASE RetryQuota(c) \/ RetryTasks(c) \/ RetryReplace(c) \/ RetryUpdate(c)
    BY <2>4 DEF RetryQuota, RetryTasks, RetryReplace, RetryUpdate, storeVars
  <2>5. QED
    BY <1>2, <2>1, <2>2, <2>3, <2>4 DEF ClientStep
<1>3. ASSUME NEW j \in Jobs, RunnerStep(j)
      PROVE  UNCHANGED <<owner, key>>
  <2>1. CASE RunGet(j) \/ RunBegin(j) \/ RunCancelGet(j) \/ RunCancelPut(j)
    BY <2>1 DEF RunGet, RunBegin, RunCancelGet, RunCancelPut, storeVars
  <2>2. CASE RunProgressGet(j) \/ RunProgressPut(j) \/ RunList(j) \/ RunWait(j)
    BY <2>2 DEF RunProgressGet, RunProgressPut, RunList, RunWait, storeVars
  <2>3. CASE RunFinal(j) \/ RunProjectGet(j) \/ RunProjectPut(j) \/ RunDefer(j)
    BY <2>3 DEF RunFinal, RunProjectGet, RunProjectPut, RunDefer, storeVars
  <2>4. QED
    BY <1>3, <2>1, <2>2, <2>3 DEF RunnerStep
<1>4. ASSUME NEW j \in Jobs, NEW t \in Tasks, ExecStep(j, t)
      PROVE  UNCHANGED <<owner, key>>
  <2>1. CASE ExecAcquire(j, t) \/ ExecScene(j, t) \/ ExecLoad(j, t) \/ ExecStore(j, t)
    BY <2>1 DEF ExecAcquire, ExecScene, ExecLoad, ExecStore, storeVars
  <2>2. CASE ExecCurrent(j, t) \/ ExecCheck(j, t) \/ ExecReturn(j, t) \/ ExecBackoff(j, t)
    BY <2>2 DEF ExecCurrent, ExecCheck, ExecReturn, ExecBackoff, storeVars
  <2>3. CASE ExecProgressGet(j, t) \/ ExecProgressPut(j, t)
    BY <2>3 DEF ExecProgressGet, ExecProgressPut, storeVars
  <2>4. QED
    BY <1>4, <2>1, <2>2, <2>3 DEF ExecStep
<1>5. QED
  BY <1>1, <1>2, <1>3, <1>4 DEF Next

(* CreateJob keeps the keys apart: it creates a job only when no job of the *)
(* user has the key, in the same step.                                     *)
LEMMA CreateKeepsKeys ==
  ASSUME NEW c \in Clients, KeyInv, StartCreate(c)
  PROVE  KeyInv'
<1>1. CASE Existing(c) # {}
  <2>1. UNCHANGED <<owner, key>>
    BY <1>1 DEF StartCreate
  <2>2. QED
    BY <2>1 DEF KeyInv, IndexOK, OneJobPerKey
<1>2. CASE Existing(c) = {}
  <2>1. PICK n \in Jobs :
           /\ owner' = [owner EXCEPT ![n] = UserOf[c]]
           /\ key' = [key EXCEPT ![n] = client[c].key]
    BY <1>2 DEF StartCreate
  <2>2. UserOf[c] \in Users
    BY JobAssumption
  <2>3. IndexOK'
    BY <2>1, <2>2 DEF KeyInv, IndexOK
  <2>4. ASSUME NEW i \in Jobs, i # n, owner'[i] = owner'[n], key'[i] = key'[n], key'[i] # NoKey
        PROVE  FALSE
    <3>1. owner[i] = UserOf[c] /\ key[i] = client[c].key /\ client[c].key # NoKey
      BY <2>1, <2>4 DEF KeyInv, IndexOK
    <3>2. i \in Existing(c)
      BY <3>1 DEF Existing, ByKey
    <3>3. QED
      BY <1>2, <3>2
  <2>5. ASSUME NEW i \in Jobs, NEW j \in Jobs, i # n, j # n,
               owner'[i] # "None", owner'[i] = owner'[j], key'[i] = key'[j], key'[i] # NoKey
        PROVE  i = j
    BY <2>1, <2>5 DEF KeyInv, IndexOK, OneJobPerKey
  <2>6. OneJobPerKey'
    BY <2>4, <2>5 DEF OneJobPerKey
  <2>7. QED
    BY <2>3, <2>6 DEF KeyInv
<1>3. QED
  BY <1>1, <1>2

(* One idempotency key makes one job, for any number of concurrent          *)
(* requests, jobs and users: the check in MemoryStore.CreateJob is enough,  *)
(* whatever StartJob's earlier lookup saw.                                 *)
THEOREM KeysMakeOneJob == Spec => []OneJobPerKey
<1>1. Init => KeyInv
  BY JobAssumption DEF Init, KeyInv, IndexOK, OneJobPerKey
<1>2. KeyInv /\ [Next]_vars => KeyInv'
  <2>1. ASSUME KeyInv, [Next]_vars PROVE KeyInv'
    <3>1. CASE \E c \in Clients : StartCreate(c)
      BY <2>1, <3>1, CreateKeepsKeys
    <3>2. CASE ~ \E c \in Clients : StartCreate(c)
      <4>1. UNCHANGED <<owner, key>>
        BY <2>1, <3>2, OnlyCreateWrites
      <4>2. QED
        BY <2>1, <4>1 DEF KeyInv, IndexOK, OneJobPerKey
    <3>3. QED
      BY <3>1, <3>2
  <2>2. QED
    BY <2>1
<1>3. KeyInv => OneJobPerKey
  BY DEF KeyInv
<1>4. QED
  BY <1>1, <1>2, <1>3, PTL DEF Spec

-----------------------------------------------------------------------------
(* Types, by parts.  The lower bounds of the semaphores are left to the      *)
(* accounting, from which they follow.                                     *)
Runners  == [pc : RunnerPcs, job : JobRecords, list : TaskLists, snap : JobRecords,
             current : Jobs \cup {NoJob}]
Execs    == [pc : ExecPcs, attempt : Nat, list : TaskLists, snap : JobRecords,
             op : {"none", "start", "again", "succeed", "fail", "cancel"}]
Requests == [pc : ClientPcs, id : Jobs \cup {NoJob}, key : Keys, snap : JobRecords,
             list : TaskLists]
Projects == [current : Jobs \cup {NoJob}, status : Statuses \cup {"draft", "absent"}]

StoreOK ==
  /\ job \in [Jobs -> JobRecords]
  /\ owner \in [Jobs -> Users \cup {"None"}] /\ key \in [Jobs -> Keys]
  /\ tasks \in [Jobs -> TaskLists]
  /\ project \in [Users -> Projects]

MapsOK == active \subseteq Jobs /\ running \in [Users -> Nat]

SlotsBelow ==
  /\ globalSem \in Int /\ globalSem <= MaxConcurrent
  /\ sceneSem \in [Jobs -> Int] /\ \A j \in Jobs : sceneSem[j] <= MaxSceneJobs

LocalsOK ==
  /\ runner \in [Jobs -> Runners]
  /\ exec \in [Jobs -> [Tasks -> Execs]]
  /\ client \in [Clients -> Requests] /\ calls \in [Clients -> 0..MaxCalls]

Types == StoreOK /\ MapsOK /\ SlotsBelow /\ LocalsOK

-----------------------------------------------------------------------------
(* What the locals of a goroutine know. *)

StartPcs  == {"startQuota", "startCreate"}
LaunchPcs == {"startProject", "launch"}
RetryPcs  == {"retryQuota", "retryTasks", "retryReplace", "retryUpdate"}

(* A job exists when it has an owner, and a runner belongs to one that does. *)
OwnersKnown ==
  \A j \in Jobs :
    /\ job[j].status = "absent" <=> owner[j] = "None"
    /\ j \in active => owner[j] # "None"

(* A request acts on a job of its user. *)
RequestsNamed ==
  \A c \in Clients :
    client[c].pc \in LaunchPcs \cup RetryPcs \cup {"cancelPut"}
    => client[c].id \in Jobs /\ owner[client[c].id] = UserOf[c]

(* The copy of a job that is about to be written back is one of a job. *)
CopiesPresent ==
  /\ \A c \in Clients : client[c].pc = "cancelPut" =>
       client[c].snap.status # "absent" /\ ~Ended(client[c].snap.status)
  /\ \A j \in Jobs : runner[j].pc = "progressPut" => runner[j].snap.status # "absent"
  /\ \A j \in Jobs : runner[j].pc = "final" => Ended(runner[j].job.status)
  /\ \A j \in Jobs, t \in Tasks :
       exec[j][t].pc = "progressPut" => exec[j][t].snap.status # "absent"

(* updateTask has a change to make, and only a scene task waits for sceneSem. *)
OpsGiven ==
  \A j \in Jobs, t \in Tasks :
    /\ exec[j][t].pc \in {"load", "store"} => exec[j][t].op # "none"
    /\ exec[j][t].pc = "scene" => t \in SceneTasks

LocalsInv == OwnersKnown /\ RequestsNamed /\ CopiesPresent /\ OpsGiven

(* The inductive invariant of the types and of the accounting. *)
JobInv == Types /\ LocalsInv /\ RunnersAccounted

-----------------------------------------------------------------------------
(* Facts about the data *)

LEMMA RecordsTyped ==
  /\ NewJob \in JobRecords /\ Absent \in JobRecords /\ NewList \in TaskLists
  /\ NoRunner \in Runners /\ NoExec \in Execs /\ NoCall \in Requests
<1>1. NewJob \in JobRecords /\ Absent \in JobRecords
  BY DEF NewJob, Absent, JobRecords, Statuses
<1>2. NewList \in TaskLists
  BY DEF NewList, TaskLists, Statuses
<1>3. NoRunner \in Runners
  BY <1>1, <1>2 DEF NoRunner, Runners, RunnerPcs
<1>4. NoExec \in Execs
  BY <1>1, <1>2 DEF NoExec, Execs, ExecPcs
<1>5. NoCall \in Requests
  BY <1>1, <1>2, JobAssumption DEF NoCall, Requests, ClientPcs
<1>6. QED
  BY <1>1, <1>2, <1>3, <1>4, <1>5

LEMMA RelabelTyped ==
  ASSUME NEW list \in TaskLists, NEW S, NEW s \in Statuses
  PROVE  Relabel(list, S, s) \in TaskLists
BY DEF Relabel, TaskLists

LEMMA ChangeTyped ==
  ASSUME NEW list \in TaskLists, NEW t \in Tasks,
         NEW op \in {"start", "again", "succeed", "fail", "cancel"}
  PROVE  [list EXCEPT ![t] = Change(op, @)] \in TaskLists
<1>1. Change(op, list[t]) \in [status : Statuses, attempt : Nat]
  BY DEF Change, TaskLists, Statuses
<1>2. QED
  BY <1>1 DEF TaskLists

(* There are finitely many tasks, so that slots can be counted. *)
LEMMA TasksFinite == IsFiniteSet(Tasks) /\ IsFiniteSet(SceneTasks) /\ IsFiniteSet(Jobs \X Tasks)
<1>1. IsFiniteSet(Scenes)
  BY FS_Interval, JobAssumption DEF Scenes
<1>2. IsFiniteSet({"image", "tts"})
  <2>1. {"image", "tts"} = {"image"} \cup {"tts"}
    OBVIOUS
  <2>2. IsFiniteSet({"image"})
    BY FS_Singleton
  <2>3. IsFiniteSet({"image"} \cup {"tts"})
    BY <2>2, FS_AddElement
  <2>4. QED
    BY <2>1, <2>3
<1>3. IsFiniteSet(SceneTasks)
  BY <1>1, <1>2, FS_Product DEF SceneTasks
<1>4. IsFiniteSet({Storyboard, Compose})
  <2>1. {Storyboard, Compose} = {Storyboard} \cup {Compose}
    OBVIOUS
  <2>2. IsFiniteSet({Storyboard})
    BY FS_Singleton
  <2>3. IsFiniteSet({Storyboard} \cup {Compose})
    BY <2>2, FS_AddElement
  <2>4. QED
    BY <2>1, <2>3
<1>5. IsFiniteSet(Tasks)
  BY <1>3, <1>4, FS_Union DEF Tasks
<1>6. QED
  BY <1>3, <1>5, FS_Product, JobAssumption

(* The types of the module follow. *)
LEMMA TypesGiveTypeOK == JobInv => TypeOK
<1> SUFFICES ASSUME JobInv PROVE TypeOK
  OBVIOUS
<1>1. IsFiniteSet(HoldGlobal) /\ \A j \in Jobs : IsFiniteSet(HoldScene(j))
  BY TasksFinite, FS_Subset DEF HoldGlobal, HoldScene
<1>2. globalSem \in 0..MaxConcurrent
  <2>1. globalSem \in Nat
    BY <1>1, FS_CardinalityType DEF JobInv, RunnersAccounted
  <2>2. QED
    BY <2>1, JobAssumption DEF JobInv, Types, SlotsBelow
<1>3. sceneSem \in [Jobs -> 0..MaxSceneJobs]
  <2>1. \A j \in Jobs : sceneSem[j] \in Nat
    BY <1>1, FS_CardinalityType DEF JobInv, RunnersAccounted
  <2>2. QED
    BY <2>1, JobAssumption DEF JobInv, Types, SlotsBelow
<1>4. QED
  BY <1>2, <1>3 DEF JobInv, Types, StoreOK, MapsOK, LocalsOK, TypeOK, Runners, Execs, Requests, Projects
-----------------------------------------------------------------------------
(* The accounting.  Two pcs hold the same slots when: *)
SameSlots(p, q) ==
  /\ (p \in {"idle", "acquire"}) <=> (q \in {"idle", "acquire"})
  /\ (p \in {"idle", "acquire", "scene"}) <=> (q \in {"idle", "acquire", "scene"})

WaitsForWave == \A j \in Jobs : Executing(j) # {} => runner[j].pc = "wait"

(* A step that takes and returns no slot, starts and ends no runner. *)
LEMMA QuietAccount ==
  ASSUME RunnersAccounted, UNCHANGED <<active, running, globalSem, sceneSem>>,
         \A j \in active : owner'[j] = owner[j],
         \A j \in Jobs : (runner'[j].pc = "off") <=> (runner[j].pc = "off"),
         \A j \in Jobs, t \in Tasks : SameSlots(exec[j][t].pc, exec'[j][t].pc),
         WaitsForWave'
  PROVE  RunnersAccounted'
<1>1. HoldGlobal' = HoldGlobal
  <2>1. \A x \in Jobs \X Tasks : x[1] \in Jobs /\ x[2] \in Tasks
    OBVIOUS
  <2>2. QED
    BY <2>1 DEF HoldGlobal, SameSlots
<1>2. \A j \in Jobs : HoldScene(j)' = HoldScene(j)
  BY DEF HoldScene, SameSlots, Tasks
<1>3. \A u \in Users : {j \in active : owner[j] = u}' = {j \in active : owner[j] = u}
  OBVIOUS
<1>4. QED
  BY <1>1, <1>2, <1>3 DEF RunnersAccounted, WaitsForWave

(* Executing tasks are left alone. *)
LEMMA ExecsAlone ==
  ASSUME JobInv, UNCHANGED <<active, running, globalSem, sceneSem, exec>>,
         \A j \in active : owner'[j] = owner[j],
         \A j \in Jobs : (runner'[j].pc = "off") <=> (runner[j].pc = "off"),
         \A j \in Jobs : runner[j].pc = "wait" /\ runner'[j].pc # "wait" => Executing(j) = {}
  PROVE  RunnersAccounted'
<1>1. \A j \in Jobs : Executing(j)' = Executing(j)
  BY DEF Executing
<1>2. WaitsForWave'
  BY <1>1 DEF WaitsForWave, JobInv, RunnersAccounted
<1>3. QED
  BY <1>2, QuietAccount DEF JobInv, SameSlots

(* startRunnerIfNeeded counts the runner it starts. *)
LEMMA StartAccount ==
  ASSUME JobInv, NEW n \in Jobs, owner[n] \in Users, StartRunnerIfNeeded(n),
         UNCHANGED <<owner, exec, globalSem, sceneSem>>
  PROVE  RunnersAccounted'
<1>1. CASE n \in active
  <2>1. UNCHANGED <<active, running, runner>>
    BY <1>1 DEF StartRunnerIfNeeded, muVars
  <2>2. QED
    BY <2>1, ExecsAlone
<1>2. CASE n \notin active
  <2>1. /\ active' = active \cup {n}
        /\ running' = [running EXCEPT ![owner[n]] = @ + 1]
        /\ runner' = [runner EXCEPT ![n] = [NoRunner EXCEPT !.pc = "get"]]
    BY <1>2 DEF StartRunnerIfNeeded, SetRunner
  <2>2. runner[n].pc = "off" /\ Executing(n) = {}
    BY <1>2 DEF JobInv, RunnersAccounted
  <2>3. \A j \in Jobs : j # n => runner'[j] = runner[j]
    BY <2>1 DEF JobInv, Types, LocalsOK
  <2>4. runner'[n].pc = "get"
    BY <2>1 DEF JobInv, Types, LocalsOK, NoRunner
  <2>5. \A j \in Jobs : j \in active' <=> runner'[j].pc # "off"
    BY <2>1, <2>3, <2>4 DEF JobInv, RunnersAccounted
  <2>6. ASSUME NEW u \in Users
        PROVE  running'[u] = Cardinality({j \in active' : owner'[j] = u})
    <3>1. IsFiniteSet({j \in active : owner[j] = u})
      BY FS_Subset, JobAssumption DEF JobInv, Types, MapsOK
    <3>2. CASE u = owner[n]
      <4>1. {j \in active' : owner'[j] = u} = {j \in active : owner[j] = u} \cup {n}
        BY <2>1, <3>2
      <4>2. n \notin {j \in active : owner[j] = u}
        BY <1>2
      <4>3. Cardinality({j \in active' : owner'[j] = u}) = Cardinality({j \in active : owner[j] = u}) + 1
        BY <3>1, <4>1, <4>2, FS_AddElement
      <4>4. QED
        BY <2>1, <3>2, <4>3 DEF JobInv, RunnersAccounted, Types, MapsOK
    <3>3. CASE u # owner[n]
      <4>1. {j \in active' : owner'[j] = u} = {j \in active : owner[j] = u}
        BY <2>1, <3>3
      <4>2. QED
        BY <2>1, <3>3, <4>1 DEF JobInv, RunnersAccounted, Types, MapsOK
    <3>4. QED
      BY <3>2, <3>3
  <2>7. \A j \in Jobs : Executing(j)' = Executing(j) /\ HoldScene(j)' = HoldScene(j)
    BY DEF Executing, HoldScene
  <2>8. HoldGlobal' = HoldGlobal
    BY DEF HoldGlobal
  <2>9. QED
    BY <2>2, <2>3, <2>5, <2>6, <2>7, <2>8 DEF JobInv, RunnersAccounted
<1>3. QED
  BY <1>1, <1>2

(* finishRunner gives the place in the quota back. *)
LEMMA DeferAccount ==
  ASSUME JobInv, NEW n \in Jobs, RunDefer(n)
  PROVE  RunnersAccounted'
<1>1. /\ active' = active \ {n}
      /\ running' = [running EXCEPT ![owner[n]] = IF @ > 0 THEN @ - 1 ELSE @]
      /\ runner' = [runner EXCEPT ![n] = NoRunner]
      /\ UNCHANGED <<owner, exec, globalSem, sceneSem>>
  BY DEF RunDefer, FinishRunner, SetRunner, storeVars, semVars
<1>2. runner[n].pc = "defer" /\ n \in active /\ Executing(n) = {}
  BY DEF RunDefer, At, JobInv, RunnersAccounted
<1>3. owner[n] \in Users
  BY <1>2 DEF JobInv, LocalsInv, OwnersKnown, Types, StoreOK
<1>4. \A j \in Jobs : j # n => runner'[j] = runner[j]
  BY <1>1 DEF JobInv, Types, LocalsOK
<1>5. runner'[n].pc = "off"
  BY <1>1 DEF JobInv, Types, LocalsOK, NoRunner
<1>6. \A j \in Jobs : j \in active' <=> runner'[j].pc # "off"
  BY <1>1, <1>4, <1>5 DEF JobInv, RunnersAccounted
<1>7. ASSUME NEW u \in Users
      PROVE  running'[u] = Cardinality({j \in active' : owner'[j] = u})
  <2>1. IsFiniteSet({j \in active : owner[j] = u})
    BY FS_Subset, JobAssumption DEF JobInv, Types, MapsOK
  <2>2. running[u] = Cardinality({j \in active : owner[j] = u})
    BY DEF JobInv, RunnersAccounted
  <2>3. CASE u = owner[n]
    <3>1. {j \in active' : owner'[j] = u} = {j \in active : owner[j] = u} \ {n}
      BY <1>1
    <3>2. n \in {j \in active : owner[j] = u}
      BY <1>2, <2>3
    <3>3. Cardinality({j \in active' : owner'[j] = u}) = running[u] - 1
      BY <2>1, <2>2, <3>1, <3>2, FS_RemoveElement
    <3>4. running[u] # 0
      BY <2>1, <2>2, <3>2, FS_EmptySet
    <3>5. QED
      BY <1>1, <2>3, <3>3, <3>4 DEF JobInv, Types, MapsOK
  <2>4. CASE u # owner[n]
    <3>1. {j \in active' : owner'[j] = u} = {j \in active : owner[j] = u}
      BY <1>1, <2>4
    <3>2. QED
      BY <1>1, <2>2, <2>4, <3>1 DEF JobInv, Types, MapsOK
  <2>5. QED
    BY <2>3, <2>4
<1>8. \A j \in Jobs : Executing(j)' = Executing(j) /\ HoldScene(j)' = HoldScene(j)
  BY <1>1 DEF Executing, HoldScene
<1>9. HoldGlobal' = HoldGlobal
  BY <1>1 DEF HoldGlobal
<1>10. QED
  BY <1>1, <1>2, <1>4, <1>6, <1>7, <1>8, <1>9 DEF JobInv, RunnersAccounted
(* One executing task moves. *)
LEMMA SetExecEffect ==
  ASSUME LocalsOK, NEW j \in Jobs, NEW t \in Tasks, NEW e \in Execs, SetExec(j, t, e)
  PROVE  /\ exec' \in [Jobs -> [Tasks -> Execs]]
         /\ exec'[j][t] = e
         /\ \A i \in Jobs, s \in Tasks : i # j \/ s # t => exec'[i][s] = exec[i][s]
BY DEF LocalsOK, SetExec

LEMMA ExecQuietAccount ==
  ASSUME JobInv, NEW j \in Jobs, NEW t \in Tasks, NEW e \in Execs, SetExec(j, t, e),
         exec[j][t].pc # "idle", SameSlots(exec[j][t].pc, e.pc),
         UNCHANGED <<owner, active, running, globalSem, sceneSem, runner>>
  PROVE  RunnersAccounted'
<1>1. /\ exec'[j][t] = e
      /\ \A i \in Jobs, s \in Tasks : i # j \/ s # t => exec'[i][s] = exec[i][s]
  BY SetExecEffect DEF JobInv, Types
<1>2. \A i \in Jobs, s \in Tasks : SameSlots(exec[i][s].pc, exec'[i][s].pc)
  BY <1>1 DEF SameSlots
<1>3. \A i \in Jobs : Executing(i)' \subseteq Executing(i)
  BY <1>1 DEF Executing
<1>4. WaitsForWave'
  BY <1>3 DEF WaitsForWave, JobInv, RunnersAccounted
<1>5. QED
  BY <1>2, <1>4, QuietAccount DEF JobInv

(* Tasks execute as before, or one less. *)
LEMMA ExecMoves ==
  ASSUME JobInv, NEW j \in Jobs, NEW t \in Tasks, NEW e \in Execs, SetExec(j, t, e),
         exec[j][t].pc # "idle", UNCHANGED <<owner, active, running, runner>>
  PROVE  /\ \A i \in Jobs : i \in active' <=> runner'[i].pc # "off"
         /\ \A u \in Users : running'[u] = Cardinality({i \in active' : owner'[i] = u})
         /\ \A i \in Jobs : Executing(i)' # {} => runner'[i].pc = "wait"
<1>1. \A i \in Jobs : Executing(i)' \subseteq Executing(i)
  BY SetExecEffect DEF JobInv, Types, Executing
<1>2. QED
  BY <1>1 DEF JobInv, RunnersAccounted

LEMMA AcquireAccount ==
  ASSUME JobInv, NEW j \in Jobs, NEW t \in Tasks, NEW e \in Execs, SetExec(j, t, e),
         exec[j][t].pc = "acquire", e.pc \in {"scene", "load"}, e.pc = "scene" <=> t \in SceneTasks,
         globalSem' = globalSem + 1, UNCHANGED <<owner, active, running, sceneSem, runner>>
  PROVE  RunnersAccounted'
<1>1. /\ exec'[j][t] = e
      /\ \A i \in Jobs, s \in Tasks : i # j \/ s # t => exec'[i][s] = exec[i][s]
  BY SetExecEffect DEF JobInv, Types
<1>2. HoldGlobal' = HoldGlobal \cup {<<j, t>>} /\ <<j, t>> \notin HoldGlobal
  <2>1. \A x \in Jobs \X Tasks : x[1] \in Jobs /\ x[2] \in Tasks /\ (x = <<j, t>> <=> x[1] = j /\ x[2] = t)
    OBVIOUS
  <2>2. QED
    BY <1>1, <2>1 DEF HoldGlobal
<1>3. IsFiniteSet(HoldGlobal)
  BY TasksFinite, FS_Subset DEF HoldGlobal
<1>4. Cardinality(HoldGlobal') = Cardinality(HoldGlobal) + 1
  BY <1>2, <1>3, FS_AddElement
<1>5. \A i \in Jobs : HoldScene(i)' = HoldScene(i)
  BY <1>1 DEF HoldScene, Tasks
<1>6. QED
  BY <1>4, <1>5, ExecMoves DEF JobInv, RunnersAccounted

LEMMA SceneAccount ==
  ASSUME JobInv, NEW j \in Jobs, NEW t \in SceneTasks, NEW e \in Execs, SetExec(j, t, e),
         exec[j][t].pc = "scene", e.pc = "load",
         sceneSem' = [sceneSem EXCEPT ![j] = @ + 1], UNCHANGED <<owner, active, running, globalSem, runner>>
  PROVE  RunnersAccounted'
<1>0. t \in Tasks
  BY DEF Tasks
<1>1. /\ exec'[j][t] = e
      /\ \A i \in Jobs, s \in Tasks : i # j \/ s # t => exec'[i][s] = exec[i][s]
  BY <1>0, SetExecEffect DEF JobInv, Types
<1>2. HoldGlobal' = HoldGlobal
  <2>1. \A x \in Jobs \X Tasks : x[1] \in Jobs /\ x[2] \in Tasks
    OBVIOUS
  <2>2. QED
    BY <1>1, <2>1 DEF HoldGlobal
<1>3. HoldScene(j)' = HoldScene(j) \cup {t} /\ t \notin HoldScene(j)
  BY <1>1 DEF HoldScene, Tasks
<1>4. IsFiniteSet(HoldScene(j))
  BY TasksFinite, FS_Subset DEF HoldScene
<1>5. Cardinality(HoldScene(j)') = Cardinality(HoldScene(j)) + 1
  BY <1>3, <1>4, FS_AddElement
<1>6. \A i \in Jobs : i # j => HoldScene(i)' = HoldScene(i)
  BY <1>1 DEF HoldScene, Tasks
<1>7. \A i \in Jobs : sceneSem'[i] = Cardinality(HoldScene(i)')
  BY <1>5, <1>6 DEF JobInv, RunnersAccounted, Types, SlotsBelow
<1>8. QED
  BY <1>0, <1>2, <1>7, ExecMoves DEF JobInv, RunnersAccounted

LEMMA ReleaseAccount ==
  ASSUME JobInv, NEW j \in Jobs, NEW t \in Tasks, NEW e \in Execs, SetExec(j, t, e),
         exec[j][t].pc = "progressPut", e.pc = "idle", ReleaseSlots(j, t),
         UNCHANGED <<owner, active, running, runner>>
  PROVE  RunnersAccounted'
<1>1. /\ exec'[j][t] = e
      /\ \A i \in Jobs, s \in Tasks : i # j \/ s # t => exec'[i][s] = exec[i][s]
  BY SetExecEffect DEF JobInv, Types
<1>2. HoldGlobal' = HoldGlobal \ {<<j, t>>} /\ <<j, t>> \in HoldGlobal
  BY <1>1 DEF HoldGlobal
<1>3. IsFiniteSet(HoldGlobal)
  BY TasksFinite, FS_Subset DEF HoldGlobal
<1>4. globalSem' = Cardinality(HoldGlobal')
  BY <1>2, <1>3, FS_RemoveElement DEF ReleaseSlots, JobInv, RunnersAccounted
<1>5. HoldScene(j)' = HoldScene(j) \ {t} /\ (t \in HoldScene(j) <=> NeedsScene(t))
  BY <1>1 DEF HoldScene, Tasks, NeedsScene
<1>6. IsFiniteSet(HoldScene(j))
  BY TasksFinite, FS_Subset DEF HoldScene
<1>7. Cardinality(HoldScene(j)') = IF NeedsScene(t) THEN Cardinality(HoldScene(j)) - 1 ELSE Cardinality(HoldScene(j))
  BY <1>5, <1>6, FS_RemoveElement
<1>8. \A i \in Jobs : i # j => HoldScene(i)' = HoldScene(i)
  BY <1>1 DEF HoldScene, Tasks
<1>9. \A i \in Jobs : sceneSem'[i] = Cardinality(HoldScene(i)')
  BY <1>7, <1>8 DEF JobInv, RunnersAccounted, Types, SlotsBelow, ReleaseSlots
<1>10. QED
  BY <1>4, <1>9, ExecMoves DEF JobInv, RunnersAccounted
-----------------------------------------------------------------------------
(* The steps of a request *)

(* What the rest of a request may hold. *)
RequestFits(c, l) ==
  /\ l.pc \in LaunchPcs \cup RetryPcs \cup {"cancelPut"} => l.id \in Jobs /\ owner[l.id] = UserOf[c]
  /\ l.pc = "cancelPut" => l.snap.status # "absent" /\ ~Ended(l.snap.status)

(* No job appears or disappears. *)
SameJobs == \A j \in Jobs : job'[j].status = "absent" <=> job[j].status = "absent"

LEMMA SetClientEffect ==
  ASSUME LocalsOK, NEW c \in Clients, NEW l \in Requests, SetClient(c, l)
  PROVE  /\ client' \in [Clients -> Requests]
         /\ client'[c] = l
         /\ \A d \in Clients : d # c => client'[d] = client[d]
BY DEF LocalsOK, SetClient

(* A request that touches neither runners nor executing tasks. *)
LEMMA RequestKeeps ==
  ASSUME JobInv, NEW c \in Clients, NEW l \in Requests, SetClient(c, l), RequestFits(c, l),
         calls' \in [Clients -> 0..MaxCalls], StoreOK', SameJobs,
         UNCHANGED <<owner, muVars, semVars, runner, exec>>
  PROVE  JobInv'
<1>1. /\ client' \in [Clients -> Requests]
      /\ client'[c] = l
      /\ \A d \in Clients : d # c => client'[d] = client[d]
  BY SetClientEffect DEF JobInv, Types
<1>2. Types'
  BY <1>1 DEF JobInv, Types, MapsOK, SlotsBelow, LocalsOK, muVars, semVars
<1>3. OwnersKnown'
  BY DEF JobInv, LocalsInv, OwnersKnown, SameJobs, muVars
<1>4. RequestsNamed'
  BY <1>1 DEF JobInv, LocalsInv, RequestsNamed, RequestFits
<1>5. CopiesPresent'
  BY <1>1 DEF JobInv, LocalsInv, CopiesPresent, RequestFits
<1>6. OpsGiven'
  BY DEF JobInv, LocalsInv, OpsGiven
<1>7. RunnersAccounted'
  BY ExecsAlone DEF muVars, semVars
<1>8. QED
  BY <1>2, <1>3, <1>4, <1>5, <1>6, <1>7 DEF JobInv, LocalsInv

LEMMA CallCounts ==
  ASSUME JobInv, NEW c \in Clients, NEW name, Call(c, name)
  PROVE  calls' \in [Clients -> 0..MaxCalls]
BY JobAssumption DEF JobInv, Types, LocalsOK, Call

(* The first lookups. *)
LEMMA CallsKeep ==
  ASSUME JobInv, NEW c \in Clients,
         \/ \E k \in Keys : StartJob(c, k)
         \/ \E j \in Jobs : CancelJob(c, j) \/ RetryJob(c, j)
  PROVE  JobInv'
<1>1. ASSUME NEW k \in Keys, StartJob(c, k) PROVE JobInv'
  <2> DEFINE l == IF ByKey(UserOf[c], k) # {} THEN NoCall ELSE [NoCall EXCEPT !.pc = "startQuota", !.key = k]
  <2>1. l \in Requests
    BY RecordsTyped DEF Requests, ClientPcs
  <2>2. RequestFits(c, l)
    BY DEF RequestFits, NoCall, LaunchPcs, RetryPcs
  <2>3. SetClient(c, l) /\ UNCHANGED <<storeVars, muVars, semVars, runner, exec>>
    BY <1>1 DEF StartJob
  <2>4. calls' \in [Clients -> 0..MaxCalls]
    BY <1>1, CallCounts DEF StartJob
  <2>5. StoreOK' /\ SameJobs
    BY <2>3 DEF JobInv, Types, StoreOK, SameJobs, storeVars
  <2>6. QED
    BY <2>1, <2>2, <2>3, <2>4, <2>5, RequestKeeps DEF storeVars
<1>2. ASSUME NEW j \in Jobs, CancelJob(c, j) PROVE JobInv'
  <2> DEFINE l == [NoCall EXCEPT !.pc = "cancelPut", !.id = j, !.snap = job[j]]
  <2>1. l \in Requests
    BY RecordsTyped DEF Requests, ClientPcs, JobInv, Types, StoreOK
  <2>2. owner[j] = UserOf[c] /\ ~Ended(job[j].status)
    BY <1>2 DEF CancelJob
  <2>3. owner[j] # "None"
    BY <2>2, JobAssumption
  <2>4. RequestFits(c, l)
    BY <2>2, <2>3 DEF RequestFits, NoCall, JobInv, LocalsInv, OwnersKnown
  <2>5. SetClient(c, l) /\ UNCHANGED <<storeVars, muVars, semVars, runner, exec>>
    BY <1>2 DEF CancelJob
  <2>6. calls' \in [Clients -> 0..MaxCalls]
    BY <1>2, CallCounts DEF CancelJob
  <2>7. StoreOK' /\ SameJobs
    BY <2>5 DEF JobInv, Types, StoreOK, SameJobs, storeVars
  <2>8. QED
    BY <2>1, <2>4, <2>5, <2>6, <2>7, RequestKeeps DEF storeVars
<1>3. ASSUME NEW j \in Jobs, RetryJob(c, j) PROVE JobInv'
  <2> DEFINE l == [NoCall EXCEPT !.pc = "retryQuota", !.id = j]
  <2>1. l \in Requests
    BY RecordsTyped DEF Requests, ClientPcs
  <2>2. RequestFits(c, l)
    BY <1>3 DEF RequestFits, NoCall, RetryJob
  <2>3. SetClient(c, l) /\ UNCHANGED <<storeVars, muVars, semVars, runner, exec>>
    BY <1>3 DEF RetryJob
  <2>4. calls' \in [Clients -> 0..MaxCalls]
    BY <1>3, CallCounts DEF RetryJob
  <2>5. StoreOK' /\ SameJobs
    BY <2>3 DEF JobInv, Types, StoreOK, SameJobs, storeVars
  <2>6. QED
    BY <2>1, <2>2, <2>3, <2>4, <2>5, RequestKeeps DEF storeVars
<1>4. QED
  BY <1>1, <1>2, <1>3
(* The steps that read the quota, read or write the tasks, and write the     *)
(* project or the job.                                                     *)
LEMMA RequestsKeep ==
  ASSUME JobInv, NEW c \in Clients,
         \/ StartQuota(c) \/ StartProject(c) \/ CancelPut(c)
         \/ RetryQuota(c) \/ RetryTasks(c) \/ RetryReplace(c) \/ RetryUpdate(c)
  PROVE  JobInv'
<1>0. /\ client[c] \in Requests /\ UserOf[c] \in Users /\ RequestFits(c, client[c])
      /\ calls \in [Clients -> 0..MaxCalls] /\ StoreOK
  BY JobAssumption DEF JobInv, Types, LocalsOK, LocalsInv, RequestFits, RequestsNamed, CopiesPresent
<1>1. CASE StartQuota(c)
  <2> DEFINE l == IF QuotaFree(UserOf[c]) THEN [client[c] EXCEPT !.pc = "startCreate"] ELSE NoCall
  <2>1. l \in Requests
    BY <1>0, RecordsTyped DEF Requests, ClientPcs
  <2>2. RequestFits(c, l)
    BY <1>0 DEF RequestFits, NoCall, LaunchPcs, RetryPcs, Requests
  <2>3. SetClient(c, l) /\ UNCHANGED <<storeVars, muVars, semVars, runner, exec, calls>>
    BY <1>1 DEF StartQuota
  <2>4. StoreOK' /\ SameJobs
    BY <1>0, <2>3 DEF StoreOK, SameJobs, storeVars
  <2>5. QED
    BY <1>0, <2>1, <2>2, <2>3, <2>4, RequestKeeps DEF storeVars
<1>2. CASE StartProject(c)
  <2> DEFINE l == [client[c] EXCEPT !.pc = "launch"]
  <2>1. l \in Requests
    BY <1>0 DEF Requests, ClientPcs
  <2>2. client[c].id \in Jobs /\ owner[client[c].id] = UserOf[c]
    BY <1>0, <1>2 DEF RequestFits, StartProject, LaunchPcs
  <2>3. RequestFits(c, l)
    BY <1>0, <2>2 DEF RequestFits, Requests
  <2>4. SetClient(c, l) /\ UNCHANGED <<job, owner, key, tasks, muVars, semVars, runner, exec, calls>>
    BY <1>2 DEF StartProject
  <2>5. project' \in [Users -> Projects]
    BY <1>0, <1>2, <2>2 DEF StartProject, StoreOK, Projects, Statuses
  <2>6. StoreOK' /\ SameJobs
    BY <1>0, <2>4, <2>5 DEF StoreOK, SameJobs
  <2>7. QED
    BY <1>0, <2>1, <2>3, <2>4, <2>6, RequestKeeps
<1>3. CASE CancelPut(c)
  <2> DEFINE r == [client[c].snap EXCEPT !.cancelRequested = TRUE]
  <2>1. client[c].id \in Jobs /\ client[c].snap.status # "absent" /\ owner[client[c].id] # "None"
    BY <1>0, <1>3, JobAssumption DEF RequestFits, CancelPut
  <2>2. r \in JobRecords /\ r.status # "absent"
    BY <1>0, <2>1 DEF Requests, JobRecords
  <2>3. job' = [job EXCEPT ![client[c].id] = r] /\ SetClient(c, NoCall)
        /\ UNCHANGED <<owner, key, tasks, project, muVars, semVars, runner, exec, calls>>
    BY <1>3 DEF CancelPut, PutJob
  <2>4. job[client[c].id].status # "absent"
    BY <2>1 DEF JobInv, LocalsInv, OwnersKnown
  <2>5. StoreOK' /\ SameJobs
    BY <1>0, <2>1, <2>2, <2>3, <2>4 DEF StoreOK, SameJobs
  <2>6. NoCall \in Requests /\ RequestFits(c, NoCall)
    BY RecordsTyped DEF RequestFits, NoCall, LaunchPcs, RetryPcs
  <2>7. QED
    BY <1>0, <2>3, <2>5, <2>6, RequestKeeps
<1>4. CASE RetryQuota(c)
  <2> DEFINE l == IF QuotaFree(UserOf[c]) THEN [client[c] EXCEPT !.pc = "retryTasks"] ELSE NoCall
  <2>1. l \in Requests
    BY <1>0, RecordsTyped DEF Requests, ClientPcs
  <2>2. RequestFits(c, l)
    BY <1>0, <1>4 DEF RequestFits, NoCall, LaunchPcs, RetryPcs, Requests, RetryQuota
  <2>3. SetClient(c, l) /\ UNCHANGED <<storeVars, muVars, semVars, runner, exec, calls>>
    BY <1>4 DEF RetryQuota
  <2>4. StoreOK' /\ SameJobs
    BY <1>0, <2>3 DEF StoreOK, SameJobs, storeVars
  <2>5. QED
    BY <1>0, <2>1, <2>2, <2>3, <2>4, RequestKeeps DEF storeVars
<1>5. CASE RetryTasks(c)
  <2> DEFINE l == [client[c] EXCEPT !.pc = "retryReplace",
                     !.list = Relabel(tasks[client[c].id], {"failed", "canceled"}, "queued")]
  <2>1. client[c].id \in Jobs /\ owner[client[c].id] = UserOf[c]
    BY <1>0, <1>5 DEF RequestFits, RetryTasks, RetryPcs
  <2>2. Relabel(tasks[client[c].id], {"failed", "canceled"}, "queued") \in TaskLists
    BY <1>0, <2>1, RelabelTyped DEF StoreOK, Statuses
  <2>3. l \in Requests
    BY <1>0, <2>2 DEF Requests, ClientPcs
  <2>4. RequestFits(c, l)
    BY <1>0, <2>1 DEF RequestFits, Requests
  <2>5. SetClient(c, l) /\ UNCHANGED <<storeVars, muVars, semVars, runner, exec, calls>>
    BY <1>5 DEF RetryTasks
  <2>6. StoreOK' /\ SameJobs
    BY <1>0, <2>5 DEF StoreOK, SameJobs, storeVars
  <2>7. QED
    BY <1>0, <2>3, <2>4, <2>5, <2>6, RequestKeeps DEF storeVars
<1>6. CASE RetryReplace(c)
  <2> DEFINE l == [NoCall EXCEPT !.pc = "retryUpdate", !.id = client[c].id]
  <2>1. client[c].id \in Jobs /\ owner[client[c].id] = UserOf[c]
    BY <1>0, <1>6 DEF RequestFits, RetryReplace, RetryPcs
  <2>2. l \in Requests
    BY <2>1, RecordsTyped DEF Requests, ClientPcs
  <2>3. RequestFits(c, l)
    BY <2>1 DEF RequestFits, NoCall
  <2>4. tasks' = [tasks EXCEPT ![client[c].id] = client[c].list] /\ SetClient(c, l)
        /\ UNCHANGED <<job, owner, key, project, muVars, semVars, runner, exec, calls>>
    BY <1>6 DEF RetryReplace, PutTasks
  <2>5. StoreOK' /\ SameJobs
    BY <1>0, <2>1, <2>4 DEF StoreOK, SameJobs, Requests
  <2>6. QED
    BY <1>0, <2>2, <2>3, <2>4, <2>5, RequestKeeps
<1>7. CASE RetryUpdate(c)
  <2> DEFINE l == [client[c] EXCEPT !.pc = "launch"]
  <2>1. client[c].id \in Jobs /\ owner[client[c].id] = UserOf[c] /\ owner[client[c].id] # "None"
    BY <1>0, <1>7, JobAssumption DEF RequestFits, RetryUpdate, RetryPcs
  <2>2. l \in Requests
    BY <1>0 DEF Requests, ClientPcs
  <2>3. RequestFits(c, l)
    BY <1>0, <2>1 DEF RequestFits, Requests
  <2>4. job' = [job EXCEPT ![client[c].id] = NewJob] /\ SetClient(c, l)
        /\ UNCHANGED <<owner, key, tasks, project, muVars, semVars, runner, exec, calls>>
    BY <1>7 DEF RetryUpdate, PutJob
  <2>5. job[client[c].id].status # "absent"
    BY <2>1 DEF JobInv, LocalsInv, OwnersKnown
  <2>6. StoreOK' /\ SameJobs
    BY <1>0, <2>1, <2>4, <2>5, RecordsTyped DEF StoreOK, SameJobs, NewJob
  <2>7. QED
    BY <1>0, <2>2, <2>3, <2>4, <2>6, RequestKeeps
<1>8. QED
  BY <1>1, <1>2, <1>3, <1>4, <1>5, <1>6, <1>7

(* CreateJob: the new job has no runner, so the quota is as it was. *)
LEMMA CreateKeeps ==
  ASSUME JobInv, NEW c \in Clients, StartCreate(c)
  PROVE  JobInv'
<1>0. /\ client[c] \in Requests /\ UserOf[c] \in Users /\ UserOf[c] # "None" /\ StoreOK
  BY JobAssumption DEF JobInv, Types, LocalsOK
<1>1. UNCHANGED <<project, muVars, semVars, runner, exec, calls>>
  BY DEF StartCreate
<1>2. ASSUME Existing(c) # {} PROVE JobInv'
  <2>1. PICK j \in Existing(c) : SetClient(c, [client[c] EXCEPT !.pc = "startProject", !.id = j])
    BY <1>2 DEF StartCreate
  <2>2. j \in Jobs /\ owner[j] = UserOf[c]
    BY DEF Existing, ByKey
  <2> DEFINE l == [client[c] EXCEPT !.pc = "startProject", !.id = j]
  <2>3. l \in Requests /\ RequestFits(c, l)
    BY <1>0, <2>2 DEF Requests, ClientPcs, RequestFits
  <2>4. UNCHANGED <<job, owner, key, tasks>>
    BY <1>2 DEF StartCreate
  <2>5. StoreOK' /\ SameJobs
    BY <1>0, <1>1, <2>4 DEF StoreOK, SameJobs
  <2>6. calls' \in [Clients -> 0..MaxCalls]
    BY <1>1 DEF JobInv, Types, LocalsOK
  <2>7. QED
    BY <1>1, <2>1, <2>3, <2>4, <2>5, <2>6, RequestKeeps
<1>3. ASSUME Existing(c) = {} PROVE JobInv'
  <2>1. PICK j \in Jobs :
          /\ job[j].status = "absent"
          /\ job' = [job EXCEPT ![j] = NewJob]
          /\ owner' = [owner EXCEPT ![j] = UserOf[c]]
          /\ key'   = [key EXCEPT ![j] = client[c].key]
          /\ tasks' = [tasks EXCEPT ![j] = NewList]
          /\ SetClient(c, [client[c] EXCEPT !.pc = "startProject", !.id = j])
    BY <1>3 DEF StartCreate, PutJob, PutTasks
  <2> DEFINE l == [client[c] EXCEPT !.pc = "startProject", !.id = j]
  <2>2. l \in Requests /\ l.pc = "startProject" /\ l.id = j
    BY <1>0 DEF Requests, ClientPcs
  <2>3. /\ client' \in [Clients -> Requests]
        /\ client'[c] = l
        /\ \A d \in Clients : d # c => client'[d] = client[d]
    BY <2>1, <2>2, SetClientEffect DEF JobInv, Types
  <2>4. j \notin active /\ owner[j] = "None"
    BY <2>1 DEF JobInv, LocalsInv, OwnersKnown
  <2>5. StoreOK'
    BY <1>0, <1>1, <2>1, RecordsTyped DEF StoreOK, Requests
  <2>6. Types'
    BY <1>1, <2>3, <2>5 DEF JobInv, Types, MapsOK, SlotsBelow, LocalsOK, muVars, semVars
  <2>7. OwnersKnown'
    BY <1>0, <1>1, <2>1, <2>4 DEF JobInv, LocalsInv, OwnersKnown, NewJob, StoreOK, muVars
  <2>8. RequestsNamed'
    <3>1. \A d \in Clients : UserOf[d] # "None"
      BY JobAssumption
    <3>2. \A i \in Jobs : i # j => owner'[i] = owner[i]
      BY <1>0, <2>1 DEF StoreOK
    <3>3. owner'[j] = UserOf[c]
      BY <1>0, <2>1 DEF StoreOK
    <3>4. ASSUME NEW d \in Clients, client'[d].pc \in LaunchPcs \cup RetryPcs \cup {"cancelPut"}
          PROVE  client'[d].id \in Jobs /\ owner'[client'[d].id] = UserOf[d]
      <4>1. CASE d = c
        BY <2>2, <2>3, <3>3, <4>1
      <4>2. CASE d # c
        BY <2>3, <2>4, <3>1, <3>2, <3>4, <4>2 DEF JobInv, LocalsInv, RequestsNamed
      <4>3. QED
        BY <4>1, <4>2
    <3>5. QED
      BY <3>4 DEF RequestsNamed
  <2>9. CopiesPresent'
    BY <1>1, <2>2, <2>3 DEF JobInv, LocalsInv, CopiesPresent
  <2>10. OpsGiven'
    BY <1>1 DEF JobInv, LocalsInv, OpsGiven
  <2>11. RunnersAccounted'
    <3>1. \A i \in active : owner'[i] = owner[i]
      BY <1>0, <2>1, <2>4 DEF StoreOK, JobInv, Types, MapsOK
    <3>2. QED
      BY <1>1, <3>1, ExecsAlone DEF muVars, semVars
  <2>12. QED
    BY <2>6, <2>7, <2>8, <2>9, <2>10, <2>11 DEF JobInv, LocalsInv
<1>4. QED
  BY <1>2, <1>3
LEMMA LaunchKeeps ==
  ASSUME JobInv, NEW c \in Clients, Launch(c)
  PROVE  JobInv'
<1> DEFINE n == client[c].id
<1>1. n \in Jobs /\ owner[n] = UserOf[c] /\ UserOf[c] \in Users /\ owner[n] # "None"
  BY JobAssumption DEF Launch, JobInv, LocalsInv, RequestsNamed, LaunchPcs
<1>2. StartRunnerIfNeeded(n) /\ SetClient(c, NoCall) /\ UNCHANGED <<storeVars, semVars, exec, calls>>
  BY DEF Launch
<1>3. /\ client' \in [Clients -> Requests]
      /\ client'[c] = NoCall
      /\ \A d \in Clients : d # c => client'[d] = client[d]
  BY <1>2, RecordsTyped, SetClientEffect DEF JobInv, Types
<1>4. RunnersAccounted'
  BY <1>1, <1>2, StartAccount DEF storeVars, semVars
<1>5. /\ active' = active \cup {n}
      /\ running' \in [Users -> Nat]
      /\ runner' \in [Jobs -> Runners]
      /\ \A j \in Jobs : runner'[j] = runner[j] \/ runner'[j].pc = "get"
  <2>1. CASE n \in active
    BY <1>2, <2>1 DEF StartRunnerIfNeeded, muVars, JobInv, Types, MapsOK, LocalsOK
  <2>2. CASE n \notin active
    <3>1. /\ active' = active \cup {n}
          /\ running' = [running EXCEPT ![owner[n]] = @ + 1]
          /\ runner' = [runner EXCEPT ![n] = [NoRunner EXCEPT !.pc = "get"]]
      BY <1>2, <2>2 DEF StartRunnerIfNeeded, SetRunner
    <3>2. [NoRunner EXCEPT !.pc = "get"] \in Runners /\ [NoRunner EXCEPT !.pc = "get"].pc = "get"
      BY RecordsTyped DEF Runners, RunnerPcs
    <3>3. QED
      BY <1>1, <3>1, <3>2 DEF JobInv, Types, MapsOK, LocalsOK
  <2>3. QED
    BY <2>1, <2>2
<1>6. Types'
  BY <1>1, <1>2, <1>3, <1>5 DEF JobInv, Types, StoreOK, MapsOK, SlotsBelow, LocalsOK, storeVars, semVars
<1>7. OwnersKnown'
  BY <1>1, <1>2, <1>5 DEF JobInv, LocalsInv, OwnersKnown, storeVars
<1>8. RequestsNamed'
  BY <1>2, <1>3 DEF JobInv, LocalsInv, RequestsNamed, storeVars, NoCall, LaunchPcs, RetryPcs
<1>9. CopiesPresent'
  BY <1>2, <1>3, <1>5 DEF JobInv, LocalsInv, CopiesPresent, NoCall
<1>10. OpsGiven'
  BY <1>2 DEF JobInv, LocalsInv, OpsGiven
<1>11. QED
  BY <1>4, <1>6, <1>7, <1>8, <1>9, <1>10 DEF JobInv, LocalsInv

LEMMA ClientKeeps ==
  ASSUME JobInv, NEW c \in Clients, ClientStep(c)
  PROVE  JobInv'
BY CallsKeep, RequestsKeep, CreateKeeps, LaunchKeeps DEF ClientStep

-----------------------------------------------------------------------------
(* The steps of a runner *)

LEMMA SetRunnerEffect ==
  ASSUME LocalsOK, NEW j \in Jobs, NEW r \in Runners, SetRunner(j, r)
  PROVE  /\ runner' \in [Jobs -> Runners]
         /\ runner'[j] = r
         /\ \A i \in Jobs : i # j => runner'[i] = runner[i]
BY DEF LocalsOK, SetRunner

(* What the rest of runJob may hold. *)
RunnerFits(r) ==
  /\ r.pc = "progressPut" => r.snap.status # "absent"
  /\ r.pc = "final" => Ended(r.job.status)

(* A step of a living runner that starts no task. *)
LEMMA RunnerKeepsGoing ==
  ASSUME JobInv, NEW j \in Jobs, NEW r \in Runners, SetRunner(j, r), RunnerFits(r),
         runner[j].pc # "off", r.pc # "off", runner[j].pc = "wait" => WaveDone(j),
         StoreOK', SameJobs, UNCHANGED <<owner, muVars, semVars, exec, client, calls>>
  PROVE  JobInv'
<1>1. /\ runner' \in [Jobs -> Runners]
      /\ runner'[j] = r
      /\ \A i \in Jobs : i # j => runner'[i] = runner[i]
  BY SetRunnerEffect DEF JobInv, Types
<1>2. Types'
  BY <1>1 DEF JobInv, Types, MapsOK, SlotsBelow, LocalsOK, muVars, semVars
<1>3. OwnersKnown'
  BY DEF JobInv, LocalsInv, OwnersKnown, SameJobs, muVars
<1>4. RequestsNamed' /\ OpsGiven'
  BY DEF JobInv, LocalsInv, RequestsNamed, OpsGiven
<1>5. CopiesPresent'
  BY <1>1 DEF JobInv, LocalsInv, CopiesPresent, RunnerFits
<1>6. runner[j].pc = "wait" => Executing(j) = {}
  BY DEF WaveDone, Executing
<1>7. RunnersAccounted'
  BY <1>1, <1>6, ExecsAlone DEF muVars, semVars
<1>8. QED
  BY <1>2, <1>3, <1>4, <1>5, <1>7 DEF JobInv, LocalsInv

(* The steps that only read the store. *)
LEMMA RunnerReads ==
  ASSUME JobInv, NEW j \in Jobs, NEW r \in Runners, SetRunner(j, r), RunnerFits(r),
         runner[j].pc # "off", r.pc # "off", runner[j].pc = "wait" => WaveDone(j),
         UNCHANGED <<storeVars, muVars, semVars, exec, client, calls>>
  PROVE  JobInv'
<1>1. StoreOK' /\ SameJobs
  BY DEF JobInv, Types, StoreOK, SameJobs, storeVars
<1>2. QED
  BY <1>1, RunnerKeepsGoing DEF storeVars

(* The steps that write the job. *)
LEMMA RunnerPuts ==
  ASSUME JobInv, NEW j \in Jobs, NEW r \in Runners, SetRunner(j, r), RunnerFits(r),
         runner[j].pc \notin {"off", "wait"}, r.pc # "off",
         NEW record \in JobRecords, record.status # "absent", PutJob(j, record),
         UNCHANGED <<owner, key, tasks, project, muVars, semVars, exec, client, calls>>
  PROVE  JobInv'
<1>1. job[j].status # "absent"
  BY DEF JobInv, RunnersAccounted, LocalsInv, OwnersKnown
<1>2. StoreOK' /\ SameJobs
  BY <1>1 DEF JobInv, Types, StoreOK, SameJobs, PutJob
<1>3. QED
  BY <1>2, RunnerKeepsGoing
(* What finalizeJob is given has an end's status. *)
LEMMA FinalTyped ==
  ASSUME NEW r \in JobRecords, NEW list
  PROVE  /\ [r EXCEPT !.status = FinalStatus(r, list)] \in JobRecords
         /\ Ended([r EXCEPT !.status = FinalStatus(r, list)].status)
         /\ [r EXCEPT !.status = FinalStatus(r, list)].status = FinalStatus(r, list)
BY DEF JobRecords, Statuses, FinalStatus, Ended

(* A wave starts: no task executed before, and none holds a slot yet. *)
LEMMA WaveKeeps ==
  ASSUME JobInv, NEW j \in Jobs, At(j, "list"),
         exec' = [exec EXCEPT ![j] = [t \in Tasks |->
                    IF t \in ReadyTasks(tasks[j]) THEN [NoExec EXCEPT !.pc = "acquire"] ELSE exec[j][t]]],
         SetRunner(j, [NoRunner EXCEPT !.pc = "wait"]),
         UNCHANGED <<storeVars, muVars, semVars, client, calls>>
  PROVE  JobInv'
<1> DEFINE r == [NoRunner EXCEPT !.pc = "wait"]
           e == [NoExec EXCEPT !.pc = "acquire"]
<1>0. r \in Runners /\ r.pc = "wait" /\ e \in Execs /\ e.pc = "acquire"
  BY RecordsTyped DEF Runners, RunnerPcs, Execs, ExecPcs
<1>1. /\ runner' \in [Jobs -> Runners]
      /\ runner'[j] = r
      /\ \A i \in Jobs : i # j => runner'[i] = runner[i]
  BY <1>0, SetRunnerEffect DEF JobInv, Types
<1>2. /\ exec' \in [Jobs -> [Tasks -> Execs]]
      /\ \A i \in Jobs, t \in Tasks : exec'[i][t] = exec[i][t] \/ (i = j /\ exec'[i][t] = e)
  BY <1>0 DEF JobInv, Types, LocalsOK
<1>3. \A t \in Tasks : exec[j][t].pc = "idle"
  BY DEF At, JobInv, RunnersAccounted, Executing
<1>4. Types'
  BY <1>1, <1>2 DEF JobInv, Types, StoreOK, MapsOK, SlotsBelow, LocalsOK, storeVars, muVars, semVars
<1>5. OwnersKnown' /\ RequestsNamed'
  BY DEF JobInv, LocalsInv, OwnersKnown, RequestsNamed, storeVars, muVars
<1>6. CopiesPresent'
  <2> HIDE DEF r, e
  <2>1. \A i \in Jobs : runner'[i] = runner[i] \/ runner'[i].pc = "wait"
    BY <1>0, <1>1
  <2>2. \A i \in Jobs, t \in Tasks : exec'[i][t] = exec[i][t] \/ exec'[i][t].pc = "acquire"
    BY <1>0, <1>2
  <2>3. QED
    BY <2>1, <2>2 DEF JobInv, LocalsInv, CopiesPresent
<1>7. OpsGiven'
  BY <1>0, <1>2 DEF JobInv, LocalsInv, OpsGiven
<1>8. \A i \in Jobs, t \in Tasks : SameSlots(exec[i][t].pc, exec'[i][t].pc)
  BY <1>0, <1>2, <1>3 DEF SameSlots
<1>9. WaitsForWave'
  <2>1. \A i \in Jobs : i # j => Executing(i)' = Executing(i)
    BY <1>2 DEF Executing
  <2>2. QED
    BY <1>0, <1>1, <2>1 DEF WaitsForWave, JobInv, RunnersAccounted
<1>10. RunnersAccounted'
  <2>1. \A i \in Jobs : (runner'[i].pc = "off") <=> (runner[i].pc = "off")
    BY <1>0, <1>1 DEF At
  <2>2. QED
    BY <1>8, <1>9, <2>1, QuietAccount DEF JobInv, storeVars, muVars, semVars
<1>11. QED
  BY <1>4, <1>5, <1>6, <1>7, <1>10 DEF JobInv, LocalsInv

LEMMA RunListKeeps ==
  ASSUME JobInv, NEW j \in Jobs, RunList(j)
  PROVE  JobInv'
<1>0. runner[j] \in Runners /\ runner[j].pc = "list" /\ UNCHANGED <<storeVars, muVars, semVars, client, calls>>
  BY DEF RunList, At, JobInv, Types, LocalsOK
<1>1. ASSUME SetRunner(j, [NoRunner EXCEPT !.pc = "final",
                 !.job = [runner[j].job EXCEPT !.status = FinalStatus(runner[j].job, tasks[j])]]),
             UNCHANGED exec
      PROVE  JobInv'
  <2> DEFINE r == [NoRunner EXCEPT !.pc = "final",
                 !.job = [runner[j].job EXCEPT !.status = FinalStatus(runner[j].job, tasks[j])]]
  <2>1. runner[j].job \in JobRecords
    BY <1>0 DEF Runners
  <2>2. r \in Runners /\ RunnerFits(r) /\ r.pc = "final"
    BY <2>1, RecordsTyped, FinalTyped DEF Runners, RunnerPcs, RunnerFits
  <2>3. QED
    BY <1>0, <1>1, <2>2, RunnerReads
<1>2. ASSUME SetRunner(j, [NoRunner EXCEPT !.pc = "get"]), UNCHANGED exec
      PROVE  JobInv'
  <2>1. [NoRunner EXCEPT !.pc = "get"] \in Runners /\ RunnerFits([NoRunner EXCEPT !.pc = "get"])
        /\ [NoRunner EXCEPT !.pc = "get"].pc = "get"
    BY RecordsTyped DEF Runners, RunnerPcs, RunnerFits
  <2>2. QED
    BY <1>0, <1>2, <2>1, RunnerReads
<1>3. ASSUME exec' = [exec EXCEPT ![j] = [t \in Tasks |->
                 IF t \in ReadyTasks(tasks[j]) THEN [NoExec EXCEPT !.pc = "acquire"] ELSE exec[j][t]]],
             SetRunner(j, [NoRunner EXCEPT !.pc = "wait"])
      PROVE  JobInv'
  BY <1>0, <1>3, WaveKeeps DEF At
<1>4. QED
  BY <1>1, <1>2, <1>3 DEF RunList

LEMMA RunnerKeeps ==
  ASSUME JobInv, NEW j \in Jobs, RunnerStep(j)
  PROVE  JobInv'
<1>0. runner[j] \in Runners /\ job[j] \in JobRecords /\ tasks[j] \in TaskLists /\ StoreOK
  BY DEF JobInv, Types, LocalsOK, StoreOK
<1>1. CASE RunGet(j)
  <2> DEFINE r == IF Ended(job[j].status) THEN [NoRunner EXCEPT !.pc = "defer"]
                  ELSE [NoRunner EXCEPT !.job = job[j],
                          !.pc = IF job[j].started THEN AfterStart(job[j]) ELSE "begin"]
  <2>1. r \in Runners /\ RunnerFits(r) /\ r.pc # "off"
    BY <1>0, RecordsTyped DEF Runners, RunnerPcs, RunnerFits, AfterStart
  <2>2. QED
    BY <1>1, <2>1, RunnerReads DEF RunGet, At
<1>2. CASE RunBegin(j)
  <2> DEFINE b == [runner[j].job EXCEPT !.started = TRUE, !.status = "running"]
             r == [runner[j] EXCEPT !.pc = AfterStart(b), !.job = b]
  <2>1. b \in JobRecords /\ b.status = "running"
    BY <1>0 DEF Runners, JobRecords, Statuses
  <2>2. AfterStart(b) \in {"cancelGet", "list"}
    BY DEF AfterStart
  <2> HIDE DEF b
  <2>3. r \in Runners /\ r.pc = AfterStart(b)
    BY <1>0, <2>1, <2>2 DEF Runners, RunnerPcs
  <2>4. RunnerFits(r) /\ r.pc # "off"
    BY <2>2, <2>3 DEF RunnerFits
  <2>5. PutJob(j, b) /\ SetRunner(j, r)
        /\ UNCHANGED <<owner, key, tasks, project, muVars, semVars, exec, client, calls>>
    BY <1>2 DEF RunBegin, b
  <2>6. runner[j].pc = "begin"
    BY <1>2 DEF RunBegin, At
  <2> HIDE DEF r
  <2>7. QED
    BY <2>1, <2>3, <2>4, <2>5, <2>6, RunnerPuts
<1>3. CASE RunCancelGet(j)
  <2> DEFINE r == IF \E t \in Tasks : tasks[j][t].status = "queued"
                  THEN [runner[j] EXCEPT !.pc = "cancelPut", !.list = tasks[j]]
                  ELSE [runner[j] EXCEPT !.pc = "list"]
  <2>1. r \in Runners /\ RunnerFits(r) /\ r.pc # "off"
    BY <1>0 DEF Runners, RunnerPcs, RunnerFits
  <2>2. QED
    BY <1>3, <2>1, RunnerReads DEF RunCancelGet, At
<1>4. CASE RunCancelPut(j)
  <2> DEFINE r == [runner[j] EXCEPT !.pc = "progressGet", !.list = NewList]
  <2>1. r \in Runners /\ RunnerFits(r) /\ r.pc # "off"
    BY <1>0, RecordsTyped DEF Runners, RunnerPcs, RunnerFits
  <2>2. Relabel(runner[j].list, {"queued"}, "canceled") \in TaskLists
    BY <1>0, RelabelTyped DEF Runners, Statuses
  <2>3. StoreOK' /\ SameJobs
    BY <1>0, <1>4, <2>2 DEF RunCancelPut, PutTasks, StoreOK, SameJobs
  <2>4. QED
    BY <1>4, <2>1, <2>3, RunnerKeepsGoing DEF RunCancelPut, At
<1>5. CASE RunProgressGet(j)
  <2> DEFINE r == [runner[j] EXCEPT !.pc = "progressPut", !.snap = job[j]]
  <2>1. job[j].status # "absent"
    BY <1>5 DEF RunProgressGet, At, JobInv, RunnersAccounted, LocalsInv, OwnersKnown
  <2>2. r \in Runners /\ RunnerFits(r) /\ r.pc # "off"
    BY <1>0, <2>1 DEF Runners, RunnerPcs, RunnerFits
  <2>3. QED
    BY <1>5, <2>2, RunnerReads DEF RunProgressGet, At
<1>6. CASE RunProgressPut(j)
  <2> DEFINE r == [runner[j] EXCEPT !.pc = "list", !.snap = Absent]
  <2>1. r \in Runners /\ RunnerFits(r) /\ r.pc # "off"
    BY <1>0, RecordsTyped DEF Runners, RunnerPcs, RunnerFits
  <2>2. runner[j].snap \in JobRecords /\ runner[j].snap.status # "absent"
    BY <1>0, <1>6 DEF Runners, RunProgressPut, At, JobInv, LocalsInv, CopiesPresent
  <2>3. QED
    BY <1>6, <2>1, <2>2, RunnerPuts DEF RunProgressPut, At
<1>7. CASE RunList(j)
  BY <1>7, RunListKeeps
<1>8. CASE RunWait(j)
  <2> DEFINE r == [NoRunner EXCEPT !.pc = "get"]
  <2>1. r \in Runners /\ RunnerFits(r) /\ r.pc # "off"
    BY RecordsTyped DEF Runners, RunnerPcs, RunnerFits
  <2>2. QED
    BY <1>8, <2>1, RunnerReads DEF RunWait, At
<1>9. CASE RunFinal(j)
  <2> DEFINE r == [runner[j] EXCEPT !.pc = "projectGet"]
  <2>1. r \in Runners /\ RunnerFits(r) /\ r.pc # "off"
    BY <1>0 DEF Runners, RunnerPcs, RunnerFits
  <2>2. runner[j].job \in JobRecords /\ runner[j].job.status # "absent"
    BY <1>0, <1>9 DEF Runners, RunFinal, At, JobInv, LocalsInv, CopiesPresent, Ended
  <2>3. QED
    BY <1>9, <2>1, <2>2, RunnerPuts DEF RunFinal, At
<1>10. CASE RunProjectGet(j)
  <2> DEFINE r == [runner[j] EXCEPT !.pc = "projectPut", !.current = project[owner[j]].current]
  <2>1. owner[j] \in Users
    BY <1>10 DEF RunProjectGet, At, JobInv, RunnersAccounted, LocalsInv, OwnersKnown, Types, StoreOK
  <2>2. r \in Runners /\ RunnerFits(r) /\ r.pc # "off"
    BY <1>0, <2>1 DEF Runners, RunnerPcs, RunnerFits, StoreOK, Projects
  <2>3. QED
    BY <1>10, <2>2, RunnerReads DEF RunProjectGet, At
<1>11. CASE RunProjectPut(j)
  <2> DEFINE r == [NoRunner EXCEPT !.pc = "defer"]
  <2>1. r \in Runners /\ RunnerFits(r) /\ r.pc # "off"
    BY RecordsTyped DEF Runners, RunnerPcs, RunnerFits
  <2>2. [current |-> runner[j].current, status |-> runner[j].job.status] \in Projects
    BY <1>0 DEF Runners, JobRecords, Projects
  <2>3. StoreOK' /\ SameJobs
    BY <1>0, <1>11, <2>2 DEF RunProjectPut, PutProject, StoreOK, SameJobs
  <2>4. QED
    BY <1>11, <2>1, <2>3, RunnerKeepsGoing DEF RunProjectPut, At
<1>12. CASE RunDefer(j)
  <2>1. RunnersAccounted'
    BY <1>12, DeferAccount
  <2>2. /\ runner' \in [Jobs -> Runners]
        /\ runner'[j] = NoRunner
        /\ \A i \in Jobs : i # j => runner'[i] = runner[i]
    BY <1>12, RecordsTyped, SetRunnerEffect DEF RunDefer, JobInv, Types
  <2>3. active' = active \ {j} /\ running' = [running EXCEPT ![owner[j]] = IF @ > 0 THEN @ - 1 ELSE @]
        /\ UNCHANGED <<storeVars, semVars, exec, client, calls>>
    BY <1>12 DEF RunDefer, FinishRunner
  <2>4. MapsOK'
    <3>1. owner[j] \in Users
      BY <1>12 DEF RunDefer, At, JobInv, RunnersAccounted, LocalsInv, OwnersKnown, Types, StoreOK
    <3>2. (IF running[owner[j]] > 0 THEN running[owner[j]] - 1 ELSE running[owner[j]]) \in Nat
      BY <3>1 DEF JobInv, Types, MapsOK
    <3>3. QED
      BY <2>3, <3>1, <3>2 DEF JobInv, Types, MapsOK
  <2>5. Types'
    BY <2>2, <2>3, <2>4 DEF JobInv, Types, StoreOK, SlotsBelow, LocalsOK, storeVars, semVars
  <2>6. OwnersKnown' /\ RequestsNamed' /\ OpsGiven'
    BY <2>3 DEF JobInv, LocalsInv, OwnersKnown, RequestsNamed, OpsGiven, storeVars
  <2>7. CopiesPresent'
    BY <2>2, <2>3 DEF JobInv, LocalsInv, CopiesPresent, NoRunner
  <2>8. QED
    BY <2>1, <2>5, <2>6, <2>7 DEF JobInv, LocalsInv
<1>13. QED
  BY <1>1, <1>2, <1>3, <1>4, <1>5, <1>6, <1>7, <1>8, <1>9, <1>10, <1>11, <1>12 DEF RunnerStep
-----------------------------------------------------------------------------
(* The steps of an executing task *)

(* What the rest of executeTask may hold. *)
ExecFits(t, e) ==
  /\ e.pc \in {"load", "store"} => e.op # "none"
  /\ e.pc = "scene" => t \in SceneTasks
  /\ e.pc = "progressPut" => e.snap.status # "absent"

LEMMA ExecMovesOn ==
  ASSUME JobInv, NEW j \in Jobs, NEW t \in Tasks, NEW e \in Execs, SetExec(j, t, e), ExecFits(t, e),
         RunnersAccounted', SlotsBelow', StoreOK', SameJobs,
         UNCHANGED <<owner, muVars, runner, client, calls>>
  PROVE  JobInv'
<1>1. /\ exec' \in [Jobs -> [Tasks -> Execs]]
      /\ exec'[j][t] = e
      /\ \A i \in Jobs, s \in Tasks : i # j \/ s # t => exec'[i][s] = exec[i][s]
  BY SetExecEffect DEF JobInv, Types
<1>2. Types'
  BY <1>1 DEF JobInv, Types, MapsOK, LocalsOK, muVars
<1>3. OwnersKnown' /\ RequestsNamed'
  BY DEF JobInv, LocalsInv, OwnersKnown, RequestsNamed, SameJobs, muVars
<1>4. CopiesPresent'
  BY <1>1 DEF JobInv, LocalsInv, CopiesPresent, ExecFits
<1>5. OpsGiven'
  BY <1>1 DEF JobInv, LocalsInv, OpsGiven, ExecFits
<1>6. QED
  BY <1>2, <1>3, <1>4, <1>5 DEF JobInv, LocalsInv

(* A step that takes and returns no slot. *)
LEMMA ExecGoesOn ==
  ASSUME JobInv, NEW j \in Jobs, NEW t \in Tasks, NEW e \in Execs, SetExec(j, t, e), ExecFits(t, e),
         exec[j][t].pc \notin {"idle", "acquire", "scene"}, e.pc \notin {"idle", "acquire", "scene"},
         StoreOK', SameJobs, UNCHANGED <<owner, muVars, semVars, runner, client, calls>>
  PROVE  JobInv'
<1>1. RunnersAccounted'
  BY ExecQuietAccount DEF SameSlots, muVars, semVars
<1>2. SlotsBelow'
  BY DEF JobInv, Types, SlotsBelow, semVars
<1>3. QED
  BY <1>1, <1>2, ExecMovesOn

LEMMA UpdatingTyped ==
  ASSUME JobInv, NEW j \in Jobs, NEW t \in Tasks,
         NEW op \in {"start", "again", "succeed", "fail", "cancel"}
  PROVE  /\ Updating(j, t, op) \in Execs /\ ExecFits(t, Updating(j, t, op))
         /\ Updating(j, t, op).pc = "load"
<1>1. exec[j][t] \in Execs
  BY DEF JobInv, Types, LocalsOK
<1>2. QED
  BY <1>1 DEF Updating, Execs, ExecPcs, ExecFits

LEMMA SlotStepsKeep ==
  ASSUME JobInv, NEW j \in Jobs, NEW t \in Tasks,
         ExecAcquire(j, t) \/ ExecScene(j, t) \/ ExecProgressPut(j, t)
  PROVE  JobInv'
<1>0. exec[j][t] \in Execs /\ StoreOK /\ SlotsBelow
  BY DEF JobInv, Types, LocalsOK
<1>1. CASE ExecAcquire(j, t)
  <2> DEFINE e == IF NeedsScene(t) THEN [exec[j][t] EXCEPT !.pc = "scene"] ELSE Updating(j, t, "start")
  <2>1. e \in Execs /\ ExecFits(t, e) /\ e.pc \in {"scene", "load"} /\ (e.pc = "scene" <=> t \in SceneTasks)
    BY <1>0, UpdatingTyped DEF Execs, ExecPcs, ExecFits, NeedsScene
  <2> HIDE DEF e
  <2>2. /\ exec[j][t].pc = "acquire" /\ globalSem < MaxConcurrent /\ globalSem' = globalSem + 1
        /\ SetExec(j, t, e)
        /\ UNCHANGED <<storeVars, muVars, sceneSem, runner, client, calls>>
    BY <1>1 DEF ExecAcquire, InExec, e
  <2>3. StoreOK' /\ SameJobs
    BY <1>0, <2>2 DEF StoreOK, SameJobs, storeVars
  <2>4. SlotsBelow'
    BY <1>0, <2>2, JobAssumption DEF SlotsBelow
  <2>5. RunnersAccounted'
    BY <2>1, <2>2, AcquireAccount DEF storeVars, muVars
  <2>6. QED
    BY <2>1, <2>2, <2>3, <2>4, <2>5, ExecMovesOn DEF storeVars
<1>2. CASE ExecScene(j, t)
  <2> DEFINE e == Updating(j, t, "start")
  <2>1. e \in Execs /\ ExecFits(t, e) /\ e.pc = "load"
    BY UpdatingTyped
  <2> HIDE DEF e
  <2>2. /\ exec[j][t].pc = "scene" /\ sceneSem[j] < MaxSceneJobs /\ sceneSem' = [sceneSem EXCEPT ![j] = @ + 1]
        /\ SetExec(j, t, e)
        /\ UNCHANGED <<storeVars, muVars, globalSem, runner, client, calls>>
    BY <1>2 DEF ExecScene, InExec, e
  <2>3. StoreOK' /\ SameJobs
    BY <1>0, <2>2 DEF StoreOK, SameJobs, storeVars
  <2>4. SlotsBelow'
    BY <1>0, <2>2, JobAssumption DEF SlotsBelow
  <2>5. t \in SceneTasks
    BY <2>2 DEF JobInv, LocalsInv, OpsGiven
  <2>6. RunnersAccounted'
    BY <2>1, <2>2, <2>5, SceneAccount DEF storeVars, muVars
  <2>7. QED
    BY <2>1, <2>2, <2>3, <2>4, <2>6, ExecMovesOn DEF storeVars
<1>3. CASE ExecProgressPut(j, t)
  <2>1. /\ exec[j][t].pc = "progressPut" /\ job' = [job EXCEPT ![j] = exec[j][t].snap]
        /\ ReleaseSlots(j, t) /\ SetExec(j, t, NoExec)
        /\ UNCHANGED <<owner, key, tasks, project, muVars, runner, client, calls>>
    BY <1>3 DEF ExecProgressPut, InExec, PutJob
  <2>2. NoExec \in Execs /\ ExecFits(t, NoExec) /\ NoExec.pc = "idle"
    BY RecordsTyped DEF NoExec, ExecFits
  <2>3. exec[j][t].snap \in JobRecords /\ exec[j][t].snap.status # "absent"
    BY <1>0, <2>1 DEF Execs, JobInv, LocalsInv, CopiesPresent
  <2>4. j \in active
    BY <2>1 DEF JobInv, RunnersAccounted, Executing
  <2>5. StoreOK' /\ SameJobs
    BY <1>0, <2>1, <2>3, <2>4 DEF StoreOK, SameJobs, JobInv, LocalsInv, OwnersKnown
  <2>6. SlotsBelow'
    BY <1>0, <2>1, JobAssumption DEF SlotsBelow, ReleaseSlots
  <2>7. RunnersAccounted'
    BY <2>1, <2>2, ReleaseAccount DEF muVars
  <2>8. QED
    BY <2>1, <2>2, <2>5, <2>6, <2>7, ExecMovesOn
<1>4. QED
  BY <1>1, <1>2, <1>3

LEMMA ExecKeeps ==
  ASSUME JobInv, NEW j \in Jobs, NEW t \in Tasks, ExecStep(j, t)
  PROVE  JobInv'
<1>0. exec[j][t] \in Execs /\ job[j] \in JobRecords /\ tasks[j] \in TaskLists /\ StoreOK
  BY DEF JobInv, Types, LocalsOK, StoreOK
<1>1. ASSUME NEW e \in Execs, SetExec(j, t, e), ExecFits(t, e),
             exec[j][t].pc \notin {"idle", "acquire", "scene"}, e.pc \notin {"idle", "acquire", "scene"},
             UNCHANGED <<storeVars, muVars, semVars, runner, client, calls>>
      PROVE  JobInv'
  <2>1. StoreOK' /\ SameJobs
    BY <1>0, <1>1 DEF StoreOK, SameJobs, storeVars
  <2>2. QED
    BY <1>1, <2>1, ExecGoesOn DEF storeVars
<1>2. CASE ExecAcquire(j, t) \/ ExecScene(j, t) \/ ExecProgressPut(j, t)
  BY <1>2, SlotStepsKeep
<1>3. CASE ExecLoad(j, t)
  <2>1. [exec[j][t] EXCEPT !.pc = "store", !.list = tasks[j]] \in Execs
    BY <1>0 DEF Execs, ExecPcs
  <2>2. ExecFits(t, [exec[j][t] EXCEPT !.pc = "store", !.list = tasks[j]])
    BY <1>0, <1>3 DEF Execs, ExecFits, ExecLoad, InExec, JobInv, LocalsInv, OpsGiven
  <2>3. QED
    BY <1>0, <1>1, <1>3, <2>1, <2>2 DEF ExecLoad, InExec, Execs
<1>4. CASE ExecStore(j, t)
  <2> DEFINE x == exec[j][t]
             e == [NoExec EXCEPT !.pc = AfterUpdate(x.op), !.attempt = IF x.op = "again" THEN x.attempt + 1 ELSE 0]
  <2>1. x.op \in {"start", "again", "succeed", "fail", "cancel"} /\ x.pc = "store"
    BY <1>0, <1>4 DEF Execs, ExecStore, InExec, JobInv, LocalsInv, OpsGiven
  <2>2. AfterUpdate(x.op) \in {"current", "check", "progressGet"}
    BY <2>1 DEF AfterUpdate
  <2>3. (IF x.op = "again" THEN x.attempt + 1 ELSE 0) \in Nat
    BY <1>0 DEF Execs
  <2>4. e \in Execs /\ e.pc = AfterUpdate(x.op)
    BY <2>2, <2>3, RecordsTyped DEF Execs, ExecPcs
  <2>5. ExecFits(t, e) /\ e.pc \notin {"idle", "acquire", "scene"}
    BY <2>2, <2>4 DEF ExecFits
  <2>6. /\ tasks' = [tasks EXCEPT ![j] = [x.list EXCEPT ![t] = Change(x.op, @)]]
        /\ SetExec(j, t, e)
        /\ UNCHANGED <<job, owner, key, project, muVars, semVars, runner, client, calls>>
    BY <1>4 DEF ExecStore, PutTasks
  <2>7. x.list \in TaskLists
    BY <1>0 DEF Execs
  <2>8. [x.list EXCEPT ![t] = Change(x.op, @)] \in TaskLists
    BY <2>1, <2>7, ChangeTyped
  <2>9. StoreOK' /\ SameJobs
    BY <1>0, <2>6, <2>8 DEF StoreOK, SameJobs
  <2> HIDE DEF e
  <2>10. QED
    BY <2>1, <2>4, <2>5, <2>6, <2>9, ExecGoesOn
<1>5. CASE ExecCurrent(j, t)
  <2> DEFINE n == tasks[j][t].attempt
             e == IF n <= MaxAttempt THEN [exec[j][t] EXCEPT !.pc = "check", !.attempt = n]
                  ELSE Updating(j, t, "fail")
  <2>1. n \in Nat
    BY <1>0 DEF TaskLists
  <2>2. e \in Execs /\ ExecFits(t, e) /\ e.pc \in {"check", "load"}
    BY <1>0, <2>1, UpdatingTyped DEF Execs, ExecPcs, ExecFits
  <2>3. QED
    BY <1>1, <1>5, <2>2 DEF ExecCurrent, InExec
<1>6. CASE ExecCheck(j, t)
  <2> DEFINE e == IF job[j].cancelRequested THEN Updating(j, t, "cancel") ELSE [exec[j][t] EXCEPT !.pc = "call"]
  <2>1. e \in Execs /\ ExecFits(t, e) /\ e.pc \in {"call", "load"}
    BY <1>0, UpdatingTyped DEF Execs, ExecPcs, ExecFits
  <2>2. QED
    BY <1>1, <1>6, <2>1 DEF ExecCheck, InExec
<1>7. CASE ExecReturn(j, t)
  <2>1. ASSUME NEW op \in {"succeed", "fail"}, SetExec(j, t, Updating(j, t, op)) PROVE JobInv'
    BY <1>1, <1>7, <2>1, UpdatingTyped DEF ExecReturn, InExec
  <2>2. ASSUME SetExec(j, t, [exec[j][t] EXCEPT !.pc = "backoff"]) PROVE JobInv'
    <3>1. /\ [exec[j][t] EXCEPT !.pc = "backoff"] \in Execs /\ ExecFits(t, [exec[j][t] EXCEPT !.pc = "backoff"])
          /\ [exec[j][t] EXCEPT !.pc = "backoff"].pc = "backoff"
      BY <1>0 DEF Execs, ExecPcs, ExecFits
    <3>2. QED
      BY <1>1, <1>7, <2>2, <3>1 DEF ExecReturn, InExec
  <2>3. QED
    BY <1>7, <2>1, <2>2 DEF ExecReturn
<1>8. CASE ExecBackoff(j, t)
  <2>1. (IF job[j].cancelRequested THEN "cancel" ELSE "again") \in {"cancel", "again"}
    OBVIOUS
  <2>2. QED
    BY <1>1, <1>8, <2>1, UpdatingTyped DEF ExecBackoff, InExec
<1>9. CASE ExecProgressGet(j, t)
  <2> DEFINE e == [exec[j][t] EXCEPT !.pc = "progressPut", !.snap = job[j]]
  <2>1. j \in active
    BY <1>9 DEF ExecProgressGet, InExec, JobInv, RunnersAccounted, Executing
  <2>2. job[j].status # "absent"
    BY <2>1 DEF JobInv, LocalsInv, OwnersKnown
  <2>3. e \in Execs /\ ExecFits(t, e) /\ e.pc = "progressPut"
    BY <1>0, <2>2 DEF Execs, ExecPcs, ExecFits
  <2>4. QED
    BY <1>1, <1>9, <2>3 DEF ExecProgressGet, InExec
<1>10. QED
  BY <1>2, <1>3, <1>4, <1>5, <1>6, <1>7, <1>8, <1>9 DEF ExecStep
-----------------------------------------------------------------------------
LEMMA JobInvInit == Init => JobInv
<1> SUFFICES ASSUME Init PROVE JobInv
  OBVIOUS
<1>1. StoreOK
  BY RecordsTyped, JobAssumption DEF Init, StoreOK, Projects
<1>2. MapsOK /\ SlotsBelow
  BY JobAssumption DEF Init, MapsOK, SlotsBelow
<1>3. LocalsOK
  BY RecordsTyped, JobAssumption DEF Init, LocalsOK
<1>4. LocalsInv
  BY DEF Init, LocalsInv, OwnersKnown, RequestsNamed, CopiesPresent, OpsGiven, Absent, NewJob,
         NoCall, NoRunner, NoExec, LaunchPcs, RetryPcs
<1>5. HoldGlobal = {} /\ \A j \in Jobs : HoldScene(j) = {} /\ Executing(j) = {}
  <2>1. \A j \in Jobs, t \in Tasks : exec[j][t].pc = "idle"
    BY DEF Init, NoExec
  <2>2. \A x \in Jobs \X Tasks : x[1] \in Jobs /\ x[2] \in Tasks
    OBVIOUS
  <2>3. QED
    BY <2>1, <2>2 DEF HoldGlobal, HoldScene, Executing, Tasks
<1>6. \A u \in Users : {j \in active : owner[j] = u} = {}
  BY DEF Init
<1>7. RunnersAccounted
  BY <1>5, <1>6, FS_EmptySet DEF Init, RunnersAccounted, NoRunner
<1>8. QED
  BY <1>1, <1>2, <1>3, <1>4, <1>7 DEF JobInv, Types

LEMMA JobInvStutters ==
  ASSUME JobInv, UNCHANGED vars
  PROVE  JobInv'
<1>1. UNCHANGED <<job, owner, key, tasks, project, active, running, globalSem, sceneSem, runner, exec, client, calls>>
  BY DEF vars, storeVars, muVars, semVars
<1>2. Types'
  BY <1>1 DEF JobInv, Types, StoreOK, MapsOK, SlotsBelow, LocalsOK
<1>3. LocalsInv'
  BY <1>1 DEF JobInv, LocalsInv, OwnersKnown, RequestsNamed, CopiesPresent, OpsGiven
<1>4. RunnersAccounted'
  BY <1>1, ExecsAlone
<1>5. QED
  BY <1>2, <1>3, <1>4 DEF JobInv

LEMMA JobInvNext ==
  ASSUME JobInv, [Next]_vars
  PROVE  JobInv'
BY JobInvStutters, ClientKeeps, RunnerKeeps, ExecKeeps DEF Next

(* Store, maps, semaphores and every goroutine's copies keep their types,     *)
(* with any number of concurrent requests.                                 *)
THEOREM ServiceTypeCorrect == Spec => []TypeOK
<1>1. JobInv => TypeOK
  BY TypesGiveTypeOK
<1>2. QED
  BY <1>1, JobInvInit, JobInvNext, PTL DEF Spec

(* activeRunner, runningByUser, globalSem and sceneSem are exact whatever     *)
(* requests race: no cancellation, failure or retry leaks a slot or a place *)
(* in a user's quota, and none is given back twice.                        *)
THEOREM RunnersAlwaysAccounted == Spec => []RunnersAccounted
<1>1. JobInv => RunnersAccounted
  BY DEF JobInv
<1>2. QED
  BY <1>1, JobInvInit, JobInvNext, PTL DEF Spec
-----------------------------------------------------------------------------
(* One client per user starts and retries; any number of them cancel.       *)
(*                                                                         *)
(* RetryJob and runJob write the whole task list and the whole job back.    *)
(* What follows needs that a retry does not meet another retry of the same  *)
(* job, nor the runner of another request's launch.                        *)
Drives(c) == CallsOf[c] \cap {"start", "retry"} # {}

OneDriver == \A c, d \in Clients : Drives(c) /\ Drives(d) /\ UserOf[c] = UserOf[d] => c = d

(* The runner is not in its loop: there is none, or it has called           *)
(* finalizeJob's UpdateJob.                                                *)
PastPcs == {"off", "projectGet", "projectPut", "defer"}
Past(j) == runner[j].pc \in PastPcs

DriversDrive == \A c \in Clients : client[c].pc \in StartPcs \cup LaunchPcs \cup RetryPcs => Drives(c)

(* Between StartJob's lookup and CreateJob the key stays free. *)
FreshKey == \A c \in Clients : client[c].pc \in StartPcs => ByKey(UserOf[c], client[c].key) = {}

(* A request that will retry or launch a job has it for itself. *)
RequestApart(l) ==
  /\ l.pc \in LaunchPcs \cup RetryPcs => Past(l.id)
  /\ l.pc \in LaunchPcs => ~Ended(job[l.id].status)
  /\ l.pc \in RetryPcs => job[l.id].status # "succeeded"
  /\ l.pc = "retryReplace" => l.list = Relabel(tasks[l.id], {"failed", "canceled"}, "queued")

RequestsApart == \A c \in Clients : RequestApart(client[c])

(* While the runner is in its loop the job has not ended, in the store and   *)
(* in every copy that will be written back.                                *)
LoopUnended(j) ==
  ~Past(j) => /\ ~Ended(job[j].status)
              /\ runner[j].pc = "progressPut" => ~Ended(runner[j].snap.status)
              /\ \A t \in Tasks : exec[j][t].pc = "progressPut" => ~Ended(exec[j][t].snap.status)

(* The copies of the task list the runner decides by are current. *)
FinalFits(r, list) ==
  /\ AllTerminal(list)
  /\ r.status = "succeeded" => \A t \in Tasks : list[t].status = "succeeded"
  /\ r.status = "failed" => \E t \in Tasks : list[t].status = "failed"
  /\ r.status = "canceled" =>
       /\ \A t \in Tasks : list[t].status # "failed"
       /\ r.cancelRequested \/ \E t \in Tasks : list[t].status = "canceled"

RunnerCurrent(j) ==
  /\ runner[j].pc = "cancelPut" => runner[j].list = tasks[j]
  /\ runner[j].pc = "final" => FinalFits(runner[j].job, tasks[j])

(* A list in which every task that has run came after what it depends on. *)
Sound(list) ==
  \A t \in Tasks : list[t].status \in {"running", "succeeded", "failed"}
                  => \A d \in DependsOn(t) : list[d].status = "succeeded"

(* A list that fits the wave: the tasks that execute are independent of each *)
(* other, what they depend on has succeeded, and what depends on them has    *)
(* not run.  So whichever copy of the list one of them writes back, the     *)
(* others' dependencies stay as they are.                                  *)
FitsWave(j, list) ==
  /\ Sound(list)
  /\ \A t \in Executing(j) :
       /\ \A d \in DependsOn(t) : list[d].status = "succeeded"
       /\ \A s \in Tasks : t \in DependsOn(s) =>
            list[s].status \in {"queued", "canceled"} /\ s \notin Executing(j)

WaveFits(j) ==
  /\ FitsWave(j, tasks[j])
  /\ \A t \in Tasks : exec[j][t].pc = "store" => FitsWave(j, exec[j][t].list)

EndMatches(j) ==
  /\ job[j].status = "succeeded" => \A t \in Tasks : tasks[j][t].status = "succeeded"
  /\ Ended(job[j].status) /\ ~Retrying(j) => AllTerminal(tasks[j])
  /\ job[j].status = "failed" /\ ~Retrying(j) => \E t \in Tasks : tasks[j][t].status = "failed"
  /\ job[j].status = "canceled" /\ ~Retrying(j) =>
       /\ \A t \in Tasks : tasks[j][t].status # "failed"
       /\ job[j].cancelRequested \/ \E t \in Tasks : tasks[j][t].status = "canceled"

JobDriven(j) == LoopUnended(j) /\ RunnerCurrent(j) /\ WaveFits(j) /\ EndMatches(j)

DrivenInv == DriversDrive /\ FreshKey /\ RequestsApart /\ \A j \in Jobs : JobDriven(j)

(* What the properties are about. *)
LEMMA DrivenGives == JobInv /\ DrivenInv => DependenciesSucceeded /\ EndMatchesTasks
<1> SUFFICES ASSUME JobInv, DrivenInv PROVE DependenciesSucceeded /\ EndMatchesTasks
  OBVIOUS
<1>1. DependenciesSucceeded
  BY DEF DrivenInv, JobDriven, WaveFits, FitsWave, Sound, DependenciesSucceeded
<1>2. EndMatchesTasks
  BY DEF DrivenInv, JobDriven, EndMatches, EndMatchesTasks
<1>3. QED
  BY <1>1, <1>2

-----------------------------------------------------------------------------
(* Facts about lists *)

LEMMA RelabelSound ==
  ASSUME NEW list \in TaskLists, Sound(list)
  PROVE  /\ Sound(Relabel(list, {"failed", "canceled"}, "queued"))
         /\ Sound(Relabel(list, {"queued"}, "canceled"))
<1>1. \A t \in Tasks : DependsOn(t) \subseteq Tasks
  BY DEF DependsOn, Tasks
<1>2. ASSUME NEW S, NEW s, <<S, s>> \in {<<{"failed", "canceled"}, "queued">>, <<{"queued"}, "canceled">>},
             NEW t \in Tasks
      PROVE  Relabel(list, S, s)[t].status = IF list[t].status \in S THEN s ELSE list[t].status
  BY DEF Relabel, TaskLists
<1>3. QED
  BY <1>1, <1>2 DEF Sound

(* What updateTask writes back fits the wave if what it read did, whatever    *)
(* the change: it touches the entry of an executing task only.             *)
LEMMA StoreFits ==
  ASSUME NEW j \in Jobs, NEW t \in Executing(j), NEW list \in TaskLists, FitsWave(j, list), NEW v
  PROVE  FitsWave(j, [list EXCEPT ![t] = v])
<1> DEFINE new == [list EXCEPT ![t] = v]
<1>0. t \in Tasks /\ \A s \in Tasks : DependsOn(s) \subseteq Tasks
  BY DEF Executing, DependsOn, Tasks
<1>1. \A s \in Tasks : s # t => new[s] = list[s]
  BY DEF TaskLists
<1> HIDE DEF new
<1>2. \A s \in Executing(j) : t \notin DependsOn(s) /\ s \notin DependsOn(t) /\ s \in Tasks
  BY <1>0 DEF FitsWave, Executing
<1>3. Sound(new)
  <2>1. ASSUME NEW s \in Tasks, new[s].status \in {"running", "succeeded", "failed"}, NEW d \in DependsOn(s)
        PROVE  new[d].status = "succeeded"
    <3>1. CASE s = t
      BY <1>0, <1>1, <1>2, <3>1 DEF FitsWave
    <3>2. CASE s # t
      <4>1. list[s].status \in {"running", "succeeded", "failed"} /\ list[d].status = "succeeded"
        BY <1>1, <2>1, <3>2 DEF FitsWave, Sound
      <4>2. d # t
        BY <4>1 DEF FitsWave
      <4>3. QED
        BY <1>0, <1>1, <4>1, <4>2
    <3>3. QED
      BY <3>1, <3>2
  <2>2. QED
    BY <2>1 DEF Sound
<1>4. ASSUME NEW x \in Executing(j)
      PROVE  /\ \A d \in DependsOn(x) : new[d].status = "succeeded"
             /\ \A s \in Tasks : x \in DependsOn(s) =>
                  new[s].status \in {"queued", "canceled"} /\ s \notin Executing(j)
  BY <1>0, <1>1, <1>2 DEF FitsWave
<1>5. FitsWave(j, new)
  BY <1>3, <1>4 DEF FitsWave
<1>6. QED
  BY <1>5 DEF new
-----------------------------------------------------------------------------
(* Steps of runners and executing tasks *)

(* A step leaves the other jobs alone. *)
LEMMA FrameJob ==
  ASSUME NEW i \in Jobs, JobDriven(i), job'[i] = job[i], tasks'[i] = tasks[i],
         runner'[i] = runner[i], exec'[i] = exec[i], Retrying(i) => Retrying(i)'
  PROVE  JobDriven(i)'
<1>1. Executing(i)' = Executing(i)
  BY DEF Executing
<1>2. LoopUnended(i)'
  BY DEF JobDriven, LoopUnended, Past
<1>3. RunnerCurrent(i)'
  BY DEF JobDriven, RunnerCurrent, FinalFits
<1>4. WaveFits(i)'
  BY <1>1 DEF JobDriven, WaveFits, FitsWave
<1>5. EndMatches(i)'
  BY DEF JobDriven, EndMatches
<1>6. QED
  BY <1>2, <1>3, <1>4, <1>5 DEF JobDriven

(* While a runner is in its loop no request is about to retry or launch the  *)
(* job, so the runner and its tasks may do with it what they want.         *)
LEMMA LoopFrame ==
  ASSUME JobInv, DrivenInv, NEW j \in Jobs, ~Past(j), UNCHANGED <<owner, key, client>>,
         \A i \in Jobs : i # j => /\ job'[i] = job[i] /\ tasks'[i] = tasks[i]
                                  /\ runner'[i] = runner[i] /\ exec'[i] = exec[i],
         JobDriven(j)'
  PROVE  DrivenInv'
<1>1. DriversDrive' /\ FreshKey'
  BY DEF DrivenInv, DriversDrive, FreshKey, ByKey
<1>2. ASSUME NEW c \in Clients PROVE RequestApart(client[c])'
  <2>1. RequestApart(client[c])
    BY DEF DrivenInv, RequestsApart
  <2>2. CASE client[c].pc \in LaunchPcs \cup RetryPcs
    <3>1. client[c].id \in Jobs /\ client[c].id # j
      BY <2>1, <2>2 DEF RequestApart, JobInv, LocalsInv, RequestsNamed
    <3>2. QED
      BY <2>1, <3>1 DEF RequestApart, Past
  <2>3. CASE client[c].pc \notin LaunchPcs \cup RetryPcs
    BY <2>3 DEF RequestApart, RetryPcs
  <2>4. QED
    BY <2>2, <2>3
<1>3. \A i \in Jobs : i # j => JobDriven(i)'
  <2>1. \A i \in Jobs : Retrying(i) => Retrying(i)'
    BY DEF Retrying
  <2>2. QED
    BY <2>1, FrameJob DEF DrivenInv
<1>4. QED
  BY <1>1, <1>2, <1>3 DEF DrivenInv, RequestsApart

(* What the runner may hold within its loop. *)
LoopFits(r, list) ==
  /\ r.pc = "progressPut" => ~Ended(r.snap.status)
  /\ r.pc = "cancelPut" => r.list = list
  /\ r.pc = "final" => FinalFits(r.job, list)

(* A step of the runner within its loop. *)
LEMMA LoopStep ==
  ASSUME JobInv, DrivenInv, NEW j \in Jobs, ~Past(j), NEW r \in Runners, SetRunner(j, r), r.pc \notin PastPcs,
         ~Ended(job'[j].status), Sound(tasks'[j]), tasks'[j] = tasks[j] \/ Executing(j) = {},
         LoopFits(r, tasks'[j]),
         \A i \in Jobs : i # j => job'[i] = job[i] /\ tasks'[i] = tasks[i],
         UNCHANGED <<owner, key, exec, client>>
  PROVE  DrivenInv'
<1>1. /\ runner'[j] = r
      /\ \A i \in Jobs : i # j => runner'[i] = runner[i]
  BY SetRunnerEffect DEF JobInv, Types
<1>2. JobDriven(j)
  BY DEF DrivenInv
<1>3. LoopUnended(j)'
  BY <1>1, <1>2 DEF JobDriven, LoopUnended, Past, LoopFits
<1>4. RunnerCurrent(j)'
  BY <1>1 DEF RunnerCurrent, LoopFits, FinalFits
<1>5. WaveFits(j)'
  <2>1. Executing(j)' = Executing(j) /\ \A t \in Tasks : exec[j][t].pc = "store" => t \in Executing(j)
    BY DEF Executing
  <2>2. QED
    BY <1>2, <2>1 DEF JobDriven, WaveFits, FitsWave
<1>6. EndMatches(j)'
  BY DEF EndMatches, Ended
<1>7. QED
  BY <1>1, <1>3, <1>4, <1>5, <1>6, LoopFrame DEF JobDriven

(* The runner has written the job's end, and works on the project or leaves. *)
LEMMA PastStep ==
  ASSUME JobInv, DrivenInv, NEW j \in Jobs, Past(j), NEW r \in Runners, SetRunner(j, r), r.pc \in PastPcs,
         UNCHANGED <<job, owner, key, tasks, exec, client>>
  PROVE  DrivenInv'
<1>1. /\ runner'[j] = r
      /\ \A i \in Jobs : i # j => runner'[i] = runner[i]
  BY SetRunnerEffect DEF JobInv, Types
<1>2. DriversDrive' /\ FreshKey'
  BY DEF DrivenInv, DriversDrive, FreshKey, ByKey
<1>3. \A i \in Jobs : Past(i) => Past(i)'
  BY <1>1 DEF Past
<1>4. ASSUME NEW c \in Clients PROVE RequestApart(client[c])'
  <2>1. client[c].pc \in LaunchPcs \cup RetryPcs => client[c].id \in Jobs
    BY DEF JobInv, LocalsInv, RequestsNamed
  <2>2. QED
    BY <1>3, <2>1 DEF RequestApart, DrivenInv, RequestsApart
<1>5. JobDriven(j)'
  <2>1. JobDriven(j)
    BY DEF DrivenInv
  <2>2. LoopUnended(j)' /\ RunnerCurrent(j)'
    BY <1>1 DEF LoopUnended, RunnerCurrent, Past, PastPcs
  <2>3. Executing(j)' = Executing(j)
    BY DEF Executing
  <2>4. WaveFits(j)'
    BY <2>1, <2>3 DEF JobDriven, WaveFits, FitsWave
  <2>5. EndMatches(j)'
    BY <2>1 DEF JobDriven, EndMatches, Retrying
  <2>6. QED
    BY <2>2, <2>4, <2>5 DEF JobDriven
<1>6. \A i \in Jobs : i # j => JobDriven(i)'
  <2>1. \A i \in Jobs : Retrying(i) => Retrying(i)'
    BY DEF Retrying
  <2>2. QED
    BY <1>1, <2>1, FrameJob DEF DrivenInv
<1>7. QED
  BY <1>2, <1>4, <1>5, <1>6 DEF DrivenInv, RequestsApart
(* finalizeJob writes a status that matches the list the runner saw, which    *)
(* is still the list in the store.                                         *)
LEMMA FinalDriven ==
  ASSUME JobInv, DrivenInv, NEW j \in Jobs, RunFinal(j)
  PROVE  DrivenInv'
<1> DEFINE r == [runner[j] EXCEPT !.pc = "projectGet"]
<1>1. /\ runner[j].pc = "final" /\ job' = [job EXCEPT ![j] = runner[j].job] /\ SetRunner(j, r)
      /\ UNCHANGED <<owner, key, tasks, project, muVars, semVars, exec, client, calls>>
  BY DEF RunFinal, At, PutJob
<1>2. r \in Runners /\ r.pc = "projectGet"
  BY DEF JobInv, Types, LocalsOK, Runners, RunnerPcs
<1> HIDE DEF r
<1>3. /\ runner'[j] = r
      /\ \A i \in Jobs : i # j => runner'[i] = runner[i]
  BY <1>1, <1>2, SetRunnerEffect DEF JobInv, Types
<1>4. /\ job'[j] = runner[j].job
      /\ \A i \in Jobs : i # j => job'[i] = job[i]
  BY <1>1 DEF JobInv, Types, StoreOK
<1>5. FinalFits(runner[j].job, tasks[j])
  BY <1>1 DEF DrivenInv, JobDriven, RunnerCurrent
<1>6. LoopUnended(j)' /\ RunnerCurrent(j)'
  BY <1>2, <1>3 DEF LoopUnended, RunnerCurrent, Past, PastPcs
<1>7. Executing(j)' = Executing(j)
  BY <1>1 DEF Executing
<1>8. WaveFits(j)'
  BY <1>1, <1>7 DEF DrivenInv, JobDriven, WaveFits, FitsWave
<1>9. EndMatches(j)'
  <2>1. tasks'[j] = tasks[j]
    BY <1>1
  <2>2. FinalFits(job'[j], tasks'[j])
    BY <1>4, <1>5, <2>1 DEF FinalFits
  <2>3. QED
    BY <2>2 DEF EndMatches, FinalFits
<1>10. ~Past(j)
  BY <1>1 DEF Past, PastPcs
<1>11. QED
  BY <1>1, <1>3, <1>4, <1>6, <1>8, <1>9, <1>10, LoopFrame DEF JobDriven

(* A new wave: its tasks are independent of each other and ready. *)
LEMMA WaveDriven ==
  ASSUME JobInv, DrivenInv, NEW j \in Jobs, At(j, "list"),
         exec' = [exec EXCEPT ![j] = [t \in Tasks |->
                    IF t \in ReadyTasks(tasks[j]) THEN [NoExec EXCEPT !.pc = "acquire"] ELSE exec[j][t]]],
         SetRunner(j, [NoRunner EXCEPT !.pc = "wait"]),
         UNCHANGED <<storeVars, muVars, semVars, client, calls>>
  PROVE  DrivenInv'
<1> DEFINE r == [NoRunner EXCEPT !.pc = "wait"]
           e == [NoExec EXCEPT !.pc = "acquire"]
<1>0. r \in Runners /\ r.pc = "wait" /\ e.pc = "acquire"
  BY RecordsTyped DEF Runners, RunnerPcs, NoExec
<1>1. /\ runner'[j] = r
      /\ \A i \in Jobs : i # j => runner'[i] = runner[i]
  BY <1>0, SetRunnerEffect DEF JobInv, Types
<1>2. /\ \A t \in Tasks : exec'[j][t] = IF t \in ReadyTasks(tasks[j]) THEN e ELSE exec[j][t]
      /\ \A i \in Jobs : i # j => exec'[i] = exec[i]
  BY DEF JobInv, Types, LocalsOK
<1> HIDE DEF r, e
<1>3. \A t \in Tasks : exec[j][t].pc = "idle"
  BY DEF At, JobInv, RunnersAccounted, Executing
<1>4. Executing(j)' = ReadyTasks(tasks[j])
  BY <1>0, <1>2, <1>3 DEF Executing, ReadyTasks
<1>5. Sound(tasks[j]) /\ ~Past(j)
  BY DEF DrivenInv, JobDriven, WaveFits, FitsWave, At, Past, PastPcs
<1>6. FitsWave(j, tasks[j])'
  <2>1. tasks' = tasks
    BY DEF storeVars
  <2>2. \A t \in ReadyTasks(tasks[j]) :
          /\ \A d \in DependsOn(t) : tasks[j][d].status = "succeeded"
          /\ \A s \in Tasks : t \in DependsOn(s) =>
               tasks[j][s].status \in {"queued", "canceled"} /\ s \notin ReadyTasks(tasks[j])
    <3>1. tasks[j] \in TaskLists
      BY DEF JobInv, Types, StoreOK
    <3>2. QED
      BY <1>5, <3>1 DEF ReadyTasks, Sound, TaskLists, Statuses
  <2>3. QED
    BY <1>4, <1>5, <2>1, <2>2 DEF FitsWave
<1>7. \A t \in Tasks : exec'[j][t].pc \in {"idle", "acquire"}
  BY <1>0, <1>2, <1>3
<1>8. WaveFits(j)'
  BY <1>6, <1>7 DEF WaveFits
<1>9. LoopUnended(j)' /\ RunnerCurrent(j)'
  BY <1>0, <1>1, <1>5, <1>7 DEF LoopUnended, RunnerCurrent, DrivenInv, JobDriven, storeVars
<1>10. EndMatches(j)'
  BY DEF DrivenInv, JobDriven, EndMatches, Retrying, storeVars
<1>11. QED
  BY <1>1, <1>2, <1>5, <1>8, <1>9, <1>10, LoopFrame DEF JobDriven, storeVars

LEMMA RunListDriven ==
  ASSUME JobInv, DrivenInv, NEW j \in Jobs, RunList(j)
  PROVE  DrivenInv'
<1>0. /\ runner[j] \in Runners /\ runner[j].pc = "list" /\ ~Past(j)
      /\ UNCHANGED <<storeVars, muVars, semVars, client, calls>>
  BY DEF RunList, At, JobInv, Types, LocalsOK, Past, PastPcs
<1>1. JobDriven(j) /\ Sound(tasks[j]) /\ ~Ended(job[j].status)
  BY <1>0 DEF DrivenInv, JobDriven, WaveFits, FitsWave, LoopUnended
<1>2. ASSUME NEW r \in Runners, SetRunner(j, r), r.pc \notin PastPcs, LoopFits(r, tasks[j]), UNCHANGED exec
      PROVE  DrivenInv'
  BY <1>0, <1>1, <1>2, LoopStep DEF storeVars
<1>3. ASSUME AllTerminal(tasks[j]), UNCHANGED exec,
             SetRunner(j, [NoRunner EXCEPT !.pc = "final",
                 !.job = [runner[j].job EXCEPT !.status = FinalStatus(runner[j].job, tasks[j])]])
      PROVE  DrivenInv'
  <2> DEFINE r == [NoRunner EXCEPT !.pc = "final",
                 !.job = [runner[j].job EXCEPT !.status = FinalStatus(runner[j].job, tasks[j])]]
  <2>1. runner[j].job \in JobRecords
    BY <1>0 DEF Runners
  <2>2. /\ r \in Runners /\ r.pc = "final" /\ r.job.status = FinalStatus(runner[j].job, tasks[j])
        /\ r.job.cancelRequested = runner[j].job.cancelRequested
    BY <2>1, RecordsTyped, FinalTyped DEF Runners, RunnerPcs, JobRecords
  <2>3. FinalFits(r.job, tasks[j])
    <3> HIDE DEF r
    <3>1. QED
      BY <1>3, <2>2 DEF FinalFits, FinalStatus, AllTerminal, Ended
  <2> HIDE DEF r
  <2>4. LoopFits(r, tasks[j]) /\ r.pc \notin PastPcs
    BY <2>2, <2>3 DEF LoopFits, PastPcs
  <2>5. QED
    BY <1>2, <1>3, <2>2, <2>4 DEF r
<1>4. ASSUME SetRunner(j, [NoRunner EXCEPT !.pc = "get"]), UNCHANGED exec
      PROVE  DrivenInv'
  <2>1. [NoRunner EXCEPT !.pc = "get"] \in Runners /\ LoopFits([NoRunner EXCEPT !.pc = "get"], tasks[j])
        /\ [NoRunner EXCEPT !.pc = "get"].pc \notin PastPcs
    BY RecordsTyped DEF Runners, RunnerPcs, LoopFits, PastPcs
  <2>2. QED
    BY <1>2, <1>4, <2>1
<1>5. ASSUME exec' = [exec EXCEPT ![j] = [t \in Tasks |->
                 IF t \in ReadyTasks(tasks[j]) THEN [NoExec EXCEPT !.pc = "acquire"] ELSE exec[j][t]]],
             SetRunner(j, [NoRunner EXCEPT !.pc = "wait"])
      PROVE  DrivenInv'
  BY <1>0, <1>5, WaveDriven DEF At
<1>6. QED
  BY <1>3, <1>4, <1>5 DEF RunList

LEMMA RunnerDriven ==
  ASSUME JobInv, DrivenInv, NEW j \in Jobs, RunnerStep(j)
  PROVE  DrivenInv'
<1>0. /\ runner[j] \in Runners /\ job[j] \in JobRecords /\ tasks[j] \in TaskLists
      /\ JobDriven(j) /\ Sound(tasks[j]) /\ job \in [Jobs -> JobRecords]
  BY DEF JobInv, Types, LocalsOK, StoreOK, DrivenInv, JobDriven, WaveFits, FitsWave
<1>1. ASSUME ~Past(j) PROVE ~Ended(job[j].status)
  BY <1>0, <1>1 DEF JobDriven, LoopUnended
<1>2. ASSUME NEW r \in Runners, SetRunner(j, r), ~Past(j), r.pc \notin PastPcs, LoopFits(r, tasks[j]),
             UNCHANGED <<storeVars, muVars, semVars, exec, client, calls>>
      PROVE  DrivenInv'
  BY <1>0, <1>1, <1>2, LoopStep DEF storeVars
<1>3. ASSUME NEW r \in Runners, SetRunner(j, r), ~Past(j), r.pc \notin PastPcs, LoopFits(r, tasks[j]),
             NEW b, PutJob(j, b), ~Ended(b.status),
             UNCHANGED <<owner, key, tasks, project, muVars, semVars, exec, client, calls>>
      PROVE  DrivenInv'
  <2>1. job'[j] = b /\ \A i \in Jobs : i # j => job'[i] = job[i]
    BY <1>0, <1>3 DEF PutJob
  <2>2. QED
    BY <1>0, <1>3, <2>1, LoopStep
<1>4. CASE RunGet(j)
  <2> DEFINE r == [NoRunner EXCEPT !.job = job[j],
                     !.pc = IF job[j].started THEN AfterStart(job[j]) ELSE "begin"]
  <2>1. ~Past(j)
    BY <1>4 DEF RunGet, At, Past, PastPcs
  <2>2. r \in Runners /\ r.pc \in {"cancelGet", "list", "begin"}
    BY <1>0, RecordsTyped DEF Runners, RunnerPcs, AfterStart
  <2>3. SetRunner(j, r) /\ UNCHANGED <<storeVars, muVars, semVars, exec, client, calls>>
    BY <1>1, <1>4, <2>1 DEF RunGet
  <2> HIDE DEF r
  <2>4. LoopFits(r, tasks[j]) /\ r.pc \notin PastPcs
    BY <2>2 DEF LoopFits, PastPcs
  <2>5. QED
    BY <1>2, <2>1, <2>2, <2>3, <2>4
<1>5. CASE RunBegin(j)
  <2> DEFINE b == [runner[j].job EXCEPT !.started = TRUE, !.status = "running"]
             r == [runner[j] EXCEPT !.pc = AfterStart(b), !.job = b]
  <2>1. b \in JobRecords /\ b.status = "running"
    BY <1>0 DEF Runners, JobRecords, Statuses
  <2>2. AfterStart(b) \in {"cancelGet", "list"}
    BY DEF AfterStart
  <2>3. PutJob(j, b) /\ SetRunner(j, r) /\ ~Past(j)
        /\ UNCHANGED <<owner, key, tasks, project, muVars, semVars, exec, client, calls>>
    BY <1>5 DEF RunBegin, At, Past, PastPcs
  <2> HIDE DEF b
  <2>4. r \in Runners /\ r.pc = AfterStart(b)
    BY <1>0, <2>1, <2>2 DEF Runners, RunnerPcs
  <2> HIDE DEF r
  <2>5. LoopFits(r, tasks[j]) /\ r.pc \notin PastPcs
    BY <2>2, <2>4 DEF LoopFits, PastPcs
  <2>6. ~Ended(b.status)
    BY <2>1 DEF Ended
  <2>7. QED
    BY <1>3, <2>3, <2>4, <2>5, <2>6
<1>6. CASE RunCancelGet(j)
  <2> DEFINE r == IF \E t \in Tasks : tasks[j][t].status = "queued"
                  THEN [runner[j] EXCEPT !.pc = "cancelPut", !.list = tasks[j]]
                  ELSE [runner[j] EXCEPT !.pc = "list"]
  <2>1. r \in Runners /\ LoopFits(r, tasks[j]) /\ r.pc \notin PastPcs
    BY <1>0 DEF Runners, RunnerPcs, LoopFits, PastPcs
  <2>2. ~Past(j)
    BY <1>6 DEF RunCancelGet, At, Past, PastPcs
  <2>3. QED
    BY <1>2, <1>6, <2>1, <2>2 DEF RunCancelGet
<1>7. CASE RunCancelPut(j)
  <2> DEFINE r == [runner[j] EXCEPT !.pc = "progressGet", !.list = NewList]
             new == Relabel(tasks[j], {"queued"}, "canceled")
  <2>1. r \in Runners /\ r.pc = "progressGet"
    BY <1>0, RecordsTyped DEF Runners, RunnerPcs
  <2>2. runner[j].pc = "cancelPut" /\ runner[j].list = tasks[j]
    BY <1>0, <1>7 DEF RunCancelPut, At, JobDriven, RunnerCurrent
  <2>3. ~Past(j) /\ Executing(j) = {}
    BY <2>2 DEF Past, PastPcs, JobInv, RunnersAccounted
  <2>4. /\ tasks' = [tasks EXCEPT ![j] = new] /\ SetRunner(j, r)
        /\ UNCHANGED <<job, owner, key, project, muVars, semVars, exec, client, calls>>
    BY <1>7, <2>2 DEF RunCancelPut, PutTasks
  <2>5. Sound(new)
    BY <1>0, RelabelSound
  <2> HIDE DEF r, new
  <2>6. tasks'[j] = new /\ \A i \in Jobs : i # j => tasks'[i] = tasks[i]
    BY <2>4 DEF JobInv, Types, StoreOK
  <2>7. LoopFits(r, new) /\ r.pc \notin PastPcs
    BY <2>1 DEF LoopFits, PastPcs
  <2>8. ~Ended(job'[j].status)
    BY <1>1, <2>3, <2>4
  <2>9. QED
    BY <2>1, <2>3, <2>4, <2>5, <2>6, <2>7, <2>8, LoopStep
<1>8. CASE RunProgressGet(j)
  <2> DEFINE r == [runner[j] EXCEPT !.pc = "progressPut", !.snap = job[j]]
  <2>1. ~Past(j)
    BY <1>8 DEF RunProgressGet, At, Past, PastPcs
  <2>2. r \in Runners /\ LoopFits(r, tasks[j]) /\ r.pc \notin PastPcs
    BY <1>0, <1>1, <2>1 DEF Runners, RunnerPcs, LoopFits, PastPcs
  <2>3. QED
    BY <1>2, <1>8, <2>1, <2>2 DEF RunProgressGet
<1>9. CASE RunProgressPut(j)
  <2> DEFINE r == [runner[j] EXCEPT !.pc = "list", !.snap = Absent]
  <2>1. ~Past(j) /\ ~Ended(runner[j].snap.status)
    BY <1>0, <1>9 DEF RunProgressPut, At, Past, PastPcs, JobDriven, LoopUnended
  <2>2. r \in Runners /\ LoopFits(r, tasks[j]) /\ r.pc \notin PastPcs
    BY <1>0, RecordsTyped DEF Runners, RunnerPcs, LoopFits, PastPcs
  <2>3. QED
    BY <1>3, <1>9, <2>1, <2>2 DEF RunProgressPut
<1>10. CASE RunWait(j)
  <2> DEFINE r == [NoRunner EXCEPT !.pc = "get"]
  <2>1. r \in Runners /\ LoopFits(r, tasks[j]) /\ r.pc \notin PastPcs
    BY RecordsTyped DEF Runners, RunnerPcs, LoopFits, PastPcs
  <2>2. ~Past(j)
    BY <1>10 DEF RunWait, At, Past, PastPcs
  <2>3. QED
    BY <1>2, <1>10, <2>1, <2>2 DEF RunWait
<1>11. CASE RunProjectGet(j)
  <2> DEFINE r == [runner[j] EXCEPT !.pc = "projectPut", !.current = project[owner[j]].current]
  <2>1. owner[j] \in Users
    BY <1>11 DEF RunProjectGet, At, JobInv, RunnersAccounted, LocalsInv, OwnersKnown, Types, StoreOK
  <2>2. r \in Runners /\ r.pc \in PastPcs
    BY <1>0, <2>1 DEF Runners, RunnerPcs, PastPcs, JobInv, Types, StoreOK, Projects
  <2>3. Past(j)
    BY <1>11 DEF RunProjectGet, At, Past, PastPcs
  <2>4. QED
    BY <1>11, <2>2, <2>3, PastStep DEF RunProjectGet, storeVars
<1>12. CASE RunProjectPut(j)
  <2>1. [NoRunner EXCEPT !.pc = "defer"] \in Runners /\ [NoRunner EXCEPT !.pc = "defer"].pc \in PastPcs
    BY RecordsTyped DEF Runners, RunnerPcs, PastPcs
  <2>2. Past(j)
    BY <1>12 DEF RunProjectPut, At, Past, PastPcs
  <2>3. QED
    BY <1>12, <2>1, <2>2, PastStep DEF RunProjectPut
<1>13. CASE RunDefer(j)
  <2>1. NoRunner \in Runners /\ NoRunner.pc \in PastPcs
    BY RecordsTyped DEF NoRunner, PastPcs
  <2>2. Past(j)
    BY <1>13 DEF RunDefer, At, Past, PastPcs
  <2>3. QED
    BY <1>13, <2>1, <2>2, PastStep DEF RunDefer, storeVars
<1>14. QED
  BY <1>4, <1>5, <1>6, <1>7, <1>8, <1>9, <1>10, <1>11, <1>12, <1>13, RunListDriven, FinalDriven DEF RunnerStep
(* A step of an executing task: the runner waits for the wave. *)
LEMMA ExecMoveDriven ==
  ASSUME JobInv, DrivenInv, NEW j \in Jobs, NEW t \in Tasks, NEW e \in Execs, SetExec(j, t, e),
         exec[j][t].pc # "idle", ~Ended(job'[j].status), FitsWave(j, tasks'[j]),
         e.pc = "progressPut" => ~Ended(e.snap.status), e.pc = "store" => FitsWave(j, e.list),
         \A i \in Jobs : i # j => job'[i] = job[i] /\ tasks'[i] = tasks[i],
         UNCHANGED <<owner, key, runner, client>>
  PROVE  DrivenInv'
<1>1. /\ exec'[j][t] = e
      /\ \A s \in Tasks : s # t => exec'[j][s] = exec[j][s]
      /\ \A i \in Jobs : i # j => exec'[i] = exec[i]
  BY DEF JobInv, Types, LocalsOK, SetExec
<1>2. runner[j].pc = "wait" /\ ~Past(j)
  BY DEF JobInv, RunnersAccounted, Executing, Past, PastPcs
<1>3. JobDriven(j)
  BY DEF DrivenInv
<1>4. Executing(j)' \subseteq Executing(j)
  BY <1>1 DEF Executing
<1>6. WaveFits(j)'
  <2>1. FitsWave(j, tasks[j])'
    BY <1>4 DEF FitsWave, Executing
  <2>2. ASSUME NEW s \in Tasks, exec'[j][s].pc = "store" PROVE FitsWave(j, exec[j][s].list)'
    <3>1. CASE s = t
      BY <1>1, <1>4, <2>2, <3>1 DEF FitsWave, Executing
    <3>2. CASE s # t
      <4>1. FitsWave(j, exec[j][s].list) /\ exec'[j][s] = exec[j][s]
        BY <1>1, <1>3, <2>2, <3>2 DEF JobDriven, WaveFits
      <4>2. QED
        BY <1>4, <4>1 DEF FitsWave, Executing
    <3>3. QED
      BY <3>1, <3>2
  <2>3. QED
    BY <2>1, <2>2 DEF WaveFits
<1>7. LoopUnended(j)'
  BY <1>1, <1>2, <1>3 DEF JobDriven, LoopUnended
<1>8. RunnerCurrent(j)' /\ EndMatches(j)'
  BY <1>2 DEF RunnerCurrent, EndMatches, Ended
<1>9. QED
  BY <1>1, <1>2, <1>6, <1>7, <1>8, LoopFrame DEF JobDriven

LEMMA ExecDriven ==
  ASSUME JobInv, DrivenInv, NEW j \in Jobs, NEW t \in Tasks, ExecStep(j, t)
  PROVE  DrivenInv'
<1>0. exec[j][t] \in Execs /\ StoreOK /\ FitsWave(j, tasks[j])
  BY DEF JobInv, Types, LocalsOK, DrivenInv, JobDriven, WaveFits
<1>1. ASSUME exec[j][t].pc # "idle" PROVE ~Ended(job[j].status)
  BY <1>1 DEF JobInv, RunnersAccounted, Executing, Past, PastPcs, DrivenInv, JobDriven, LoopUnended
<1>2. ASSUME NEW e \in Execs, SetExec(j, t, e), exec[j][t].pc # "idle",
             e.pc = "progressPut" => ~Ended(e.snap.status), e.pc = "store" => FitsWave(j, e.list),
             UNCHANGED <<storeVars, runner, client>>
      PROVE  DrivenInv'
  BY <1>0, <1>1, <1>2, ExecMoveDriven DEF storeVars
<1>3. ASSUME NEW op \in {"start", "again", "succeed", "fail", "cancel"}, SetExec(j, t, Updating(j, t, op)),
             exec[j][t].pc # "idle", UNCHANGED <<storeVars, runner, client>>
      PROVE  DrivenInv'
  BY <1>2, <1>3, UpdatingTyped
<1>4. CASE ExecAcquire(j, t)
  <2>1. CASE NeedsScene(t)
    <3>1. [exec[j][t] EXCEPT !.pc = "scene"] \in Execs /\ [exec[j][t] EXCEPT !.pc = "scene"].pc = "scene"
      BY <1>0 DEF Execs, ExecPcs
    <3>2. QED
      BY <1>2, <1>4, <2>1, <3>1 DEF ExecAcquire, InExec
  <2>2. CASE ~NeedsScene(t)
    BY <1>3, <1>4, <2>2 DEF ExecAcquire, InExec
  <2>3. QED
    BY <2>1, <2>2
<1>5. CASE ExecScene(j, t)
  BY <1>3, <1>5 DEF ExecScene, InExec
<1>6. CASE ExecLoad(j, t)
  <2> DEFINE e == [exec[j][t] EXCEPT !.pc = "store", !.list = tasks[j]]
  <2>1. e \in Execs /\ e.pc = "store" /\ e.list = tasks[j]
    BY <1>0 DEF Execs, ExecPcs, StoreOK
  <2>2. SetExec(j, t, e) /\ exec[j][t].pc = "load" /\ UNCHANGED <<storeVars, runner, client>>
    BY <1>6 DEF ExecLoad, InExec
  <2> HIDE DEF e
  <2>3. QED
    BY <1>0, <1>2, <2>1, <2>2
<1>7. CASE ExecStore(j, t)
  <2> DEFINE x == exec[j][t]
             e == [NoExec EXCEPT !.pc = AfterUpdate(x.op), !.attempt = IF x.op = "again" THEN x.attempt + 1 ELSE 0]
             new == [x.list EXCEPT ![t] = Change(x.op, @)]
  <2>1. x.op \in {"start", "again", "succeed", "fail", "cancel"} /\ x.pc = "store" /\ x.list \in TaskLists
    BY <1>0, <1>7 DEF Execs, ExecStore, InExec, JobInv, LocalsInv, OpsGiven
  <2>2. AfterUpdate(x.op) \in {"current", "check", "progressGet"}
    BY <2>1 DEF AfterUpdate
  <2>3. (IF x.op = "again" THEN x.attempt + 1 ELSE 0) \in Nat
    BY <1>0 DEF Execs
  <2>4. e \in Execs /\ e.pc = AfterUpdate(x.op)
    BY <2>2, <2>3, RecordsTyped DEF Execs, ExecPcs
  <2>5. tasks' = [tasks EXCEPT ![j] = new] /\ SetExec(j, t, e) /\ UNCHANGED <<job, owner, key, runner, client>>
    BY <1>7 DEF ExecStore, PutTasks
  <2>6. t \in Executing(j) /\ FitsWave(j, x.list)
    BY <2>1 DEF Executing, DrivenInv, JobDriven, WaveFits
  <2>7. FitsWave(j, new)
    BY <2>1, <2>6, StoreFits
  <2> HIDE DEF e, new
  <2>8. tasks'[j] = new /\ \A i \in Jobs : i # j => tasks'[i] = tasks[i]
    BY <1>0, <2>5 DEF StoreOK
  <2>9. ~Ended(job'[j].status)
    BY <1>1, <2>1, <2>5
  <2>10. QED
    BY <2>1, <2>2, <2>4, <2>5, <2>7, <2>8, <2>9, ExecMoveDriven
<1>8. CASE ExecCurrent(j, t)
  <2> DEFINE n == tasks[j][t].attempt
  <2>1. n \in Nat
    BY <1>0 DEF StoreOK, TaskLists
  <2>2. CASE n <= MaxAttempt
    <3>1. [exec[j][t] EXCEPT !.pc = "check", !.attempt = n] \in Execs
          /\ [exec[j][t] EXCEPT !.pc = "check", !.attempt = n].pc = "check"
      BY <1>0, <2>1 DEF Execs, ExecPcs
    <3>2. QED
      BY <1>2, <1>8, <2>2, <3>1 DEF ExecCurrent, InExec
  <2>3. CASE ~(n <= MaxAttempt)
    BY <1>3, <1>8, <2>3 DEF ExecCurrent, InExec
  <2>4. QED
    BY <2>2, <2>3
<1>9. CASE ExecCheck(j, t)
  <2>1. [exec[j][t] EXCEPT !.pc = "call"] \in Execs /\ [exec[j][t] EXCEPT !.pc = "call"].pc = "call"
    BY <1>0 DEF Execs, ExecPcs
  <2>2. QED
    BY <1>2, <1>3, <1>9, <2>1 DEF ExecCheck, InExec
<1>10. CASE ExecReturn(j, t)
  <2>1. [exec[j][t] EXCEPT !.pc = "backoff"] \in Execs /\ [exec[j][t] EXCEPT !.pc = "backoff"].pc = "backoff"
    BY <1>0 DEF Execs, ExecPcs
  <2>2. QED
    BY <1>2, <1>3, <1>10, <2>1 DEF ExecReturn, InExec
<1>11. CASE ExecBackoff(j, t)
  <2>1. (IF job[j].cancelRequested THEN "cancel" ELSE "again") \in {"cancel", "again"}
    OBVIOUS
  <2>2. QED
    BY <1>3, <1>11, <2>1 DEF ExecBackoff, InExec
<1>12. CASE ExecProgressGet(j, t)
  <2> DEFINE e == [exec[j][t] EXCEPT !.pc = "progressPut", !.snap = job[j]]
  <2>1. e \in Execs /\ e.pc = "progressPut" /\ e.snap = job[j]
    BY <1>0 DEF Execs, ExecPcs, StoreOK
  <2>2. SetExec(j, t, e) /\ exec[j][t].pc = "progressGet" /\ UNCHANGED <<storeVars, runner, client>>
    BY <1>12 DEF ExecProgressGet, InExec
  <2> HIDE DEF e
  <2>3. QED
    BY <1>1, <1>2, <2>1, <2>2
<1>13. CASE ExecProgressPut(j, t)
  <2>1. /\ exec[j][t].pc = "progressPut" /\ job' = [job EXCEPT ![j] = exec[j][t].snap] /\ SetExec(j, t, NoExec)
        /\ UNCHANGED <<owner, key, tasks, runner, client>>
    BY <1>13 DEF ExecProgressPut, InExec, PutJob
  <2>2. NoExec \in Execs /\ NoExec.pc = "idle"
    BY RecordsTyped DEF NoExec
  <2>3. ~Ended(exec[j][t].snap.status)
    BY <2>1 DEF JobInv, RunnersAccounted, Executing, Past, PastPcs, DrivenInv, JobDriven, LoopUnended
  <2>4. job'[j] = exec[j][t].snap /\ \A i \in Jobs : i # j => job'[i] = job[i]
    BY <1>0, <2>1 DEF StoreOK
  <2>5. QED
    BY <1>0, <2>1, <2>2, <2>3, <2>4, ExecMoveDriven
<1>14. QED
  BY <1>4, <1>5, <1>6, <1>7, <1>8, <1>9, <1>10, <1>11, <1>12, <1>13 DEF ExecStep
-----------------------------------------------------------------------------
(* Steps of requests *)

(* Two requests that retry or launch the same job are one request. *)
LEMMA SameDriver ==
  ASSUME OneDriver, JobInv, DrivenInv, NEW c \in Clients, NEW d \in Clients,
         client[c].pc \in LaunchPcs \cup RetryPcs, client[d].pc \in LaunchPcs \cup RetryPcs,
         client[c].id = client[d].id
  PROVE  c = d
BY DEF OneDriver, JobInv, LocalsInv, RequestsNamed, DrivenInv, DriversDrive

(* A request looks at the store, the quota or the project. *)
LEMMA RequestReads ==
  ASSUME JobInv, DrivenInv, NEW c \in Clients, NEW l \in Requests, SetClient(c, l), RequestApart(l),
         client[c].pc # "retryUpdate",
         l.pc \in StartPcs \cup LaunchPcs \cup RetryPcs => Drives(c),
         l.pc \in StartPcs => ByKey(UserOf[c], l.key) = {},
         UNCHANGED <<job, owner, key, tasks, runner, exec>>
  PROVE  DrivenInv'
<1>1. /\ client'[c] = l
      /\ \A d \in Clients : d # c => client'[d] = client[d]
  BY SetClientEffect DEF JobInv, Types
<1>2. DriversDrive'
  BY <1>1 DEF DrivenInv, DriversDrive
<1>3. FreshKey'
  BY <1>1 DEF DrivenInv, FreshKey, ByKey
<1>4. RequestsApart'
  BY <1>1 DEF DrivenInv, RequestsApart, RequestApart, Past
<1>5. \A j \in Jobs : Retrying(j) => Retrying(j)'
  BY <1>1 DEF Retrying
<1>6. \A j \in Jobs : JobDriven(j)'
  BY <1>5, FrameJob DEF DrivenInv
<1>7. QED
  BY <1>2, <1>3, <1>4, <1>6 DEF DrivenInv

LEMMA ReadsDriven ==
  ASSUME JobInv, DrivenInv, NEW c \in Clients,
         \/ \E k \in Keys : StartJob(c, k)
         \/ \E j \in Jobs : CancelJob(c, j) \/ RetryJob(c, j)
         \/ StartQuota(c) \/ StartProject(c) \/ RetryQuota(c) \/ RetryTasks(c)
  PROVE  DrivenInv'
<1>0. /\ client[c] \in Requests /\ RequestApart(client[c]) /\ StoreOK
      /\ client[c].pc \in StartPcs \cup LaunchPcs \cup RetryPcs => Drives(c)
      /\ client[c].pc \in StartPcs => ByKey(UserOf[c], client[c].key) = {}
  BY DEF JobInv, Types, LocalsOK, DrivenInv, RequestsApart, DriversDrive, FreshKey
<1>1. NoCall \in Requests /\ NoCall.pc = "idle"
  BY RecordsTyped DEF NoCall
<1>2. ASSUME NEW l \in Requests, l.pc \notin StartPcs \cup LaunchPcs \cup RetryPcs, SetClient(c, l),
             client[c].pc # "retryUpdate", UNCHANGED <<job, owner, key, tasks, runner, exec>>
      PROVE  DrivenInv'
  <2>1. RequestApart(l)
    BY <1>2 DEF RequestApart, RetryPcs
  <2>2. QED
    BY <1>2, <2>1, RequestReads
<1>3. ASSUME NEW k \in Keys, StartJob(c, k) PROVE DrivenInv'
  <2> DEFINE l == [NoCall EXCEPT !.pc = "startQuota", !.key = k]
  <2>1. Drives(c) /\ client[c].pc = "idle" /\ UNCHANGED <<job, owner, key, tasks, runner, exec>>
    BY <1>3 DEF StartJob, Call, Drives, storeVars
  <2>2. CASE ByKey(UserOf[c], k) # {}
    BY <1>1, <1>2, <1>3, <2>1, <2>2 DEF StartJob, StartPcs, LaunchPcs, RetryPcs
  <2>3. CASE ByKey(UserOf[c], k) = {}
    <3>1. l \in Requests /\ l.pc = "startQuota" /\ l.key = k
      BY RecordsTyped DEF Requests, ClientPcs
    <3>2. SetClient(c, l)
      BY <1>3, <2>3 DEF StartJob
    <3> HIDE DEF l
    <3>3. RequestApart(l)
      BY <3>1 DEF RequestApart, LaunchPcs, RetryPcs
    <3>4. QED
      BY <2>1, <2>3, <3>1, <3>2, <3>3, RequestReads
  <2>4. QED
    BY <2>2, <2>3
<1>4. ASSUME NEW j \in Jobs, CancelJob(c, j) PROVE DrivenInv'
  <2> DEFINE l == [NoCall EXCEPT !.pc = "cancelPut", !.id = j, !.snap = job[j]]
  <2>1. l \in Requests /\ l.pc = "cancelPut"
    BY <1>0, RecordsTyped DEF Requests, ClientPcs, StoreOK
  <2>2. QED
    BY <1>2, <1>4, <2>1 DEF CancelJob, Call, StartPcs, LaunchPcs, RetryPcs, storeVars
<1>5. ASSUME NEW j \in Jobs, RetryJob(c, j) PROVE DrivenInv'
  <2> DEFINE l == [NoCall EXCEPT !.pc = "retryQuota", !.id = j]
  <2>1. l \in Requests /\ l.pc = "retryQuota" /\ l.id = j
    BY RecordsTyped DEF Requests, ClientPcs
  <2>2. Retryable(job[j].status) /\ Drives(c) /\ client[c].pc = "idle" /\ SetClient(c, l)
        /\ UNCHANGED <<job, owner, key, tasks, runner, exec>>
    BY <1>5 DEF RetryJob, Call, Drives, storeVars
  <2> HIDE DEF l
  <2>3. Past(j) /\ job[j].status # "succeeded"
    BY <2>2 DEF Retryable, Ended, DrivenInv, JobDriven, LoopUnended
  <2>4. RequestApart(l)
    BY <2>1, <2>3 DEF RequestApart, LaunchPcs
  <2>5. QED
    BY <2>1, <2>2, <2>4, RequestReads DEF StartPcs
<1>6. CASE StartQuota(c)
  <2> DEFINE l == [client[c] EXCEPT !.pc = "startCreate"]
  <2>1. client[c].pc = "startQuota" /\ UNCHANGED <<job, owner, key, tasks, runner, exec>>
    BY <1>6 DEF StartQuota, storeVars
  <2>2. CASE QuotaFree(UserOf[c])
    <3>1. l \in Requests /\ l.pc = "startCreate" /\ l.key = client[c].key
      BY <1>0 DEF Requests, ClientPcs
    <3>2. SetClient(c, l)
      BY <1>6, <2>2 DEF StartQuota
    <3> HIDE DEF l
    <3>3. RequestApart(l) /\ Drives(c) /\ ByKey(UserOf[c], l.key) = {}
      BY <1>0, <2>1, <3>1 DEF RequestApart, StartPcs, LaunchPcs, RetryPcs
    <3>4. QED
      BY <2>1, <3>1, <3>2, <3>3, RequestReads
  <2>3. CASE ~QuotaFree(UserOf[c])
    BY <1>1, <1>2, <1>6, <2>1, <2>3 DEF StartQuota, StartPcs, LaunchPcs, RetryPcs
  <2>4. QED
    BY <2>2, <2>3
<1>7. CASE StartProject(c)
  <2> DEFINE l == [client[c] EXCEPT !.pc = "launch"]
  <2>1. client[c].pc = "startProject" /\ SetClient(c, l) /\ UNCHANGED <<job, owner, key, tasks, runner, exec>>
    BY <1>7 DEF StartProject
  <2>2. l \in Requests /\ l.pc = "launch" /\ l.id = client[c].id
    BY <1>0 DEF Requests, ClientPcs
  <2> HIDE DEF l
  <2>3. RequestApart(l) /\ Drives(c)
    BY <1>0, <2>1, <2>2 DEF RequestApart, LaunchPcs, RetryPcs
  <2>4. QED
    BY <2>1, <2>2, <2>3, RequestReads DEF StartPcs
<1>8. CASE RetryQuota(c)
  <2> DEFINE l == [client[c] EXCEPT !.pc = "retryTasks"]
  <2>1. client[c].pc = "retryQuota" /\ UNCHANGED <<job, owner, key, tasks, runner, exec>>
    BY <1>8 DEF RetryQuota, storeVars
  <2>2. CASE QuotaFree(UserOf[c])
    <3>1. l \in Requests /\ l.pc = "retryTasks" /\ l.id = client[c].id
      BY <1>0 DEF Requests, ClientPcs
    <3>2. SetClient(c, l)
      BY <1>8, <2>2 DEF RetryQuota
    <3> HIDE DEF l
    <3>3. RequestApart(l) /\ Drives(c)
      BY <1>0, <2>1, <3>1 DEF RequestApart, LaunchPcs, RetryPcs
    <3>4. QED
      BY <2>1, <3>1, <3>2, <3>3, RequestReads DEF StartPcs
  <2>3. CASE ~QuotaFree(UserOf[c])
    BY <1>1, <1>2, <1>8, <2>1, <2>3 DEF RetryQuota, StartPcs, LaunchPcs, RetryPcs
  <2>4. QED
    BY <2>2, <2>3
<1>9. CASE RetryTasks(c)
  <2> DEFINE new == Relabel(tasks[client[c].id], {"failed", "canceled"}, "queued")
             l == [client[c] EXCEPT !.pc = "retryReplace", !.list = new]
  <2>1. client[c].pc = "retryTasks" /\ SetClient(c, l) /\ UNCHANGED <<job, owner, key, tasks, runner, exec>>
    BY <1>9 DEF RetryTasks, storeVars
  <2>2. client[c].id \in Jobs
    BY <2>1 DEF JobInv, LocalsInv, RequestsNamed, RetryPcs
  <2>3. new \in TaskLists
    BY <1>0, <2>2, RelabelTyped DEF StoreOK, Statuses
  <2>4. l \in Requests /\ l.pc = "retryReplace" /\ l.id = client[c].id /\ l.list = new
    BY <1>0, <2>3 DEF Requests, ClientPcs
  <2> HIDE DEF l
  <2>5. RequestApart(l) /\ Drives(c)
    BY <1>0, <2>1, <2>4 DEF RequestApart, LaunchPcs, RetryPcs
  <2>6. QED
    BY <2>1, <2>4, <2>5, RequestReads DEF StartPcs
<1>10. QED
  BY <1>3, <1>4, <1>5, <1>6, <1>7, <1>8, <1>9
(* A new job is nobody else's. *)
LEMMA CreateDriven ==
  ASSUME OneDriver, JobInv, DrivenInv, NEW c \in Clients, StartCreate(c)
  PROVE  DrivenInv'
<1>0. /\ client[c] \in Requests /\ UserOf[c] \in Users /\ UserOf[c] # "None" /\ StoreOK
  BY JobAssumption DEF JobInv, Types, LocalsOK
<1>1. client[c].pc = "startCreate" /\ Drives(c) /\ Existing(c) = {}
  BY DEF StartCreate, DrivenInv, DriversDrive, FreshKey, Existing, StartPcs
<1>2. PICK j \in Jobs :
        /\ job[j].status = "absent"
        /\ job' = [job EXCEPT ![j] = NewJob]
        /\ owner' = [owner EXCEPT ![j] = UserOf[c]]
        /\ key'   = [key EXCEPT ![j] = client[c].key]
        /\ tasks' = [tasks EXCEPT ![j] = NewList]
        /\ SetClient(c, [client[c] EXCEPT !.pc = "startProject", !.id = j])
  BY <1>1 DEF StartCreate, PutJob, PutTasks
<1> DEFINE l == [client[c] EXCEPT !.pc = "startProject", !.id = j]
<1>3. l \in Requests /\ l.pc = "startProject" /\ l.id = j
  BY <1>0 DEF Requests, ClientPcs
<1> HIDE DEF l
<1>4. /\ client'[c] = l
      /\ \A d \in Clients : d # c => client'[d] = client[d]
  BY <1>2, <1>3, SetClientEffect DEF JobInv, Types, l
<1>5. /\ job'[j] = NewJob /\ owner'[j] = UserOf[c] /\ tasks'[j] = NewList
      /\ \A i \in Jobs : i # j =>
           job'[i] = job[i] /\ owner'[i] = owner[i] /\ key'[i] = key[i] /\ tasks'[i] = tasks[i]
  BY <1>0, <1>2 DEF StoreOK
<1>6. UNCHANGED <<runner, exec>>
  BY DEF StartCreate
<1>7. owner[j] = "None" /\ runner[j].pc = "off" /\ Executing(j) = {}
  BY <1>2 DEF JobInv, LocalsInv, OwnersKnown, RunnersAccounted
<1>8. DriversDrive'
  BY <1>1, <1>4 DEF DrivenInv, DriversDrive
<1>9. ASSUME NEW d \in Clients, client'[d].pc \in StartPcs
      PROVE  (ByKey(UserOf[d], client[d].key) = {})'
  <2>1. d # c
    BY <1>3, <1>4, <1>9 DEF StartPcs
  <2>2. client'[d] = client[d] /\ Drives(d) /\ ByKey(UserOf[d], client[d].key) = {}
    BY <1>4, <1>9, <2>1 DEF DrivenInv, DriversDrive, FreshKey
  <2>3. UserOf[d] # UserOf[c]
    BY <1>1, <2>1, <2>2 DEF OneDriver
  <2>4. QED
    BY <1>5, <2>2, <2>3 DEF ByKey
<1>10. ASSUME NEW d \in Clients PROVE RequestApart(client[d])'
  <2>1. CASE d = c
    BY <1>3, <1>4, <1>5, <1>6, <1>7, <2>1 DEF RequestApart, Past, PastPcs, LaunchPcs, RetryPcs, NewJob, Ended
  <2>2. CASE d # c
    <3>1. client'[d] = client[d] /\ RequestApart(client[d]) /\ UserOf[d] # "None"
      BY <1>4, <2>2, JobAssumption DEF DrivenInv, RequestsApart
    <3>2. CASE client[d].pc \in LaunchPcs \cup RetryPcs
      <4>1. client[d].id \in Jobs /\ client[d].id # j
        BY <1>7, <3>1, <3>2 DEF JobInv, LocalsInv, RequestsNamed
      <4>2. QED
        BY <1>5, <1>6, <3>1, <4>1 DEF RequestApart, Past
    <3>3. CASE client[d].pc \notin LaunchPcs \cup RetryPcs
      BY <3>1, <3>3 DEF RequestApart, RetryPcs
    <3>4. QED
      BY <3>2, <3>3
  <2>3. QED
    BY <2>1, <2>2
<1>11. JobDriven(j)'
  <2>1. LoopUnended(j)' /\ RunnerCurrent(j)'
    BY <1>6, <1>7 DEF LoopUnended, RunnerCurrent, Past, PastPcs
  <2>2. Executing(j)' = {} /\ \A t \in Tasks : exec'[j][t].pc = "idle"
    BY <1>6, <1>7 DEF Executing
  <2>3. Sound(NewList)
    BY DEF Sound, NewList
  <2>4. WaveFits(j)'
    BY <1>5, <2>2, <2>3 DEF WaveFits, FitsWave
  <2>5. EndMatches(j)'
    BY <1>5 DEF EndMatches, NewJob, Ended
  <2>6. QED
    BY <2>1, <2>4, <2>5 DEF JobDriven
<1>12. \A i \in Jobs : i # j => JobDriven(i)'
  <2>1. \A i \in Jobs : Retrying(i) => Retrying(i)'
    BY <1>1, <1>4 DEF Retrying
  <2>2. QED
    BY <1>5, <1>6, <2>1, FrameJob DEF DrivenInv
<1>13. QED
  BY <1>8, <1>9, <1>10, <1>11, <1>12 DEF DrivenInv, FreshKey, RequestsApart

LEMMA LaunchDriven ==
  ASSUME OneDriver, JobInv, DrivenInv, NEW c \in Clients, Launch(c)
  PROVE  DrivenInv'
<1>0. PICK n \in Jobs : n = client[c].id
  BY DEF Launch, JobInv, LocalsInv, RequestsNamed, LaunchPcs
<1>1. client[c].pc = "launch" /\ n = client[c].id /\ ~Ended(job[n].status) /\ Past(n)
  BY <1>0 DEF Launch, LaunchPcs, DrivenInv, RequestsApart, RequestApart
<1>2. SetClient(c, NoCall) /\ StartRunnerIfNeeded(n) /\ UNCHANGED <<job, owner, key, tasks, exec>>
  BY <1>0 DEF Launch, storeVars
<1>3. NoCall \in Requests /\ NoCall.pc = "idle"
  BY RecordsTyped DEF NoCall
<1>4. CASE n \in active
  <2>1. UNCHANGED runner
    BY <1>2, <1>4 DEF StartRunnerIfNeeded
  <2>2. RequestApart(NoCall)
    BY <1>3 DEF RequestApart, LaunchPcs, RetryPcs
  <2>3. QED
    BY <1>1, <1>2, <1>3, <2>1, <2>2, RequestReads DEF StartPcs, LaunchPcs, RetryPcs
<1>5. CASE n \notin active
  <2> DEFINE r == [NoRunner EXCEPT !.pc = "get"]
  <2>1. r \in Runners /\ r.pc = "get" /\ SetRunner(n, r)
    BY <1>2, <1>5, RecordsTyped DEF StartRunnerIfNeeded, Runners, RunnerPcs
  <2> HIDE DEF r
  <2>2. /\ runner'[n] = r
        /\ \A i \in Jobs : i # n => runner'[i] = runner[i]
    BY <1>1, <2>1, SetRunnerEffect DEF JobInv, Types
  <2>3. /\ client'[c] = NoCall
        /\ \A d \in Clients : d # c => client'[d] = client[d]
    BY <1>2, <1>3, SetClientEffect DEF JobInv, Types
  <2>4. DriversDrive' /\ FreshKey'
    BY <1>2, <1>3, <2>3 DEF DrivenInv, DriversDrive, FreshKey, ByKey, StartPcs, LaunchPcs, RetryPcs
  <2>5. ASSUME NEW d \in Clients PROVE RequestApart(client[d])'
    <3>1. CASE d = c
      BY <1>3, <2>3, <3>1 DEF RequestApart, LaunchPcs, RetryPcs
    <3>2. CASE d # c /\ client[d].pc \in LaunchPcs \cup RetryPcs
      <4>1. client[d].id \in Jobs /\ client[d].id # n
        BY <1>1, <3>2, SameDriver DEF LaunchPcs, JobInv, LocalsInv, RequestsNamed
      <4>2. QED
        BY <1>2, <2>2, <2>3, <3>2, <4>1 DEF DrivenInv, RequestsApart, RequestApart, Past
    <3>3. CASE d # c /\ client[d].pc \notin LaunchPcs \cup RetryPcs
      BY <2>3, <3>3 DEF RequestApart, RetryPcs
    <3>4. QED
      BY <3>1, <3>2, <3>3
  <2>6. \A i \in Jobs : Retrying(i) => Retrying(i)'
    BY <1>1, <2>3 DEF Retrying
  <2>7. JobDriven(n)'
    <3>1. JobDriven(n) /\ Executing(n) = {}
      BY <1>1, <1>5 DEF DrivenInv, JobInv, RunnersAccounted
    <3>2. Executing(n)' = {} /\ \A t \in Tasks : exec'[n][t].pc = "idle"
      BY <1>1, <1>2, <3>1 DEF Executing
    <3>3. LoopUnended(n)' /\ RunnerCurrent(n)'
      BY <1>1, <1>2, <2>1, <2>2, <3>2 DEF LoopUnended, RunnerCurrent
    <3>4. WaveFits(n)'
      BY <1>2, <3>1, <3>2 DEF JobDriven, WaveFits, FitsWave
    <3>5. EndMatches(n)'
      BY <1>1, <1>2 DEF EndMatches, Ended
    <3>6. QED
      BY <3>3, <3>4, <3>5 DEF JobDriven
  <2>8. \A i \in Jobs : i # n => JobDriven(i)'
    BY <1>2, <2>2, <2>6, FrameJob DEF DrivenInv
  <2>9. QED
    BY <2>4, <2>5, <2>7, <2>8 DEF DrivenInv, RequestsApart
<1>6. QED
  BY <1>4, <1>5

(* CancelJob and RetryJob write a job that has not ended: the former what it  *)
(* read, the latter a fresh one.                                           *)
LEMMA PutsDriven ==
  ASSUME OneDriver, JobInv, DrivenInv, NEW c \in Clients, CancelPut(c) \/ RetryUpdate(c)
  PROVE  DrivenInv'
<1>n. PICK n \in Jobs : n = client[c].id
  BY DEF CancelPut, RetryUpdate, JobInv, LocalsInv, RequestsNamed, RetryPcs
<1> DEFINE b == IF CancelPut(c) THEN [client[c].snap EXCEPT !.cancelRequested = TRUE] ELSE NewJob
           l == IF CancelPut(c) THEN NoCall ELSE [client[c] EXCEPT !.pc = "launch"]
<1>0. client[c] \in Requests /\ StoreOK
  BY DEF JobInv, Types, LocalsOK
<1>1. /\ job' = [job EXCEPT ![n] = b] /\ SetClient(c, l)
      /\ UNCHANGED <<owner, key, tasks, runner, exec>>
  BY <1>n DEF CancelPut, RetryUpdate, PutJob
<1>2. b.status # "absent" /\ ~Ended(b.status)
  <2>1. CASE CancelPut(c)
    <3>1. client[c].snap \in JobRecords /\ client[c].snap.status # "absent" /\ ~Ended(client[c].snap.status)
      BY <1>0, <2>1 DEF CancelPut, Requests, JobInv, LocalsInv, CopiesPresent
    <3>2. QED
      BY <2>1, <3>1 DEF JobRecords
  <2>2. CASE ~CancelPut(c)
    BY <2>2 DEF NewJob, Ended
  <2>3. QED
    BY <2>1, <2>2
<1>3. /\ l \in Requests /\ l.pc \in {"idle", "launch"}
      /\ l.pc = "launch" => l.id = n /\ client[c].pc = "retryUpdate"
  BY <1>0, <1>n, RecordsTyped DEF Requests, ClientPcs, NoCall, RetryUpdate
<1> HIDE DEF b, l
<1>4. /\ client'[c] = l
      /\ \A d \in Clients : d # c => client'[d] = client[d]
  BY <1>1, <1>3, SetClientEffect DEF JobInv, Types
<1>5. job'[n] = b /\ \A i \in Jobs : i # n => job'[i] = job[i]
  BY <1>0, <1>1 DEF StoreOK
<1>6. DriversDrive' /\ FreshKey'
  BY <1>1, <1>3, <1>4 DEF DrivenInv, DriversDrive, FreshKey, ByKey, StartPcs, LaunchPcs, RetryPcs
<1>7. ASSUME NEW d \in Clients PROVE RequestApart(client[d])'
  <2>1. RequestApart(client[d])
    BY DEF DrivenInv, RequestsApart
  <2>2. CASE d = c /\ l.pc = "launch"
    BY <1>n, <1>1, <1>2, <1>3, <1>4, <1>5, <2>1, <2>2 DEF RequestApart, Past, LaunchPcs, RetryPcs
  <2>3. CASE d = c /\ l.pc = "idle"
    BY <1>4, <2>3 DEF RequestApart, LaunchPcs, RetryPcs
  <2>4. CASE d # c
    <3>1. client'[d] = client[d]
      BY <1>4, <2>4
    <3>2. client[d].pc \in LaunchPcs \cup RetryPcs => client[d].id \in Jobs
      BY DEF JobInv, LocalsInv, RequestsNamed
    <3>3. QED
      BY <1>1, <1>2, <1>5, <2>1, <3>1, <3>2 DEF RequestApart, Past, Ended, RetryPcs
  <2>5. QED
    BY <1>3, <2>2, <2>3, <2>4
<1>8. JobDriven(n)'
  <2>1. JobDriven(n)
    BY <1>1 DEF DrivenInv
  <2>2. LoopUnended(n)' /\ RunnerCurrent(n)'
    BY <1>1, <1>2, <1>5, <2>1 DEF JobDriven, LoopUnended, RunnerCurrent, Past, FinalFits
  <2>3. Executing(n)' = Executing(n)
    BY <1>1 DEF Executing
  <2>4. WaveFits(n)'
    BY <1>1, <2>1, <2>3 DEF JobDriven, WaveFits, FitsWave
  <2>5. EndMatches(n)'
    BY <1>2, <1>5 DEF EndMatches, Ended
  <2>6. QED
    BY <2>2, <2>4, <2>5 DEF JobDriven
<1>9. \A i \in Jobs : i # n => JobDriven(i)'
  <2>1. ASSUME NEW i \in Jobs, i # n, Retrying(i) PROVE Retrying(i)'
    BY <1>n, <1>4, <2>1 DEF Retrying
  <2>2. QED
    BY <1>1, <1>5, <2>1, FrameJob DEF DrivenInv
<1>10. QED
  BY <1>6, <1>7, <1>8, <1>9 DEF DrivenInv, RequestsApart

(* RetryJob's ReplaceJobTasks writes the list it read, reset: the list in the *)
(* store is still the one it read.                                         *)
LEMMA ReplaceDriven ==
  ASSUME OneDriver, JobInv, DrivenInv, NEW c \in Clients, RetryReplace(c)
  PROVE  DrivenInv'
<1>0. StoreOK
  BY DEF JobInv, Types
<1>n. PICK n \in Jobs : n = client[c].id
  BY DEF RetryReplace, JobInv, LocalsInv, RequestsNamed, RetryPcs
<1> DEFINE l == [NoCall EXCEPT !.pc = "retryUpdate", !.id = n]
           new == Relabel(tasks[n], {"failed", "canceled"}, "queued")
<1>1. client[c].pc = "retryReplace" /\ n = client[c].id /\ RequestApart(client[c])
  BY <1>n DEF RetryReplace, DrivenInv, RequestsApart
<1>2. Past(n) /\ client[c].list = new /\ job[n].status # "succeeded"
  BY <1>1 DEF RequestApart, RetryPcs
<1>3. tasks' = [tasks EXCEPT ![n] = new] /\ SetClient(c, l) /\ UNCHANGED <<job, owner, key, runner, exec>>
  BY <1>1, <1>2 DEF RetryReplace, PutTasks
<1>4. l \in Requests /\ l.pc = "retryUpdate" /\ l.id = n
  BY <1>1, RecordsTyped DEF Requests, ClientPcs
<1>5. Sound(new)
  BY <1>0, <1>1, RelabelSound DEF StoreOK, DrivenInv, JobDriven, WaveFits, FitsWave
<1> HIDE DEF l, new
<1>6. /\ client'[c] = l
      /\ \A d \in Clients : d # c => client'[d] = client[d]
  BY <1>3, <1>4, SetClientEffect DEF JobInv, Types
<1>7. tasks'[n] = new /\ \A i \in Jobs : i # n => tasks'[i] = tasks[i]
  BY <1>0, <1>1, <1>3 DEF StoreOK
<1>8. DriversDrive' /\ FreshKey'
  BY <1>1, <1>3, <1>4, <1>6 DEF DrivenInv, DriversDrive, FreshKey, ByKey, StartPcs, RetryPcs
<1>9. ASSUME NEW d \in Clients PROVE RequestApart(client[d])'
  <2>1. CASE d = c
    BY <1>2, <1>3, <1>4, <1>6, <2>1 DEF RequestApart, Past, LaunchPcs
  <2>2. CASE d # c /\ client[d].pc \in LaunchPcs \cup RetryPcs
    <3>1. client[d].id \in Jobs /\ client[d].id # n
      BY <1>1, <2>2, SameDriver DEF RetryPcs, JobInv, LocalsInv, RequestsNamed
    <3>2. QED
      BY <1>3, <1>6, <1>7, <2>2, <3>1 DEF DrivenInv, RequestsApart, RequestApart, Past
  <2>3. CASE d # c /\ client[d].pc \notin LaunchPcs \cup RetryPcs
    BY <1>6, <2>3 DEF RequestApart, RetryPcs
  <2>4. QED
    BY <2>1, <2>2, <2>3
<1>10. JobDriven(n)'
  <2>1. runner[n].pc # "wait"
    BY <1>2 DEF Past, PastPcs
  <2>2. Executing(n) = {}
    BY <1>1, <2>1 DEF JobInv, RunnersAccounted
  <2>3. Executing(n)' = {} /\ \A t \in Tasks : exec'[n][t].pc = "idle"
    BY <1>3, <2>2 DEF Executing
  <2>4. LoopUnended(n)' /\ RunnerCurrent(n)'
    BY <1>2, <1>3 DEF LoopUnended, RunnerCurrent, Past, PastPcs
  <2>5. WaveFits(n)'
    BY <1>5, <1>7, <2>3 DEF WaveFits, FitsWave
  <2>6. Retrying(n)'
    BY <1>4, <1>6 DEF Retrying
  <2>7. EndMatches(n)'
    BY <1>2, <1>3, <2>6 DEF EndMatches
  <2>8. QED
    BY <2>4, <2>5, <2>7 DEF JobDriven
<1>11. \A i \in Jobs : i # n => JobDriven(i)'
  <2>1. \A i \in Jobs : Retrying(i) => Retrying(i)'
    BY <1>1, <1>6 DEF Retrying
  <2>2. QED
    BY <1>3, <1>7, <2>1, FrameJob DEF DrivenInv
<1>12. QED
  BY <1>8, <1>9, <1>10, <1>11 DEF DrivenInv, RequestsApart

-----------------------------------------------------------------------------
LEMMA DrivenInit == Init => DrivenInv
<1> SUFFICES ASSUME Init PROVE DrivenInv
  OBVIOUS
<1>1. \A c \in Clients : client[c].pc = "idle"
  BY DEF Init, NoCall
<1>2. DriversDrive /\ FreshKey /\ RequestsApart
  BY <1>1 DEF DriversDrive, FreshKey, RequestsApart, RequestApart, StartPcs, LaunchPcs, RetryPcs
<1>3. ASSUME NEW j \in Jobs PROVE JobDriven(j)
  <2>1. runner[j].pc = "off" /\ \A t \in Tasks : exec[j][t].pc = "idle"
    BY DEF Init, NoRunner, NoExec
  <2>2. Executing(j) = {}
    BY <2>1 DEF Executing
  <2>3. LoopUnended(j) /\ RunnerCurrent(j)
    BY <2>1 DEF LoopUnended, RunnerCurrent, Past, PastPcs
  <2>4. WaveFits(j)
    BY <2>1, <2>2 DEF Init, WaveFits, FitsWave, Sound, NewList
  <2>5. EndMatches(j)
    BY DEF Init, EndMatches, Absent, NewJob, Ended
  <2>6. QED
    BY <2>3, <2>4, <2>5 DEF JobDriven
<1>4. QED
  BY <1>2, <1>3 DEF DrivenInv

LEMMA DrivenNext ==
  ASSUME OneDriver, JobInv, DrivenInv, [Next]_vars
  PROVE  DrivenInv'
<1>1. CASE UNCHANGED vars
  <2>1. UNCHANGED <<job, owner, key, tasks, runner, exec, client>>
    BY <1>1 DEF vars, storeVars
  <2>2. DriversDrive' /\ FreshKey' /\ RequestsApart'
    BY <2>1 DEF DrivenInv, DriversDrive, FreshKey, ByKey, RequestsApart, RequestApart, Past
  <2>3. \A j \in Jobs : Retrying(j) => Retrying(j)'
    BY <2>1 DEF Retrying
  <2>4. \A j \in Jobs : JobDriven(j)'
    BY <2>1, <2>3, FrameJob DEF DrivenInv
  <2>5. QED
    BY <2>2, <2>4 DEF DrivenInv
<1>2. ASSUME NEW c \in Clients, ClientStep(c) PROVE DrivenInv'
  BY <1>2, ReadsDriven, CreateDriven, LaunchDriven, PutsDriven, ReplaceDriven DEF ClientStep
<1>3. QED
  BY <1>1, <1>2, RunnerDriven, ExecDriven DEF Next

(* runJob executes a task, and a task has a result, only when what it         *)
(* depends on has succeeded in the store, for any number of jobs, of users  *)
(* and of clients that cancel, if one client per user starts and retries:    *)
(* the tasks of a wave overwrite each other's entries and never the ones     *)
(* they depend on.                                                         *)
THEOREM DependenciesAlwaysSucceeded == OneDriver => (Spec => []DependenciesSucceeded)
<1> SUFFICES ASSUME OneDriver PROVE Spec => []DependenciesSucceeded
  OBVIOUS
<1>1. Init => JobInv /\ DrivenInv
  BY JobInvInit, DrivenInit
<1>2. JobInv /\ DrivenInv /\ [Next]_vars => (JobInv /\ DrivenInv)'
  BY JobInvNext, DrivenNext
<1>3. JobInv /\ DrivenInv => DependenciesSucceeded
  BY DrivenGives
<1>4. QED
  BY <1>1, <1>2, <1>3, PTL DEF Spec

(* The final status of a job matches its tasks under the same condition,      *)
(* although finalizeJob writes a copy of the job that is one turn old and a *)
(* cancellation may write an older one.                                    *)
THEOREM EndAlwaysMatchesTasks == OneDriver => (Spec => []EndMatchesTasks)
<1> SUFFICES ASSUME OneDriver PROVE Spec => []EndMatchesTasks
  OBVIOUS
<1>1. Init => JobInv /\ DrivenInv
  BY JobInvInit, DrivenInit
<1>2. JobInv /\ DrivenInv /\ [Next]_vars => (JobInv /\ DrivenInv)'
  BY JobInvNext, DrivenNext
<1>3. JobInv /\ DrivenInv => EndMatchesTasks
  BY DrivenGives
<1>4. QED
  BY <1>1, <1>2, <1>3, PTL DEF Spec
-----------------------------------------------------------------------------
(* Jobs that have ended *)

(* Runners and tasks leave the requests alone. *)
LEMMA OthersKeepClient ==
  ASSUME [Next]_vars, ~ \E c \in Clients : ClientStep(c)
  PROVE  UNCHANGED client
<1>1. ASSUME NEW j \in Jobs, RunnerStep(j) PROVE UNCHANGED client
  BY <1>1 DEF RunnerStep, RunGet, RunBegin, RunCancelGet, RunCancelPut, RunProgressGet, RunProgressPut, RunList,
              RunWait, RunFinal, RunProjectGet, RunProjectPut, RunDefer
<1>2. ASSUME NEW j \in Jobs, NEW t \in Tasks, ExecStep(j, t) PROVE UNCHANGED client
  BY <1>2 DEF ExecStep, ExecAcquire, ExecScene, ExecLoad, ExecStore, ExecCurrent, ExecCheck, ExecReturn,
              ExecBackoff, ExecProgressGet, ExecProgressPut
<1>3. QED
  BY <1>1, <1>2 DEF Next, vars

(* Who writes a job that exists. *)
LEMMA JobWriters ==
  ASSUME JobInv, [Next]_vars, NEW n \in Jobs, job'[n] # job[n]
  PROVE  \/ /\ job[n].status = "absent"
            /\ \E c \in Clients : StartCreate(c) /\ client'[c].pc = "startProject" /\ client'[c].id = n
         \/ \E c \in Clients : client[c].id = n /\ (CancelPut(c) \/ RetryUpdate(c))
         \/ ~Past(n)
<1>0. job \in [Jobs -> JobRecords]
  BY DEF JobInv, Types, StoreOK
<1>1. ASSUME NEW c \in Clients, ClientStep(c)
      PROVE  \/ /\ job[n].status = "absent"
                /\ StartCreate(c) /\ client'[c].pc = "startProject" /\ client'[c].id = n
             \/ client[c].id = n /\ (CancelPut(c) \/ RetryUpdate(c))
  <2>1. CASE StartCreate(c)
    <3>1. \/ UNCHANGED job
          \/ \E j \in Jobs :
               /\ job[j].status = "absent" /\ job' = [job EXCEPT ![j] = NewJob]
               /\ SetClient(c, [client[c] EXCEPT !.pc = "startProject", !.id = j])
      BY <2>1 DEF StartCreate, PutJob
    <3>2. ~UNCHANGED job
      OBVIOUS
    <3>3. PICK j \in Jobs :
             /\ job[j].status = "absent" /\ job' = [job EXCEPT ![j] = NewJob]
             /\ SetClient(c, [client[c] EXCEPT !.pc = "startProject", !.id = j])
      BY <3>1, <3>2
    <3>4. n = j
      <4>1. ASSUME n # j PROVE job'[n] = job[n]
        BY <1>0, <3>3, <4>1
      <4>2. QED
        BY <4>1
    <3>5. client'[c].pc = "startProject" /\ client'[c].id = j
      <4>1. client \in [Clients -> Requests]
        BY DEF JobInv, Types, LocalsOK
      <4>2. QED
        BY <3>3, <4>1 DEF SetClient, Requests
    <3>6. QED
      BY <2>1, <3>3, <3>4, <3>5
  <2>2. CASE CancelPut(c) \/ RetryUpdate(c)
    BY <1>0, <2>2 DEF CancelPut, RetryUpdate, PutJob
  <2>3. CASE \/ \E k \in Keys : StartJob(c, k)
             \/ \E j \in Jobs : CancelJob(c, j) \/ RetryJob(c, j)
             \/ StartQuota(c) \/ StartProject(c) \/ Launch(c) \/ RetryQuota(c) \/ RetryTasks(c) \/ RetryReplace(c)
    BY <2>3 DEF StartJob, CancelJob, RetryJob, StartQuota, StartProject, Launch, RetryQuota, RetryTasks,
                RetryReplace, storeVars
  <2>4. QED
    BY <1>1, <2>1, <2>2, <2>3 DEF ClientStep
<1>2. ASSUME NEW j \in Jobs, RunnerStep(j) PROVE ~Past(n)
  <2>1. CASE RunBegin(j) \/ RunProgressPut(j) \/ RunFinal(j)
    BY <1>0, <2>1 DEF RunBegin, RunProgressPut, RunFinal, PutJob, At, Past, PastPcs
  <2>2. CASE \/ RunGet(j) \/ RunCancelGet(j) \/ RunCancelPut(j) \/ RunProgressGet(j) \/ RunList(j) \/ RunWait(j)
             \/ RunProjectGet(j) \/ RunProjectPut(j) \/ RunDefer(j)
    BY <2>2 DEF RunGet, RunCancelGet, RunCancelPut, RunProgressGet, RunList, RunWait, RunProjectGet,
                RunProjectPut, RunDefer, storeVars
  <2>3. QED
    BY <1>2, <2>1, <2>2 DEF RunnerStep
<1>3. ASSUME NEW j \in Jobs, NEW t \in Tasks, ExecStep(j, t) PROVE ~Past(n)
  <2>1. CASE ExecProgressPut(j, t)
    <3>1. n = j /\ exec[j][t].pc # "idle"
      BY <1>0, <2>1 DEF ExecProgressPut, PutJob, InExec
    <3>2. QED
      BY <3>1 DEF JobInv, RunnersAccounted, Executing, Past, PastPcs
  <2>2. CASE ~ExecProgressPut(j, t)
    BY <1>3, <2>2 DEF ExecStep, ExecAcquire, ExecScene, ExecLoad, ExecStore, ExecCurrent, ExecCheck, ExecReturn,
              ExecBackoff, ExecProgressGet, storeVars
  <2>3. QED
    BY <2>1, <2>2
<1>4. CASE UNCHANGED vars
  BY <1>4 DEF vars, storeVars
<1>5. QED
  BY <1>1, <1>2, <1>3, <1>4 DEF Next

(* What CancelJob and RetryJob write is a job that has not ended. *)
LEMMA PutsReopen ==
  ASSUME JobInv, NEW j \in Jobs, NEW c \in Clients, client[c].id = j, CancelPut(c) \/ RetryUpdate(c),
         client[c].pc = "retryUpdate" => job[j].status # "succeeded"
  PROVE  Reopens(c, j)
<1>0. job \in [Jobs -> JobRecords]
  BY DEF JobInv, Types, StoreOK
<1>1. CASE CancelPut(c)
  <2>1. ~Ended(client[c].snap.status)
    BY <1>1 DEF CancelPut, JobInv, LocalsInv, CopiesPresent
  <2>2. job'[j] = [client[c].snap EXCEPT !.cancelRequested = TRUE]
    BY <1>0, <1>1 DEF CancelPut, PutJob
  <2>3. QED
    BY <1>1, <2>1, <2>2 DEF CancelPut, Reopens
<1>2. CASE RetryUpdate(c)
  <2>1. job'[j] = NewJob /\ client[c].pc = "retryUpdate"
    BY <1>0, <1>2 DEF RetryUpdate, PutJob
  <2>2. QED
    BY <2>1 DEF Reopens
<1>3. QED
  BY <1>1, <1>2

LEMMA PutsUnended ==
  ASSUME JobInv, NEW j \in Jobs, NEW c \in Clients, client[c].id = j, CancelPut(c) \/ RetryUpdate(c)
  PROVE  ~Ended(job'[j].status)
<1>0. job \in [Jobs -> JobRecords] /\ client[c].snap \in JobRecords
  BY DEF JobInv, Types, StoreOK, LocalsOK, Requests
<1>1. CASE CancelPut(c)
  <2>1. ~Ended(client[c].snap.status)
    BY <1>1 DEF CancelPut, JobInv, LocalsInv, CopiesPresent
  <2>2. job'[j] = [client[c].snap EXCEPT !.cancelRequested = TRUE]
    BY <1>0, <1>1 DEF CancelPut, PutJob
  <2>3. QED
    BY <1>0, <2>1, <2>2 DEF JobRecords
<1>2. CASE RetryUpdate(c)
  <2>1. job'[j] = NewJob
    BY <1>0, <1>2 DEF RetryUpdate, PutJob
  <2>2. QED
    BY <2>1 DEF NewJob, Ended
<1>3. QED
  BY <1>1, <1>2

(* A job that has ended changes only when a request of its owner reopens it,  *)
(* and never by a retry after success, if one client per user starts and     *)
(* retries; any number of clients cancel, and late.  No copy of the job that *)
(* the runner or a task of a wave writes back is one of before the end.     *)
THEOREM EndedOnlyReopened == OneDriver => (Spec => OnlyRequestsReopen)
<1> SUFFICES ASSUME OneDriver PROVE Spec => OnlyRequestsReopen
  OBVIOUS
<1> DEFINE Inv == JobInv /\ DrivenInv
<1>1. Init => Inv
  BY JobInvInit, DrivenInit
<1>2. Inv /\ [Next]_vars => Inv'
  BY JobInvNext, DrivenNext
<1>3. Inv /\ [Next]_vars =>
        [\A j \in Jobs : Ended(job[j].status) /\ job'[j] # job[j] => \E c \in Clients : Reopens(c, j)]_vars
  <2>1. ASSUME Inv, [Next]_vars, NEW j \in Jobs, Ended(job[j].status), job'[j] # job[j]
        PROVE  \E c \in Clients : Reopens(c, j)
    <3>1. Past(j)
      BY <2>1 DEF DrivenInv, JobDriven, LoopUnended
    <3>2. job[j].status # "absent"
      BY <2>1 DEF Ended
    <3>3. PICK c \in Clients : client[c].id = j /\ (CancelPut(c) \/ RetryUpdate(c))
      BY <2>1, <3>1, <3>2, JobWriters
    <3>4. client[c].pc = "retryUpdate" => job[j].status # "succeeded"
      BY <2>1, <3>3 DEF DrivenInv, RequestsApart, RequestApart, RetryPcs
    <3>5. QED
      BY <2>1, <3>3, <3>4, PutsReopen
  <2>2. QED
    BY <2>1
<1>4. QED
  BY <1>1, <1>2, <1>3, PTL DEF Spec, OnlyRequestsReopen

-----------------------------------------------------------------------------
(* Who moves what *)

(* The runner has written the job's end. *)
EndPcs == {"projectGet", "projectPut", "defer"}

(* Who puts a runner into activeRunner, and who takes it out. *)
LEMMA ActiveWriters ==
  ASSUME JobInv, [Next]_vars, NEW j \in Jobs
  PROVE  /\ j \in active' /\ j \notin active => \E c \in Clients : Launch(c) /\ client[c].id = j
         /\ j \in active /\ j \notin active' => RunDefer(j)
<1>1. CASE UNCHANGED active
  BY <1>1
<1>2. ASSUME NEW c \in Clients, ClientStep(c), ~UNCHANGED active
      PROVE  Launch(c) /\ active' = active \cup {client[c].id}
  <2>1. Launch(c)
    BY <1>2 DEF ClientStep, StartJob, CancelJob, RetryJob, StartQuota, StartCreate, StartProject, CancelPut,
                RetryQuota, RetryTasks, RetryReplace, RetryUpdate, muVars
  <2>2. QED
    BY <1>2, <2>1 DEF Launch, StartRunnerIfNeeded, muVars
<1>3. ASSUME NEW i \in Jobs, RunnerStep(i), ~UNCHANGED active
      PROVE  RunDefer(i) /\ active' = active \ {i}
  <2>1. RunDefer(i)
    BY <1>3 DEF RunnerStep, RunGet, RunBegin, RunCancelGet, RunCancelPut, RunProgressGet, RunProgressPut, RunList,
                RunWait, RunFinal, RunProjectGet, RunProjectPut, muVars
  <2>2. QED
    BY <2>1 DEF RunDefer, FinishRunner
<1>4. ASSUME NEW i \in Jobs, NEW t \in Tasks, ExecStep(i, t) PROVE UNCHANGED active
  BY <1>4 DEF ExecStep, ExecAcquire, ExecScene, ExecLoad, ExecStore, ExecCurrent, ExecCheck, ExecReturn,
              ExecBackoff, ExecProgressGet, ExecProgressPut, muVars
<1>5. UNCHANGED vars => UNCHANGED active
  BY DEF vars, muVars
<1>6. CASE \E c \in Clients : ClientStep(c)
  <2>1. PICK c \in Clients : ClientStep(c)
    BY <1>6
  <2>2. QED
    BY <1>1, <1>2, <2>1
<1>7. CASE \E i \in Jobs : RunnerStep(i)
  <2>1. PICK i \in Jobs : RunnerStep(i)
    BY <1>7
  <2>2. QED
    BY <1>1, <1>3, <2>1
<1>8. QED
  BY <1>1, <1>4, <1>5, <1>6, <1>7 DEF Next

(* Only the creation of the job gives a job its owner. *)
LEMMA OwnerWriters ==
  ASSUME JobInv, [Next]_vars, NEW j \in Jobs, owner'[j] # owner[j]
  PROVE  owner[j] = "None" /\ \E c \in Clients : StartCreate(c) /\ owner'[j] = UserOf[c]
<1>0. owner \in [Jobs -> Users \cup {"None"}]
  BY DEF JobInv, Types, StoreOK
<1>1. PICK c \in Clients : StartCreate(c)
  BY OnlyCreateWrites
<1>2. UNCHANGED owner \/ \E n \in Jobs : job[n].status = "absent" /\ owner' = [owner EXCEPT ![n] = UserOf[c]]
  BY <1>1 DEF StartCreate
<1>3. PICK n \in Jobs : job[n].status = "absent" /\ owner' = [owner EXCEPT ![n] = UserOf[c]]
  BY <1>2
<1>4. n = j
  <2>1. ASSUME n # j PROVE owner'[j] = owner[j]
    BY <1>0, <1>3, <2>1
  <2>2. QED
    BY <2>1
<1>5. owner[j] = "None"
  BY <1>3, <1>4 DEF JobInv, LocalsInv, OwnersKnown
<1>6. QED
  BY <1>0, <1>1, <1>3, <1>4, <1>5
(* A client moves by its own steps, a runner by its own and by its launch. *)
LEMMA ClientMoves ==
  ASSUME JobInv, [Next]_vars, NEW c \in Clients, client'[c] # client[c]
  PROVE  ClientStep(c)
<1>1. ~UNCHANGED client
  OBVIOUS
<1>2. PICK d \in Clients : ClientStep(d)
  BY <1>1, OthersKeepClient
<1>3. \E l : SetClient(d, l)
  BY <1>2 DEF ClientStep, StartJob, CancelJob, RetryJob, StartQuota, StartCreate, StartProject, Launch, CancelPut,
              RetryQuota, RetryTasks, RetryReplace, RetryUpdate
<1>4. d = c
  <2>1. ASSUME d # c PROVE client'[c] = client[c]
    BY <1>3, <2>1 DEF SetClient, JobInv, Types, LocalsOK
  <2>2. QED
    BY <2>1
<1>5. QED
  BY <1>2, <1>4

LEMMA RunnerMoves ==
  ASSUME JobInv, [Next]_vars, NEW j \in Jobs, runner'[j] # runner[j]
  PROVE  RunnerStep(j) \/ \E c \in Clients : Launch(c) /\ client[c].id = j
<1>0. runner \in [Jobs -> Runners]
  BY DEF JobInv, Types, LocalsOK
<1>1. ASSUME NEW c \in Clients, ClientStep(c) PROVE Launch(c) /\ client[c].id = j
  <2>1. Launch(c)
    BY <1>1 DEF ClientStep, StartJob, CancelJob, RetryJob, StartQuota, StartCreate, StartProject, CancelPut,
                RetryQuota, RetryTasks, RetryReplace, RetryUpdate
  <2>2. \E r : SetRunner(client[c].id, r)
    BY <2>1 DEF Launch, StartRunnerIfNeeded
  <2>3. client[c].id = j
    <3>1. ASSUME client[c].id # j PROVE runner'[j] = runner[j]
      BY <1>0, <2>2, <3>1 DEF SetRunner
    <3>2. QED
      BY <3>1
  <2>4. QED
    BY <2>1, <2>3
<1>2. ASSUME NEW i \in Jobs, RunnerStep(i) PROVE i = j
  <2>1. \E r : SetRunner(i, r)
    BY <1>2 DEF RunnerStep, RunGet, RunBegin, RunCancelGet, RunCancelPut, RunProgressGet, RunProgressPut, RunList,
                RunWait, RunFinal, RunProjectGet, RunProjectPut, RunDefer
  <2>2. ASSUME i # j PROVE runner'[j] = runner[j]
    BY <1>0, <2>1, <2>2 DEF SetRunner
  <2>3. QED
    BY <2>2
<1>3. ASSUME NEW i \in Jobs, NEW t \in Tasks, ExecStep(i, t) PROVE FALSE
  BY <1>3 DEF ExecStep, ExecAcquire, ExecScene, ExecLoad, ExecStore, ExecCurrent, ExecCheck, ExecReturn,
              ExecBackoff, ExecProgressGet, ExecProgressPut
<1>4. ~UNCHANGED vars
  BY DEF vars
<1>5. QED
  BY <1>1, <1>2, <1>3, <1>4 DEF Next

(* A request in launch stays there until it has launched. *)
LEMMA ClientPc ==
  ASSUME JobInv, [Next]_vars, NEW c \in Clients, client[c].pc \in LaunchPcs
  PROVE  Launch(c) \/ (client'[c].pc \in LaunchPcs /\ client'[c].id = client[c].id)
<1>1. CASE client'[c] = client[c]
  BY <1>1
<1>2. CASE ClientStep(c)
  <2>1. StartProject(c) \/ Launch(c)
    BY <1>2 DEF ClientStep, StartJob, CancelJob, RetryJob, Call, StartQuota, StartCreate, CancelPut, RetryQuota,
                RetryTasks, RetryReplace, RetryUpdate, LaunchPcs
  <2>2. CASE StartProject(c)
    BY <2>2 DEF StartProject, SetClient, LaunchPcs, JobInv, Types, LocalsOK, Requests
  <2>3. QED
    BY <2>1, <2>2
<1>3. QED
  BY <1>1, <1>2, ClientMoves

(* How a runner comes to the end of runJob. *)
LEMMA RunnerEnds ==
  ASSUME JobInv, [Next]_vars, NEW j \in Jobs, runner'[j].pc \in EndPcs
  PROVE  \/ runner'[j] = runner[j]
         \/ RunFinal(j) \/ RunProjectGet(j) \/ RunProjectPut(j)
         \/ RunGet(j) /\ Ended(job[j].status)
<1>0. runner[j] \in Runners /\ NoRunner \in Runners /\ NoRunner.pc = "off"
  BY RecordsTyped DEF JobInv, Types, LocalsOK, NoRunner
<1>1. ASSUME NEW r, SetRunner(j, r) PROVE runner'[j] = r
  BY <1>1 DEF SetRunner, JobInv, Types, LocalsOK
<1>2. CASE runner'[j] = runner[j]
  BY <1>2
<1>3. ASSUME NEW c \in Clients, Launch(c), client[c].id = j PROVE runner'[j] = runner[j]
  BY <1>0, <1>1, <1>3 DEF Launch, StartRunnerIfNeeded, EndPcs, Runners
<1>4. CASE RunGet(j)
  BY <1>0, <1>1, <1>4 DEF RunGet, AfterStart, EndPcs, Runners
<1>5. CASE RunBegin(j)
  <2>1. PICK r : SetRunner(j, [runner[j] EXCEPT !.pc = AfterStart(r), !.job = r])
    BY <1>5 DEF RunBegin
  <2>2. runner'[j].pc = AfterStart(r)
    BY <1>0, <1>1, <2>1 DEF Runners
  <2>3. QED
    BY <2>2 DEF AfterStart, EndPcs
<1>6. CASE RunCancelGet(j) \/ RunCancelPut(j) \/ RunProgressGet(j) \/ RunProgressPut(j)
  BY <1>0, <1>1, <1>6 DEF RunCancelGet, RunCancelPut, RunProgressGet, RunProgressPut, EndPcs, Runners
<1>7. CASE RunList(j) \/ RunWait(j)
  BY <1>0, <1>1, <1>7 DEF RunList, RunWait, EndPcs, Runners
<1>8. CASE RunDefer(j)
  BY <1>0, <1>1, <1>8 DEF RunDefer, EndPcs
<1>9. QED
  BY <1>2, <1>3, <1>4, <1>5, <1>6, <1>7, <1>8, RunnerMoves DEF RunnerStep

-----------------------------------------------------------------------------
(* The project.  The copies finalizeJob holds of the job and of CurrentJobID  *)
(* may grow old: a retry or a cancellation writes the job, StartJob the      *)
(* project.  But if the job is ended at all it has the status of the copy,   *)
(* and once the runners of a user with a single job have come to their      *)
(* deferred call and no request is launching, the project shows the job.    *)
Copied(j) ==
  /\ runner[j].pc \in {"projectGet", "projectPut"} /\ Ended(job[j].status) =>
       runner[j].job.status = job[j].status
  /\ runner[j].pc = "projectPut" /\ runner[j].current # NoJob =>
       runner[j].current \in Jobs /\ owner[runner[j].current] = owner[j]

CurrentOwned(u) ==
  project[u].current # NoJob => project[u].current \in Jobs /\ owner[project[u].current] = u

Sole(u) == project[u].current # NoJob /\ \A j \in Jobs : owner[j] = u => j = project[u].current

Calm(u) ==
  /\ \A j \in active : owner[j] = u => runner[j].pc = "defer"
  /\ \A c \in Clients : UserOf[c] = u => client[c].pc \notin LaunchPcs

CurrentEnded(u) == Ended(job[project[u].current].status)

Shown(u) == project[u].status = job[project[u].current].status

Settled(u) == Sole(u) /\ Calm(u) /\ CurrentEnded(u) => Shown(u)

ProjectInv == (\A j \in Jobs : Copied(j)) /\ \A u \in Users : CurrentOwned(u) /\ Settled(u)

(* Who writes a project: StartJob and finalizeJob. *)
LEMMA ProjectWriters ==
  ASSUME JobInv, [Next]_vars, NEW u \in Users
  PROVE  \/ project'[u] = project[u]
         \/ \E c \in Clients : /\ StartProject(c) /\ UserOf[c] = u /\ UNCHANGED owner
                              /\ project'[u].current = client[c].id
         \/ \E j \in Jobs : RunProjectPut(j) /\ owner[j] = u
<1>0. project \in [Users -> Projects] /\ owner \in [Jobs -> Users \cup {"None"}]
  BY DEF JobInv, Types, StoreOK
<1>1. ASSUME NEW c \in Clients, ClientStep(c), project'[u] # project[u]
      PROVE  StartProject(c) /\ UserOf[c] = u /\ UNCHANGED owner /\ project'[u].current = client[c].id
  <2>1. StartProject(c)
    BY <1>1 DEF ClientStep, StartJob, CancelJob, RetryJob, StartQuota, StartCreate, Launch, CancelPut,
                RetryQuota, RetryTasks, RetryReplace, RetryUpdate, storeVars
  <2>2. UserOf[c] = u
    <3>1. ASSUME UserOf[c] # u PROVE project'[u] = project[u]
      BY <1>0, <2>1, <3>1 DEF StartProject
    <3>2. QED
      BY <1>1, <3>1
  <2>3. QED
    BY <1>0, <2>1, <2>2 DEF StartProject
<1>2. ASSUME NEW j \in Jobs, RunnerStep(j), project'[u] # project[u]
      PROVE  RunProjectPut(j) /\ owner[j] = u
  <2>1. RunProjectPut(j)
    BY <1>2 DEF RunnerStep, RunGet, RunBegin, RunCancelGet, RunCancelPut, RunProgressGet, RunProgressPut, RunList,
                RunWait, RunFinal, RunProjectGet, RunDefer, storeVars
  <2>2. ASSUME owner[j] # u PROVE project'[u] = project[u]
    BY <1>0, <2>1, <2>2 DEF RunProjectPut, PutProject
  <2>3. QED
    BY <1>2, <2>1, <2>2
<1>3. ASSUME NEW j \in Jobs, NEW t \in Tasks, ExecStep(j, t) PROVE project'[u] = project[u]
  BY <1>3 DEF ExecStep, ExecAcquire, ExecScene, ExecLoad, ExecStore, ExecCurrent, ExecCheck, ExecReturn,
              ExecBackoff, ExecProgressGet, ExecProgressPut, storeVars
<1>4. CASE UNCHANGED vars
  BY <1>4 DEF vars, storeVars
<1>5. CASE project'[u] # project[u]
  BY <1>1, <1>2, <1>3, <1>4, <1>5 DEF Next
<1>6. QED
  BY <1>5

(* What UpdateProject of finalizeJob writes. *)
LEMMA PutProjectEffect ==
  ASSUME JobInv, ProjectInv, NEW j \in Jobs, RunProjectPut(j)
  PROVE  /\ owner[j] \in Users /\ j \in active
         /\ project'[owner[j]].current # NoJob =>
              project'[owner[j]].current \in Jobs /\ owner[project'[owner[j]].current] = owner[j]
         /\ Ended(job[j].status) => project'[owner[j]].status = job[j].status
         /\ UNCHANGED <<job, owner>>
<1>1. j \in active /\ owner[j] \in Users
  BY DEF RunProjectPut, At, JobInv, RunnersAccounted, LocalsInv, OwnersKnown, Types, StoreOK
<1>2. project'[owner[j]] = [current |-> runner[j].current, status |-> runner[j].job.status]
  BY <1>1 DEF RunProjectPut, PutProject, JobInv, Types, StoreOK
<1>3. QED
  BY <1>1, <1>2 DEF RunProjectPut, At, ProjectInv, Copied

LEMMA CurrentNext ==
  ASSUME JobInv, ProjectInv, [Next]_vars, NEW u \in Users
  PROVE  CurrentOwned(u)'
<1> SUFFICES ASSUME project'[u].current # NoJob
             PROVE  project'[u].current \in Jobs /\ owner'[project'[u].current] = u
  BY DEF CurrentOwned
<1>1. CASE project'[u] = project[u]
  <2>1. PICK n : n = project[u].current
    OBVIOUS
  <2>2. n \in Jobs /\ owner[n] = u
    BY <1>1, <2>1 DEF ProjectInv, CurrentOwned
  <2>3. owner'[n] = owner[n]
    BY <2>2, OwnerWriters, JobAssumption
  <2>4. QED
    BY <1>1, <2>1, <2>2, <2>3
<1>2. ASSUME NEW c \in Clients, StartProject(c), UserOf[c] = u, UNCHANGED owner,
             project'[u].current = client[c].id
      PROVE  project'[u].current \in Jobs /\ owner'[project'[u].current] = u
  <2>1. client[c].id \in Jobs /\ owner[client[c].id] = u
    BY <1>2 DEF StartProject, JobInv, LocalsInv, RequestsNamed, LaunchPcs
  <2>2. QED
    BY <1>2, <2>1
<1>3. ASSUME NEW j \in Jobs, RunProjectPut(j), owner[j] = u
      PROVE  project'[u].current \in Jobs /\ owner'[project'[u].current] = u
  BY <1>3, PutProjectEffect
<1>4. QED
  BY <1>1, <1>2, <1>3, ProjectWriters

(* Once the runner has written the end, the job is written by requests only,  *)
(* and what they write has not ended.                                      *)
LEMMA EndKept ==
  ASSUME JobInv, [Next]_vars, NEW j \in Jobs, Past(j), owner[j] # "None", Ended(job'[j].status)
  PROVE  job'[j] = job[j]
<1> SUFFICES ASSUME job'[j] # job[j] PROVE FALSE
  OBVIOUS
<1>1. job[j].status # "absent"
  BY DEF JobInv, LocalsInv, OwnersKnown
<1>2. PICK c \in Clients : client[c].id = j /\ (CancelPut(c) \/ RetryUpdate(c))
  BY <1>1, JobWriters
<1>3. QED
  BY <1>2, PutsUnended

LEMMA CopiedNext ==
  ASSUME JobInv, ProjectInv, [Next]_vars, NEW j \in Jobs
  PROVE  Copied(j)'
<1>0. runner[j] \in Runners /\ job \in [Jobs -> JobRecords]
  BY DEF JobInv, Types, LocalsOK, StoreOK
<1>1. ASSUME NEW r, SetRunner(j, r) PROVE runner'[j] = r
  BY <1>1 DEF SetRunner, JobInv, Types, LocalsOK
<1>2. CASE RunFinal(j)
  <2>1. runner'[j].job = runner[j].job /\ runner'[j].pc = "projectGet"
    BY <1>0, <1>1, <1>2 DEF RunFinal, Runners
  <2>2. job'[j] = runner[j].job
    BY <1>0, <1>2 DEF RunFinal, PutJob
  <2>3. QED
    BY <2>1, <2>2 DEF Copied
<1>3. CASE RunProjectGet(j)
  <2>1. /\ runner'[j].job = runner[j].job /\ runner'[j].current = project[owner[j]].current
        /\ UNCHANGED <<job, owner>> /\ runner[j].pc = "projectGet"
    BY <1>0, <1>1, <1>3 DEF RunProjectGet, Runners, storeVars, At
  <2>2. owner[j] \in Users
    BY <2>1 DEF JobInv, RunnersAccounted, LocalsInv, OwnersKnown, Types, StoreOK
  <2>3. CurrentOwned(owner[j]) /\ Copied(j)
    BY <2>2 DEF ProjectInv
  <2>4. QED
    BY <2>1, <2>3 DEF CurrentOwned, Copied
<1>4. CASE RunProjectPut(j) \/ RunGet(j)
  <2>1. runner'[j].pc \notin {"projectGet", "projectPut"}
    BY RecordsTyped, <1>1, <1>4 DEF RunProjectPut, RunGet, AfterStart, Runners
  <2>2. QED
    BY <2>1 DEF Copied
<1>5. CASE runner'[j] = runner[j] /\ runner[j].pc \in {"projectGet", "projectPut"}
  <2>1. Past(j) /\ owner[j] # "None" /\ Copied(j)
    BY <1>5 DEF Past, PastPcs, JobInv, RunnersAccounted, LocalsInv, OwnersKnown, ProjectInv
  <2>2. Ended(job'[j].status) => job'[j] = job[j]
    BY <2>1, EndKept
  <2>3. owner'[j] = owner[j]
    BY <2>1, OwnerWriters
  <2>4. ASSUME NEW n \in Jobs, owner[n] = owner[j] PROVE owner'[n] = owner[n]
    BY <2>1, <2>4, OwnerWriters
  <2>5. QED
    BY <1>5, <2>1, <2>2, <2>3, <2>4 DEF Copied
<1>6. CASE runner'[j].pc \notin {"projectGet", "projectPut"}
  BY <1>6 DEF Copied
<1>7. QED
  BY <1>2, <1>3, <1>4, <1>5, <1>6, RunnerEnds DEF EndPcs

(* The last writer of the project is the runner of its one job. *)
LEMMA SettledPut ==
  ASSUME JobInv, ProjectInv, NEW j \in Jobs, RunProjectPut(j), Sole(owner[j])', CurrentEnded(owner[j])'
  PROVE  Shown(owner[j])'
<1>1. PICK u : u = owner[j]
  OBVIOUS
<1>2. owner' = owner /\ job' = job
  BY PutProjectEffect
<1>3. Sole(u)' /\ CurrentEnded(u)'
  BY <1>1, <1>2
<1>4. project'[u].current = j
  BY <1>1, <1>2, <1>3 DEF Sole
<1>5. Ended(job[j].status)
  BY <1>2, <1>3, <1>4 DEF CurrentEnded, Ended
<1>6. project'[u].status = job[j].status
  BY <1>1, <1>5, PutProjectEffect
<1>7. Shown(u)'
  BY <1>2, <1>4, <1>6 DEF Shown
<1>8. QED
  BY <1>1, <1>2, <1>7

(* Runners at their deferred call, seen backwards: they were there before,    *)
(* unless one has just written the project.  A request that launches the one *)
(* job has reset it.                                                       *)
LEMMA CalmBefore ==
  ASSUME JobInv, DrivenInv, [Next]_vars, NEW u \in Users, Sole(u)', Calm(u)', CurrentEnded(u)',
         ~ \E j \in Jobs : RunProjectPut(j) /\ owner[j] = u
  PROVE  Calm(u)
<1>1. ASSUME NEW j \in active, owner[j] = u PROVE runner[j].pc = "defer"
  <2>1. j \in Jobs
    BY DEF JobInv, Types, MapsOK
  <2>2. CASE j \notin active'
    BY <2>1, <2>2, ActiveWriters DEF RunDefer, At
  <2>3. CASE j \in active'
    <3>1. owner'[j] = u
      BY <1>1, <2>1, OwnerWriters, JobAssumption
    <3>2. runner'[j].pc = "defer"
      BY <2>3, <3>1 DEF Calm
    <3>3. ASSUME RunGet(j), Ended(job[j].status) PROVE FALSE
      BY <2>1, <3>3 DEF RunGet, At, DrivenInv, JobDriven, LoopUnended, Past, PastPcs
    <3>4. ASSUME RunFinal(j) \/ RunProjectGet(j) PROVE FALSE
      BY <2>1, <3>2, <3>4 DEF RunFinal, RunProjectGet, SetRunner, JobInv, Types, LocalsOK, Runners
    <3>5. runner'[j] = runner[j]
      BY <1>1, <2>1, <3>2, <3>3, <3>4, RunnerEnds DEF EndPcs
    <3>6. QED
      BY <3>2, <3>5
  <2>4. QED
    BY <2>2, <2>3
<1>2. ASSUME NEW c \in Clients, UserOf[c] = u, client[c].pc \in LaunchPcs PROVE FALSE
  <2>1. Launch(c)
    BY <1>2, ClientPc DEF Calm
  <2>2. PICK n : n = client[c].id
    OBVIOUS
  <2>3. n \in Jobs /\ owner[n] = u
    BY <1>2, <2>2 DEF JobInv, LocalsInv, RequestsNamed
  <2>4. ~Ended(job[n].status)
    BY <1>2, <2>2 DEF DrivenInv, RequestsApart, RequestApart
  <2>5. UNCHANGED <<job, owner, project>>
    BY <2>1 DEF Launch, storeVars
  <2>6. project'[u].current = n
    BY <2>3, <2>5 DEF Sole
  <2>7. QED
    BY <2>4, <2>5, <2>6 DEF CurrentEnded, Ended
<1>3. QED
  BY <1>1, <1>2 DEF Calm

LEMMA SettledNext ==
  ASSUME JobInv, DrivenInv, ProjectInv, [Next]_vars, NEW u \in Users
  PROVE  Settled(u)'
<1> SUFFICES ASSUME Sole(u)', Calm(u)', CurrentEnded(u)' PROVE Shown(u)'
  BY DEF Settled
<1>1. ASSUME NEW j \in Jobs, RunProjectPut(j), owner[j] = u PROVE Shown(u)'
  <2>1. owner' = owner
    BY <1>1, PutProjectEffect
  <2>2. Sole(owner[j])' /\ CurrentEnded(owner[j])'
    BY <1>1, <2>1
  <2>3. Shown(owner[j])'
    BY <1>1, <2>2, SettledPut
  <2>4. QED
    BY <1>1, <2>1, <2>3
<1>2. CASE ~ \E j \in Jobs : RunProjectPut(j) /\ owner[j] = u
  <2>1. Calm(u)
    BY <1>2, CalmBefore
  <2>2. ASSUME NEW c \in Clients, StartProject(c), UserOf[c] = u PROVE FALSE
    <3>1. client'[c].pc = "launch"
      BY <2>2 DEF StartProject, SetClient, JobInv, Types, LocalsOK, Requests
    <3>2. QED
      BY <2>2, <3>1 DEF Calm, LaunchPcs
  <2>3. project'[u] = project[u]
    BY <1>2, <2>2, ProjectWriters
  <2>4. Sole(u)
    <3>1. ASSUME NEW j \in Jobs, owner[j] = u PROVE owner'[j] = u
      BY <3>1, OwnerWriters, JobAssumption
    <3>2. QED
      BY <2>3, <3>1 DEF Sole
  <2>5. PICK n : n = project[u].current
    OBVIOUS
  <2>6. n \in Jobs /\ owner[n] = u
    BY <2>4, <2>5 DEF Sole, ProjectInv, CurrentOwned
  <2>7. Past(n) /\ owner[n] # "None"
    BY <2>1, <2>6, JobAssumption DEF Calm, Past, PastPcs, JobInv, RunnersAccounted
  <2>8. Ended(job'[n].status)
    BY <2>3, <2>5 DEF CurrentEnded, Ended
  <2>9. job'[n] = job[n]
    BY <2>6, <2>7, <2>8, EndKept
  <2>10. Shown(u)
    BY <2>1, <2>4, <2>5, <2>8, <2>9 DEF ProjectInv, Settled, CurrentEnded
  <2>11. QED
    BY <2>3, <2>5, <2>9, <2>10 DEF Shown
<1>3. QED
  BY <1>1, <1>2

LEMMA ProjectInit == Init => ProjectInv
BY DEF Init, ProjectInv, Copied, CurrentOwned, Settled, Sole, NoRunner

(* A project with one job that has ended shows how it ended once no runner    *)
(* and no request of the user is left, for any quota and with cancellations  *)
(* and a retry that overlap the old runner, if one client per user starts    *)
(* and retries: the old runner writes the status the job has, unless the job *)
(* has been reopened, and then it is no longer ended, or the next runner     *)
(* writes the project again.                                               *)
THEOREM ProjectAlwaysShowsJob == OneDriver => (Spec => []ProjectShowsJob)
<1> SUFFICES ASSUME OneDriver PROVE Spec => []ProjectShowsJob
  OBVIOUS
<1> DEFINE Inv == JobInv /\ DrivenInv /\ ProjectInv
<1>1. Init => Inv
  BY JobInvInit, DrivenInit, ProjectInit
<1>2. Inv /\ [Next]_vars => Inv'
  <2>1. ASSUME Inv, [Next]_vars PROVE ProjectInv'
    BY <2>1, CopiedNext, CurrentNext, SettledNext DEF ProjectInv
  <2>2. QED
    BY <2>1, JobInvNext, DrivenNext
<1>3. Inv => ProjectShowsJob
  <2>1. ASSUME Inv, NEW u \in Users, Sole(u), CurrentEnded(u), \A j \in active : owner[j] # u,
               \A c \in Clients : UserOf[c] = u => client[c].pc = "idle"
        PROVE  Shown(u)
    BY <2>1 DEF ProjectInv, Settled, Calm, LaunchPcs
  <2>2. QED
    BY <2>1 DEF ProjectShowsJob, Sole, Shown, CurrentEnded
<1>4. QED
  BY <1>1, <1>2, <1>3, PTL DEF Spec
=============================================================================
