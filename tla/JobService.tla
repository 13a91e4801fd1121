----------------------------- MODULE JobService -----------------------------
(***************************************************************************)
(* The job service of the Go server, server/internal/job/service.go.       *)
(*                                                                         *)
(* A request is a goroutine (a client here), a started job has one runner  *)
(* goroutine (runJob), and the runner starts one goroutine per ready task  *)
(* (executeTask).  They share the memory store, whose methods are atomic,  *)
(* and the maps under Service.mu.  One action is one call of the store or  *)
(* one section under mu: the copy a goroutine read is in its locals until  *)
(* it writes it back, whole.  Progress, error texts, timestamps, assets    *)
(* and the event log are left out.                                         *)
(***************************************************************************)
EXTENDS Integers, FiniteSets

CONSTANTS
  Jobs,               \* the ids uuid.NewString can return
  Users, Clients,
  UserOf,             \* the user each client is authenticated as
  Keys, NoKey,        \* idempotency keys, and the empty one
  SceneCount,         \* Project.SceneCount
  MaxAttempt,         \* JobTask.MaxAttempt, 3 in buildTasks
  MaxConcurrent, MaxUserJobs, MaxSceneJobs,
  CallsOf,            \* the calls each client makes ...
  MaxCalls,           \* ... and how many of them: a bound
  Outcomes            \* what a provider may return of its own accord

ASSUME JobAssumption ==
  /\ "None" \notin Jobs \cup Users /\ IsFiniteSet(Jobs)
  /\ UserOf \in [Clients -> Users] /\ NoKey \in Keys
  /\ SceneCount \in Nat \ {0} /\ MaxAttempt \in Nat /\ MaxCalls \in Nat
  /\ {MaxConcurrent, MaxUserJobs, MaxSceneJobs} \subseteq Nat \ {0}
  /\ CallsOf \in [Clients -> SUBSET {"start", "cancel", "retry"}]
  /\ Outcomes \subseteq {"ok", "retryable", "fatal"}

VARIABLES
  job,         \* MemoryStore.jobs: status, CancelRequested, StartedAt set or not
  owner, key,  \* Job.UserID, Job.IdempotencyKey, once the job exists
  tasks,       \* MemoryStore.tasksByJob: status and Attempt of each task
  project,     \* per user (with one project): CurrentJobID and Status
  active,      \* Service.activeRunner
  running,     \* Service.runningByUser
  globalSem,   \* how many slots of globalSem are taken
  sceneSem,    \* per runner, how many of sceneSem
  runner,      \* per job: where runJob is, and its locals
  exec,        \* per job and task: where executeTask is, and its locals
  client,      \* per client: where its call is, and its locals
  calls        \* calls made so far

storeVars == <<job, owner, key, tasks, project>>
muVars    == <<active, running>>
semVars   == <<globalSem, sceneSem>>
vars == <<storeVars, muVars, semVars, runner, exec, client, calls>>

-----------------------------------------------------------------------------
(* The task graph of buildTasks. *)

Scenes     == 0 .. SceneCount - 1
Storyboard == <<"storyboard", 0>>
Compose    == <<"compose", 0>>
SceneTasks == {"image", "tts"} \X Scenes
Tasks      == {Storyboard, Compose} \cup SceneTasks

DependsOn(t) ==
  IF t = Compose THEN SceneTasks ELSE IF t = Storyboard THEN {} ELSE {Storyboard}

NewList == [t \in Tasks |-> [status |-> "queued", attempt |-> 0]]

Ended(s) == s \in {"succeeded", "failed", "canceled"}

AllTerminal(list) == \A t \in Tasks : Ended(list[t].status)

(* Faulty variant: a dependency that has ended is good enough. *)
ReadyOnEnd(list) ==
  {t \in Tasks : list[t].status = "queued" /\ \A d \in DependsOn(t) : Ended(list[d].status)}

ReadyTasks(list) ==
  {t \in Tasks : list[t].status = "queued" /\ \A d \in DependsOn(t) : list[d].status = "succeeded"}

(* Every entry whose status is in S moves to status s. *)
Relabel(list, S, s) ==
  [t \in Tasks |-> IF list[t].status \in S THEN [list[t] EXCEPT !.status = s] ELSE list[t]]

-----------------------------------------------------------------------------
(* Locals.  An unused local holds the value it has in these records. *)

NoJob  == "None"
NewJob == [status |-> "queued", cancelRequested |-> FALSE, started |-> FALSE]
Absent == [NewJob EXCEPT !.status = "absent"]

NoRunner == [pc |-> "off", job |-> Absent, list |-> NewList, snap |-> Absent, current |-> NoJob]
NoExec   == [pc |-> "idle", op |-> "none", attempt |-> 0, list |-> NewList, snap |-> Absent]
NoCall   == [pc |-> "idle", id |-> NoJob, key |-> NoKey, snap |-> Absent, list |-> NewList]

SetRunner(j, r)  == runner' = [runner EXCEPT ![j] = r]
SetExec(j, t, e) == exec' = [exec EXCEPT ![j][t] = e]
SetClient(c, l)  == client' = [client EXCEPT ![c] = l]

PutJob(j, record) == job' = [job EXCEPT ![j] = record]
PutTasks(j, list) == tasks' = [tasks EXCEPT ![j] = list]

-----------------------------------------------------------------------------
(* Runner bookkeeping under mu *)

QuotaFree(u) == running[u] < MaxUserJobs

StartRunnerIfNeeded(j) ==
  IF j \in active THEN UNCHANGED <<muVars, runner>>
  ELSE /\ active' = active \cup {j}
       /\ running' = [running EXCEPT ![owner[j]] = @ + 1]
       /\ SetRunner(j, [NoRunner EXCEPT !.pc = "get"])

FinishRunner(j) ==
  /\ active' = active \ {j}
  /\ running' = [running EXCEPT ![owner[j]] = IF @ > 0 THEN @ - 1 ELSE @]

-----------------------------------------------------------------------------
(* Requests *)

(* A client makes one call at a time, MaxCalls in all. *)
Call(c, name) ==
  /\ client[c].pc = "idle" /\ name \in CallsOf[c]
  /\ calls[c] < MaxCalls
  /\ calls' = [calls EXCEPT ![c] = @ + 1]

(* GetJobByIdempotency *)
ByKey(u, k) == {j \in Jobs : k # NoKey /\ owner[j] = u /\ key[j] = k}

(* A known key returns its job at once; nothing else happens.  (Requests    *)
(* stop when the ids in Jobs are used up.)                                 *)
StartJob(c, k) ==
  /\ Call(c, "start")
  /\ \E j \in Jobs : job[j].status = "absent"
  /\ SetClient(c, IF ByKey(UserOf[c], k) # {} THEN NoCall ELSE [NoCall EXCEPT !.pc = "startQuota", !.key = k])
  /\ UNCHANGED <<storeVars, muVars, semVars, runner, exec>>

StartQuota(c) ==
  /\ client[c].pc = "startQuota"
  /\ SetClient(c, IF QuotaFree(UserOf[c]) THEN [client[c] EXCEPT !.pc = "startCreate"] ELSE NoCall)
  /\ UNCHANGED <<storeVars, muVars, semVars, runner, exec, calls>>

(* Faulty variant: CreateJob does not look the key up once more. *)
CreateAlways(c) == {}

(* The job CreateJob finds under the key, if it was created meanwhile. *)
Existing(c) == ByKey(UserOf[c], client[c].key)

StartCreate(c) ==
  /\ client[c].pc = "startCreate"
  /\ IF Existing(c) # {}
     THEN /\ \E j \in Existing(c) : SetClient(c, [client[c] EXCEPT !.pc = "startProject", !.id = j])
          /\ UNCHANGED <<job, owner, key, tasks>>
     ELSE \E j \in Jobs :
          /\ job[j].status = "absent"
          /\ PutJob(j, NewJob)
          /\ owner' = [owner EXCEPT ![j] = UserOf[c]]
          /\ key'   = [key EXCEPT ![j] = client[c].key]
          /\ PutTasks(j, NewList)
          /\ SetClient(c, [client[c] EXCEPT !.pc = "startProject", !.id = j])
  /\ UNCHANGED <<project, muVars, semVars, runner, exec, calls>>

StartProject(c) ==
  /\ client[c].pc = "startProject"
  /\ project' = [project EXCEPT ![UserOf[c]] = [current |-> client[c].id, status |-> "running"]]
  /\ SetClient(c, [client[c] EXCEPT !.pc = "launch"])
  /\ UNCHANGED <<job, owner, key, tasks, muVars, semVars, runner, exec, calls>>

(* The last step of StartJob and of RetryJob. *)
Launch(c) ==
  /\ client[c].pc = "launch"
  /\ StartRunnerIfNeeded(client[c].id)
  /\ SetClient(c, NoCall)
  /\ UNCHANGED <<storeVars, semVars, exec, calls>>

(* CancelJob reads the job and, unless it has ended, ... *)
CancelJob(c, j) ==
  /\ Call(c, "cancel")
  /\ owner[j] = UserOf[c] /\ ~Ended(job[j].status)
  /\ SetClient(c, [NoCall EXCEPT !.pc = "cancelPut", !.id = j, !.snap = job[j]])
  /\ UNCHANGED <<storeVars, muVars, semVars, runner, exec>>

(* ... writes back what it read, with the request. *)
CancelPut(c) ==
  /\ client[c].pc = "cancelPut"
  /\ PutJob(client[c].id, [client[c].snap EXCEPT !.cancelRequested = TRUE])
  /\ SetClient(c, NoCall)
  /\ UNCHANGED <<owner, key, tasks, project, muVars, semVars, runner, exec, calls>>

(* Faulty variant: any job that is not running can be retried. *)
RetryableAnyEnd(s) == Ended(s)

Retryable(s) == s \in {"failed", "canceled"}

RetryJob(c, j) ==
  /\ Call(c, "retry")
  /\ owner[j] = UserOf[c] /\ Retryable(job[j].status)
  /\ SetClient(c, [NoCall EXCEPT !.pc = "retryQuota", !.id = j])
  /\ UNCHANGED <<storeVars, muVars, semVars, runner, exec>>

RetryQuota(c) ==
  /\ client[c].pc = "retryQuota"
  /\ SetClient(c, IF QuotaFree(UserOf[c]) THEN [client[c] EXCEPT !.pc = "retryTasks"] ELSE NoCall)
  /\ UNCHANGED <<storeVars, muVars, semVars, runner, exec, calls>>

(* Attempt is not reset. *)
RetryTasks(c) ==
  /\ client[c].pc = "retryTasks"
  /\ SetClient(c, [client[c] EXCEPT !.pc = "retryReplace",
                     !.list = Relabel(tasks[client[c].id], {"failed", "canceled"}, "queued")])
  /\ UNCHANGED <<storeVars, muVars, semVars, runner, exec, calls>>

RetryReplace(c) ==
  /\ client[c].pc = "retryReplace"
  /\ PutTasks(client[c].id, client[c].list)
  /\ SetClient(c, [NoCall EXCEPT !.pc = "retryUpdate", !.id = client[c].id])
  /\ UNCHANGED <<job, owner, key, project, muVars, semVars, runner, exec, calls>>

(* Every field of the job that is modelled is overwritten. *)
RetryUpdate(c) ==
  /\ client[c].pc = "retryUpdate"
  /\ PutJob(client[c].id, NewJob)
  /\ SetClient(c, [client[c] EXCEPT !.pc = "launch"])
  /\ UNCHANGED <<owner, key, tasks, project, muVars, semVars, runner, exec, calls>>

ClientStep(c) ==
  \/ \E k \in Keys : StartJob(c, k)
  \/ \E j \in Jobs : CancelJob(c, j) \/ RetryJob(c, j)
  \/ StartQuota(c) \/ StartCreate(c) \/ StartProject(c) \/ Launch(c) \/ CancelPut(c)
  \/ RetryQuota(c) \/ RetryTasks(c) \/ RetryReplace(c) \/ RetryUpdate(c)

-----------------------------------------------------------------------------
(* runJob *)

At(j, pc) == runner[j].pc = pc

(* Where the loop body goes once the job is known to be started. *)
AfterStart(r) == IF r.cancelRequested THEN "cancelGet" ELSE "list"

RunGet(j) ==
  /\ At(j, "get")
  /\ SetRunner(j, IF Ended(job[j].status) THEN [NoRunner EXCEPT !.pc = "defer"]
                  ELSE [NoRunner EXCEPT !.job = job[j],
                          !.pc = IF job[j].started THEN AfterStart(job[j]) ELSE "begin"])
  /\ UNCHANGED <<storeVars, muVars, semVars, exec, client, calls>>

RunBegin(j) ==
  /\ At(j, "begin")
  /\ LET r == [runner[j].job EXCEPT !.started = TRUE, !.status = "running"]
     IN /\ PutJob(j, r)
        /\ SetRunner(j, [runner[j] EXCEPT !.pc = AfterStart(r), !.job = r])
  /\ UNCHANGED <<owner, key, tasks, project, muVars, semVars, exec, client, calls>>

(* cancelQueuedTasks: GetJobTasks, ReplaceJobTasks, updateProgress *)
RunCancelGet(j) ==
  /\ At(j, "cancelGet")
  /\ SetRunner(j, IF \E t \in Tasks : tasks[j][t].status = "queued"
                  THEN [runner[j] EXCEPT !.pc = "cancelPut", !.list = tasks[j]]
                  ELSE [runner[j] EXCEPT !.pc = "list"])
  /\ UNCHANGED <<storeVars, muVars, semVars, exec, client, calls>>

RunCancelPut(j) ==
  /\ At(j, "cancelPut")
  /\ PutTasks(j, Relabel(runner[j].list, {"queued"}, "canceled"))
  /\ SetRunner(j, [runner[j] EXCEPT !.pc = "progressGet", !.list = NewList])
  /\ UNCHANGED <<job, owner, key, project, muVars, semVars, exec, client, calls>>

RunProgressGet(j) ==
  /\ At(j, "progressGet")
  /\ SetRunner(j, [runner[j] EXCEPT !.pc = "progressPut", !.snap = job[j]])
  /\ UNCHANGED <<storeVars, muVars, semVars, exec, client, calls>>

RunProgressPut(j) ==
  /\ At(j, "progressPut")
  /\ PutJob(j, runner[j].snap)
  /\ SetRunner(j, [runner[j] EXCEPT !.pc = "list", !.snap = Absent])
  /\ UNCHANGED <<owner, key, tasks, project, muVars, semVars, exec, client, calls>>

(* Faulty variant: what did not fail has succeeded. *)
FinalUnlessFailed(r, list) ==
  IF \E t \in Tasks : list[t].status = "failed" THEN "failed" ELSE "succeeded"

FinalStatus(r, list) ==
  IF \E t \in Tasks : list[t].status = "failed" THEN "failed"
  ELSE IF r.cancelRequested \/ \E t \in Tasks : list[t].status = "canceled" THEN "canceled"
  ELSE "succeeded"

(* The job that is finalized is the copy read at the head of the loop. *)
RunList(j) ==
  /\ At(j, "list")
  /\ LET list == tasks[j]
         r    == runner[j].job
     IN \/ /\ AllTerminal(list)
           /\ SetRunner(j, [NoRunner EXCEPT !.pc = "final",
                              !.job = [r EXCEPT !.status = FinalStatus(r, list)]])
           /\ UNCHANGED exec
        \/ /\ ~AllTerminal(list) /\ ReadyTasks(list) = {}
           /\ SetRunner(j, [NoRunner EXCEPT !.pc = "get"])
           /\ UNCHANGED exec
        \/ /\ ReadyTasks(list) # {}
           /\ exec' = [exec EXCEPT ![j] = [t \in Tasks |->
                         IF t \in ReadyTasks(list) THEN [NoExec EXCEPT !.pc = "acquire"] ELSE exec[j][t]]]
           /\ SetRunner(j, [NoRunner EXCEPT !.pc = "wait"])
  /\ UNCHANGED <<storeVars, muVars, semVars, client, calls>>

WaveDone(j) == \A t \in Tasks : exec[j][t].pc = "idle"

RunWait(j) ==
  /\ At(j, "wait") /\ WaveDone(j)
  /\ SetRunner(j, [NoRunner EXCEPT !.pc = "get"])
  /\ UNCHANGED <<storeVars, muVars, semVars, exec, client, calls>>

(* finalizeJob: UpdateJob, GetProject, UpdateProject *)
RunFinal(j) ==
  /\ At(j, "final")
  /\ PutJob(j, runner[j].job)
  /\ SetRunner(j, [runner[j] EXCEPT !.pc = "projectGet"])
  /\ UNCHANGED <<owner, key, tasks, project, muVars, semVars, exec, client, calls>>

RunProjectGet(j) ==
  /\ At(j, "projectGet")
  /\ SetRunner(j, [runner[j] EXCEPT !.pc = "projectPut", !.current = project[owner[j]].current])
  /\ UNCHANGED <<storeVars, muVars, semVars, exec, client, calls>>

(* Faulty variant: only a success is written to the project. *)
ProjectIfSucceeded(j) ==
  project' = IF runner[j].job.status # "succeeded" THEN project
             ELSE [project EXCEPT ![owner[j]] = [current |-> runner[j].current, status |-> "succeeded"]]

PutProject(j) ==
  project' = [project EXCEPT ![owner[j]] =
                [current |-> runner[j].current, status |-> runner[j].job.status]]

RunProjectPut(j) ==
  /\ At(j, "projectPut")
  /\ PutProject(j)
  /\ SetRunner(j, [NoRunner EXCEPT !.pc = "defer"])
  /\ UNCHANGED <<job, owner, key, tasks, muVars, semVars, exec, client, calls>>

RunDefer(j) ==
  /\ At(j, "defer")
  /\ FinishRunner(j)
  /\ SetRunner(j, NoRunner)
  /\ UNCHANGED <<storeVars, semVars, exec, client, calls>>

RunnerStep(j) ==
  \/ RunGet(j) \/ RunBegin(j) \/ RunCancelGet(j) \/ RunCancelPut(j)
  \/ RunProgressGet(j) \/ RunProgressPut(j) \/ RunList(j) \/ RunWait(j)
  \/ RunFinal(j) \/ RunProjectGet(j) \/ RunProjectPut(j) \/ RunDefer(j)

-----------------------------------------------------------------------------
(* executeTask *)

InExec(j, t, pc) == exec[j][t].pc = pc
NeedsScene(t) == t \in SceneTasks

(* updateTask is a read and a write: op says which change it carries. *)
Updating(j, t, op) == [exec[j][t] EXCEPT !.pc = "load", !.op = op]

Change(op, r) ==
  CASE op = "start"   -> [status |-> "running", attempt |-> r.attempt + 1]
    [] op = "again"   -> [r EXCEPT !.attempt = @ + 1]
    [] op = "succeed" -> [r EXCEPT !.status = "succeeded"]
    [] op = "fail"    -> [r EXCEPT !.status = "failed"]
    [] op = "cancel"  -> [r EXCEPT !.status = "canceled"]

ExecAcquire(j, t) ==
  /\ InExec(j, t, "acquire") /\ globalSem < MaxConcurrent
  /\ globalSem' = globalSem + 1
  /\ SetExec(j, t, IF NeedsScene(t) THEN [exec[j][t] EXCEPT !.pc = "scene"] ELSE Updating(j, t, "start"))
  /\ UNCHANGED <<storeVars, muVars, sceneSem, runner, client, calls>>

ExecScene(j, t) ==
  /\ InExec(j, t, "scene") /\ sceneSem[j] < MaxSceneJobs
  /\ sceneSem' = [sceneSem EXCEPT ![j] = @ + 1]
  /\ SetExec(j, t, Updating(j, t, "start"))
  /\ UNCHANGED <<storeVars, muVars, globalSem, runner, client, calls>>

ExecLoad(j, t) ==
  /\ InExec(j, t, "load")
  /\ SetExec(j, t, [exec[j][t] EXCEPT !.pc = "store", !.list = tasks[j]])
  /\ UNCHANGED <<storeVars, muVars, semVars, runner, client, calls>>

AfterUpdate(op) ==
  CASE op = "start" -> "current" [] op = "again" -> "check" [] OTHER -> "progressGet"

ExecStore(j, t) ==
  /\ InExec(j, t, "store")
  /\ LET e == exec[j][t]
     IN /\ PutTasks(j, [e.list EXCEPT ![t] = Change(e.op, @)])
        /\ SetExec(j, t, [NoExec EXCEPT !.pc = AfterUpdate(e.op),
                            !.attempt = IF e.op = "again" THEN e.attempt + 1 ELSE 0])
  /\ UNCHANGED <<job, owner, key, project, muVars, semVars, runner, client, calls>>

(* The loop starts at the attempt found in the store; past the last one the *)
(* task fails with the code UNKNOWN.                                       *)
ExecCurrent(j, t) ==
  /\ InExec(j, t, "current")
  /\ LET n == tasks[j][t].attempt
     IN SetExec(j, t, IF n <= MaxAttempt THEN [exec[j][t] EXCEPT !.pc = "check", !.attempt = n]
                      ELSE Updating(j, t, "fail"))
  /\ UNCHANGED <<storeVars, muVars, semVars, runner, client, calls>>

ExecCheck(j, t) ==
  /\ InExec(j, t, "check")
  /\ SetExec(j, t, IF job[j].cancelRequested THEN Updating(j, t, "cancel")
                   ELSE [exec[j][t] EXCEPT !.pc = "call"])
  /\ UNCHANGED <<storeVars, muVars, semVars, runner, client, calls>>

(* The provider returns: of its own accord, or because the watcher saw the  *)
(* request and canceled the context, with an error that is not retryable.   *)
ExecReturn(j, t) ==
  /\ InExec(j, t, "call")
  /\ \/ "ok" \in Outcomes /\ SetExec(j, t, Updating(j, t, "succeed"))
     \/ /\ "retryable" \in Outcomes
        /\ SetExec(j, t, IF exec[j][t].attempt < MaxAttempt THEN [exec[j][t] EXCEPT !.pc = "backoff"]
                         ELSE Updating(j, t, "fail"))
     \/ "fatal" \in Outcomes /\ SetExec(j, t, Updating(j, t, "fail"))
     \/ job[j].cancelRequested /\ SetExec(j, t, Updating(j, t, "fail"))
  /\ UNCHANGED <<storeVars, muVars, semVars, runner, client, calls>>

(* sleepWithCancel, decided by its last look at the job. *)
ExecBackoff(j, t) ==
  /\ InExec(j, t, "backoff")
  /\ SetExec(j, t, Updating(j, t, IF job[j].cancelRequested THEN "cancel" ELSE "again"))
  /\ UNCHANGED <<storeVars, muVars, semVars, runner, client, calls>>

(* updateProgress writes the whole job back. *)
ExecProgressGet(j, t) ==
  /\ InExec(j, t, "progressGet")
  /\ SetExec(j, t, [exec[j][t] EXCEPT !.pc = "progressPut", !.snap = job[j]])
  /\ UNCHANGED <<storeVars, muVars, semVars, runner, client, calls>>

(* Faulty variants: the slot of the scene semaphore is kept; the slot of     *)
(* globalSem is released by hand and by the deferred call.                 *)
ReleaseGlobal(j, t) == globalSem' = globalSem - 1 /\ UNCHANGED sceneSem
ReleaseTwice(j, t) ==
  /\ globalSem' = globalSem - 2
  /\ sceneSem' = [sceneSem EXCEPT ![j] = IF NeedsScene(t) THEN @ - 1 ELSE @]

ReleaseSlots(j, t) ==
  /\ globalSem' = globalSem - 1
  /\ sceneSem' = [sceneSem EXCEPT ![j] = IF NeedsScene(t) THEN @ - 1 ELSE @]

ExecProgressPut(j, t) ==
  /\ InExec(j, t, "progressPut")
  /\ PutJob(j, exec[j][t].snap)
  /\ ReleaseSlots(j, t)
  /\ SetExec(j, t, NoExec)
  /\ UNCHANGED <<owner, key, tasks, project, muVars, runner, client, calls>>

ExecStep(j, t) ==
  \/ ExecAcquire(j, t) \/ ExecScene(j, t) \/ ExecLoad(j, t) \/ ExecStore(j, t)
  \/ ExecCurrent(j, t) \/ ExecCheck(j, t) \/ ExecReturn(j, t) \/ ExecBackoff(j, t)
  \/ ExecProgressGet(j, t) \/ ExecProgressPut(j, t)

-----------------------------------------------------------------------------
Init ==
  /\ job = [j \in Jobs |-> Absent]
  /\ owner = [j \in Jobs |-> "None"]
  /\ key = [j \in Jobs |-> NoKey]
  /\ tasks = [j \in Jobs |-> NewList]
  /\ project = [u \in Users |-> [current |-> NoJob, status |-> "draft"]]
  /\ active = {}
  /\ running = [u \in Users |-> 0]
  /\ globalSem = 0
  /\ sceneSem = [j \in Jobs |-> 0]
  /\ runner = [j \in Jobs |-> NoRunner]
  /\ exec = [j \in Jobs |-> [t \in Tasks |-> NoExec]]
  /\ client = [c \in Clients |-> NoCall]
  /\ calls = [c \in Clients |-> 0]

Next ==
  \/ \E c \in Clients : ClientStep(c)
  \/ \E j \in Jobs : RunnerStep(j) \/ \E t \in Tasks : ExecStep(j, t)

Spec == Init /\ [][Next]_vars

(* Goroutines are scheduled, and a provider call returns.  A new request is *)
(* nobody's duty: only the steps of one in progress are fair.              *)
FairSpec ==
  /\ Spec
  /\ \A c \in Clients : WF_vars(client[c].pc # "idle" /\ ClientStep(c))
  /\ \A j \in Jobs : WF_vars(RunnerStep(j)) /\ \A t \in Tasks : WF_vars(ExecStep(j, t))

-----------------------------------------------------------------------------
Statuses    == {"queued", "running", "failed", "canceled", "succeeded"}
JobRecords  == [status : Statuses \cup {"absent"}, cancelRequested : BOOLEAN, started : BOOLEAN]
TaskLists   == [Tasks -> [status : Statuses, attempt : Nat]]
RunnerPcs   == {"off", "get", "begin", "cancelGet", "cancelPut", "progressGet", "progressPut",
                "list", "wait", "final", "projectGet", "projectPut", "defer"}
ExecPcs     == {"idle", "acquire", "scene", "load", "store", "current", "check", "call",
                "backoff", "progressGet", "progressPut"}
ClientPcs   == {"idle", "startQuota", "startCreate", "startProject", "launch", "cancelPut",
                "retryQuota", "retryTasks", "retryReplace", "retryUpdate"}

(* The store, the maps of the service and every goroutine's locals hold      *)
(* values of their types.                                                  *)
TypeOK ==
  /\ job \in [Jobs -> JobRecords]
  /\ owner \in [Jobs -> Users \cup {"None"}]
  /\ key \in [Jobs -> Keys]
  /\ tasks \in [Jobs -> TaskLists]
  /\ project \in [Users -> [current : Jobs \cup {NoJob}, status : Statuses \cup {"draft", "absent"}]]
  /\ active \subseteq Jobs
  /\ running \in [Users -> Nat]
  /\ globalSem \in 0..MaxConcurrent
  /\ sceneSem \in [Jobs -> 0..MaxSceneJobs]
  /\ runner \in [Jobs -> [pc : RunnerPcs, job : JobRecords, list : TaskLists, snap : JobRecords,
                          current : Jobs \cup {NoJob}]]
  /\ exec \in [Jobs -> [Tasks -> [pc : ExecPcs, attempt : Nat, list : TaskLists, snap : JobRecords,
                        op : {"none", "start", "again", "succeed", "fail", "cancel"}]]]
  /\ client \in [Clients -> [pc : ClientPcs, id : Jobs \cup {NoJob}, key : Keys, snap : JobRecords,
                             list : TaskLists]]
  /\ calls \in [Clients -> 0..MaxCalls]

Executing(j) == {t \in Tasks : exec[j][t].pc # "idle"}
HoldGlobal == {x \in Jobs \X Tasks : exec[x[1]][x[2]].pc \notin {"idle", "acquire"}}
HoldScene(j) == {t \in SceneTasks : exec[j][t].pc \notin {"idle", "acquire", "scene"}}

(* The bookkeeping of runners and waves is exact: activeRunner names the     *)
(* jobs whose runJob is alive, runningByUser counts them per user, tasks    *)
(* execute only while their runner waits for the wave, and the slots taken  *)
(* of the two semaphores are those of executing tasks: nothing a request,   *)
(* a cancellation or a failure does leaks a slot or a place in the quota.   *)
RunnersAccounted ==
  /\ \A j \in Jobs : j \in active <=> runner[j].pc # "off"
  /\ \A u \in Users : running[u] = Cardinality({j \in active : owner[j] = u})
  /\ \A j \in Jobs : Executing(j) # {} => runner[j].pc = "wait"
  /\ globalSem = Cardinality(HoldGlobal)
  /\ \A j \in Jobs : sceneSem[j] = Cardinality(HoldScene(j))

(* A task is executed, and has a result, only when everything it depends on *)
(* has succeeded in the store: the wave barrier of runJob keeps this true   *)
(* although the tasks of a wave overwrite each other's updates and a retry  *)
(* resets part of the list.                                                *)
DependenciesSucceeded ==
  \A j \in Jobs, t \in Tasks :
    t \in Executing(j) \/ tasks[j][t].status \in {"running", "succeeded", "failed"}
    => \A d \in DependsOn(t) : tasks[j][d].status = "succeeded"

Retrying(j) == \E c \in Clients : client[c].id = j /\ client[c].pc = "retryUpdate"

(* A job's final status matches its tasks: Succeeded only if every task     *)
(* succeeded, Failed only if one failed, Canceled only if none did and the   *)
(* owner asked for it or a task was canceled; and an ended job has no task   *)
(* left to run, except while RetryJob has reset the tasks and not yet the    *)
(* job.  (A call that a cancellation cut short counts as a failed task: see  *)
(* CancelIsNoFailure.)                                                     *)
EndMatchesTasks ==
  \A j \in Jobs :
    /\ job[j].status = "succeeded" => \A t \in Tasks : tasks[j][t].status = "succeeded"
    /\ Ended(job[j].status) /\ ~Retrying(j) => AllTerminal(tasks[j])
    /\ job[j].status = "failed" /\ ~Retrying(j) => \E t \in Tasks : tasks[j][t].status = "failed"
    /\ job[j].status = "canceled" /\ ~Retrying(j) =>
         /\ \A t \in Tasks : tasks[j][t].status # "failed"
         /\ job[j].cancelRequested \/ \E t \in Tasks : tasks[j][t].status = "canceled"

(* One idempotency key makes one job, although StartJob looks the key up     *)
(* long before it creates the job.                                         *)
OneJobPerKey ==
  \A i, j \in Jobs : owner[i] # "None" /\ owner[i] = owner[j] /\ key[i] = key[j] /\ key[i] # NoKey => i = j

Launching(j) == \E c \in Clients : client[c].id = j /\ client[c].pc \in {"startProject", "launch"}

(* A job that is Queued or Running has a runner, or a request is about to    *)
(* start one: RetryJob reports a job as "retry_queued" to have it run.  The   *)
(* code does not keep this with a quota above one: startRunnerIfNeeded may    *)
(* find the old runner, which has ended the job and not yet left            *)
(* activeRunner.                                                           *)
UnfinishedIsServed ==
  \A j \in Jobs : job[j].status \in {"queued", "running"} => j \in active \/ Launching(j)

(* When the single job of a user has ended, and no runner and no request of  *)
(* the user is in progress, the project shows how it ended: StartJob and     *)
(* finalizeJob write the project from different goroutines, RetryJob does    *)
(* not write it, and a retry or a cancellation may write the job before the  *)
(* old runner writes the project.  (With several jobs the last one to end    *)
(* writes its status, current or not.)                                     *)
ProjectShowsJob ==
  \A u \in Users :
    /\ project[u].current # NoJob /\ Ended(job[project[u].current].status)
    /\ \A j \in Jobs : owner[j] = u => j = project[u].current
    /\ \A j \in active : owner[j] # u
    /\ \A c \in Clients : UserOf[c] = u => client[c].pc = "idle"
    => project[u].status = job[project[u].current].status

(* c reopens j: the last write of its RetryJob, or the one of a CancelJob     *)
(* that read the job before it ended.                                      *)
Reopens(c, j) ==
  /\ client[c].id = j
  /\ \/ client[c].pc = "retryUpdate" /\ job[j].status # "succeeded" /\ job'[j] = NewJob
     \/ /\ client[c].pc = "cancelPut" /\ ~Ended(client[c].snap.status)
        /\ job'[j] = [client[c].snap EXCEPT !.cancelRequested = TRUE]

(* A job that has ended changes only when a request of its owner reopens it:  *)
(* a retry, never after success, or a cancellation that is late.  Neither    *)
(* the runner nor a task writes an older copy of the job over its end,       *)
(* although updateProgress and finalizeJob write whole copies, and although  *)
(* a retry may overlap the old runner.                                     *)
OnlyRequestsReopen ==
  [][\A j \in Jobs : Ended(job[j].status) /\ job'[j] # job[j] => \E c \in Clients : Reopens(c, j)]_vars

(* Every job that was created ends (TestJobSuccess). *)
EveryJobEnds == \A j \in Jobs : (job[j].status # "absent") ~> Ended(job[j].status)

(* What TestJobCancel expects of a job canceled while its provider works,     *)
(* with a provider that does not fail of its own accord: not that it Failed. *)
CancelIsNoFailure == \A j \in Jobs : job[j].cancelRequested => job[j].status # "failed"

(* The request CancelJob recorded stays until the job has ended.  The code    *)
(* does not keep this: the runner's older copy of the job overwrites it.    *)
CancelIsKept ==
  [][\A j \in Jobs : job[j].cancelRequested => job'[j].cancelRequested \/ Ended(job[j].status)]_vars

(* A job for which a cancellation is recorded ends (TestJobCancel).  The code *)
(* does not keep this: CancelJob's older copy of the job overwrites its end, *)
(* when no runner is left.                                                 *)
CanceledJobsEnd == \A j \in Jobs : job[j].cancelRequested ~> Ended(job[j].status)
=============================================================================
