# TLA+ verification of StoryToVideo (stv-renew)

StoryToVideo turns a story into a video: a storyboard stage, image (and speech)
stages per scene, and a compose stage. The repository holds a C++ desktop
application with its own task scheduler, a Go server that runs the same graph as
"jobs", and a Python inference server. This directory holds the TLA+ models of
the parts that carry the program's logic, the TLC configurations that check them
and the TLAPS proofs.

## 1. Inventory

| Component | State | Operations | Who touches it |
|---|---|---|---|
| Task state machine `core/src/task.cpp` | `state`, `paused_from` of a task | `transition_to`, `is_terminal` | every scheduler |
| `ThreadPoolScheduler` `core/src/thread_pool_scheduler.cpp` | nodes, `successors_`, `ready_set_`, `running_set_`, `resource_in_use_`, `stopping_` | `submit`, `cancel`, `pause`, `resume`, `tick`, destructor; `worker_loop`, `handle_progress_callback`, `finalize_execution` | client threads, worker threads; state callbacks are made outside the mutex |
| `SimpleScheduler` `core/src/scheduler.cpp` | a vector of entries | the same interface, executed inside `tick` | one thread |
| `CancelToken` `core/src/cancel_token.cpp` | a flag, a list of callbacks | `request_cancel`, `on_cancel` | scheduler, stages; one token per workflow |
| `WorkflowEngine` `core/src/orchestrator.cpp` | `active_workflows_` | `start_workflow`, `cancel_workflow`, `handle_state_change` | UI thread, worker threads (callbacks) |
| `Presenter` `app/src/presenter.cpp` | `busy_`, `current_trace_id_`, the timer | `startGeneration`, `cancelGeneration`, `onTick`, the queued completion | UI thread |
| Stages `infra/src/stages.cpp`, `core/src/pipeline.cpp` | none of their own | `execute` | worker threads |
| HTTP client `infra/src/http_client.cpp`, `curl_http_client.cpp` | retry counter, table of requests in flight | `execute`, `cancel` | worker threads |
| Job service `server/internal/job/service.go` | `activeRunner`, `runningByUser`, semaphores; jobs and tasks in the store | `StartJob`, `CancelJob`, `RetryJob`, `runJob`, `executeTask`, `finalizeJob` | one goroutine per request, per job and per executing task |
| Event hub and SSE `server/internal/events/hub.go`, `api/handlers_jobs.go` | subscribers with bounded channels, the stored event log | `Publish`, `Subscribe`, `streamJobEvents` | job goroutines, request goroutines |
| Auth, projects, exports (Go) | records of the memory store | request handlers | request goroutines |
| Task registry (Python) | a table of requests | `register`, `complete`, `fail`, `cancel` | endpoint coroutines |

Behaviours that are hard: the scheduler releases its mutex between deciding and
acting (`pause` after a timeout, `tick` after its scan, every callback); a stage
goes on executing after its task was canceled; the Go server performs every
update of a job or a task list as an unprotected read, change and write;
retries, cancellation and completion of a job race with its runner. The
WorkflowEngine's callback runs without a lock on every worker; the HTTP client
looks at its cancel token only between waits; an event is numbered, stored and
published in separate steps. PROJECT.json
lists each hazard with its line and the properties that cover it.

What makes the components correct: the scheduler never runs a task before what
it depends on has succeeded, never leaves a task behind one that failed, never
revives an ended task, announces each end once, keeps its budgets, and lets its
callers and its destructor return; the engine reports a success only when every
task succeeded, and a canceled or rolled-back generation leaves nothing running; an
HTTP call is retried as often as configured, not after a cancellation, and returns;
a job ends, in a state that matches its tasks, and its owner's quota is returned;
an event of a stream is written, or it is known why not.

## 2. Modules

| Module | Models |
|---|---|
| `TaskState` | the states and the transition table of `core/src/task.cpp` |
| `ThreadPoolScheduler` | the scheduler, complete |
| `TaskLifecycle` | what a scheduler promises: the abstract specification |
| `MCThreadPool` | instances for TLC |
| `ThreadPoolSchedulerProofs`, `ThreadPoolAccountProofs`, `ThreadPoolGraphProofs` | theorems: types, sets and ends; announcements and resources; dependencies and refinement |
| `SimpleScheduler`, `MCSimpleScheduler`, `SimpleSchedulerProofs` | the tick-driven scheduler, complete; its instance; theorems |
| `Workflow`, `MCWorkflow`, `WorkflowProofs` | WorkflowEngine and Presenter, composed with `ThreadPoolScheduler`; its instances; theorems |
| `HttpStages`, `MCHttpStages`, `HttpStagesProofs` | the stages, the retrying client, the curl client and the cancel token; its instance; theorems |
| `JobService`, `MCJobService`, `JobServiceProofs` | the Go server's job service and the part of the memory store it uses; its instances; theorems |
| `EventStream`, `EventStreamProofs` | the event log, the hub and the SSE handler of the Go server; theorems |

### ThreadPoolScheduler

One action is one critical section under `mutex_`. Between two critical sections
of one call the thread has a program counter (`cpc`, `wpc`) and remembers what it
is about to act on (`cset`, `wtask`). `outbox[thread][task]` holds the events the
thread collected and has not yet passed to the callback; `Deliver` is the call of
the callback. A thread takes the mutex again only when its outbox is empty, as
`dispatch_events` returns only then.

| Action | Code |
|---|---|
| `SubmitAccept`, `SubmitBlocked`, `SubmitReject` | the three ways through `submit` that change anything; `SubmitReject` keeps the edges pushed before the error |
| `Cancel` | `cancel` with `propagate_dependency_canceled_locked` |
| `PauseIdle`, `PauseRunning`, `PauseReturn`, `PauseExpire`, `PauseCancel` | `pause`: at once, or the request, the two outcomes of the timed wait, and the `cancel` after the timeout |
| `Resume`, `TickScan`, `TickCancel` | `resume`; the scan and the cancels of `tick` |
| `Dispatch` | `worker_loop` up to the execution: `pick_candidate_locked`, reservation, Running |
| `Progress`, `Checkpoint`, `Unpark` | `handle_progress_callback`: a report, a pause point, the end of the wait there |
| `FinishOk`, `FinishLate`, `FinishErr` | `finalize_execution` by result, with `wake_successors_locked` or the propagation |
| `Exit`, `Stop` | a worker leaves its loop; the destructor begins |
| `ClockTick` | the monotonic clock, which drives the pause deadline and aging |

`successors_` is a bag (`succ[d][t]` counts entries), because `submit` may push an
edge twice and `wake_successors_locked` decrements once per entry. A wait on `cv_`
is the guard of the step that follows it: every change of a state a wait looks at
is followed by `notify_all`. Two tasks that became Ready in the same clock unit
are unordered, which covers every order the finer clock and the tie on `task_id`
can produce. Left out: progress values, timestamps, error texts, trace ids,
outputs and the inputs built from them, logging.

### TaskLifecycle

A task is absent, pending, active, done or aborted. It starts when all it needs is
done; failure or cancellation aborts, in one step, the task and everything that
needs it. `ThreadPoolScheduler` maps its states to these (`StatusOf`) and its
`deps` to `needs`; the run `pool_control` checks `ImplementsLifecycle`.

### SimpleScheduler

`tick` releases the lock while it executes a stage, so it is two actions,
`TickBegin` (promotions and choice) and `TickEnd` (the result), and `Cancel`, `Pause`,
`Resume` and the stage's `Progress` come in between. `submit` is called on the thread
that ticks, and not from a stage. `told[t]` is what the callback was told last: the
code tells it the result also when `transition_to` refused it. `outputs` is the set of
tasks whose `last_outputs` were stored. Table and `paused_from` are those of `TaskState`.

### Workflow

`Workflow` EXTENDS `ThreadPoolScheduler` and uses its actions: the interface thread is
its only client. `start_workflow`, its rollback and `cancel_workflow` make one scheduler
call per step (`SubmitNext`, `SubmitFails`, `CancelNext`), while the workers go on.

| Action | Code |
|---|---|
| `StartRefused`, `StartGeneration`, `Register`, `StartFailed` | `Presenter::startGeneration` around `start_workflow`; the workflow enters `active_workflows_` only in `Register` |
| `SubmitNext`, `SubmitFails`, `CancelNext` | the body of `start_workflow`, and the rollback |
| `CancelGeneration`, `CancelNext`, `CancelReturns` | `cancelGeneration` and `cancel_workflow` |
| `HandleEvent`, `CountDone`, `TestDone` | `handle_state_change` on the delivering thread: the lookup (an event of an unregistered workflow is dropped) and the read of `completed`, its write, and the test `completed == total` |
| `CompletionRuns` | the completion queued to the interface thread |
| `OnTick` | `Presenter::onTick` |
| `WorkerActs` | the scheduler's worker; a stage fails if it lacks an input it insists on (`Requires`, `Provides`, `Fed`) |

The race on the vector `active_workflows_` itself (a `push_back` while a worker scans
it) is undefined behaviour in the code; the model lets the scan see the vector before
or after. Status text, progress display and log are left out.

### HttpStages

Each call (an execution of a stage, or a use of the client without a token) runs on
its own thread: `Begin` or `RejectInput`, then `Check`, `BeginTransfer` (which waits for
`curl_mutex_`), the end of the transfer (`TransferFails`, `TransferAnswers`), and on a
retryable error `BackoffSlice`s and `BackoffEnd`. A transfer ends in any way libcurl
can end it, by `CURLE_ABORTED_BY_CALLBACK` only if its token is canceled. The token is
canceled directly (`CancelToken`) or by request id (`CancelRequest`); the flag is set
first and the callbacks run in a later step (`RunCallbacks`), as `request_cancel` does;
`on_cancel` is the test and the append (`OnCancelTest`, `OnCancelAdd`). The guard in
`CurlHttpClient::execute` owns a null pointer and never unregisters the request, and
`Release` leaves `inFlight` alone accordingly. Durations are counted in sleep slices.
Bodies, headers and JSON extraction are left out; request ids are distinct.

### EventStream

One job, several publishing goroutines, one client. `AppendEvent` numbers and stores an
event, `Publish` sends it if the subscription has room, in a separate step. The handler
reads the backlog (`Connect`), subscribes (`Subscribe`), writes the backlog and then the
channel; a client that lost its connection resumes after some event it has received.
`missed` remembers what was published to an open handler and did not reach its channel.

### JobService

`MemoryStore` protects each of its methods with a lock and returns copies, so a
store call is atomic and what happens between two calls is not. One action is one
store call or one section under `Service.mu`; the copy a goroutine holds in between
is a local of that goroutine (`client[c]`, `runner[j]`, `exec[j][t]`) and is written
back whole, as the code does.

| Action | Code |
|---|---|
| `StartJob`, `StartQuota`, `StartCreate`, `StartProject`, `Launch` | `StartJob`: lookup of the key, quota, `CreateJob` (which looks the key up again), project, `startRunnerIfNeeded` |
| `CancelJob`, `CancelPut` | the read and the write of `CancelJob` |
| `RetryJob`, `RetryQuota`, `RetryTasks`, `RetryReplace`, `RetryUpdate`, `Launch` | `RetryJob` |
| `RunGet`, `RunBegin`, `RunCancelGet`, `RunCancelPut`, `RunProgressGet`, `RunProgressPut`, `RunList`, `RunWait` | one turn of `runJob`, with `cancelQueuedTasks`; `RunList` finalizes, polls again or starts a wave of goroutines, `RunWait` is `wg.Wait` |
| `RunFinal`, `RunProjectGet`, `RunProjectPut`, `RunDefer` | `finalizeJob`, and the deferred `finishRunner` |
| `ExecAcquire`, `ExecScene` | the two semaphores of `executeTask` |
| `ExecLoad`, `ExecStore` | `updateTask`: the read and the write of the whole list, with the change `op` |
| `ExecCurrent`, `ExecCheck`, `ExecReturn`, `ExecBackoff` | the loop over attempts: the starting attempt, the look at the cancel request, the provider's result, the wait before the next attempt |
| `ExecProgressGet`, `ExecProgressPut` | `updateProgress`, and the deferred release of the slots |

A job is its status, `CancelRequested` and whether `StartedAt` is set; a task is its
status and `Attempt`. The provider returns one of `Outcomes`, or the error that
follows from its canceled context. The reads of `updateProgress` that only feed the
progress value, error codes and messages, timestamps, assets and published events
are left out; so are the errors the store returns for ids that do not exist, which
no caller can see because jobs are never deleted. Each user has one project.

## 3. Runs

Passing:

| Run | Instance | Shows |
|---|---|---|
| `pool_control` | 3 tasks (b needs a, c needs a and b), 2 workers, 1 client, all calls and the destructor | types, agreement of the sets, exact resource accounting, dependency order, no orphans, tokens, ends announced once and final, refinement |
| `pool_clients` | 2 tasks in a chain, 2 workers, 2 clients with `cancel`, `pause`, `tick` and the destructor | ends are announced once also when two clients act on stale information; `pause` and `tick` return even if stages hang, and parked workers let the destructor go |
| `pool_budget` | 4 tasks in two dependent pairs with one token, different demands and priorities, 2 workers | hard and soft budgets; every submitted task ends nevertheless |
| `simple_ticks` | 4 tasks (c needs a and b, d needs c, b may need a), `cancel`, `pause` and `resume` during execution | a stage that is executed finds its inputs; the callback's view and the state differ only for results that came too late; `tick` overlooks no task |
| `wf_control` | one generation: a storyboard, an image and a compose task on 2 workers, a stage factory that may lack the last stage; a request without scenes | what is announced did succeed; a free presenter or a stopped timer means an idle scheduler; cancellation and rollback are complete; the generation winds down |
| `http_calls` | an HTTP stage and a mock stage with one token, a call without token, one `on_cancel`, 2 retries, backoff 1, 2, 3 | attempts are bounded and spent, cancellation stops retries and is not made up, callbacks run at most once, every call returns |
| `stream_events` | 2 publishers, 4 events, a channel of 2 | an event is written, on its way, or was missed by the handler that was open: no event disappears otherwise |
| `job_control` | 1 job, 4 tasks, the default quota of two, a client that starts and retries, one that cancels, two scene tasks at a time, every provider outcome | semaphores and quota are exact, waves respect dependencies, the final status matches the tasks; a retry or a late cancellation is all that changes an ended job, although a retry overlaps the old runner; the project shows how the job ended |
| `job_start` | 2 requests at once, equal, different or no keys, 2 jobs sharing the global semaphore | one job per key; every job ends when scene tasks run one at a time |

Violations, each a disagreement between the code and what the repository says of
it (quoted in PROJECT.json, "findings"):

| Run | Property | What TLC finds |
|---|---|---|
| `wf_untold_failure` | `BusyEnds` | `start_workflow` drops the story, the storyboard task fails for want of it, and no failure or cancellation is ever reported: the presenter stays busy |
| `job_lost_update` | `EveryJobEnds` | with two scene tasks at a time, one overwrites the other's Succeeded with Running and the job never ends |
| `job_cancel_failed` | `CancelIsNoFailure` | a job canceled while its storyboard executes ends Failed (`service.go:445`), where `TestJobCancel` waits for Canceled |

Known deviations, stated. For each of these the module has a formula the code does not
keep; it is in no run, and the last column says from which configuration TLC finds it
violated and what to change there.

| Formula | What the code does | To see it |
|---|---|---|
| `DependenciesMet` | a rejected `submit` leaves an edge behind; the same id, submitted again with another list, is released by it (`thread_pool_scheduler.cpp:127`; `docs/M3_SCHEDULER_DESIGN.md:65` speaks of successors only) | `pool_control`, `DepLists <- Again`, no calls |
| `QueuedTaskWaits` | a task paused while Queued misses the wakeup of its last dependency and is Queued for ever after `resume` (`:619`) | `pool_control` |
| `TokenMeansCanceled` | `cancel` of a task that has succeeded cancels the token it shares (`:182`; the design speaks of a running task) | `pool_budget`, `Calls = {"cancel"}` |
| `RunningIsExecuted` | `resume` of a Ready task that was never paused makes it Running with nobody to execute it (`scheduler.cpp:103`; `scheduler.h:70`: "Resume a paused task") | `simple_ticks` |
| `SuccessIsEarned` | two threads find `completed == total` after the last success, the completion is posted twice, and the presenter, which ignores the trace id, shows the next generation as completed while it executes, and is free (`orchestrator.cpp:205`, `presenter.cpp:19`) | `wf_control` without fairness and properties, `Workflows = {g1, g2}`, all six tasks, a token per workflow |
| `CompletedIsMissed` | a completed request is still found by its id, and the cancel hits the token of the whole workflow (`curl_http_client.cpp:97`; `http_client.h:88` promises false for a completed request) | `http_calls` |
| `ResumeSkipsNothing` | an event published between the backlog and the subscription, or to a full channel, is skipped by the client that resumes after a later one (`handlers_jobs.go:120`, `hub.go:60`) | `stream_events` |
| `CancelIsKept` | the runner's older copy of the job overwrites the cancel request (`service.go:253`) | `job_cancel_failed` |
| `CanceledJobsEnd` | the older copy of a `CancelJob` overwrites the end of the job, whose runner has gone (`:143`) | `job_cancel_failed` under `FairSpec`, `MaxSceneJobs = 1` |
| `UnfinishedIsServed` | with the default quota of two (`config.go:26`), a retry between `finalizeJob` and `finishRunner` starts no runner, and the job is Queued for ever (`:212`) | `job_control` |

Other deviations the models reach, which contradict no document of the repository:

* Scheduler: a worker's Running can be delivered after the client's Canceled
  (`thread_pool_scheduler.cpp:475`); `pause` reports a cancellation of a task that ended
  after the timeout (`:276`); a pause that was answered and resumed before its caller woke
  still times out (`:255`).
* `SimpleScheduler`: the callback is told Succeeded of a task that is Canceled or
  Paused (`scheduler.cpp:198`); dependents of a failed task stay Queued.
* Engine: events delivered before `Register` are dropped, and two threads can lose an
  increment of `completed`, so a generation whose tasks all succeeded is never
  reported (`orchestrator.cpp:144`, `:199`).
* HTTP: a retry of a request without token creates a fresh one, so a cancel by id is
  forgotten; a callback appended after the flag was set and the list was run is never
  called (`cancel_token.cpp:37`).
* Job service: two concurrent `StartJob` calls both pass the quota check, which is in
  another critical section than the increment (`service.go:79`), and with equal keys
  the later one may write "running" to the project of a job that has ended (`:105`), so
  `ProjectShowsJob` needs one starting client; a failed task leaves its dependents Queued
  and the runner polls for ever (`:275`); `RetryJob` keeps `Attempt`, so a task that used
  up its attempts fails again without a call of the provider (`:355`).
* Event stream: events can arrive out of order, and twice on one connection.

The instances of the passing job runs say what the properties need. `EveryJobEnds` holds
with one scene task at a time and a provider that succeeds; dependency order, the final
status and the project hold with one client that starts and retries.

Bounds. Three tasks are the least for a join, a chain of propagation and a
diamond with a repeated path; two workers the least for two concurrent
executions; two clients the least for a call acting on what another changed; four
tasks the least for a pair that fits both budgets, a pair that only exceeds the
CPU slots, and a task over the soft limit. `PauseTimeout = 1` suffices because only
"expired or not" is observed; `MaxAge = 0` leaves scores to priorities, as aging
enters only through a comparison (`pool_budget` has `MaxAge = 1`). A task id is submitted successfully at most once
(the code refuses a known id), so no other counter grows without bound. In the job
service one scene gives a wave with two parallel tasks, which is all that a lost
update or a semaphore needs; `MaxAttempt` of two includes a backoff and a last
attempt; `MaxCalls` bounds the requests of a client, and two let it start a job and
retry it. The quota in `job_control` is two, the default, so that a retry need not wait
for the old runner. In `wf_control` the
successes of consecutive tasks are delivered by two workers, which is what a lost
increment, a late event and an early event need; a second image multiplies the states
without a new case. One generation suffices: `AnnouncedEarned`, `TimerStopsLast` and
`CancelIsComplete` are proved for any number, and `FreeMeansFinished` is false with two
(the completion that violates `SuccessIsEarned` frees the presenter early).
In `http_calls` two retries give a first, a middle and a last
attempt, and a cap of 3 is reached by doubling 1 twice; three calls make two of them
wait for the handle. In `stream_events` four events fill a channel of two, and leave
one to drop and one to write. Symmetry is over threads,
and is used only in runs without liveness.
Deadlock checking is off: with nothing submitted, after the destructor, or when the
requests are used up, the system may rest.

Fairness. `ThreadFairness`: a thread that holds its next step is eventually
scheduled, callbacks return, the clock advances. `StageFairness` (strong): a stage
makes finitely many progress calls and returns; only `pool_budget` uses it.
`SimpleScheduler!FairSpec`: the timer ticks while tasks are pending, and stages return.
`WFairSpec`: every thread goes on with its call or its callback; the event loop serves
queued completions and the timer however often the user clicks (strong, as a click may
come first any number of times); stages return. `HttpStages!FairSpec`: threads go on,
and a transfer ends, by `CURLOPT_TIMEOUT_MS` at the latest; fairness of a call that
waits for the mutex is weak, which suffices because the calls of an instance are finitely
many and each holds it finitely often.
`JobService!FairSpec`: a goroutine in the middle of a request, a runner and an
executing task are scheduled, and a provider call returns (the only provider, the
mock, sleeps for a bounded time or until its context ends); nobody is obliged to
make a request.

## 4. Proofs

Every theorem holds for all constants that satisfy the assumptions of its module
(`TaskAssumption`, `HttpAssumption`, `JobAssumption`, ...): any tasks, jobs, users,
threads, graphs, budgets and bounds. A theorem that needs more says so in its
statement; those hypotheses are restrictions on how the component is used, and TLC
finds a counterexample when one is dropped.

**`ThreadPoolSchedulerProofs`**

* `TypeCorrect`: `Spec => []TypeOK`.
* `SetsAlwaysAgree`: `Spec => []SetsAgree`. `SetsAgree` with `TypeOK` is inductive
  because it also says that a worker's task is active or Canceled and that a worker
  executes a Paused task only when stopping; without these two conjuncts
  `finalize_execution` could be reached in a state that breaks the others. Each
  action has its lemma (`CancelLockedAgree`, `EndAgree`, `DispatchAgree`, ...).
* `CpuAlwaysWithinBudget`: the hard CPU budget.
* `EndsAreFinal`: the action property `EndIsFinal`, from the same invariant.

**`ThreadPoolAccountProofs`**, the books the scheduler keeps.

* `EndAlwaysAnnouncedOnce`. The count of `EndAnnouncedOnce` is replaced by what it
  means: the end of a task was told, or exactly one thread holds it (`ToldOnce`). This
  is inductive together with two facts: a batch tells an end last (`EndsLast`), and a
  caller that waits in `pause` has nothing to dispatch (`WaitersSilent`), so that its
  later `cancel` cannot bury an event of its own.
* `EndsAlwaysTrue`: what the callback hears of the end of a task is how it ended.
* `CanceledStageAlwaysTold`, from `SetsAgree`.
* `UsageAlwaysSumOfRunning` and `OverBudgetAlwaysAlone`. The sum over `running_set_` is
  a fold over a finite set. That such a fold grows by the demand of the added task is
  proved without the library's induction rule: a minimal counterexample exists by the
  well-foundedness of strict inclusion (`MinimalSet`, `SumExists`), and the fold is the
  unique additive function (`FoldIsAdditive`, `SumProperties`). The soft budget then
  follows: when a task that was over it leaves, the sum over the empty set is zero.

**`ThreadPoolGraphProofs`**, the dependency graph. `StepKinds` first reduces the
actions of the scheduler to five kinds by what they do to the graph.

* `RememberedAreSubmitted`: what `pause` and `tick` act on after they released the
  mutex still names submitted tasks.
* `DependenciesAlwaysMet`, `NeverOrphans` and `SchedulerImplementsLifecycle`, the
  refinement of `TaskLifecycle`, initial states and steps. All three assume `SameDeps`:
  an id is always submitted with the same set of dependencies. The invariant `GraphInv`
  relates `successors_` to the lists (`EdgesMatch`: one entry per mention), bounds the
  edges a refused submission may have left (`StrayEdges`), and says that `unmet_deps`
  never undercounts (`CountsCover`); it may overcount, because a task paused while
  Queued is passed over by `wake_successors_locked`. Without `SameDeps` TLC needs nine
  steps to violate `DependenciesMet`: the edge of a refused submission releases a later
  one with other dependencies (`thread_pool_scheduler.cpp:127`). The application uses
  fresh ids, so it satisfies `SameDeps`.

**`SimpleSchedulerProofs`**: `InputsAlwaysPresent` and `AlwaysToldTheTruth`. `SimpleInv`
adds to them that `paused_from` has a value exactly while a task is Paused, that the
task in execution is Running or was canceled or paused since, and that a task which
was once eligible has all its dependencies Succeeded, for good.

**`HttpStagesProofs`**: `CallsTypeCorrect`, `RetriesAlwaysSpent`,
`CancelAlwaysStopsRetries`, `CanceledAlwaysMeant`, `CallbackAlwaysRunsOnce`, from
`HttpInv`, which says of each call how its attempts relate to `retry_count` at each
place (`AttemptsCounted`), that an attempt begun late leaves no way back to the queue
for `curl_mutex_` (`LateOnce`), and of each observer that a listed callback has run
only if the token's list was run and will not be run again (`ObserverOK`).

**`EventStreamProofs`**: `EventsAlwaysStored` and `EventsAlwaysAccounted`; the two
properties are inductive together.

**`JobServiceProofs`**

* `KeysMakeOneJob`: only `StartCreate` writes `owner` and `key`, and it creates a job in
  the step in which it finds that no job of the user has the key. The earlier lookup in
  `StartJob` is not used.
* `ServiceTypeCorrect` and `RunnersAlwaysAccounted`, without conditions. `JobInv` adds
  that every runner and every request acts on a job that exists and belongs to the
  request's user, and that a copy about to be written back is one of a job. The counts
  change by one with the set they count (`StartAccount`, `DeferAccount`,
  `AcquireAccount`, `ReleaseAccount`), so the clamp in `finishRunner` never acts.
* `DependenciesAlwaysSucceeded` and `EndAlwaysMatchesTasks`, if `OneDriver`: at most one
  client of each user starts or retries; any number may cancel. `DrivenInv` says that a
  request that retries or launches a job has it for itself (`RequestsApart`), that a job
  has not ended while its runner is in the loop, in the store and in every copy
  (`LoopUnended`), and that a list fits the wave (`FitsWave`): executing tasks are
  independent, what they depend on has succeeded and what depends on them has not run,
  in the store and in the copies. That is why the lost updates of a wave never make a
  task run early (`StoreFits`). Two requests that retry one job break both properties:
  the second resets the list while the first one's runner executes.
* `EndedOnlyReopened`, under the same condition: no runner and no task writes over the
  end of a job, for any quota and with cancellations (`EndKept`); the two requests that do
  are named in the property (`PutsReopen`, `PutsUnended`), the late cancellation among
  them because the code does it (`service.go:143`).
* `ProjectAlwaysShowsJob`, under the same condition and for any quota. `ProjectInv` says
  that if the job is ended while `finalizeJob` holds its copy, it has the status of the
  copy, and that once no runner of the user is before its deferred call and no request is
  launching, the project shows the job; a retry before the old runner's write, and a
  cancellation that revives the job, are covered.

**`WorkflowProofs`**, engine and presenter on top of the scheduler.

* `WorkflowUsesScheduler`: `WSpec => Spec`, so every theorem about the scheduler holds
  under the engine. It needs `WorkflowAssumption`: the client may call `cancel`, and the
  dependency lists `start_workflow` builds are among those the scheduler is given.
* `WorkflowTypeCorrect` and `CompletionAlwaysEarned`. `CountsCovered` bounds `completed`,
  and the value a thread is about to write to it, by the number of tasks whose success
  was delivered (`DoneTold`, a set that only grows). The unsynchronised increments may
  lose one and never make one up; a count equal to the length of the plan therefore
  means that all of it has Succeeded.
* `CancelAlwaysComplete`: `cancel()` leaves its task ended (`CancelEnds`), and ends stay,
  so `ProgressOK` is kept while the workers act between the calls of a cancellation. The
  rollback visits every task `start_workflow` has submitted (`RollbackVisits`), so the
  same holds when it returns.
* `TimerAlwaysStopsLast`, for any number of generations: `TimerInv` says that a task is
  alive only under a running timer or in a call that will start it or roll back. The
  other claim about an idle scheduler, `FreeMeansFinished`, depends on the completions,
  which come too late for the second of two generations; like `SuccessIsEarned` it has no
  theorem, because the code does not ensure it.

Only model-checked: liveness, as fairness is outside the prover
(`PauseCallReturns`, `DestructorReturns`, `EverySubmittedEnds`, `EndsOrIsHalted`,
`GenerationWindsDown`, `CallsReturn`, `EveryJobEnds`), and `FreeMeansFinished`. Every
other safety property of the passing runs is a theorem.

## 5. Plan

1. (done) `ThreadPoolScheduler`, its abstract lifecycle and first theorems;
   `JobService`.
2. (done) `SimpleScheduler`, `Workflow`, `HttpStages`, `EventStream`.
3. (done) Theorems about every safety property of `ThreadPoolScheduler`,
   `SimpleScheduler`, `HttpStages`, `EventStream` and `JobService`.
4. (done) Theorems about `Workflow`, on top of those about the scheduler it extends.
5. Hazards without a property: the second rotation of a refresh token and the
   overwritten cancellation of the Python task registry need a module each.

## 6. Not modelled

Authentication (`server/internal/auth`), projects, exports and the Python inference
server are not modelled: apart from cryptography, validation and file serving they
consist of single store calls; the two places where that is not so (the refresh of a
token, the Python task registry) are listed as hazards. Stubs (`HttpBackendApi`, the SSE client), token storage, loggers and path services are
input and output without decisions. QML, thin presenters, configuration and
routing keep no state. The mock providers and ffmpeg are environments: their
outcomes are inputs of the models. The order of scheduling inside one clock unit,
wall-clock durations and memory orders other than the mutex's are abstracted.
