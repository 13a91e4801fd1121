SPECIFICATION Spec
CONSTANTS
  j1 = j1
  j2 = j2
  alice = alice
  c1 = c1
  c2 = c2
  none = none
  k1 = k1
  Jobs = {j1}
  Users = {alice}
  Clients = {c1, c2}
  UserOf <- OneUser
  Keys = {none}
  NoKey = none
  SceneCount = 1
  MaxAttempt = 2
  MaxConcurrent = 2
  MaxUserJobs = 2
  MaxSceneJobs = 2
  CallsOf <- Roles
  MaxCalls = 2
  Outcomes = {"ok", "retryable", "fatal"}
INVARIANTS
  TypeOK
  RunnersAccounted
  DependenciesSucceeded
  EndMatchesTasks
  ProjectShowsJob
PROPERTIES
  OnlyRequestsReopen
CHECK_DEADLOCK FALSE
