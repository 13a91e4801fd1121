SPECIFICATION FairSpec
CONSTANTS
  j1 = j1
  j2 = j2
  alice = alice
  c1 = c1
  c2 = c2
  none = none
  k1 = k1
  Jobs = {j1, j2}
  Users = {alice}
  Clients = {c1, c2}
  UserOf <- OneUser
  Keys = {none, k1}
  NoKey = none
  SceneCount = 1
  MaxAttempt = 1
  MaxConcurrent = 2
  MaxUserJobs = 2
  MaxSceneJobs = 1
  CallsOf <- AllStart
  MaxCalls = 1
  Outcomes = {"ok"}
INVARIANTS
  OneJobPerKey
PROPERTIES
  EveryJobEnds
CHECK_DEADLOCK FALSE
