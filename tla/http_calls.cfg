SPECIFICATION FairSpec
CONSTANTS
  image = image
  mock = mock
  bare = bare
  workflow = workflow
  Calls = {image, mock, bare}
  KindOf <- Kinds
  Tokens = {workflow}
  TokenOf <- Shared
  NoToken = none
  MaxRetries = 2
  InitialBackoff = 1
  BackoffMultiplier = 2
  MaxBackoff = 3
  MockSteps = 1
  Observers = {o1}
  Observed <- Watch
INVARIANTS
  TypeOK
  RetriesAreSpent
  CancelStopsRetries
  CanceledIsMeant
  CallbackRunsOnce
PROPERTIES
  CallsReturn
CHECK_DEADLOCK FALSE
