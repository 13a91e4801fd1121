SPECIFICATION FairSpec
CONSTANTS
  a = a
  b = b
  c = c
  d = d
  Tasks = {a, b, c, d}
  Workers = {w1, w2}
  Clients = {k1}
  Tokens = {workflow}
  TokenOf <- OneToken
  DepLists <- Pairs
  CpuDemand <- Slots
  RamDemand <- Ram
  VramDemand <- Zeros
  CpuSlotsHard = 2
  RamSoft = 2
  VramSoft = 0
  Priority <- Ranks
  AgingInterval = 1
  AgingBoost = 1
  PauseTimeout = 1
  MaxAge = 1
  Calls = {}
INVARIANTS
  CpuWithinBudget
  OverBudgetRunsAlone
PROPERTIES
  EverySubmittedEnds
CHECK_DEADLOCK FALSE
