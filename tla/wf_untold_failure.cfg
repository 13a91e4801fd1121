SPECIFICATION WFairSpec
CONSTANTS
  sb1 = sb1
  im1 = im1
  co1 = co1
  sb2 = sb2
  im2 = im2
  co2 = co2
  g0 = g0
  g1 = g1
  g2 = g2
  Ui = ui
  Tasks = {sb1, im1, co1}
  Workers = {w1}
  Clients = {ui}
  Tokens = {g1}
  TokenOf <- PlanToken
  DepLists <- PlanDeps
  CpuDemand <- Ones
  RamDemand <- Zeros
  VramDemand <- Zeros
  CpuSlotsHard = 2
  RamSoft = 0
  VramSoft = 0
  Priority <- Ranks
  AgingInterval = 1
  AgingBoost = 1
  PauseTimeout = 1
  MaxAge = 0
  Calls = {"cancel"}
  Workflows = {g1}
  Plan <- Chain
  NullStage = {}
  Requires <- HttpInputs
  Provides <- HttpOutputs
PROPERTIES
  BusyEnds
CHECK_DEADLOCK FALSE
