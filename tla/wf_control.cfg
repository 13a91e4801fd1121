SPECIFICATION WFairSpec
CONSTANTS
  sb1 = sb1
  im1 = im1
  co1 = co1
  sb2 = sb2
  im2 = im2
  co2 = co2
  g0 = g0
  g1 = g1
  g2 = g2
  Ui = ui
  Tasks = {sb1, im1, co1}
  Workers = {w1, w2}
  Clients = {ui}
  Tokens = {g0, g1}
  TokenOf <- PlanToken
  DepLists <- PlanDeps
  CpuDemand <- Ones
  RamDemand <- Zeros
  VramDemand <- Zeros
  CpuSlotsHard = 2
  RamSoft = 0
  VramSoft = 0
  Priority <- Ranks
  AgingInterval = 1
  AgingBoost = 1
  PauseTimeout = 1
  MaxAge = 0
  Calls = {"cancel"}
  Workflows = {g0, g1}
  Plan <- Chain
  NullStage = {co1}
  Requires <- NoInputs
  Provides <- NoInputs
INVARIANTS
  WTypeOK
  AnnouncedEarned
  TimerStopsLast
  FreeMeansFinished
PROPERTIES
  CancelIsComplete
  GenerationWindsDown
CHECK_DEADLOCK FALSE
