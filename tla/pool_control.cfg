SPECIFICATION Spec
CONSTANTS
  a = a
  b = b
  c = c
  d = d
  Tasks = {a, b, c}
  Workers = {w1, w2}
  Clients = {k1}
  Tokens = {a, b, c}
  TokenOf <- OwnToken
  DepLists <- Chain
  CpuDemand <- Zeros
  RamDemand <- Zeros
  VramDemand <- Zeros
  CpuSlotsHard = 0
  RamSoft = 0
  VramSoft = 0
  Priority <- Zeros
  AgingInterval = 1
  AgingBoost = 1
  PauseTimeout = 1
  MaxAge = 0
  Calls = {"cancel", "pause", "resume", "stop"}
SYMMETRY ThreadSymmetry
INVARIANTS
  TypeOK
  SetsAgree
  DependenciesMet
  NoOrphans
  CanceledStageIsTold
  EndAnnouncedOnce
  UsageIsSumOfRunning
PROPERTIES
  EndIsFinal
  ImplementsLifecycle
CHECK_DEADLOCK FALSE
