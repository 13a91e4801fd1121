SPECIFICATION FairSpec
CONSTANTS
  a = a
  b = b
  c = c
  d = d
  Tasks = {a, b, c, d}
  Tokens = {a, b, c, d}
  TokenOf <- OwnToken
  DepSets <- Graph
  Priority <- Ranks
  Calls = {"cancel", "pause", "resume"}
INVARIANTS
  InputsPresent
  ToldTheTruth
PROPERTIES
  EndsOrIsHalted
CHECK_DEADLOCK FALSE
