\* A gated run in two batches, two lanes of the first clash, and the environment may do everything.
SPECIFICATION OperatedSpec
CONSTANTS
  g = g
  a = a
  b = b
  c = c
  d = d
  Node = {g, a, b, c, d}
  Deps <- GatedDeps
  Batches <- TwoBatches
  HumanGate = {g}
  Pre0 = TRUE
  Rank <- GatedRank
  Clash <- LanesClash
  Gauntlet = {b}
  MaxAttempts = 2
  MaxInfra = 2
  Env <- Everything
INVARIANTS
  
  WorkAfterDeps
  RetryBudgetAgrees
  DoneRunIsComplete
  
  NoClashInFlight
PROPERTIES
  
  SessionEnds
  RunIsFiled
