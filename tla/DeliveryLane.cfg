\* Two waves in one lane.
SPECIFICATION DSpec
CONSTANTS
  a = a
  b = b
  l = l
  m = m
  f = f
  Node = {a, b}
  MaxRetries = 1
  Env <- Everything
  Lane = {l}
  LaneWaves <- Both
  MergeOrder <- OneStep
  Fault <- AllFaults
  Finding = {f}
  RunStore = TRUE
  Trouble <- AllTroubles
INVARIANTS
  AllWorkIntegrated
