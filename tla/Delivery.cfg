\* Two waves in two lanes and three batches, with everything that may go wrong.
SPECIFICATION FairDelivery
CONSTANTS
  a = a
  b = b
  l = l
  m = m
  f = f
  Node = {a, b}
  MaxRetries = 1
  Env <- Everything
  Lane = {l, m}
  LaneWaves <- OneEach
  MergeOrder <- ThreeSteps
  Fault <- AllFaults
  Finding = {f}
  RunStore = TRUE
  Trouble <- AllTroubles
INVARIANTS
  ProcessedIsVerified
  BatchesGated
  AtMostOnePr

  
