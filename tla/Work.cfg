\* Two waves, one at a time, with everything that may go wrong.
SPECIFICATION Spec
CONSTANTS
  a = a
  b = b
  None = None
  Node = {a, b}
  MaxAttempts = 2
  Parallel = 1
  Gauntlet = {b}
  Env <- Everything
INVARIANTS
  CheckpointIsVerified

  
