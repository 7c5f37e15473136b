CONSTANTS
  Plan <- ThreePlans
  Length <- Lengths
  Gated <- Gates
  MaxTurns <- Turns
  Settings <- Configured
  Verdict <- Verdicts
SPECIFICATION Spec
INVARIANTS
  
  GatesHold
  TurnsEnd
CHECK_DEADLOCK FALSE
