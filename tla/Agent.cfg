\* Agents that talk, hang, run away, hit limits or die; interrupts and crashes.
SPECIFICATION ASpec
CONSTANTS
  Line <- SomeLines
  PipeSize = 1
  MaxToolUses = 1
  MaxAttempts = 2
  MaxInfra = 2
  MaxDispatch = 3
  Env = {"interrupt", "crash"}
INVARIANTS
  OneAgentAtWork
PROPERTIES
  DispatchEnds
CHECK_DEADLOCK FALSE
