\* A gated serial run with two review gates and a quality gauntlet, whose environment may do everything.
SPECIFICATION OperatedSpec
CONSTANTS
  g = g
  a = a
  b = b
  c = c
  None = None
  PreZero = PreZero
  Node = {g, a, b, c}
  Listed <- ListB
  Topo <- GatedTopo
  GateWave = {a, b}
  HumanGate = {g}
  Pre0 = TRUE
  Gauntlet = {c}
  CommitPerWave = TRUE
  Waits = TRUE
  Env <- Everything
INVARIANTS
  DoneIsPushed
  DoneRunIsComplete
  FiledByVerdict
  NoWorkUnderPendingGate
PROPERTIES
  ApprovalIsInformed
  RunIsFiled
