\* Beside a live engine with crashes and plan edits, or one command at a time.
SPECIFICATION Spec
CONSTANTS
  a = a
  b = b
  h1 = h1
  h2 = h2
  w = w
  x = x
  None = None
  PlanWave = {a, b}
  Deps <- Chain
  PlanBatches <- TwoBatches
  Labelled = FALSE
  Hotfix = {h1, h2}
  WaveAdd = {w}
  AddName <- AddX
  Clash <- LanesClash
  Settings <- BothSettings
INVARIANTS
  SettledStaysInGraph
  DrivenWavesHaveRows
  InjectedAfterAnchor
  InjectedIsRun
  AppliedIsUsed
  InjectsMerge
