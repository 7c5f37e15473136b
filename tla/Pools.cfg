SPECIFICATION FairSpec
CONSTANTS
  w1 = w1
  w2 = w2
  w3 = w3
  claude = claude
  cursor = cursor
  Worker = {w1, w2, w3}
  Provider = {claude, cursor}
  NoProvider = NoProvider
  NoWorker = NoWorker
  Chain <- Chains
  GlobalLimit = 2
  Base <- Wide
  Threshold = 2
  MaxTries = 2
INVARIANTS
  PoolInv
  GlobalCeiling
PROPERTIES
  EveryoneServed
