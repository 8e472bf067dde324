\* A run that starts in the shallow mode, delegates, switches, compacts
\* and runs again once.
SPECIFICATION FairSpec
CONSTANTS
  Modes <- TwoModes
  Depth <- DepthOf
  Start = "find"
  Targets = {1}
  Notes = 2
  Ceiling = 3
  Retries = 1
  DeadReplies = 3
  RefusedAsks = 2
  ModeSwaps = 1
  ChildIterations = 2
  CompactAt = 1
  KeepVerbatim = 0
  Reruns = 1
INVARIANTS
  HeldBeforeIrreversible
  
  OverspendIsBounded
PROPERTIES
  LoopEnds
CHECK_DEADLOCK FALSE
