\* Three candidates, two trusted runs, rejections and exploration.  Or three calls
\* of tools.  Or three trials of a task.
SPECIFICATION AnySpec
CONSTANTS
  N = 3
  MinSamples = 2
  MinMargin <- ThreeQuarters
  Costs = {1, 2}
  MaxRuns = 2
  MaxReworks = 1
  Explores = TRUE
  MayFail = {1, 2}
  Texts <- BoxTexts
  Quotes <- BoxQuotes
  Bound <- BoxHosts
  Edited <- BoxEdits
  MaxToolCalls = 3
  MaxOthers = 1
  Margin = 1
  MinTurnCalls = 3
  MinTurnUnits = 2
  Recon = TRUE
  Seconds = 22
  StepCosts <- TwoUnits
  OtherCosts <- FourUnits
  Rounds = 2
  Trials = 3
  Scores <- Marks
  Container = TRUE
  Services = 3
  Stride = 20
  Schema <- OneTool
  Bodies <- Written
INVARIANT SeatsInv
INVARIANT ToolsInv
INVARIANT MapIsFresh
INVARIANT BenchInv
CHECK_DEADLOCK FALSE
