\* The default arm (REABSTRACT = True): X overflows at every message and Y at
\* every second unit over budget, so that four messages run three compactions.
\* Or: two processes on the sessions of one machine.  Or: the terminal.
SPECIFICATION AnySpec
CONSTANTS
  y1 = y1
  o1 = o1
  o2 = o2
  p1 = p1
  p2 = p2
  i1 = i1
  i2 = i2
  Yours = {y1}
  Ottos = {o1, o2}
  Cost <- LongCost
  Summary = Summary
  Echo = Echo
  Excerpt = Excerpt
  XBudget = 1
  YBudget = 2
  Reabstract = TRUE
  MaxBullets = 1
  MaxAppends = 4
  Procs <- Machines
  Ids <- IndexIds
  Foreign <- Imported
  MaxSaid = 2
  MaxCopies = 1
  Beside <- Apart
  AppIds <- Saved
  Brought = "f"
  Screens <- AnyScreen
  Workspaces <- Places
  MaxMessages = 2
  MaxAsks = 1
INVARIANTS
  QueueInv
  IndexInv
  TurnsSurvive
  AppInv
PROPERTIES
  NothingForgotten
  WordsNeverParaphrased
SYMMETRY Symmetry
