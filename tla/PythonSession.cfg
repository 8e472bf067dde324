\* Six calls, a process that serves two of them.  Or: a walkthrough.  Or: the
\* table of routes and its file.
SPECIFICATION AnySpec
CONSTANTS
  MaxRuns = 6
  MaxCalls = 2
  Idles = TRUE
  NoPopen = TRUE
  Forged = 1
  LateDeath = FALSE
  Scripts <- ShortScripts
  Processes <- OneProcess
  Editors <- OneEditor
  Turns <- OneTurn
  Home <- AtHome
  Tasks <- TwoTasks
  Specs <- AllSpecs
  VendorOf <- SpecVendor
  Customs <- Ollama
  Bound <- WebIsBound
  Unfit <- FimIsUnfit
  Kinds <- AllKinds
  Edited <- EditsAll
  Files <- ThreeFiles
  Pins <- SomePins
  Crashes <- Stops
  SavesFail = TRUE
INVARIANT SessionInv
INVARIANT WalkInv
INVARIANT RoutesInv
PROPERTY CallsReturn
CHECK_DEADLOCK FALSE
