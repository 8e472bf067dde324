\* Two threads try to drive three turns of one handle, a person answers.  Or: the
\* temperatures models refuse.
SPECIFICATION AnySpec
CONSTANTS
  w1 = w1
  w2 = w2
  Threads <- TwoThreads
  MaxTurns = 3
  MaxAsks = 3
  Processes <- TwoProcesses
  CallThreads <- TwoCalls
  CalledModels <- Called
  Catalogue <- Leads
  Facts <- Known
  Truth <- Honoured
  MayGo <- FreshGoes
  MayStop <- OneStops
  Wanted <- Asked
  Files <- Inodes
  Attempts = 2
INVARIANTS
  HandleInv
  TempInv
PROPERTIES
  AnswerMeetsItsQuestion
  TurnsEnd
