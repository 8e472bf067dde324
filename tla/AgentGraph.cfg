\* A turn with a workspace: the bounds of the code.  Or: two
\* phone runs and an import on one lesson bank.  Or: a document of two
\* sections, written, judged and revised.  Or: the criteria of a person over
\* two attempts, judged and rejected.  Or: a conversation folded,
\* compacted, paused and revived.
SPECIFICATION AnySpec
CONSTANTS
  MaxUserQuestions = 3
  MaxRejections = 2
  MaxJudgeErrors = 1
  RecursionNet = 30
  Documents = TRUE
  p = p
  q = q
  i = i
  Actors <- Learners
  Does <- RunDoes
  Writers <- Learners
  LessonTexts <- Lessons
  Near <- SameLesson
  About <- OfTheTask
  Payment = {"pay"}
  Apps = {"shop"}
  DistillerReplies <- DistillerSays
  Files <- Imported
  MAX_PER_RUN = 1
  MAX_NOTES_PER_RUN = 2
  MAX_NOTES_PER_APP = 1
  MaxEdits = 1
  Rubrics <- RubricSays
  PathOf <- Paths
  JudgeReplies <- JudgeSays
  LastReplies <- LastWords
  Tools <- JudgeTools
  NearMiss <- Resembles
  Records <- ToolRecords
  Seats <- ChatSeats
  MaxIter = 2
  DEAD_REPLIES = 2
  RUBRIC_MAX = 2
  MAX_REJECTIONS = 1
  MaxActions = 2
  N = 2
  MaxCalls = 7
  LEDGER_MAX = 2
  MAX_REJECTION_REWRITES = 1
  CALLS_PER_SECTION_FULL = 2
  JUDGMENT_RESERVE = 1
  RESEARCH_REJECTIONS = 1
  MaxFails = 1
  GatherCalls = 1
  Asks <- Questioned
  Checked <- Exacting
  Outputs <- Sizes
  Lines = {0, 2}
  KEEP_VERBATIM = 2
  LOOP_COMPACT_AT = 1
  SCREENS_KEPT = 1
  SCREEN_FOLD_EVERY = 1
  Bound = TRUE
  Notes = 1
  MaxMade = 4
  MaxStops = 1
INVARIANTS
  TurnIsBounded
  WordsAreHeard
  BankInv
  ResearchInv
  JudgeInv
  TranscriptInv
PROPERTIES
  KeptIsBanked
  WordsAreKept
SYMMETRY Phones
CHECK_DEADLOCK FALSE
