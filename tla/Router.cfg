\* Two threads, keys that change and a chain that is reordered.
SPECIFICATION Spec
CONSTANTS
  c1 = c1  c2 = c2
  inception = inception  openai = openai
  mercury = mercury  gpt = gpt  mini = mini
  Callers <- TwoCallers
  Providers <- TwoVendors
  Required = inception
  OwnErrors <- Inception
  Models <- TwoModels
  ProviderOf <- OfTwo
  Advertised <- ListsTwo
  Chain <- GptFirst
  Orders <- EitherOrder
  ModelWait <- JustOne
  ProviderWait <- JustOne
  MaxStrikes = 1
  MaxCooldown = 1
  ExhaustedCooldown = 1
  RetryAfters <- NoWait
  BreakerThreshold = 1
  Reloads = TRUE
  Gone = FALSE
INVARIANT NeverIntoNothing
PROPERTY OnlyAnAnswerForgives
SYMMETRY Symmetry
