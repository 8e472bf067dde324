\* One thread, windows that double, a model withdrawn.
SPECIFICATION FairSpec
CONSTANTS
  c1 = c1  c2 = c2
  inception = inception  openai = openai
  mercury = mercury  gpt = gpt  mini = mini
  Callers <- OneCaller
  Providers <- TwoVendors
  Required = inception
  OwnErrors <- Inception
  Models <- TwoModels
  ProviderOf <- OfTwo
  Advertised <- ListsTwo
  Chain <- GptFirst
  Orders <- AsDeclared
  ModelWait <- OneThenTwo
  ProviderWait <- OneThenTwo
  MaxStrikes = 2
  MaxCooldown = 2
  ExhaustedCooldown = 3
  RetryAfters <- ShortWait
  BreakerThreshold = 2
  Reloads = FALSE
  Gone = TRUE
PROPERTY RoutingEnds
PROPERTY RecoveryRestores
