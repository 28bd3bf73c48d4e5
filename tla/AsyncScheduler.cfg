CONSTANTS
  r1 = r1
  r2 = r2
  r3 = r3
  Requests = {r1, r2, r3}
  PromptLen <- MCPromptLen
  MaxTokens <- MCMaxTokens
  EosAt <- MCEosAt
  ArrivalTime <- MCArrival
  NumBlocks = 5
  BlockSize = 1
  MaxModelLen = 5
  MaxScheduledTokens = 3
  MaxRunningReqs = 3
  Configs <- MCConfigs
SPECIFICATION Spec
INVARIANTS
  OutputExact
  PlaceholdersExact
  BlocksHeld
PROPERTY EventuallyFinished
