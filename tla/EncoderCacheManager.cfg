CONSTANTS
  r1 = r1
  r2 = r2
  r3 = r3
  A = A
  B = B
  C = C
  Requests = {r1, r2, r3}
  Hashes = {A, B, C}
  NumEmbeds <- MCNumEmbeds
  Features <- MCFeatures
  PromptLen <- MCPromptLen
  MaxTokens <- MCMaxTokens
  MaxScheduledTokens = 5
  EncoderComputeBudget = 5
  CacheSize = 4
  KVTokens = 7
  PrefixHits = {0, 1, 3}
  MaxResets = 1
  DisableChunked = {TRUE, FALSE}
SPECIFICATION Spec
INVARIANTS
  SlotsExact
  EncoderOutputsThere
  RunnerKeepsCached
PROPERTY EventuallyFinished
