CONSTANTS
  r1 = r1
  r2 = r2
  r3 = r3
  Requests = {r1, r2}
  Stream <- MCStream2
  PromptLen <- MCPromptLen2
  Hashes <- MCHashes2
  NoHash = NoHash
  NumGpuBlocks = 8
  BlockSize = 1
  MaxModelLen = 8
  EnableCaching = TRUE
  Priority <- MCPriority2
  ArrivalTime <- MCArrival2
  Configs <- MCPriorityConfigs
  MaxResets = 0
SPECIFICATION Spec
INVARIANT KVContentsCorrect
