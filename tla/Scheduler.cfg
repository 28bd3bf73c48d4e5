CONSTANTS
  r1 = r1
  r2 = r2
  r3 = r3
  Requests = {r1, r2, r3}
  Stream <- MCStream
  PromptLen <- MCPromptLen
  Hashes <- MCHashes
  NoHash = NoHash
  NumGpuBlocks = 7
  BlockSize = 1
  MaxModelLen = 6
  EnableCaching = TRUE
  Priority <- MCPriority
  ArrivalTime <- MCArrival
  Configs <- MCConfigs
  MaxResets = 1
SPECIFICATION Spec
INVARIANTS
  QueuesExact
  ArrivalOrder
  BudgetExact
  ResumedAfterPause
  RunnerInSync
PROPERTIES
  ManagerSpec
  EventuallyFinished
