CONSTANTS
  r1 = r1
  r2 = r2
  Requests = {r1, r2}
  Stream <- MCStream
  PromptLen <- MCPromptLen
  Hashes <- MCHashes
  NoHash = NoHash
  NumGpuBlocks = 4
  BlockSize = 2
  MaxModelLen = 6
  EnableCaching = TRUE
SPECIFICATION Spec
INVARIANTS
  KVContentsCorrect
  NoConflictingWrites
  AllocationNeverRaises
  FreeQueueExact
  RefCountsOwners
  CacheMapExact
  NoStrandedBlock
PROPERTY InUseNotEvicted
