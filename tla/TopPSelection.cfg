CONSTANTS
  r1 = r1
  r2 = r2
  Requests = {r1, r2}
  Configs <- MCConfigs
  SeqLens = {1, 3, 5}
  BlockSize = 2
  AttentionSink = 1
  LastQ = 1
  PNum = 3
  PDen = 4
SPECIFICATION Spec
INVARIANTS
  NucleusKept
  CoversNative
  ResultConsistent
