CONSTANTS
  r1 = r1
  r2 = r2
  Requests = {r1, r2}
  PromptLen <- MCBothLong
  MaxLen <- MCBothLongMax
  NumLayers = 4
  BlockSize = 1
  DropLayers <- MCDropLayers
  Configs <- MCConfigs
SPECIFICATION Spec
INVARIANTS
  AttentionReadsItsTokens
  RecordCounts
  SampledFromLastToken
CHECK_DEADLOCK FALSE
