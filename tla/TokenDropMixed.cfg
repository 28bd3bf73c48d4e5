CONSTANTS
  r1 = r1
  r2 = r2
  Requests = {r1, r2}
  PromptLen <- MCOneShort
  MaxLen <- MCOneShortMax
  NumLayers = 4
  BlockSize = 1
  DropLayers <- MCDropLayers
  Configs <- MCWholePrompts
SPECIFICATION Spec
INVARIANTS
  AttentionReadsItsTokens
CHECK_DEADLOCK FALSE
