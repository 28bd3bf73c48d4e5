CONSTANTS
  l1 = l1
  l2 = l2
  f1 = f1
  Local = {l1, l2}
  Remote = {f1}
  MaxChunks = 2
  TSO = TRUE
  RecvTimeouts = {f1}
  MaxMessages = 4
SPECIFICATION Spec
PROPERTIES
  IsBroadcastQueue
  AllReceived
