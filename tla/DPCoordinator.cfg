CONSTANTS
  f1 = f1
  f2 = f2
  r1 = r1
  r2 = r2
  NumEngines = 2
  Frontends = {f1, f2}
  Requests = {r1, r2}
  Frontend <- MCFrontend
  Passes = 2
  SyncEvery = 2
SPECIFICATION Spec
INVARIANTS
  SameCollective
  PauseIsKnown
PROPERTIES
  RequestsServed
  EventuallyPaused
