CONSTANTS
  NumWorkers = 2
  OutputRank = 1
  FailingCalls <- StepOnly
  TimeoutCalls <- NoKind
  Configs <- MCConfigs
  MaxCalls = 5
SPECIFICATION Spec
INVARIANT AnswersOwnCall
PROPERTIES
  CallsReturn
  EngineInformed
