SPECIFICATION FairSpec
CONSTANTS
  PipelineCalls = {p1, p2}
  WorkerCalls = {w1}
  MaxTokens = 1
  Period = 4
  Floor = 2
  RetryDelay = 4
  MaxRetries = 1
  p1 = p1
  p2 = p2
  w1 = w1
INVARIANTS
  PostsBounded
  NobodyOversleeps
PROPERTIES
  SomebodyPasses
CHECK_DEADLOCK FALSE
