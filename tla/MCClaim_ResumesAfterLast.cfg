SPECIFICATION Spec
CONSTANTS
  Inputs <- MCInputs
  maxRetries = 2
  retries = 2
  MaxChanges = 3
  MaxFaults = 2
PROPERTY ResumesAfterLast
CHECK_DEADLOCK FALSE
