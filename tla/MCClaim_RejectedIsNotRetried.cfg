SPECIFICATION Spec
CONSTANTS
  Events = {e1}
  Handlers = {h1, h2}
  Slots = {w1}
  Retries = 0
  Attempts = 1
  MaxStalled = 0
  MaxDeliveries = 2
  MaxFaults = 0
  MaxCrashes = 0
  e1 = e1
  h1 = h1
  h2 = h2
  w1 = w1
PROPERTY RejectedIsNotRetried
CHECK_DEADLOCK FALSE
