SPECIFICATION FairSpec
CONSTANTS
  Events = {e1}
  Handlers = {h1}
  Slots = {w1, w2}
  Retries = 1
  Attempts = 2
  MaxStalled = 1
  MaxDeliveries = 1
  MaxFaults = 1
  MaxCrashes = 1
  e1 = e1
  h1 = h1
  w1 = w1
  w2 = w2
INVARIANTS
  FullInv
  BoundedPosts
PROPERTIES
  Settles
  LetsGo
CHECK_DEADLOCK FALSE
