SPECIFICATION Spec
CONSTANTS
  Events = {e1}
  Handlers = {h1, h2}
  Slots = {w1}
  Retries = 0
  Attempts = 2
  MaxStalled = 0
  MaxDeliveries = 3
  MaxFaults = 1
  MaxCrashes = 1
  e1 = e1
  h1 = h1
  h2 = h2
  w1 = w1
SYMMETRY Symmetry
INVARIANTS
  SentMeansReceived
  LoggedBeforeSent
  OneClaim
  NoSilentLoss
  PendingIsTransient
  DuplicateHasOriginal
PROPERTIES
  SentIsFinal
  ImplementsDelivery
CHECK_DEADLOCK FALSE
