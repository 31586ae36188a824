SPECIFICATION FairSpec
CONSTANTS
  Handlers = {h1, h2}
  Slots = {w1}
  Requests = {r1}
  h1 = h1
  h2 = h2
  w1 = w1
  r1 = r1
INVARIANTS
  CleanExitInterruptsNoCall
  RowsHoldInShutdown
PROPERTIES
  Stops
CHECK_DEADLOCK FALSE
