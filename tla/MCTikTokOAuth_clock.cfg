SPECIFICATION Spec
CONSTANTS
  Advertisers = {a1}
  Requests = {r1,r2}
  None = None
  States = {s1}
  AccessTTL = 2
  RefreshTTL = 3
  Window = 1
  Interval = 2
  RefresherStarted = FALSE
  MaxTime = 4
  MaxRequests = 3
  MaxFaults = 1
  a1 = a1
  r1 = r1
  r2 = r2
  s1 = s1
SYMMETRY Symmetry
INVARIANTS
  HandedIsAlive
CHECK_DEADLOCK FALSE
