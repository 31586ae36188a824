SPECIFICATION Spec
CONSTANTS
  Advertisers = {a1,a2}
  Requests = {r1,r2}
  None = None
  States = {s1}
  AccessTTL = 2
  RefreshTTL = 3
  Window = 1
  Interval = 2
  RefresherStarted = TRUE
  MaxTime = 2
  MaxRequests = 3
  MaxFaults = 1
  a1 = a1
  a2 = a2
  r1 = r1
  r2 = r2
  s1 = s1
SYMMETRY Symmetry
INVARIANTS
  Inv
  StateIsOneTime
  RevokeWins
CHECK_DEADLOCK FALSE
