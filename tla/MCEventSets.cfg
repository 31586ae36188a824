SPECIFICATION FairSpec
CONSTANTS
  Advertisers = {a1, a2}
  Sets = {s1, s2}
  Requests = {r1, r2}
  EnvSet = EnvSet
  NoSet = NoSet
  MaxRequests = 3
  MaxFaults = 1
  a1 = a1
  a2 = a2
  s1 = s1
  s2 = s2
  r1 = r1
  r2 = r2
INVARIANTS
  Inv
  ActiveBelongs
  RoutedToOwn
  OrphansNeedFaults
PROPERTIES
  ManualSelectionStands
  CacheConverges
CHECK_DEADLOCK FALSE
