SPECIFICATION Spec
CONSTANTS
  Advertisers = {a1}
  Sets = {s1,s2}
  Requests = {r1,r2}
  EnvSet = EnvSet
  NoSet = NoSet
  MaxRequests = 4
  MaxFaults = 0
  a1 = a1
  s1 = s1
  s2 = s2
  r1 = r1
  r2 = r2
PROPERTIES
  CreatesOnlyTheFirst
CHECK_DEADLOCK FALSE
