SPECIFICATION LeadFairSpec
CONSTANTS
  Inputs <- MCInputs
  maxRetries = 2
  retries = 2
  MaxChanges = 2
  MaxFaults = 3
  Leads = {lead1, lead2}
  LeadInputs <- MCLeadInputs
  MaxSeconds = 1
  MaxRedisFaults = 1
  lead1 = lead1
  lead2 = lead2
INVARIANTS
  ChangesAccounted
  HandedOnce
  OnlyTwinsAreDropped
  EventTimesKeepOrder
PROPERTIES
  SubscribedAgain
CHECK_DEADLOCK FALSE
