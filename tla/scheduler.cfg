SPECIFICATION FairSpec
CONSTANTS
  flow1 = flow1
  window = window
  Schedules = {1, 2}
  Flow <- OneFlow
  Every <- Rates
  Clients = {window}
  Recent = 2
  MaxTime = 2
  MaxCalls = 1
  MaxActs = 1
  MaxFaults = 1
INVARIANTS TypeOK NoOverlap OncePerDue
 
CHECK_DEADLOCK FALSE
