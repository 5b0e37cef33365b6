SPECIFICATION Live
CONSTANTS
  Newest = 2
  MaxInstalls = 2
  MaxFaults = 2
INVARIANTS TypeOK InstallationIsWhole
PROPERTIES NoDowngrade AgentReturns
CHECK_DEADLOCK FALSE
