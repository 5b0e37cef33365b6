SPECIFICATION Spec
CONSTANTS
  Activators = {w1, w2}
  Plugins = {p, q}
  Versions = {v1, v2}
  MaxSwitches = 4
  MaxFaults = 1
SYMMETRY Symmetric
INVARIANTS TypeOK LedgerFollowsJournals  ActiveHasSlot
PROPERTIES VerdictsStand
CHECK_DEADLOCK FALSE
