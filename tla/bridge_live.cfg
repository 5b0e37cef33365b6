SPECIFICATION FairSpec
CONSTANTS
  desk1 = desk1
  desk2 = desk2
  tool = tool
  a1 = a1
  a2 = a2
  window1 = window1
  window2 = window2
  console = console
  Procs = {desk1, desk2, tool}
  Single = {desk1, desk2}
  Listers = {desk1, desk2}
  Mortal = {desk1}
  Callers = {a1, a2}
  Home <- OneRunHome
  IdOf <- OneRunId
  Modes <- AskOrGrant
  Surfaces = {window1, window2, console}
  Place <- Seats
  MaxFacts = 4
  MaxPending = 2
  MaxWords = 3
  Consoles = {console}
  Cancelers = {window1, window2}
PROPERTIES DecisionIsApplied KeepsPromise
CHECK_DEADLOCK FALSE
