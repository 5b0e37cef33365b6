SPECIFICATION FairSpec
CONSTANTS
  desk1 = desk1
  desk2 = desk2
  tool = tool
  flow1 = flow1
  flow2 = flow2
  call1 = call1
  window = window
  Procs = {desk1, desk2, tool}
  Single = {desk1, desk2}
  Listers = {desk1, desk2}
  Mortal = {desk1, tool}
  Callers = {flow1, flow2, call1}
  Home <- TwoLives
  IdOf <- FlowIds
  Stable = {flow1, flow2}
  Timed = {call1}
  Fickle = {}
  Modes <- Rules
  Surfaces = {window}
  Place <- OneWindow
  Interrupts = TRUE
  MaxFacts = 3
  MaxPending = 1
  MaxWords = 2
PROPERTIES VerdictIsFinal AnswerArrives OrphansAreClosed
CHECK_DEADLOCK FALSE
