SPECIFICATION Spec
CONSTANTS
  desk1 = desk1
  desk2 = desk2
  tool = tool
  flow1 = flow1
  flow2 = flow2
  call1 = call1
  window = window
  Procs = {desk1, desk2, tool}
  Single = {}
  Listers = {desk1, desk2}
  Mortal = {desk1}
  Callers = {flow1, flow2, call1}
  Home <- Together
  IdOf <- FlowIds
  Stable = {flow1, flow2}
  Timed = {call1}
  Fickle = {flow2}
  Modes <- Ask3
  Surfaces = {window}
  Place <- OneWindow
  Interrupts = TRUE
  MaxFacts = 2
  MaxPending = 1
  MaxWords = 1
INVARIANTS TypeOK ApprovalIsReal
CHECK_DEADLOCK FALSE
