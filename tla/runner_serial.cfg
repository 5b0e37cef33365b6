SPECIFICATION Spec
CONSTANTS
  p1 = p1
  p2 = p2
  w1 = w1
  w2 = w2
  user = user
  sweeper = sweeper
  NumSteps = 3
  Approval = {2}
  Active = {1, 2, 3}
  Procs = {p1, p2}
  NoProc = NoProc
  Deps <- ChainDeps
  Conditional = {1}
  Tolerant = {3}
  Feedback = {3}
  EndsWith <- DistinctIds
  Partial = FALSE
  Exit = 3
  Workers = {w1, w2}
  ProcOf <- TwoProcs
  Dispatcher = w1
  Clerks = {user, sweeper}
  May <- RecoverAndSweep
  Mortal = {p1}
  Naps = FALSE
  Serial = TRUE
  ResumeFrom = {"queued"}
  MaxSessions = 3
  MaxCommands = 3
INVARIANTS RowIsTruthful GrantsKept
PROPERTIES NoRework
CHECK_DEADLOCK FALSE
