SPECIFICATION FairSpec
CONSTANTS
  p1 = p1
  p2 = p2
  w1 = w1
  w2 = w2
  user = user
  sweeper = sweeper
  NumSteps = 2
  Approval = {2}
  Active = {1, 2}
  Procs = {p1, p2}
  NoProc = NoProc
  Deps <- ChainDeps
  Conditional = {}
  Tolerant = {}
  Feedback = {}
  EndsWith <- DistinctIds
  Partial = FALSE
  Exit = 2
  Workers = {w1, w2}
  ProcOf <- TwoProcs
  Dispatcher = w1
  Clerks = {user, sweeper}
  May <- DeciderAndSweep
  Mortal = {p1, p2}
  Naps = FALSE
  Serial = FALSE
  ResumeFrom = {"queued", "waiting", "running"}
  MaxSessions = 1
  MaxCommands = 2
INVARIANTS OneExecutor OutputsKnown
PROPERTIES NoZombie
CHECK_DEADLOCK FALSE
