SPECIFICATION Spec
CONSTANTS
  p1 = p1
  p2 = p2
  w1 = w1
  w2 = w2
  user = user
  sweeper = sweeper
  NumSteps = 3
  Approval = {1}
  Active = {1, 3}
  Procs = {p1, p2}
  NoProc = NoProc
  Deps <- AllBefore
  Conditional = {}
  Tolerant = {}
  Feedback = {1}
  EndsWith <- DistinctIds
  Partial = TRUE
  Exit = 1
  Workers = {w1, w2}
  ProcOf <- OneProc
  Dispatcher = w1
  Clerks = {user, sweeper}
  May <- Everybody
  Mortal = {p1}
  Naps = TRUE
  Serial = FALSE
  ResumeFrom = {"queued", "waiting", "running"}
  MaxSessions = 2
  MaxCommands = 2
INVARIANTS TypeOK ApprovedBeforeExecution PlanIsRespected WaitingIsAnswerable
PROPERTIES FinalIsFinal
CHECK_DEADLOCK FALSE
