SPECIFICATION FairSpec
CONSTANTS
  well = well
  ill = ill
  loop = loop
  drain = drain
  Runs = {well, ill}
  Answers <- Replies
  Flushers = {loop, drain}
  Loops = {loop}
  Batch = 2
  Last <- States
  MaxTime = 1
  MaxTrouble = 1
  MaxBatches = 1
INVARIANTS TypeOK ProjectedWasSent
PROPERTIES Arrives
CHECK_DEADLOCK FALSE
