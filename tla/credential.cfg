SPECIFICATION FairSpec
CONSTANTS
  worker = worker
  console = console
  page = page
  Workers = {worker}
  Consoles = {console}
  Pages = {page}
  MaxCredentials = 4
  MaxFaults = 2
INVARIANTS TypeOK Recoverable
PROPERTIES WorkerReturns
CHECK_DEADLOCK FALSE
