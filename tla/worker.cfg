SPECIFICATION WorkerSpec
CONSTANTS
  worker = worker
  Workers = {worker}
  Consoles = {}
  Pages = {}
  Tasks = {1, 2}
  MaxExecutions <- Offers
  MaxCredentials = 2
  MaxFaults = 2
INVARIANTS WorkerTypeOK EndIsKept
PROPERTIES ResultArrives
CHECK_DEADLOCK FALSE
