SPECIFICATION Spec
CONSTANTS
  Threads = {main, t1}
  Main = main
  Reads = {r1}
  NoCmd = NoCmd
  Nobody = Nobody
  CMD_BUFFER_MAX = 2
  MaxOps = 2
  MaxRestarts = 1
INVARIANTS EngineTypeOK OneReader OwnAnswer
PROPERTIES OperationReturns RestartEnds
CHECK_DEADLOCK FALSE
