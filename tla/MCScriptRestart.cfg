SPECIFICATION Spec
CONSTANTS
  MaxRequests = 2
  MaxDtrs = 1
  Again = 2
  GiveUp = 3
  Partial = Partial
  NoScript = NoScript
INVARIANTS RestartTypeOK HolderAlive
PROPERTIES DtrGrantedQuiet RestartServed HookWaitEnds UploadedScriptRuns
CHECK_DEADLOCK FALSE
