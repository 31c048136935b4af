SPECIFICATION Spec
CONSTANTS
  MaxRequests = 1
  MaxDtrs = 0
  Again = 2
  GiveUp = 5
  Partial = Partial
  NoScript = NoScript
PROPERTY UploadedScriptStays
CHECK_DEADLOCK FALSE
