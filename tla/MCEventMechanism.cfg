SPECIFICATION Spec
CONSTANTS
  go = go
  button = button
  launch = launch
  MaxNum = 3
  Topics <- MCTopics
  Messages <- MCMessages
  Launch = launch
  Scripts <- MCScripts
  MaxTriggers = 2
  MaxRestarts = 1
INVARIANTS EventTypeOK OneToken LoopDiesOfNone AtMostOneRepeat
PROPERTY EventServed
CHECK_DEADLOCK FALSE
