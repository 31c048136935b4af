SPECIFICATION Spec
CONSTANTS
  CODEY_EVE_MAX_NUM = 3
  Wrap = 10
  SECOND_TRIGGER_INTERVAL = 4
  THIRD_OVER_TRIGGER_INTERVAL = 2
  MaxGap = 3
  Levels = {0, 1, 2, 3}
  Thresholds = {1, 2}
  Low = 1
  High = 2
  Accs <- MCAccs
  MaxRestarts = 2
INVARIANT BoardTypeOK
PROPERTIES PressReports LevelReports TiltReports
