SPECIFICATION Spec
CONSTANTS
  TICKS = 2
  UUIDS_PER_TICK = 3
  PerReading = 2
  SAVE_INTERVAL = 3
  SEQUENCES = 2
  MaxClock = 4
  MaxBack = 1
  MaxRestarts = 2
INVARIANTS UuidsDistinct FileIsRecent
CHECK_DEADLOCK FALSE
