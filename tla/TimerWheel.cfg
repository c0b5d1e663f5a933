SPECIFICATION Spec
CONSTANTS
  TIMER_WHEEL_SIZE = 3
  TIMER_WHEEL_TICKS_PER_SEC = 100
  UINT32 = 65536
  TIMER_DBUF_SIZE = 3
  TIMER_DBUF_INCREMENT = 1
  MaxSlots = 4
  Intervals = {9, 10, 29, 30, 670}
  Dbufs = {d1}
  NULL = NULL
INVARIANTS SlotsAccountedFor OnSchedule AssertionsHold BuffersCounted
PROPERTY QueuedTimersFire
