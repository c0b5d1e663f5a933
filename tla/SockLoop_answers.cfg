SPECIFICATION FairSpec
CONSTANTS
  i1 = i1  o1 = o1
  Listener = Listener  None = None
  Conn = {i1, o1}
  Outbound = {o1}
  MaxFds = 3
  MaxSlots = 4
  MaxBytes = 2
INVARIANTS
  OpenConnectionsHaveASlot
  EventsBelongToTheirSocket
  QueuedMeansInterested
  ClosedOnce
  StreamIntact
PROPERTIES
  KeepsPromise
  AnswersEnd
CHECK_DEADLOCK FALSE
