SPECIFICATION PathSpec
CONSTANTS
  MaxByte = 3
  PerPacket = 1
  MAX_SZ = 2
  Folders <- FewFolders
  Assets <- FewAssets
  NotFound = NotFound
  MaxAsked = 2
  MaxHeard = 2
INVARIANTS
  ReadAsSent
  NothingMissing
  TransferReassembles
CHECK_DEADLOCK FALSE
