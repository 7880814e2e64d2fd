SPECIFICATION Spec
CONSTANTS
  HalfWord = 16
  Granularity = 2
  t1 = t1
  t2 = t2
  h1 = h1
  h2 = h2
  i1 = i1
  NoThread = NoThread
  NoHandle = NoHandle
  Inodes <- OneInode
  NoInode = NoInode
  MaxFileSize = 3
  Bytes <- TwoBytes
  NoCall = NoCall
  NoReply = NoReply
  Threads <- OneThread
  Handles <- TwoHandles
  AccessModes = {"Read", "ReadWrite"}
  InitialSizes = {0, 2}
  Calls <- SequentialCalls
  SyncMayFail = TRUE
INVARIANTS
  TypeOK
  CursorInFile
  WritableHandlesNeverFault
CHECK_DEADLOCK FALSE
