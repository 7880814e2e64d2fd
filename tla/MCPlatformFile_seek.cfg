SPECIFICATION Spec
CONSTANTS
  HalfWord = 16
  Granularity = 2
  t1 = t1
  t2 = t2
  h1 = h1
  h2 = h2
  i1 = i1
  NoThread = NoThread
  NoHandle = NoHandle
  Inodes <- OneInode
  NoInode = NoInode
  MaxFileSize = 3
  Bytes <- TwoBytes
  NoCall = NoCall
  NoReply = NoReply
  Threads <- TwoThreads
  Handles <- OneHandle
  AccessModes = {"ReadWrite"}
  InitialSizes = {2}
  Calls <- SeekCalls
  SyncMayFail = FALSE
PROPERTY
  CursorMovesUnderLock
