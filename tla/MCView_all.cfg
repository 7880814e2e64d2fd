SPECIFICATION Spec
CONSTANTS
  HalfWord = 16
  Granularity = 4
  t1 = t1
  t2 = t2
  t3 = t3
  Threads <- ThreeThreads
  NoThread = NoThread
  NoCall = NoCall
  Bytes <- OneByte
  NoByte = NoByte
  NoReply = NoReply
  FromOffsets <- MCFromOffsets
  SeekOffsets <- MCSeekOffsets
  ViewLength = 2
  Requests = {0, 1, 3}
  Operations <- AllOperations
INVARIANTS
  TypeOK
  LockDiscipline
  CursorInView
  TransferFollowsCursor
SYMMETRY Symmetry
