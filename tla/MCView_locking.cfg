SPECIFICATION FairSpec
CONSTANTS
  HalfWord = 16
  Granularity = 4
  t1 = t1
  t2 = t2
  t3 = t3
  Threads <- TwoThreads
  NoThread = NoThread
  NoCall = NoCall
  Bytes <- TwoBytes
  NoByte = NoByte
  NoReply = NoReply
  FromOffsets <- MCFromOffsets
  SeekOffsets <- MCSeekOffsets
  ViewLength = 3
  Requests = {0, 2, 5}
  Operations <- Locking
PROPERTIES
  ImplementsAtomicStream
  LockReleased
