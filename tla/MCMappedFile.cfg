SPECIFICATION Spec
CONSTANTS
  HalfWord = 16
  Granularity = 4
  f1 = f1
  f2 = f2
  v1 = v1
  v2 = v2
  i1 = i1
  i2 = i2
  Files <- TwoFiles
  NoFile = NoFile
  Views <- TwoViews
  NoInode = NoInode
  MaxFileSize = 6
  Inodes <- TwoInodes
  AccessModes = {"Read", "ReadWrite"}
  OffsetArgs <- SomeOffsets
  LengthArgs = {1, 4}
  InitialSizes = {0, 2}
  MaxOpening = 1
  PathMayVanish = TRUE
INVARIANTS
  TypeOK
  HandleLifetime
  WritableViewsBacked
  TeardownExact
  NothingLeaks
PROPERTY
  FilesOnlyGrow
SYMMETRY Symmetry
