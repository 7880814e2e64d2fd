SPECIFICATION Spec
CONSTANTS
  HalfWord = 16
  Granularity = 4
  f1 = f1
  f2 = f2
  v1 = v1
  v2 = v2
  Files <- TwoFiles
  NoFile = NoFile
  Views <- TwoViews
  AccessModes = {"Read", "ReadWrite"}
  OffsetArgs <- SomeOffsets
  LengthArgs = {0, 1, 4}
  MaxFileSize = 6
INVARIANTS
  TypeOK
  HandleLifetime
  ViewsBacked
  FlushCoversMapping
  NothingLeaks
SYMMETRY Symmetry
