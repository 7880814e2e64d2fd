SPECIFICATION Spec
CONSTANTS
  HalfWord = 16
  Granularity = 4
  f1 = f1
  f2 = f2
  v1 = v1
  v2 = v2
  i1 = i1
  i2 = i2
  Files <- TwoFiles
  NoFile = NoFile
  Views <- TwoViews
  NoInode = NoInode
  MaxFileSize = 6
  Inodes <- OneInode
  AccessModes = {"ReadWrite"}
  OffsetArgs = {0}
  LengthArgs = {2, 4}
  InitialSizes = {0}
  MaxOpening = 2
  PathMayVanish = FALSE
PROPERTY
  FilesOnlyGrow
