SPECIFICATION Spec
CONSTANTS
  root = root
  outer = outer
  inner = inner
  file = file
  alias = alias
  temp = temp
  c1 = c1
  c2 = c2
  Paths <- ThePaths
  Root = root
  Parent <- TheParents
  Link <- TheLinks
  DirPaths <- TheDirs
  FilePaths <- TheFiles
  Removable <- OnlyTemp
  Callers <- TwoCallers
  Operations = {"Directory::create", "child_directory", "File::create", "StorageServer::create", "StorageServer::create existing"}
  NoCall = NoCall
INVARIANTS
  TypeOK
  ExistingMakesNothing
PROPERTIES
  NullMeansLostRace
  ThrowsOnlyIfBlocked
  ServerHasUserland
  CreateReturns
