SPECIFICATION Spec
CONSTANTS
  n1 = n1
  h1 = h1
  loose = loose
  archive = archive
  patch = patch
  c1 = c1
  Names <- TheNames
  Hashes <- TheHashes
  hash_function <- TheHash
  NoHashFunction = NoHashFunction
  Mountables <- TheMountables
  PathOf <- ThePaths
  Offers <- TheOffers
  Changing <- OnlyLoose
  Callers <- OneCaller
  Operations = {"get_file", "get_userland_file", "get_dataland_file", "get_file hashed"}
  AccessModes = {"Read", "Write"}
  Positions = {0, 1, 9}
  MaxMounts = 3
  None = None
  NoCall = NoCall
INVARIANT
  TypeOK
PROPERTIES
  ImplementsOverlay
  PrecedenceKept
  LookupReturns
