SPECIFICATION Spec
CONSTANTS
  p1 = p1
  p2 = p2
  n1 = n1
  own = own
  alias = alias
  further = further
  far = far
  l1 = l1
  l2 = l2
  c1 = c1
  Paths <- ThePaths
  Names <- TheNames
  Places <- ThePlaces
  child_path <- TheChildPaths
  Link <- TheLinks
  Loaders <- TheLoaders
  Accepts <- TheAccepts
  Formats <- TheFormats
  MaxLoaders = 2
  Callers <- OneCaller
  None = None
  NoLoad = NoLoad
INVARIANTS
  TypeOK
  OncePerPath
  FirstLoaderWins
PROPERTIES
  ImplementsOverlay
  LoadReturns
