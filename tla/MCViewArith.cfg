SPECIFICATION Spec
CONSTANTS
  HalfWord = 16
  Granularity = 4
  MaxLength = 9
  MaxRequest = 31
  MaxOffset = 11
  Idle = Idle
INVARIANTS
  AllowanceIsWhatFits
  SeekLandsInside
