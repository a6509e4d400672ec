SPECIFICATION Spec
CONSTANTS
  Ports = {1, 2}
  Half = 8
  Granule = 2
  IoGranule = 2
  IoUpper = 2
  UpperShort = 2
  SignExtends = TRUE
  Values <- MCValues
  MaxWrites = 3
INVARIANTS
  TypeOK
  AnnouncedAreCurrent
  NothingBouncesBack
  OwnerGetsTheRequest
  DmaAvoidsOwnWindows
  WindowAsWritten
