SPECIFICATION Spec
CONSTANTS
  Bits = 16
  Family = 8
  Roms <- Attached
  Faults = {"reset", "io"}
  MaxFaults = 2
INVARIANTS
  TypeOK
  OriginalPoint
PROPERTY
  EnumSpec
