SPECIFICATION Spec
CONSTANTS
  Bits = 16
  Family = 8
  Roms <- Attached
  Faults = {"write"}
  MaxFaults = 1
INVARIANT
  EndedMeansAllFound
