SPECIFICATION Spec
CONSTANTS
  Bits = 16
  Family = 8
  Roms <- Attached
  Faults = {"reset", "io", "read", "write"}
  MaxFaults = 2
INVARIANTS
  NoPhantom
  NothingLost
PROPERTY
  Answers
