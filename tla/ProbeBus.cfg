SPECIFICATION Spec
CONSTANTS
  fast = fast
  fastParasite = fastParasite
  slow = slow
  slowParasite = slowParasite
  Devices <- Kinds
  Overdrive <- Fast
  Parasite <- Unpowered
  Faults = {"reset", "refuse", "io", "skip", "power", "decode"}
  MaxFaults = 3
INVARIANTS
  ParasiteFlag
  ModeReaches
PROPERTY
  CallsAllowed
