SPECIFICATION Spec
CONSTANTS
  fast = fast
  fastParasite = fastParasite
  slow = slow
  slowParasite = slowParasite
  Devices <- Kinds
  Overdrive <- Fast
  Parasite <- Unpowered
  Faults = {"power"}
  MaxFaults = 1
INVARIANT
  ParasitePowerFlagged
