SPECIFICATION Spec
CONSTANTS
  Ticks = 2
  WithDma = TRUE
  ActivePullup = FALSE
  NoisyBus = FALSE
  StuckLine = FALSE
  Instants <- FewInstants
  MaxEdges = 0
  MaxPulses = 9
  MaxLag <- LagConflicts
  Requests <- OneBit
  Speeds = {0}
  SharedDma = TRUE
INVARIANTS
  OtherKeepsDma
