SPECIFICATION Spec
CONSTANTS
  Ticks = 2
  WithDma = TRUE
  ActivePullup = TRUE
  NoisyBus = FALSE
  StuckLine = FALSE
  Instants <- FewInstants
  MaxEdges = 0
  MaxPulses = 3
  MaxLag <- LagConflicts
  Requests <- OneTwoBits
  Speeds = {0}
  SharedDma = TRUE
INVARIANTS
  RxTrack
  PullupOpsFail
PROPERTY
  OpSteps
