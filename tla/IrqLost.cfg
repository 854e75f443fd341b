SPECIFICATION Spec
CONSTANTS
  Ticks = 4
  WithDma = FALSE
  ActivePullup = FALSE
  NoisyBus = FALSE
  StuckLine = TRUE
  Instants <- FewAnswers
  MaxLag <- LagLimits
  MaxEdges = 0
  MaxPulses = 9
  Requests <- OneTwoBits
  Speeds = {0}
INVARIANTS
  AllBitsReceived
