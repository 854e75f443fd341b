SPECIFICATION FairSpec
CONSTANTS
  Ticks = 2
  WithDma = TRUE
  ActivePullup = TRUE
  NoisyBus = TRUE
  StuckLine = FALSE
  Instants <- NoiseInstants
  MaxLag <- LagNoise
  MaxEdges = 2
  MaxPulses = 9
  Requests <- OneTwoBits
  Speeds = {0}
  SharedDma = FALSE
INVARIANTS
  Quiescent
  RxDataOk
  PresenceSound
PROPERTY
  OpSpec
