SPECIFICATION Spec
CONSTANTS
  Ticks = 2
  WithDma = TRUE
  ActivePullup = FALSE
  NoisyBus = FALSE
  StuckLine = FALSE
  Instants <- QuietInstants
  MaxLag <- LagLimits
  MaxEdges = 0
  MaxPulses = 9
  Requests <- Bits1to3
  Speeds = {0, 1}
  SharedDma = FALSE
INVARIANTS
  TypeOK
  PresenceSound
  PresenceNotMissed
  SentInOrder
  NoExtraPulse
  NoSpuriousError
