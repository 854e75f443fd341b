SPECIFICATION FairSpec
CONSTANTS
  Ticks = 4
  WithDma = FALSE
  ActivePullup = TRUE
  NoisyBus = FALSE
  StuckLine = TRUE
  Instants <- Answers
  MaxLag <- LagLimits
  MaxEdges = 0
  MaxPulses = 9
  Requests <- Bits1to3
  Speeds = {0, 1}
INVARIANTS
  TypeOK
  AtRest
  RxDataOk
  SentInOrder
  NoExtraPulse
  NoSpuriousError
PROPERTY
  OpSpec
