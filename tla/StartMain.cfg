SPECIFICATION StartSpec
\* The system may stop: main polls for an oscillator that never starts, or sleeps
\* over a timer that was not attached.
CHECK_DEADLOCK FALSE
CONSTANTS
  Builds = {"HIGH_LEVEL", "plain", "pullup"}
  Prescalers = {0, 1, 2, 3, 4, 5, 6, 7, 8}
  TickRates = {2, 4}
INVARIANTS
  NoLostWakeup
  EventNotLost
  LeftSafe
  RateRight
  ClockAsRequested
PROPERTIES
  CallerKeepsRules
  StartUpEnds
  AttachedWaitReturns
  AttachedTestsEnd
