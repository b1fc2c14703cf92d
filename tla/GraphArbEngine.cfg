SPECIFICATION FairSpec
CONSTANTS
  Cycles = {c1, c2}
  NoCycle = NoCycle
  Grid <- SomeGrid
  Gas = 2
  Dust = 1
  MaxOut = 6
  MaxEvents = 3
INVARIANTS TypeOK NoResultLost BestSizeTraded
PROPERTIES TradedOnce EventsConsumed ResultsAlerted
CHECK_DEADLOCK FALSE
