SPECIFICATION FairLimiterSpec
CONSTANTS
  Clients = {c1, c2, c3}
  Capacity = 2
  Unit = 3
  Rate = 2
  MaxElapsed = 3
  NoOne = NoOne
INVARIANTS LimiterTypeOK WindowBound
PROPERTY EveryCallReturns
