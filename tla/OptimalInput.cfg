SPECIFICATION SizeSpec
CONSTANTS
  Markets <- SomeMarkets
  Profit <- NetProfit
  MaxInput <- MaxInputOf
  Iterations = 4
  MaxSag = 2
  Q = 1024
  AfterFee <- CoarseFloat
INVARIANTS NearBest RoundTripNeverGains
CHECK_DEADLOCK FALSE
