SPECIFICATION FairSpec
CONSTANTS
  Offers <- MCOffers
  MinLiquidity = 1
  MinVolume = 1
  TargetPools = 2
  Pages = 2
  PageAttempts = 2
  RoutingAssets = 1
  TokenAttempts = 2
  StaticFallback <- MCStatic
  Candidates <- MCCandidates
  Camelot <- MCCamelot
  ChainFee <- MCChainFee
  Committed <- MCCommitted
  MaxPage = 1
  MaxScripts = 3
  MaxDeaths = 1
INVARIANTS Routable 
PROPERTIES CrawlRepairs
CHECK_DEADLOCK FALSE
