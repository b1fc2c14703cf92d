SPECIFICATION FairSpec
CONSTANTS
  Callers = {poller, sniper}
  Poller = poller
  MaxRetries = 3
  Outcomes = {"ok", "down", "denied", "limited", "broken", "rpcerror"}
  MaxFlaps = 1
INVARIANTS TypeOK RetriesBounded
PROPERTIES CallsEnd FallbackTakesOver
