SPECIFICATION Spec
CONSTANTS
  w = w
  a = a
  b = b
  r = r
  s = s
  Tokens = {w, a, b}
  Taxed = {b}
  Weth = w
  Routers = {r, s}
  Calls <- SomeCalls
  LoanFee = 0
  Amounts = {0, 1, 2}
  MaxHeld = 1
INVARIANTS TypeOK NoLingeringAllowance RoutePaysForItself
 
