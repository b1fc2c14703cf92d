SPECIFICATION Spec
CONSTANTS
  w = w
  a = a
  b = b
  Tokens = {w, a, b}
  Weth = w
  Start = checksummed
  Shapes <- TriangleShapes
  Prices <- SmallPrices
  Fee = 1
  Probes <- SmallProbes
  Dry = Dry
  None = None
INVARIANT NoArbitrageMissed
