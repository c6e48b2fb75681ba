CONSTANTS
  u1 = u1
  u2 = u2
  p1 = p1
  p2 = p2
  o1 = o1
  o2 = o2
  t1 = t1
  None = None
  Users <- TwoUsers
  Products <- TwoProducts
  OrderIds <- TwoOrders
  Tracked <- OneProduct
  InitStock <- OneUnit
  Terms <- OneTerm
  Methods <- Transfer
  Paths <- BothPaths
  Flaws <- Sound
  MaxDate = 0
  MaxAge = 2
SPECIFICATION Spec
INVARIANTS StockConserved StockNonNegative OneActiveOrder
PROPERTIES TransfersPromised
SYMMETRY UserOrderSymmetry
