CONSTANTS
  u1 = u1
  u2 = u2
  p1 = p1
  p2 = p2
  o1 = o1
  o2 = o2
  t1 = t1
  None = None
  Users <- OneUser
  Products <- OneProduct
  OrderIds <- OneOrder
  Tracked <- NoProduct
  InitStock <- NoUnits
  Terms <- OneTerm
  Methods <- Acquiring
  Paths <- SinglePath
  Flaws <- AllFlaws
  MaxDate = 2
  MaxAge = 1
SPECIFICATION FairSpec
INVARIANT AccessNeedsPayment
PROPERTIES OldSuccessIgnored PaidInvoiceNoticed
