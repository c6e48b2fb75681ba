SPECIFICATION FairSpec
CONSTANTS
  o1 = o1
  o2 = o2
  c1 = c1
  c2 = c2
  t1 = t1
  t2 = t2
  t3 = t3
  None = None
  Orders <- TwoOrders
  Cards <- OneCard
  Transfers <- ThreeTransfers
  To <- AllToOne
  Fits <- OnePayment
  Page = 2
  MaxAge = 2
  MaxTime = 3
INVARIANTS TypeOK PaidByItsOwnTransfer
PROPERTIES Promised TransferFound
CHECK_DEADLOCK FALSE
