CONSTANTS
  o1 = o1
  o2 = o2
  a1 = a1
  a2 = a2
  None = None
  Orders <- TwoOrders
  Manual <- LastByHand
  Admins <- TwoAdmins
  Unreachable <- Nobody
  Batch = 1
  NotifyLimit = 1
SPECIFICATION FairSpec
INVARIANTS TypeOK NotifiedMeansTold
PROPERTIES Promised EveryOrderReported
