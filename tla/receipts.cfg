CONSTANTS
  o1 = o1
  o2 = o2
  i1 = i1
  i2 = i2
  i3 = i3
  u1 = u1
  None = None
  Orders <- TwoOrders
  Images <- ThreeImages
  Owner <- SameBuyer
  Price = 20000
  Numbers <- TwoNumbers
  Ibans <- OneIban
  Answers <- SomeAnswers
  CardIds <- TwoCards
  FirstCard = 5077
  MaxChanges = 1
SPECIFICATION Spec
INVARIANTS TypeOK TwoReceiptsAtMost SettledForAReason
PROPERTIES Promised DecidedOnce
SYMMETRY Symmetry
