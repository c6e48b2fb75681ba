CONSTANTS
  referrer = referrer
  friend = friend
  k1 = k1
  k2 = k2
  A = A
  r1 = r1
  r2 = r2
  r3 = r3
  None = None
  Users <- TwoUsers
  Checkouts <- TwoCheckouts
  Buyer <- FriendBuys
  Asks <- OneOfEach
  Offers <- SingleAndCart
  Codes <- FourCodes
  Typed <- HalfOnce
  Levels <- OneLevel
  Referral <- AGift
  CartRewards = TRUE
  Aging <- JustA
  Leaving <- TheFriend
SPECIFICATION Spec
INVARIANTS TypeOK UsageWithinLimit ReferralPaidOnce ChargesFair
SYMMETRY Symmetry
CHECK_DEADLOCK FALSE
