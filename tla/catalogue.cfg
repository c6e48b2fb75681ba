CONSTANTS
  a1 = a1
  a2 = a2
  x = x
  y = y
  None = None
  Unset = Unset
  Admins <- TwoAdmins
  Accounts <- TwoAccounts
  MaxProducts = 2
  MaxStarts = 4
  MaxFailures = 1
SYMMETRY Symmetry
SPECIFICATION Spec
INVARIANTS TypeOK CodesOfItsAccount AddedOnce
CHECK_DEADLOCK FALSE
