SPECIFICATION Spec
CONSTANTS
  Account = {user, admin}
  Admins = {admin}
  Amounts = {0, 1, 2, 3}
  MessageFee = 1
  MaxBalance = 6
  MaxDepth = 2
  Word = 16
INVARIANTS TypeOK Accounted SpendsOwnValue EndIsCovered
PROPERTIES NothingKept
