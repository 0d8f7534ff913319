\* As in SolanaRoles.cfg, the upgrade authority may be given up for good before
\* the program is initialized.
SPECIFICATION Spec
CONSTANTS
  Account = {a1, a2}
  None = None
  Lock = Lock
  Chain = {0, 2, 3}
  Address = {zero, p, q}
  ZeroAddress = zero
  Values = {0, 7}
INVARIANTS TypeOK
PROPERTIES CanonicalMovesByOwner RegistrySpec
CHECK_DEADLOCK FALSE
