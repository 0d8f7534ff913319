SPECIFICATION Spec
CONSTANTS
  Account = {a1, a2}
  NoAccount = NoAccount
  None = None
  Here = 2
  Chain = {0, 2, 4, 5}
  BridgedChains = {2, 4}
  Address = {zero, p, q}
  ZeroAddress = zero
  Values = {0, 7}
  MaxCommands = 2
INVARIANTS TypeOK CanonicalRegistered BatchRoleCurrent
PROPERTIES CanonicalMovesByOwner RegistrySpec
