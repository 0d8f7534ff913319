SPECIFICATION RolesSpec
CONSTANTS
  Account = {a1, a2, a3}
  None = None
  Lock = Lock
INVARIANT OwnerIsAuthorized
