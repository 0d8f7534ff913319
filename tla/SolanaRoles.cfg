\* The holder of the upgrade authority may give it up for good before the
\* program is initialized, after which no instruction succeeds.
SPECIFICATION RolesSpec
CONSTANTS
  Account = {a1, a2, a3, a4}
  None = None
  Lock = Lock
INVARIANTS RolesTypeOK UpgradeControl
PROPERTIES HandoverComplete BadgesComeFromOwner OwnershipSpec
CHECK_DEADLOCK FALSE
