----------------------------- MODULE SolanaRoles -----------------------------
(***************************************************************************)
(* The roles of the Solana program: the owner held in the TbrConfig        *)
(* account, the successor it has named, the auth badges of the owner and   *)
(* the admins, and the upgrade authority that the loader keeps in the      *)
(* program-data account and that the program parks on its upgrade-lock PDA *)
(* while a transfer of ownership is pending.                               *)
(*                                                                         *)
(* One action is one instruction.  An instruction that fails, in an Anchor *)
(* constraint, in the handler or in a call to the loader, changes nothing, *)
(* so only successful instructions are steps.                              *)
(***************************************************************************)
CONSTANTS
  Account,      \* the keys that sign instructions
  None,         \* Pubkey option: no account
  Lock          \* the upgrade-lock PDA, which only the program signs for

ASSUME RolesAssumption ==
  /\ None \notin Account
  /\ Lock \notin Account
  /\ None # Lock

VARIABLES
  authority,    \* upgrade authority recorded in the program data
  owner,        \* TbrConfig.owner, None before the program is initialized
  pending,      \* TbrConfig.pending_owner
  badges,       \* the accounts whose auth-badge PDA exists
  signer,       \* history: who signed the last instruction
  direct        \* history: was the loader called other than by the program?

rolesVars == <<authority, owner, pending, badges, signer, direct>>

RolesInit ==
  /\ authority \in Account
  /\ owner = None
  /\ pending = None
  /\ badges = {}
  /\ signer = None
  /\ direct = FALSE

-----------------------------------------------------------------------------
(* The loader changes the authority only for the one that holds it.        *)
SetUpgradeAuthority(current, new) ==
  /\ authority = current
  /\ authority' = new

(* The accounts badge_of and config are created here, so this instruction  *)
(* succeeds once.  create_account fails on a badge that exists already:    *)
(* the owner is not listed among the admins.                               *)
InitializeRoles(deployer, newOwner, admins) ==
  /\ owner = None
  /\ newOwner \notin admins
  /\ IF newOwner = authority
       THEN UNCHANGED authority
       ELSE SetUpgradeAuthority(deployer, newOwner)
  /\ owner' = newOwner
  /\ pending' = None
  /\ badges' = {newOwner} \cup admins
  /\ signer' = deployer
  /\ UNCHANGED direct

MutSubmitKeepsAuthority(s, newOwner) ==
  /\ s = owner
  /\ newOwner # owner
  /\ pending' = newOwner
  /\ authority = s
  /\ signer' = s
  /\ UNCHANGED <<authority, owner, badges, direct>>

SubmitOwnerTransfer(s, newOwner) ==
  /\ s = owner
  /\ newOwner # owner
  /\ pending' = newOwner
  /\ SetUpgradeAuthority(s, Lock)
  /\ signer' = s
  /\ UNCHANGED <<owner, badges, direct>>

MutConfirmKeepsOldBadge(s) ==
  /\ pending = s
  /\ owner \in badges
  /\ SetUpgradeAuthority(Lock, s)
  /\ owner' = s
  /\ pending' = None
  /\ badges' = badges \cup {s}
  /\ signer' = s
  /\ UNCHANGED direct

(* The previous owner's badge must exist: it is closed here.               *)
ConfirmOwnerTransfer(s) ==
  /\ pending = s
  /\ owner \in badges
  /\ SetUpgradeAuthority(Lock, s)
  /\ owner' = s
  /\ pending' = None
  /\ badges' = (badges \ {owner}) \cup {s}
  /\ signer' = s
  /\ UNCHANGED direct

MutCancelLeavesLock(s) ==
  /\ s = owner
  /\ pending' = None
  /\ signer' = s
  /\ UNCHANGED <<authority, owner, badges, direct>>

CancelOwnerTransfer(s) ==
  /\ s = owner
  /\ pending' = None
  /\ SetUpgradeAuthority(Lock, s)
  /\ signer' = s
  /\ UNCHANGED <<owner, badges, direct>>

MutAddAdminUnchecked(s, newAdmin) ==
  /\ newAdmin \notin badges
  /\ badges' = badges \cup {newAdmin}
  /\ signer' = s
  /\ UNCHANGED <<authority, owner, pending, direct>>

MutAddAdminByAdmin(s, newAdmin) ==
  /\ s \in badges
  /\ newAdmin \notin badges
  /\ badges' = badges \cup {newAdmin}
  /\ signer' = s
  /\ UNCHANGED <<authority, owner, pending, direct>>

AddAdmin(s, newAdmin) ==
  /\ s = owner
  /\ newAdmin \notin badges
  /\ badges' = badges \cup {newAdmin}
  /\ signer' = s
  /\ UNCHANGED <<authority, owner, pending, direct>>

(* Any badge may be removed, the signer's own and the owner's included.    *)
RemoveAdmin(s, admin) ==
  /\ s \in badges
  /\ admin \in badges
  /\ badges' = badges \ {admin}
  /\ signer' = s
  /\ UNCHANGED <<authority, owner, pending, direct>>

(* Outside the program: the key that holds the authority hands it on, or   *)
(* gives it up for good.  The lock PDA signs only inside the program.      *)
LoaderSetAuthority(s, new) ==
  /\ SetUpgradeAuthority(s, new)
  /\ signer' = s
  /\ direct' = TRUE
  /\ UNCHANGED <<owner, pending, badges>>

RolesNext ==
  \E s \in Account :
    \/ \E o \in Account, admins \in SUBSET Account : InitializeRoles(s, o, admins)
    \/ \E a \in Account : SubmitOwnerTransfer(s, a)
    \/ ConfirmOwnerTransfer(s)
    \/ CancelOwnerTransfer(s)
    \/ \E a \in Account : AddAdmin(s, a)
    \/ \E a \in Account : RemoveAdmin(s, a)
    \/ \E a \in Account \cup {Lock, None} : LoaderSetAuthority(s, a)

RolesSpec == RolesInit /\ [][RolesNext]_rolesVars

-----------------------------------------------------------------------------
(* Every variable holds a value of its kind, and neither a badge nor a     *)
(* pending owner exists before the program is initialized.                 *)
RolesTypeOK ==
  /\ authority \in Account \cup {Lock, None}
  /\ owner \in Account \cup {None}
  /\ pending \in Account \cup {None}
  /\ badges \in SUBSET Account
  /\ signer \in Account \cup {None}
  /\ direct \in BOOLEAN
  /\ owner = None => pending = None /\ badges = {}

(* While a transfer is pending the upgrade authority sits on the lock PDA, *)
(* so that the successor can take it without the owner's signature and the *)
(* owner can take it back (comment in submit_owner_transfer_request), even *)
(* if the authority is also moved by direct calls to the loader.           *)
PendingMeansLocked == pending # None => authority = Lock

(* The right to upgrade the program follows the owner role: until somebody *)
(* calls the loader directly it is the owner's, and whatever the loader is *)
(* asked it is the lock's while a transfer is pending.                     *)
UpgradeControl ==
  /\ PendingMeansLocked
  /\ ~direct /\ owner # None /\ pending = None => authority = owner

(* A handover of ownership takes the badge from the previous owner and     *)
(* leaves the new one with a badge and with the upgrade authority, and the *)
(* new owner signed it.                                                    *)
HandoverComplete ==
  [][(owner # None /\ owner' # owner) =>
       /\ signer' = owner'
       /\ owner \notin badges'
       /\ owner' \in badges'
       /\ authority' = owner']_rolesVars

(* After initialization a badge is created only by the owner, or for a     *)
(* successor in the step in which it becomes the owner: an admin cannot    *)
(* make another admin (the doc comments of AddAdmin and ConfirmOwner).     *)
BadgesComeFromOwner ==
  [][\A a \in badges' \ badges :
        owner = None \/ signer' = owner \/ (a = owner' /\ a = signer')]_rolesVars

(* "Owner or Admin" is what the doc comments of register_peer and of the   *)
(* configuration instructions authorize; the code asks for a badge.        *)
OwnerIsAuthorized == owner # None => owner \in badges

(* The program implements the two-step transfer of ownership that its doc  *)
(* comments describe.  That a nomination is never overwritten follows from *)
(* the loader: submit passes the authority on in the owner's name, which   *)
(* fails while the lock holds it.                                          *)
Ownership == INSTANCE TwoStepOwnership
OwnershipSpec == Ownership!OSpec
=============================================================================
