-------------------------- MODULE SolanaConfigProofs --------------------------
(***************************************************************************)
(* Proofs about SolanaRoles and SolanaConfig, for any accounts, chains and *)
(* addresses.                                                              *)
(***************************************************************************)
EXTENDS SolanaConfig, TLAPS

(* Type correctness: every instruction leaves every account with a value   *)
(* of its kind, and there are no roles before initialization.              *)
THEOREM RolesTypeCorrect == RolesSpec => []RolesTypeOK
<1>1. RolesInit => RolesTypeOK
  BY DEF RolesInit, RolesTypeOK
<1>2. RolesTypeOK /\ [RolesNext]_rolesVars => RolesTypeOK'
  <2> SUFFICES ASSUME RolesTypeOK, [RolesNext]_rolesVars PROVE RolesTypeOK'
    OBVIOUS
  <2> USE RolesAssumption DEF RolesTypeOK
  <2>1. ASSUME NEW s \in Account, NEW o \in Account,
               NEW admins \in SUBSET Account, InitializeRoles(s, o, admins)
        PROVE  RolesTypeOK'
    BY <2>1 DEF InitializeRoles, SetUpgradeAuthority
  <2>2. ASSUME NEW s \in Account, NEW a \in Account, SubmitOwnerTransfer(s, a)
        PROVE  RolesTypeOK'
    BY <2>2 DEF SubmitOwnerTransfer, SetUpgradeAuthority
  <2>3. ASSUME NEW s \in Account, ConfirmOwnerTransfer(s)
        PROVE  RolesTypeOK'
    BY <2>3 DEF ConfirmOwnerTransfer, SetUpgradeAuthority
  <2>4. ASSUME NEW s \in Account, CancelOwnerTransfer(s)
        PROVE  RolesTypeOK'
    BY <2>4 DEF CancelOwnerTransfer, SetUpgradeAuthority
  <2>5. ASSUME NEW s \in Account, NEW a \in Account, AddAdmin(s, a)
        PROVE  RolesTypeOK'
    BY <2>5 DEF AddAdmin
  <2>6. ASSUME NEW s \in Account, NEW a \in Account, RemoveAdmin(s, a)
        PROVE  RolesTypeOK'
    BY <2>6 DEF RemoveAdmin
  <2>7. ASSUME NEW s \in Account, NEW a \in Account \cup {Lock, None},
               LoaderSetAuthority(s, a)
        PROVE  RolesTypeOK'
    BY <2>7 DEF LoaderSetAuthority, SetUpgradeAuthority
  <2>8. CASE UNCHANGED rolesVars
    BY <2>8 DEF rolesVars
  <2> QED
    BY <2>1, <2>2, <2>3, <2>4, <2>5, <2>6, <2>7, <2>8 DEF RolesNext
<1> QED
  BY <1>1, <1>2, PTL DEF RolesSpec

-----------------------------------------------------------------------------
(* A pending transfer keeps the authority on the lock PDA, whatever the    *)
(* holder of the authority does directly with the loader.                  *)
THEOREM PendingLocked == RolesSpec => []PendingMeansLocked
<1>1. RolesInit => PendingMeansLocked
  BY DEF RolesInit, PendingMeansLocked
<1>2. PendingMeansLocked /\ [RolesNext]_rolesVars => PendingMeansLocked'
  BY RolesAssumption
     DEF PendingMeansLocked, RolesNext, rolesVars, InitializeRoles, SubmitOwnerTransfer,
         ConfirmOwnerTransfer, CancelOwnerTransfer, AddAdmin, RemoveAdmin,
         LoaderSetAuthority, SetUpgradeAuthority
<1> QED
  BY <1>1, <1>2, PTL DEF RolesSpec

(* The upgrade authority follows the owner role.  Only RolesTypeOK is needed    *)
(* beside the invariant itself: it says that a program with no owner has   *)
(* no pending owner.                                                       *)
THEOREM UpgradeFollowsOwner == RolesSpec => []UpgradeControl
<1>1. RolesInit => UpgradeControl
  BY DEF RolesInit, UpgradeControl, PendingMeansLocked
<1>2. RolesTypeOK /\ UpgradeControl /\ [RolesNext]_rolesVars => UpgradeControl'
  <2> SUFFICES ASSUME RolesTypeOK, UpgradeControl, [RolesNext]_rolesVars
               PROVE  UpgradeControl'
    OBVIOUS
  <2> USE RolesAssumption DEF UpgradeControl, PendingMeansLocked, RolesTypeOK
  <2>1. ASSUME NEW s \in Account, NEW o \in Account,
               NEW admins \in SUBSET Account, InitializeRoles(s, o, admins)
        PROVE  UpgradeControl'
    BY <2>1 DEF InitializeRoles, SetUpgradeAuthority
  <2>2. ASSUME NEW s \in Account, NEW a \in Account, SubmitOwnerTransfer(s, a)
        PROVE  UpgradeControl'
    BY <2>2 DEF SubmitOwnerTransfer, SetUpgradeAuthority
  <2>3. ASSUME NEW s \in Account, ConfirmOwnerTransfer(s)
        PROVE  UpgradeControl'
    BY <2>3 DEF ConfirmOwnerTransfer, SetUpgradeAuthority
  <2>4. ASSUME NEW s \in Account, CancelOwnerTransfer(s)
        PROVE  UpgradeControl'
    BY <2>4 DEF CancelOwnerTransfer, SetUpgradeAuthority
  <2>5. ASSUME NEW s \in Account, NEW a \in Account,
               AddAdmin(s, a) \/ RemoveAdmin(s, a)
        PROVE  UpgradeControl'
    BY <2>5 DEF AddAdmin, RemoveAdmin
  <2>6. ASSUME NEW s \in Account, NEW a \in Account \cup {Lock, None},
               LoaderSetAuthority(s, a)
        PROVE  UpgradeControl'
    BY <2>6 DEF LoaderSetAuthority, SetUpgradeAuthority
  <2>7. CASE UNCHANGED rolesVars
    BY <2>7 DEF rolesVars
  <2> QED
    BY <2>1, <2>2, <2>3, <2>4, <2>5, <2>6, <2>7 DEF RolesNext
<1> QED
  BY <1>1, <1>2, RolesTypeCorrect, PTL DEF RolesSpec

-----------------------------------------------------------------------------
(* The program implements the abstract two-step transfer of ownership.     *)
THEOREM ImplementsOwnership == RolesSpec => OwnershipSpec
<1>1. RolesInit => Ownership!OInit
  BY DEF RolesInit, Ownership!OInit
<1>2. RolesTypeOK /\ PendingMeansLocked /\ [RolesNext]_rolesVars
      => [Ownership!ONext]_(Ownership!oVars)
  <2> SUFFICES ASSUME RolesTypeOK, PendingMeansLocked, [RolesNext]_rolesVars
               PROVE  [Ownership!ONext]_(Ownership!oVars)
    OBVIOUS
  <2> USE RolesAssumption DEF RolesTypeOK, Ownership!ONext, Ownership!oVars
  <2>1. ASSUME NEW s \in Account, NEW o \in Account,
               NEW admins \in SUBSET Account, InitializeRoles(s, o, admins)
        PROVE  Ownership!Establish
    BY <2>1 DEF InitializeRoles, Ownership!Establish
  <2>2. ASSUME NEW s \in Account, NEW a \in Account, SubmitOwnerTransfer(s, a)
        PROVE  Ownership!Propose
    BY <2>2 DEF SubmitOwnerTransfer, SetUpgradeAuthority,
                PendingMeansLocked, Ownership!Propose
  <2>3. ASSUME NEW s \in Account, ConfirmOwnerTransfer(s)
        PROVE  Ownership!Claim
    BY <2>3 DEF ConfirmOwnerTransfer, Ownership!Claim
  <2>4. ASSUME NEW s \in Account, CancelOwnerTransfer(s)
        PROVE  Ownership!Withdraw
    BY <2>4 DEF CancelOwnerTransfer, Ownership!Withdraw
  <2>5. ASSUME NEW s \in Account, NEW a \in Account \cup {Lock, None},
               AddAdmin(s, a) \/ RemoveAdmin(s, a) \/ LoaderSetAuthority(s, a)
        PROVE  UNCHANGED <<owner, pending>>
    BY <2>5 DEF AddAdmin, RemoveAdmin, LoaderSetAuthority
  <2>6. CASE UNCHANGED rolesVars
    BY <2>6 DEF rolesVars
  <2> QED
    BY <2>1, <2>2, <2>3, <2>4, <2>5, <2>6 DEF RolesNext
<1> QED
  BY <1>1, <1>2, RolesTypeCorrect, PendingLocked, PTL
     DEF RolesSpec, OwnershipSpec, Ownership!OSpec

-----------------------------------------------------------------------------
(* A handover is complete in the step that makes it: only the confirmation *)
(* by the successor changes the owner once there is one, and it closes the *)
(* old badge, opens the new one and moves the upgrade authority.           *)
THEOREM HandoversComplete == RolesSpec => HandoverComplete
<1>1. RolesTypeOK /\ [RolesNext]_rolesVars
      => ((owner # None /\ owner' # owner) =>
            /\ signer' = owner'
            /\ owner \notin badges'
            /\ owner' \in badges'
            /\ authority' = owner')
  <2> SUFFICES ASSUME RolesTypeOK, [RolesNext]_rolesVars,
                      owner # None, owner' # owner
               PROVE  /\ signer' = owner'
                      /\ owner \notin badges'
                      /\ owner' \in badges'
                      /\ authority' = owner'
    OBVIOUS
  <2>1. PICK s \in Account : ConfirmOwnerTransfer(s)
    BY DEF RolesNext, rolesVars, InitializeRoles, SubmitOwnerTransfer,
           CancelOwnerTransfer, AddAdmin, RemoveAdmin, LoaderSetAuthority
  <2> QED
    BY <2>1 DEF ConfirmOwnerTransfer, SetUpgradeAuthority
<1> QED
  BY <1>1, RolesTypeCorrect, PTL DEF RolesSpec, HandoverComplete

(* Badges come from the owner: an admin makes no admin, and nobody but the *)
(* successor that confirms gets a badge by anything but the owner's        *)
(* signature.                                                              *)
THEOREM OwnerMakesAdmins == RolesSpec => BadgesComeFromOwner
<1>1. [RolesNext]_rolesVars
      => \A a \in badges' \ badges :
           owner = None \/ signer' = owner \/ (a = owner' /\ a = signer')
  BY DEF RolesNext, rolesVars, InitializeRoles, SubmitOwnerTransfer,
         ConfirmOwnerTransfer, CancelOwnerTransfer, AddAdmin, RemoveAdmin,
         LoaderSetAuthority
<1> QED
  BY <1>1, PTL DEF RolesSpec, BadgesComeFromOwner

-----------------------------------------------------------------------------
(* The registrations and settings, with the roles that guard them.         *)
LEMMA InitializeType ==
  ASSUME TypeOK, NEW s \in Account, NEW o \in Account, NEW r \in Account,
         NEW admins \in SUBSET Account, Initialize(s, o, admins, r)
  PROVE  TypeOK'
<1>1. RolesTypeOK' /\ owner = None /\ owner' \in Account
  BY RolesAssumption
     DEF TypeOK, Initialize, RolesTypeOK, InitializeRoles,
         SetUpgradeAuthority
<1>2. tbrConfig' \in TbrConfig
  BY ConfigAssumption DEF Initialize, TbrConfig
<1> QED
  BY <1>1, <1>2, RolesAssumption, NoneAssumption DEF TypeOK, Initialize

(* The role instructions run only in an initialized program and keep the   *)
(* roles well typed; a direct call of the loader leaves them alone.        *)
LEMMA ChangeRolesType ==
  ASSUME TypeOK, NEW s \in Account, ChangeRoles(s)
  PROVE  TypeOK'
<1> USE RolesAssumption DEF RolesTypeOK
<1>1. UNCHANGED <<peers, chainConfig, tbrConfig>>
  BY DEF ChangeRoles
<1>2. ASSUME NEW a \in Account \cup {Lock, None}, LoaderSetAuthority(s, a)
      PROVE  TypeOK'
  BY <1>1, <1>2 DEF TypeOK, LoaderSetAuthority, SetUpgradeAuthority
<1>3. ASSUME NEW a \in Account,
             \/ SubmitOwnerTransfer(s, a) \/ ConfirmOwnerTransfer(s)
             \/ CancelOwnerTransfer(s) \/ AddAdmin(s, a) \/ RemoveAdmin(s, a)
      PROVE  TypeOK'
  <2>1. RolesTypeOK' /\ owner # None /\ owner' # None
    BY <1>3 DEF TypeOK, SetUpgradeAuthority, SubmitOwnerTransfer,
                ConfirmOwnerTransfer, CancelOwnerTransfer, AddAdmin, RemoveAdmin
  <2> QED
    BY <1>1, <2>1 DEF TypeOK
<1> QED
  BY <1>2, <1>3 DEF ChangeRoles

(* The instructions that change settings leave the roles as they are.      *)
LEMMA SettingsKeepRoles ==
  ASSUME TypeOK, NEW s \in Account,
         \/ Authorized(s)
         \/ /\ s = owner /\ signer' = s
            /\ UNCHANGED <<authority, owner, pending, badges, direct>>
  PROVE  RolesTypeOK' /\ owner # None /\ owner' # None
BY RolesAssumption DEF TypeOK, Authorized, RolesTypeOK

LEMMA RegisterPeerType ==
  ASSUME TypeOK, NEW s \in Account, NEW c \in Chain, NEW a \in Address,
         RegisterPeer(s, c, a)
  PROVE  TypeOK'
<1>1. RolesTypeOK' /\ owner # None /\ owner' # None
  BY SettingsKeepRoles DEF RegisterPeer
<1>2. FirstPeerConfig(a) \in ChainConfig
  BY ConfigAssumption DEF FirstPeerConfig, ChainConfig
<1>3. chainConfig' \in [Chain -> ChainConfig \cup {None}]
  BY <1>2 DEF TypeOK, RegisterPeer
<1>4. peers' \subseteq (Chain \ {0}) \X (Address \ {ZeroAddress})
  BY DEF TypeOK, RegisterPeer
<1> QED
  BY <1>1, <1>3, <1>4 DEF TypeOK, RegisterPeer

LEMMA UpdateCanonicalPeerType ==
  ASSUME TypeOK, NEW s \in Account, NEW p \in peers, NEW c \in Chain,
         UpdateCanonicalPeer(s, p, c)
  PROVE  TypeOK'
<1>1. RolesTypeOK' /\ owner # None /\ owner' # None
  BY SettingsKeepRoles DEF UpdateCanonicalPeer
<1>2. p[2] \in Address
  BY DEF TypeOK
<1>3. chainConfig[c] \in ChainConfig
  BY DEF TypeOK, UpdateCanonicalPeer
<1>4. [chainConfig[c] EXCEPT !.canonical = p[2]] \in ChainConfig
  BY <1>2, <1>3 DEF ChainConfig
<1>5. chainConfig' \in [Chain -> ChainConfig \cup {None}]
  BY <1>4 DEF TypeOK, UpdateCanonicalPeer
<1> QED
  BY <1>1, <1>5 DEF TypeOK, UpdateCanonicalPeer

LEMMA UpdateChainConfigType ==
  ASSUME TypeOK, NEW s \in Account, NEW c \in Chain, UpdateChainConfig(s, c)
  PROVE  TypeOK'
<1>1. RolesTypeOK' /\ owner # None /\ owner' # None
  BY SettingsKeepRoles
     DEF UpdateChainConfig, SetPauseForOutboundTransfers,
         UpdateMaxGasDropoff, UpdateRelayerFee
<1>2. chainConfig[c] \in ChainConfig
  BY DEF TypeOK, UpdateChainConfig, SetPauseForOutboundTransfers,
         UpdateMaxGasDropoff, UpdateRelayerFee
<1>3. chainConfig' \in [Chain -> ChainConfig \cup {None}]
  BY <1>2
     DEF TypeOK, ChainConfig, UpdateChainConfig,
         SetPauseForOutboundTransfers, UpdateMaxGasDropoff, UpdateRelayerFee
<1>4. UNCHANGED <<peers, tbrConfig>>
  BY DEF UpdateChainConfig, SetPauseForOutboundTransfers,
         UpdateMaxGasDropoff, UpdateRelayerFee
<1> QED
  BY <1>1, <1>3, <1>4 DEF TypeOK

LEMMA UpdateTbrConfigType ==
  ASSUME TypeOK, NEW s \in Account, NEW a \in Account,
         NEW gas \in Values, NEW size \in Values,
         UpdateFeeRecipient(s, a) \/ UpdateEvmTransactionConfig(s, gas, size)
  PROVE  TypeOK'
<1>1. RolesTypeOK' /\ owner # None /\ owner' # None
  BY SettingsKeepRoles DEF UpdateFeeRecipient, UpdateEvmTransactionConfig
<1>2. tbrConfig \in TbrConfig
  BY <1>1 DEF TypeOK
<1>3. tbrConfig' \in TbrConfig
  BY <1>2 DEF TbrConfig, UpdateFeeRecipient, UpdateEvmTransactionConfig
<1>4. UNCHANGED <<peers, chainConfig>>
  BY DEF UpdateFeeRecipient, UpdateEvmTransactionConfig
<1> QED
  BY <1>1, <1>3, <1>4, NoneAssumption DEF TypeOK

(* Type correctness: settings exist exactly in an initialized program.     *)
THEOREM TypeCorrect == Spec => []TypeOK
<1>1. Init => TypeOK
  BY DEF Init, RolesInit, TypeOK, RolesTypeOK
<1>2. TypeOK /\ [Next]_vars => TypeOK'
  <2> SUFFICES ASSUME TypeOK, [Next]_vars PROVE TypeOK'
    OBVIOUS
  <2>1. CASE UNCHANGED vars
    BY <2>1 DEF vars, rolesVars, TypeOK, RolesTypeOK
  <2>2. CASE Next
    BY <2>2, InitializeType, ChangeRolesType, RegisterPeerType,
       UpdateCanonicalPeerType, UpdateChainConfigType, UpdateTbrConfigType,
       ConfigAssumption DEF Next
  <2> QED
    BY <2>1, <2>2
<1> QED
  BY <1>1, <1>2, PTL DEF Spec

-----------------------------------------------------------------------------
(* Canonical peers stay registered: the inductive step has one case per    *)
(* instruction that touches a registration.                                *)
LEMMA CanonicalStep ==
  TypeOK /\ CanonicalRegistered /\ [Next]_vars => CanonicalRegistered'
<1> SUFFICES ASSUME TypeOK, CanonicalRegistered, [Next]_vars
             PROVE  CanonicalRegistered'
  OBVIOUS
<1>1. ASSUME NEW s \in Account, NEW c \in Chain, NEW a \in Address,
             RegisterPeer(s, c, a)
      PROVE  CanonicalRegistered'
  <2>1. CASE chainConfig[c] = None
    <3>1. chainConfig' = [chainConfig EXCEPT ![c] = FirstPeerConfig(a)]
      BY <1>1, <2>1 DEF RegisterPeer
    <3>2. FirstPeerConfig(a).canonical = a /\ FirstPeerConfig(a) \in ChainConfig
      BY ConfigAssumption DEF FirstPeerConfig, ChainConfig
    <3> QED
      BY <1>1, <3>1, <3>2, NoneAssumption
         DEF RegisterPeer, TypeOK, CanonicalRegistered
  <2>2. CASE chainConfig[c] # None
    BY <1>1, <2>2 DEF RegisterPeer, TypeOK, CanonicalRegistered
  <2> QED
    BY <2>1, <2>2
<1>2. ASSUME NEW s \in Account, NEW p \in peers, NEW c \in Chain,
             UpdateCanonicalPeer(s, p, c)
      PROVE  CanonicalRegistered'
  <2>1. /\ p = <<c, p[2]>>
        /\ p[2] \in Address
        /\ chainConfig[c] \in ChainConfig
    BY <1>2 DEF UpdateCanonicalPeer, TypeOK
  <2>2. /\ [chainConfig[c] EXCEPT !.canonical = p[2]] \in ChainConfig
        /\ [chainConfig[c] EXCEPT !.canonical = p[2]].canonical = p[2]
    BY <2>1 DEF ChainConfig
  <2> QED
    BY <1>2, <2>1, <2>2, NoneAssumption
       DEF UpdateCanonicalPeer, TypeOK, CanonicalRegistered
<1>3. ASSUME NEW s \in Account, NEW c \in Chain, UpdateChainConfig(s, c)
      PROVE  CanonicalRegistered'
  <2>1. chainConfig[c] \in ChainConfig /\ UNCHANGED peers
    BY <1>3 DEF UpdateChainConfig, SetPauseForOutboundTransfers,
                UpdateMaxGasDropoff, UpdateRelayerFee, TypeOK
  <2>2. PICK cfg \in ChainConfig :
          /\ chainConfig' = [chainConfig EXCEPT ![c] = cfg]
          /\ cfg.canonical = chainConfig[c].canonical
    BY <1>3, <2>1
       DEF UpdateChainConfig, SetPauseForOutboundTransfers,
           UpdateMaxGasDropoff, UpdateRelayerFee, ChainConfig, TypeOK
  <2> QED
    BY <1>3, <2>1, <2>2, NoneAssumption
       DEF UpdateChainConfig, SetPauseForOutboundTransfers,
           UpdateMaxGasDropoff, UpdateRelayerFee, TypeOK, CanonicalRegistered
<1>4. CASE UNCHANGED <<peers, chainConfig>>
  BY <1>4 DEF CanonicalRegistered
<1> QED
  BY <1>1, <1>2, <1>3, <1>4
     DEF Next, vars, Initialize, ChangeRoles, UpdateFeeRecipient,
         UpdateEvmTransactionConfig

(* A chain that has a config has a canonical peer that is registered for   *)
(* it, and every peer belongs to a chain that has a config.                *)
THEOREM CanonicalPeersRegistered == Spec => []CanonicalRegistered
<1>1. Init => CanonicalRegistered
  BY DEF Init, CanonicalRegistered
<1> QED
  BY <1>1, CanonicalStep, TypeCorrect, PTL DEF Spec

-----------------------------------------------------------------------------
(* The canonical peers as the abstract registry knows them.                *)
Canonical == [c \in Chain |-> IF chainConfig[c] = None THEN None
                              ELSE chainConfig[c].canonical]

(* What Registry!Consistent says of the peers and of Canonical.            *)
ConsistentPeers ==
  /\ peers \subseteq Chain \X Address
  /\ Canonical \in [Chain -> Address \cup {None}]
  /\ \A c \in Chain : Canonical[c] # None => <<c, Canonical[c]>> \in peers
  /\ \A p \in peers : Canonical[p[1]] # None

LEMMA PeersConsistent == TypeOK /\ CanonicalRegistered => ConsistentPeers
<1> SUFFICES ASSUME TypeOK, CanonicalRegistered PROVE ConsistentPeers
  OBVIOUS
<1>1. \A c \in Chain : chainConfig[c] # None => chainConfig[c].canonical \in Address
  BY DEF TypeOK, ChainConfig
<1>2. peers \subseteq Chain \X Address
  BY DEF TypeOK
<1> QED
  BY <1>1, <1>2, ConfigAssumption
     DEF CanonicalRegistered, ConsistentPeers, Canonical

LEMMA PeersKept == [Next]_vars => peers \subseteq peers'
BY DEF Next, vars, Initialize, ChangeRoles, RegisterPeer, UpdateCanonicalPeer,
       UpdateChainConfig, SetPauseForOutboundTransfers, UpdateMaxGasDropoff,
       UpdateRelayerFee, UpdateFeeRecipient, UpdateEvmTransactionConfig

(* The program implements the abstract registry: peers are never forgotten *)
(* and a chain never loses its canonical peer, which is one of its peers.  *)
THEOREM ImplementsRegistry == Spec => RegistrySpec
<1>1. Init => Registry!RInit
  BY DEF Init, Registry!RInit
<1>2. ConsistentPeers' /\ [Next]_vars => [Registry!Update]_(Registry!rVars)
  BY PeersKept DEF Registry!Update, Registry!Consistent, ConsistentPeers, Canonical
<1> QED
  BY <1>1, <1>2, PeersConsistent, TypeCorrect, CanonicalPeersRegistered, PTL
     DEF Spec, RegistrySpec, Registry!RSpec

-----------------------------------------------------------------------------
(* Only the owner moves a canonical peer, and it does so without giving    *)
(* the role away in the same step; every other instruction that writes a   *)
(* chain's config keeps its canonical peer.                                *)
THEOREM OwnerMovesCanonical == Spec => CanonicalMovesByOwner
<1> DEFINE Kept(c) ==
      \/ chainConfig'[c].canonical = chainConfig[c].canonical
      \/ signer' = owner /\ owner' = owner
<1>1. ASSUME TypeOK, [Next]_vars, NEW c \in Chain, chainConfig[c] # None,
             chainConfig'[c] # chainConfig[c]
      PROVE  Kept(c)
  <2>1. chainConfig \in [Chain -> ChainConfig \cup {None}]
    BY <1>1 DEF TypeOK
  <2>2. ASSUME NEW s \in Account, NEW d \in Chain, NEW a \in Address,
               RegisterPeer(s, d, a)
        PROVE  FALSE
    BY <1>1, <2>1, <2>2 DEF RegisterPeer
  <2>3. ASSUME NEW s \in Account, NEW p \in peers, NEW d \in Chain,
               UpdateCanonicalPeer(s, p, d)
        PROVE  Kept(c)
    BY <2>3 DEF UpdateCanonicalPeer
  <2>4. ASSUME NEW s \in Account, NEW d \in Chain, UpdateChainConfig(s, d)
        PROVE  Kept(c)
    <3>1. PICK cfg \in ChainConfig :
            /\ chainConfig' = [chainConfig EXCEPT ![d] = cfg]
            /\ cfg.canonical = chainConfig[d].canonical
      BY <2>1, <2>4
         DEF UpdateChainConfig, SetPauseForOutboundTransfers,
             UpdateMaxGasDropoff, UpdateRelayerFee, ChainConfig
    <3> QED
      BY <2>1, <3>1
  <2>5. CASE UNCHANGED chainConfig
    BY <1>1, <2>5
  <2> QED
    BY <1>1, <2>2, <2>3, <2>4, <2>5
       DEF Next, vars, Initialize, ChangeRoles, UpdateFeeRecipient,
           UpdateEvmTransactionConfig
<1>2. TypeOK /\ [Next]_vars
      => \A c \in Chain :
           (chainConfig[c] # None /\ chainConfig'[c] # chainConfig[c]) => Kept(c)
  BY <1>1
<1> HIDE DEF Kept
<1>3. Spec => [][\A c \in Chain :
                   (chainConfig[c] # None /\ chainConfig'[c] # chainConfig[c])
                     => Kept(c)]_vars
  BY <1>2, TypeCorrect, PTL DEF Spec
<1> QED
  BY <1>3 DEF Kept, CanonicalMovesByOwner
=============================================================================
