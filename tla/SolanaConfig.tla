---------------------------- MODULE SolanaConfig ----------------------------
(***************************************************************************)
(* The registrations and settings of the Solana program: the peer and      *)
(* chain-config PDAs and the TbrConfig account, changed by accounts whose  *)
(* badges and ownership SolanaRoles keeps.  Every instruction is atomic;   *)
(* one that fails changes nothing.                                         *)
(***************************************************************************)
EXTENDS SolanaRoles, Naturals

CONSTANTS
  Chain,        \* chain ids an instruction may name, 0 included
  Address,      \* 32-byte peer addresses, ZeroAddress included
  ZeroAddress,
  Values        \* the u32 settings tried: fees, dropoffs, gas, sizes

ASSUME ConfigAssumption ==
  /\ Chain \subseteq Nat
  /\ 0 \in Values
  /\ ZeroAddress \in Address
  /\ None \notin Address

VARIABLES
  peers,        \* the peer PDAs: pairs <<chain_id, peer_address>>
  chainConfig,  \* the chain-config PDA of each chain, None if not created
  tbrConfig     \* the settings in TbrConfig, None before initialization

vars == <<rolesVars, peers, chainConfig, tbrConfig>>

ChainConfig == [canonical : Address, paused : BOOLEAN,
                maxGasDropoff : Values, relayerFee : Values]
TbrConfig == [feeRecipient : Account, evmGas : Values, evmSize : Values]

(* An account that was not created is told apart from every content.       *)
ASSUME NoneAssumption == None \notin ChainConfig /\ None \notin TbrConfig

Init ==
  /\ RolesInit
  /\ peers = {}
  /\ chainConfig = [c \in Chain |-> None]
  /\ tbrConfig = None

-----------------------------------------------------------------------------
(* Settings of the program that initialize leaves at zero are filled in by *)
(* update_evm_transaction_config before quotes make sense.                 *)
Initialize(s, o, admins, recipient) ==
  /\ InitializeRoles(s, o, admins)
  /\ tbrConfig' = [feeRecipient |-> recipient, evmGas |-> 0, evmSize |-> 0]
  /\ UNCHANGED <<peers, chainConfig>>

ChangeRoles(s) ==
  /\ \/ \E a \in Account : SubmitOwnerTransfer(s, a)
     \/ ConfirmOwnerTransfer(s)
     \/ CancelOwnerTransfer(s)
     \/ \E a \in Account : AddAdmin(s, a)
     \/ \E a \in Account : RemoveAdmin(s, a)
     \/ \E a \in Account \cup {Lock, None} : LoaderSetAuthority(s, a)
  /\ UNCHANGED <<peers, chainConfig, tbrConfig>>

(* What every instruction below asks of its signer and leaves alone.       *)
Authorized(s) ==
  /\ s \in badges
  /\ signer' = s
  /\ UNCHANGED <<authority, owner, pending, badges, direct>>

FirstPeerConfig(a) ==
  [canonical |-> a, paused |-> TRUE, maxGasDropoff |-> 0, relayerFee |-> 0]

MutRegisterForgetsPeer(s, c, a) ==
  /\ Authorized(s)
  /\ <<c, a>> \notin peers
  /\ c # 0
  /\ a # ZeroAddress
  /\ chainConfig' = [chainConfig EXCEPT ![c] = FirstPeerConfig(a)]
  /\ peers' = peers \cup {<<c, a>>}
  /\ UNCHANGED tbrConfig

MutRegisterPeerAnyAddress(s, c, a) ==
  /\ Authorized(s)
  /\ <<c, a>> \notin peers
  /\ peers' = peers \cup {<<c, a>>}
  /\ UNCHANGED <<tbrConfig, chainConfig>>

(* The peer PDA must be new.  The first peer of a chain creates the chain  *)
(* config and becomes its canonical peer.                                  *)
RegisterPeer(s, c, a) ==
  /\ Authorized(s)
  /\ <<c, a>> \notin peers
  /\ c # 0
  /\ a # ZeroAddress
  /\ chainConfig' =
       IF chainConfig[c] = None
         THEN [chainConfig EXCEPT ![c] = FirstPeerConfig(a)]
         ELSE chainConfig
  /\ peers' = peers \cup {<<c, a>>}
  /\ UNCHANGED tbrConfig

MutUpdateCanonicalOtherChain(s, p, c) ==
  /\ s = owner
  /\ p \in peers
  /\ chainConfig[c] # None
  /\ p[2] # chainConfig[c].canonical
  /\ chainConfig' = [chainConfig EXCEPT ![c].canonical = p[2]]
  /\ signer' = s
  /\ UNCHANGED <<authority, owner, pending, badges, direct, peers, tbrConfig>>

(* The accounts passed are any peer p and the config of any chain c.       *)
UpdateCanonicalPeer(s, p, c) ==
  /\ s = owner
  /\ p \in peers
  /\ chainConfig[c] # None
  /\ p[1] = c
  /\ p[2] # chainConfig[c].canonical
  /\ chainConfig' = [chainConfig EXCEPT ![c].canonical = p[2]]
  /\ signer' = s
  /\ UNCHANGED <<authority, owner, pending, badges, direct, peers, tbrConfig>>

SetPauseForOutboundTransfers(s, c, paused) ==
  /\ Authorized(s)
  /\ chainConfig[c] # None
  /\ chainConfig' = [chainConfig EXCEPT ![c].paused = paused]
  /\ UNCHANGED <<peers, tbrConfig>>

UpdateMaxGasDropoff(s, c, v) ==
  /\ Authorized(s)
  /\ chainConfig[c] # None
  /\ chainConfig' = [chainConfig EXCEPT ![c].maxGasDropoff = v]
  /\ UNCHANGED <<peers, tbrConfig>>

UpdateRelayerFee(s, c, v) ==
  /\ Authorized(s)
  /\ chainConfig[c] # None
  /\ chainConfig' = [chainConfig EXCEPT ![c].relayerFee = v]
  /\ UNCHANGED <<peers, tbrConfig>>

UpdateFeeRecipient(s, a) ==
  /\ Authorized(s)
  /\ tbrConfig' = [tbrConfig EXCEPT !.feeRecipient = a]
  /\ UNCHANGED <<peers, chainConfig>>

UpdateEvmTransactionConfig(s, gas, size) ==
  /\ Authorized(s)
  /\ tbrConfig' = [tbrConfig EXCEPT !.evmGas = gas, !.evmSize = size]
  /\ UNCHANGED <<peers, chainConfig>>

UpdateChainConfig(s, c) ==
  \/ \E paused \in BOOLEAN : SetPauseForOutboundTransfers(s, c, paused)
  \/ \E v \in Values : UpdateMaxGasDropoff(s, c, v)
  \/ \E v \in Values : UpdateRelayerFee(s, c, v)

Next ==
  \E s \in Account :
    \/ \E o, r \in Account, admins \in SUBSET Account :
         Initialize(s, o, admins, r)
    \/ ChangeRoles(s)
    \/ \E c \in Chain, a \in Address : RegisterPeer(s, c, a)
    \/ \E p \in peers, c \in Chain : UpdateCanonicalPeer(s, p, c)
    \/ \E c \in Chain : UpdateChainConfig(s, c)
    \/ \E a \in Account : UpdateFeeRecipient(s, a)
    \/ \E gas, size \in Values : UpdateEvmTransactionConfig(s, gas, size)

Spec == Init /\ [][Next]_vars

-----------------------------------------------------------------------------
(* Every account holds a value of its kind; nothing is registered or       *)
(* configured before the program is initialized.                           *)
TypeOK ==
  /\ RolesTypeOK
  /\ peers \subseteq (Chain \ {0}) \X (Address \ {ZeroAddress})
  /\ chainConfig \in [Chain -> ChainConfig \cup {None}]
  /\ tbrConfig \in TbrConfig \cup {None}
  /\ owner = None <=> tbrConfig = None
  /\ owner = None => peers = {} /\ chainConfig = [c \in Chain |-> None]

(* A chain has a config exactly when it has a peer, and its canonical peer *)
(* is one of the peers registered for that same chain: what is sent to it  *)
(* goes to a contract whose answers are accepted.                          *)
CanonicalRegistered ==
  /\ \A c \in Chain : chainConfig[c] # None => <<c, chainConfig[c].canonical>> \in peers
  /\ \A p \in peers : chainConfig[p[1]] # None

(* An admin may register peers, but once a chain has a canonical peer only *)
(* the owner redirects transfers to another one (doc comments of           *)
(* register_peer and update_canonical_peer).                               *)
CanonicalMovesByOwner ==
  [][\A c \in Chain :
       (chainConfig[c] # None /\ chainConfig'[c] # chainConfig[c]) =>
         \/ chainConfig'[c].canonical = chainConfig[c].canonical
         \/ signer' = owner /\ owner' = owner]_vars

(* The peers and canonical peers behave as every deployment promises.      *)
Registry == INSTANCE PeerRegistry
  WITH canonical <- [c \in Chain |-> IF chainConfig[c] = None THEN None
                                     ELSE chainConfig[c].canonical]
RegistrySpec == Registry!RSpec
=============================================================================
