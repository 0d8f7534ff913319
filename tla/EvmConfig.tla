------------------------------ MODULE EvmConfig ------------------------------
(***************************************************************************)
(* Roles, registrations and settings of the EVM contract.  A transaction   *)
(* is a sequence of commands: role commands, and configuration batches     *)
(* whose sender's role is read once, when the batch starts.  A command     *)
(* that reverts undoes the whole transaction, so the storage that others   *)
(* see (store) changes only when a transaction commits; work is the        *)
(* storage as the running transaction sees it.                             *)
(***************************************************************************)
EXTENDS Naturals

CONSTANTS
  Account, NoAccount,   \* addresses, and address(0)
  None,                 \* no running transaction
  Chain, Here,          \* chain ids named in commands; whChainId
  BridgedChains,        \* chains whose token bridge this one knows
  Address, ZeroAddress, \* 32-byte peer addresses
  Values,               \* the u32 settings tried
  MaxCommands           \* bound on the commands of one transaction

ASSUME EvmConfigAssumption ==
  /\ NoAccount \notin Account
  /\ Chain \subseteq Nat
  /\ 0 \in Values
  /\ ZeroAddress \in Address
  /\ MaxCommands \in Nat

Roles == {"None", "Owner", "Admin"}

Storage ==
  [owner : Account \cup {NoAccount}, pendingOwner : Account \cup {NoAccount},
   admins : SUBSET Account, feeRecipient : Account \cup {NoAccount},
   peers : SUBSET ((Chain \ {0, Here}) \X (Address \ {ZeroAddress})),
   canonicalPeer : [Chain -> Address],
   baseFee : [Chain -> Values], maxGasDropoff : [Chain -> Values],
   paused : [Chain -> BOOLEAN]]

(* batch is the role found at the start of the configuration batch that is *)
(* running, "None" between batches.                                        *)
Transaction == [sender : Account, batch : Roles, commands : 0..MaxCommands]

ASSUME NoTransaction == None \notin Transaction

VARIABLES store, work, tx
vars == <<store, work, tx>>

Init ==
  /\ tx = None
  /\ \E o, r \in Account, as \in SUBSET Account :
       store = [owner |-> o, pendingOwner |-> NoAccount, admins |-> as,
                feeRecipient |-> r, peers |-> {},
                canonicalPeer |-> [c \in Chain |-> ZeroAddress],
                baseFee |-> [c \in Chain |-> 0],
                maxGasDropoff |-> [c \in Chain |-> 0],
                paused |-> [c \in Chain |-> FALSE]]
  /\ work = store

-----------------------------------------------------------------------------
Running == tx # None

(* External: AccessControl answers the sender's role, or reverts.          *)
SenderRole ==
  IF tx.sender = work.owner THEN "Owner"
  ELSE IF tx.sender \in work.admins THEN "Admin" ELSE "None"

Begin(s) ==
  /\ ~Running
  /\ tx' = [sender |-> s, batch |-> "None", commands |-> 0]
  /\ UNCHANGED <<store, work>>

Commit ==
  /\ Running
  /\ tx.batch = "None"
  /\ store' = work
  /\ tx' = None
  /\ UNCHANGED work

(* A command that fails, now or later, takes all the others back.          *)
Revert ==
  /\ Running
  /\ work' = store
  /\ tx' = None
  /\ UNCHANGED store

OpenBatch ==
  /\ Running
  /\ tx.batch = "None"
  /\ SenderRole # "None"
  /\ tx' = [tx EXCEPT !.batch = SenderRole]
  /\ UNCHANGED <<store, work>>

CloseBatch ==
  /\ Running
  /\ tx.batch # "None"
  /\ tx' = [tx EXCEPT !.batch = "None"]
  /\ UNCHANGED <<store, work>>

(* One more command of the running transaction has the effect w.           *)
Command(w) ==
  /\ tx.commands < MaxCommands
  /\ tx' = [tx EXCEPT !.commands = @ + 1]
  /\ work' = w
  /\ UNCHANGED store

InBatch == Running /\ tx.batch # "None"

CanAddPeer(c, a) ==
  /\ c \notin {0, Here}
  /\ a # ZeroAddress
  /\ c \in BridgedChains

WithPeer(w, c, a) ==
  [w EXCEPT !.peers = @ \cup {<<c, a>>},
            !.canonicalPeer[c] = IF @ = ZeroAddress THEN a ELSE @]

MutAddPeerReplaces(c, a) ==
  /\ InBatch
  /\ CanAddPeer(c, a)
  /\ Command([work EXCEPT !.peers = @ \cup {<<c, a>>}, !.canonicalPeer[c] = a])

MutAddPeerUnchecked(c, a) ==
  /\ InBatch
  /\ Command(WithPeer(work, c, a))

AddPeer(c, a) ==
  /\ InBatch
  /\ CanAddPeer(c, a)
  /\ Command(WithPeer(work, c, a))

IsChainSupported(c) == work.canonicalPeer[c] # ZeroAddress

UpdateBaseFee(c, v) ==
  /\ InBatch
  /\ IsChainSupported(c)
  /\ Command([work EXCEPT !.baseFee[c] = v])

UpdateMaxGasDropoff(c, v) ==
  /\ InBatch
  /\ IsChainSupported(c)
  /\ Command([work EXCEPT !.maxGasDropoff[c] = v])

PauseChain(c, p) ==
  /\ InBatch
  /\ IsChainSupported(c)
  /\ Command([work EXCEPT !.paused[c] = p])

(* _setFeeRecipient reads the role again, and accepts address(0).          *)
UpdateFeeRecipient(r) ==
  /\ InBatch
  /\ SenderRole # "None"
  /\ Command([work EXCEPT !.feeRecipient = r])

MutUpdateCanonicalPeerUnknown(c, a) ==
  /\ InBatch
  /\ tx.batch = "Owner"
  /\ Command([work EXCEPT !.canonicalPeer[c] = a])

(* A new address becomes a peer first, under the conditions of AddPeer.    *)
UpdateCanonicalPeer(c, a) ==
  /\ InBatch
  /\ tx.batch = "Owner"
  /\ <<c, a>> \in work.peers \/ CanAddPeer(c, a)
  /\ Command([work EXCEPT !.peers = @ \cup {<<c, a>>}, !.canonicalPeer[c] = a])

ConfigCommand ==
  \/ \E c \in Chain, a \in Address : AddPeer(c, a) \/ UpdateCanonicalPeer(c, a)
  \/ \E c \in Chain, v \in Values : UpdateBaseFee(c, v) \/ UpdateMaxGasDropoff(c, v)
  \/ \E c \in Chain, p \in BOOLEAN : PauseChain(c, p)
  \/ \E r \in Account \cup {NoAccount} : UpdateFeeRecipient(r)

-----------------------------------------------------------------------------
(* The role commands, of the AccessControl component that the dispatcher   *)
(* hands them to.                                                          *)
BetweenBatches == Running /\ tx.batch = "None"

ProposeOwnershipTransfer(a) ==
  /\ BetweenBatches
  /\ SenderRole = "Owner"
  /\ Command([work EXCEPT !.pendingOwner = a])

MutAcquireInBatch ==
  /\ Running
  /\ work.pendingOwner \in Account
  /\ tx.batch # "None" \/ tx.sender = work.pendingOwner
  /\ Command([work EXCEPT !.owner = work.pendingOwner, !.pendingOwner = NoAccount])

AcquireOwnership ==
  /\ BetweenBatches
  /\ tx.sender = work.pendingOwner
  /\ Command([work EXCEPT !.owner = tx.sender, !.pendingOwner = NoAccount])

RelinquishOwnership ==
  /\ BetweenBatches
  /\ SenderRole = "Owner"
  /\ Command([work EXCEPT !.owner = NoAccount, !.pendingOwner = NoAccount])

AddAdmin(a) ==
  /\ BetweenBatches
  /\ SenderRole = "Owner"
  /\ Command([work EXCEPT !.admins = @ \cup {a}])

RevokeAdmin(a) ==
  /\ BetweenBatches
  /\ SenderRole # "None"
  /\ Command([work EXCEPT !.admins = @ \ {a}])

RoleCommand ==
  \/ AcquireOwnership
  \/ RelinquishOwnership
  \/ \E a \in Account :
       ProposeOwnershipTransfer(a) \/ AddAdmin(a) \/ RevokeAdmin(a)

Next ==
  \/ \E s \in Account : Begin(s)
  \/ OpenBatch
  \/ CloseBatch
  \/ ConfigCommand
  \/ RoleCommand
  \/ Commit
  \/ Revert

Spec == Init /\ [][Next]_vars

-----------------------------------------------------------------------------
(* Both copies of the storage hold values of their kind, and they agree    *)
(* when no transaction runs; neither this chain nor chain 0 nor the zero   *)
(* address is ever registered, whichever of add-peer and                   *)
(* update-canonical-peer put it there.                                     *)
TypeOK ==
  /\ store \in Storage
  /\ work \in Storage
  /\ tx \in Transaction \cup {None}
  /\ tx = None => work = store

Registered(w) ==
  /\ \A c \in Chain :
       w.canonicalPeer[c] # ZeroAddress => <<c, w.canonicalPeer[c]>> \in w.peers
  /\ \A p \in w.peers : w.canonicalPeer[p[1]] # ZeroAddress

(* At every point of a transaction, not only after it: the canonical peer  *)
(* of a chain is one of its peers, and every chain that has peers has one. *)
CanonicalRegistered == Registered(work) /\ Registered(store)

(* The role that a batch reads when it starts is still the sender's role   *)
(* at each of its commands, so the owner-only command is never run on a    *)
(* stale answer.                                                           *)
BatchRoleCurrent ==
  (Running /\ tx.batch # "None") => tx.batch = SenderRole

(* "admin can add new peers, but only owner can change existing            *)
(* registrations": a canonical peer moves only in a transaction sent by    *)
(* the owner, or by the pending owner that acquires ownership in it.       *)
CanonicalMovesByOwner ==
  [][\A c \in Chain :
       (/\ store.canonicalPeer[c] # ZeroAddress
        /\ store'.canonicalPeer[c] # store.canonicalPeer[c]) =>
         tx.sender \in {store.owner, store.pendingOwner}]_vars

(* The committed registrations behave as every deployment promises.        *)
Registry == INSTANCE PeerRegistry
  WITH peers <- store.peers, canonical <- store.canonicalPeer,
       None <- ZeroAddress
RegistrySpec == Registry!RSpec
=============================================================================
