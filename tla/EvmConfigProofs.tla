--------------------------- MODULE EvmConfigProofs ---------------------------
(***************************************************************************)
(* Proofs about EvmConfig, for any accounts, chains, addresses and any     *)
(* number of commands in a transaction.                                    *)
(***************************************************************************)
EXTENDS EvmConfig, TLAPS

(* Both peer commands register <<c, a>> and leave c with a canonical peer  *)
(* that is a, or the one that c already had.                               *)
LEMMA PeerCommand ==
  ASSUME TypeOK, NEW c \in Chain, NEW a \in Address,
         AddPeer(c, a) \/ UpdateCanonicalPeer(c, a)
  PROVE  \E b \in Address :
           /\ work' = [work EXCEPT
                !.peers = work.peers \cup {<<c, a>>},
                !.canonicalPeer = [work.canonicalPeer EXCEPT ![c] = b]]
           /\ b # a => b = work.canonicalPeer[c] /\ b # ZeroAddress
<1>1. CASE AddPeer(c, a)
  <2>1. work' = WithPeer(work, c, a)
    BY <1>1 DEF AddPeer, Command
  <2>2. CASE work.canonicalPeer[c] = ZeroAddress
    <3>1. work' = [work EXCEPT
            !.peers = work.peers \cup {<<c, a>>},
            !.canonicalPeer = [work.canonicalPeer EXCEPT ![c] = a]]
      BY <2>1, <2>2 DEF WithPeer
    <3> WITNESS a \in Address
    <3> QED
      BY <3>1
  <2>3. CASE work.canonicalPeer[c] # ZeroAddress
    <3>1. work.canonicalPeer[c] \in Address
      BY DEF TypeOK, Storage
    <3>2. work' = [work EXCEPT
            !.peers = work.peers \cup {<<c, a>>},
            !.canonicalPeer =
              [work.canonicalPeer EXCEPT ![c] = work.canonicalPeer[c]]]
      BY <2>1, <2>3 DEF WithPeer
    <3> QED
      BY <2>3, <3>1, <3>2
  <2> QED
    BY <2>2, <2>3
<1>2. CASE UpdateCanonicalPeer(c, a)
  <2>1. work' = [work EXCEPT
          !.peers = work.peers \cup {<<c, a>>},
          !.canonicalPeer = [work.canonicalPeer EXCEPT ![c] = a]]
    BY <1>2 DEF UpdateCanonicalPeer, Command
  <2> WITNESS a \in Address
  <2> QED
    BY <2>1
<1> QED
  BY <1>1, <1>2

(* What a configuration command makes of the storage of a transaction.     *)
LEMMA ConfigCommandType ==
  ASSUME TypeOK, ConfigCommand
  PROVE  /\ work' \in Storage
         /\ tx' \in Transaction
         /\ Running /\ store' = store
<1>1. Running /\ store' = store /\ tx \in Transaction
  BY DEF TypeOK, ConfigCommand, AddPeer, UpdateCanonicalPeer, UpdateBaseFee,
         UpdateMaxGasDropoff, PauseChain, UpdateFeeRecipient, InBatch,
         Command, Running
<1>2. tx.commands < MaxCommands /\ tx' = [tx EXCEPT !.commands = @ + 1]
  BY DEF ConfigCommand, AddPeer, UpdateCanonicalPeer, UpdateBaseFee,
         UpdateMaxGasDropoff, PauseChain, UpdateFeeRecipient, Command
<1>3. tx' \in Transaction
  BY <1>1, <1>2, EvmConfigAssumption DEF Transaction
<1>4. work' \in Storage
  <2>1. ASSUME NEW c \in Chain, NEW a \in Address,
               AddPeer(c, a) \/ UpdateCanonicalPeer(c, a)
        PROVE  work' \in Storage
    <3>1. PICK b \in Address :
            work' = [work EXCEPT
              !.peers = work.peers \cup {<<c, a>>},
              !.canonicalPeer = [work.canonicalPeer EXCEPT ![c] = b]]
      BY <2>1, PeerCommand
    <3>2. work.peers \cup {<<c, a>>}
            \in SUBSET ((Chain \ {0, Here}) \X (Address \ {ZeroAddress}))
      <4>1. work.peers \in SUBSET ((Chain \ {0, Here}) \X (Address \ {ZeroAddress}))
        BY DEF TypeOK, Storage
      <4>2. c \notin {0, Here} /\ a # ZeroAddress
        BY <2>1, <4>1 DEF AddPeer, UpdateCanonicalPeer, CanAddPeer
      <4> QED
        BY <4>1, <4>2
    <3>3. [work.canonicalPeer EXCEPT ![c] = b] \in [Chain -> Address]
      BY DEF TypeOK, Storage
    <3> QED
      BY <3>1, <3>2, <3>3 DEF TypeOK, Storage
  <2>2. ASSUME NEW c \in Chain, NEW v \in Values,
               UpdateBaseFee(c, v) \/ UpdateMaxGasDropoff(c, v)
        PROVE  work' \in Storage
    BY <2>2 DEF TypeOK, Storage, UpdateBaseFee, UpdateMaxGasDropoff, Command
  <2>3. ASSUME NEW c \in Chain, NEW p \in BOOLEAN, PauseChain(c, p)
        PROVE  work' \in Storage
    BY <2>3 DEF TypeOK, Storage, PauseChain, Command
  <2>4. ASSUME NEW r \in Account \cup {NoAccount}, UpdateFeeRecipient(r)
        PROVE  work' \in Storage
    BY <2>4 DEF TypeOK, Storage, UpdateFeeRecipient, Command
  <2> QED
    BY <2>1, <2>2, <2>3, <2>4 DEF ConfigCommand
<1> QED
  BY <1>1, <1>3, <1>4

LEMMA RoleCommandType ==
  ASSUME TypeOK, RoleCommand
  PROVE  /\ work' \in Storage
         /\ tx' \in Transaction
         /\ Running /\ store' = store
<1> USE DEF RoleCommand, ProposeOwnershipTransfer, AcquireOwnership,
            RelinquishOwnership, AddAdmin, RevokeAdmin, BetweenBatches,
            Command, Running
<1>1. tx \in Transaction /\ store' = store
  BY DEF TypeOK
<1>2. tx' \in Transaction
  BY <1>1, EvmConfigAssumption DEF Transaction
<1>3. work' \in Storage
  <2>1. ASSUME NEW a \in Account, ProposeOwnershipTransfer(a)
        PROVE  work' \in Storage
    BY <2>1 DEF TypeOK, Storage
  <2>2. CASE AcquireOwnership \/ RelinquishOwnership
    <3>1. tx.sender \in Account
      BY <1>1 DEF Transaction
    <3> QED
      BY <2>2, <3>1 DEF TypeOK, Storage
  <2>3. ASSUME NEW a \in Account, AddAdmin(a) \/ RevokeAdmin(a)
        PROVE  work' \in Storage
    <3>1. PICK as \in SUBSET Account : work' = [work EXCEPT !.admins = as]
      BY <2>3 DEF TypeOK, Storage
    <3> QED
      BY <3>1 DEF TypeOK, Storage
  <2> QED
    BY <2>1, <2>2, <2>3
<1> QED
  BY <1>1, <1>2, <1>3

LEMMA TypeStep == TypeOK /\ [Next]_vars => TypeOK'
<1> SUFFICES ASSUME TypeOK, [Next]_vars PROVE TypeOK'
  OBVIOUS
<1>1. ASSUME NEW s \in Account, Begin(s) PROVE TypeOK'
  BY <1>1, NoTransaction, EvmConfigAssumption
     DEF TypeOK, Begin, Transaction, Roles, Running
<1>2. CASE OpenBatch \/ CloseBatch
  BY <1>2, NoTransaction
     DEF TypeOK, OpenBatch, CloseBatch, Transaction, Roles, Running, SenderRole
<1>3. CASE ConfigCommand
  BY <1>3, ConfigCommandType, NoTransaction DEF TypeOK
<1>4. CASE RoleCommand
  BY <1>4, RoleCommandType, NoTransaction DEF TypeOK
<1>5. CASE Commit \/ Revert
  BY <1>5 DEF TypeOK, Commit, Revert
<1>6. CASE UNCHANGED vars
  BY <1>6 DEF TypeOK, vars
<1> QED
  BY <1>1, <1>2, <1>3, <1>4, <1>5, <1>6 DEF Next

(* Type correctness of both copies of the storage, which are one when no   *)
(* transaction runs; no peer is the zero address or belongs to chain 0 or  *)
(* to the contract's own chain.                                            *)
THEOREM TypeCorrect == Spec => []TypeOK
<1>1. Init => TypeOK
  <2> SUFFICES ASSUME Init PROVE TypeOK
    OBVIOUS
  <2>1. /\ [c \in Chain |-> ZeroAddress] \in [Chain -> Address]
        /\ [c \in Chain |-> 0] \in [Chain -> Values]
        /\ [c \in Chain |-> FALSE] \in [Chain -> BOOLEAN]
    BY EvmConfigAssumption
  <2>2. PICK o \in Account, r \in Account, as \in SUBSET Account :
          store = [owner |-> o, pendingOwner |-> NoAccount, admins |-> as,
                   feeRecipient |-> r, peers |-> {},
                   canonicalPeer |-> [c \in Chain |-> ZeroAddress],
                   baseFee |-> [c \in Chain |-> 0],
                   maxGasDropoff |-> [c \in Chain |-> 0],
                   paused |-> [c \in Chain |-> FALSE]]
    BY DEF Init
  <2>3. store \in Storage
    BY <2>1, <2>2 DEF Storage
  <2> QED
    BY <2>3 DEF Init, TypeOK
<1> QED
  BY <1>1, TypeStep, PTL DEF Spec

-----------------------------------------------------------------------------
(* Only the two peer commands touch the registrations of a transaction.    *)
LEMMA RegisteredStep ==
  TypeOK /\ CanonicalRegistered /\ [Next]_vars => CanonicalRegistered'
<1> SUFFICES ASSUME TypeOK, CanonicalRegistered, [Next]_vars
             PROVE  CanonicalRegistered'
  OBVIOUS
<1> USE DEF CanonicalRegistered
<1>1. ASSUME NEW c \in Chain, NEW a \in Address,
             AddPeer(c, a) \/ UpdateCanonicalPeer(c, a)
      PROVE  CanonicalRegistered'
  <2>1. PICK b \in Address :
          /\ work' = [work EXCEPT
               !.peers = work.peers \cup {<<c, a>>},
               !.canonicalPeer = [work.canonicalPeer EXCEPT ![c] = b]]
          /\ b # a => b = work.canonicalPeer[c] /\ b # ZeroAddress
    BY <1>1, PeerCommand
  <2>2. /\ work'.peers = work.peers \cup {<<c, a>>}
        /\ \A d \in Chain \ {c} : work'.canonicalPeer[d] = work.canonicalPeer[d]
    BY <2>1 DEF TypeOK, Storage
  <2>3. a # ZeroAddress
    BY <1>1 DEF AddPeer, UpdateCanonicalPeer, CanAddPeer, TypeOK, Storage
  <2>4. \/ work'.canonicalPeer[c] = a
        \/ /\ work'.canonicalPeer[c] = work.canonicalPeer[c]
           /\ work.canonicalPeer[c] # ZeroAddress
    BY <2>1 DEF TypeOK, Storage
  <2>5. Registered(work')
    BY <2>2, <2>3, <2>4 DEF Registered, TypeOK, Storage
  <2>6. store' = store
    BY <1>1 DEF AddPeer, UpdateCanonicalPeer, Command
  <2> QED
    BY <2>5, <2>6
<1>2. ASSUME store' \in {store, work}, work' \in {store, work}
      PROVE  CanonicalRegistered'
  BY <1>2
<1>3. ASSUME work'.peers = work.peers, work'.canonicalPeer = work.canonicalPeer,
             store' = store
      PROVE  CanonicalRegistered'
  BY <1>3 DEF Registered
<1>4. CASE \E c \in Chain, v \in Values :
             UpdateBaseFee(c, v) \/ UpdateMaxGasDropoff(c, v)
  BY <1>4, <1>3 DEF UpdateBaseFee, UpdateMaxGasDropoff, Command, TypeOK, Storage
<1>5. CASE \E c \in Chain, p \in BOOLEAN : PauseChain(c, p)
  BY <1>5, <1>3 DEF PauseChain, Command, TypeOK, Storage
<1>6. CASE \E r \in Account \cup {NoAccount} : UpdateFeeRecipient(r)
  BY <1>6, <1>3 DEF UpdateFeeRecipient, Command, TypeOK, Storage
<1>7. CASE RoleCommand
  BY <1>7, <1>3
     DEF RoleCommand, ProposeOwnershipTransfer, AcquireOwnership,
         RelinquishOwnership, AddAdmin, RevokeAdmin, Command, TypeOK, Storage
<1> QED
  BY <1>1, <1>2, <1>4, <1>5, <1>6, <1>7
     DEF Next, ConfigCommand, Begin, OpenBatch, CloseBatch, Commit, Revert, vars

(* The canonical peer of a chain is one of its peers, inside a transaction *)
(* and outside.                                                            *)
THEOREM CanonicalPeersRegistered == Spec => []CanonicalRegistered
<1>1. Init => CanonicalRegistered
  BY DEF Init, CanonicalRegistered, Registered
<1> QED
  BY <1>1, RegisteredStep, TypeCorrect, PTL DEF Spec

-----------------------------------------------------------------------------
LEMMA BatchRoleStep ==
  TypeOK /\ BatchRoleCurrent /\ [Next]_vars => BatchRoleCurrent'
<1> SUFFICES ASSUME TypeOK, BatchRoleCurrent, [Next]_vars
             PROVE  BatchRoleCurrent'
  OBVIOUS
<1> USE DEF BatchRoleCurrent, Running, SenderRole
<1>1. CASE ConfigCommand
  <2>1. /\ tx # None /\ tx.batch # "None"
        /\ tx' = [tx EXCEPT !.commands = @ + 1]
        /\ work'.owner = work.owner /\ work'.admins = work.admins
    BY <1>1 DEF ConfigCommand, AddPeer, UpdateCanonicalPeer, UpdateBaseFee,
         UpdateMaxGasDropoff, PauseChain, UpdateFeeRecipient, InBatch,
         WithPeer, Command, TypeOK, Storage
  <2>2. tx'.batch = tx.batch /\ tx'.sender = tx.sender
    BY <2>1 DEF TypeOK, Transaction
  <2> QED
    BY <2>1, <2>2
<1>2. CASE RoleCommand
  <2>1. tx # None /\ tx.batch = "None" /\ tx' = [tx EXCEPT !.commands = @ + 1]
    BY <1>2 DEF RoleCommand, ProposeOwnershipTransfer, AcquireOwnership,
         RelinquishOwnership, AddAdmin, RevokeAdmin, BetweenBatches, Command
  <2>2. tx'.batch = "None"
    BY <2>1 DEF TypeOK, Transaction
  <2> QED
    BY <2>2
<1>3. CASE \E s \in Account : Begin(s)
  BY <1>3 DEF Begin
<1>4. CASE OpenBatch
  <2>1. tx'.batch = SenderRole /\ tx'.sender = tx.sender /\ work' = work
    BY <1>4 DEF OpenBatch, TypeOK, Transaction
  <2> QED
    BY <2>1
<1>5. CASE CloseBatch
  BY <1>5 DEF CloseBatch, TypeOK, Transaction
<1>6. CASE Commit \/ Revert
  BY <1>6 DEF Commit, Revert
<1>7. CASE UNCHANGED vars
  BY <1>7 DEF vars
<1> QED
  BY <1>1, <1>2, <1>3, <1>4, <1>5, <1>6, <1>7 DEF Next

(* The role read when a configuration batch starts is the sender's role at *)
(* every command of the batch.                                             *)
THEOREM BatchRole == Spec => []BatchRoleCurrent
<1>1. Init => BatchRoleCurrent
  BY DEF Init, BatchRoleCurrent, Running
<1> QED
  BY <1>1, BatchRoleStep, TypeCorrect, PTL DEF Spec

-----------------------------------------------------------------------------
(* The accounts that may redirect a chain in a transaction: the owner when *)
(* it starts, and the successor that it may let in.                        *)
Entitled == tx.sender \in {store.owner, store.pendingOwner}

(* Strengthening of CanonicalMovesByOwner: nobody else becomes owner while *)
(* the transaction runs, and what it moved so far was moved by them.       *)
MovedByEntitled ==
  Running =>
    /\ tx.sender \in {work.owner, work.pendingOwner} => Entitled
    /\ \A c \in Chain :
         (/\ store.canonicalPeer[c] # ZeroAddress
          /\ work.canonicalPeer[c] # store.canonicalPeer[c]) => Entitled

LEMMA EntitledStep ==
  TypeOK /\ BatchRoleCurrent /\ MovedByEntitled /\ [Next]_vars => MovedByEntitled'
<1> SUFFICES ASSUME TypeOK, BatchRoleCurrent, MovedByEntitled, [Next]_vars
             PROVE  MovedByEntitled'
  OBVIOUS
<1> USE DEF MovedByEntitled, Running, Entitled
<1>1. CASE \E s \in Account : Begin(s)
  BY <1>1 DEF Begin, TypeOK, Running
<1>2. CASE OpenBatch \/ CloseBatch
  <2>1. tx # None /\ tx'.sender = tx.sender /\ UNCHANGED <<store, work>>
    BY <1>2 DEF OpenBatch, CloseBatch, TypeOK, Transaction
  <2> QED
    BY <2>1
<1>3. CASE ConfigCommand
  <2>1. /\ tx # None /\ tx'.sender = tx.sender /\ store' = store
        /\ work'.owner = work.owner /\ work'.pendingOwner = work.pendingOwner
    BY <1>3 DEF ConfigCommand, AddPeer, UpdateCanonicalPeer, UpdateBaseFee,
         UpdateMaxGasDropoff, PauseChain, UpdateFeeRecipient, InBatch,
         WithPeer, Command, TypeOK, Storage, Transaction
  <2>2. ASSUME NEW c \in Chain, NEW a \in Address, AddPeer(c, a),
               NEW d \in Chain, store.canonicalPeer[d] # ZeroAddress,
               work'.canonicalPeer[d] # store.canonicalPeer[d]
        PROVE  Entitled
    BY <2>2 DEF AddPeer, WithPeer, Command, TypeOK, Storage, InBatch
  <2>3. ASSUME NEW c \in Chain, NEW a \in Address, UpdateCanonicalPeer(c, a)
        PROVE  Entitled
    BY <2>3, NoTransaction
       DEF UpdateCanonicalPeer, InBatch, BatchRoleCurrent, SenderRole
  <2>4. CASE work'.canonicalPeer = work.canonicalPeer
    BY <2>1, <2>4
  <2>5. \/ work'.canonicalPeer = work.canonicalPeer
        \/ \E c \in Chain, a \in Address : AddPeer(c, a) \/ UpdateCanonicalPeer(c, a)
    BY <1>3 DEF ConfigCommand, UpdateBaseFee, UpdateMaxGasDropoff,
         PauseChain, UpdateFeeRecipient, Command, TypeOK, Storage
  <2> QED
    BY <2>1, <2>2, <2>3, <2>4, <2>5
<1>4. CASE RoleCommand
  <2>1. /\ tx # None /\ tx'.sender = tx.sender /\ store' = store
        /\ work'.canonicalPeer = work.canonicalPeer
    BY <1>4 DEF RoleCommand, ProposeOwnershipTransfer, AcquireOwnership,
         RelinquishOwnership, AddAdmin, RevokeAdmin, BetweenBatches, Command,
         TypeOK, Storage, Transaction
  <2>2. ASSUME NEW a \in Account, ProposeOwnershipTransfer(a) PROVE Entitled
    BY <2>2 DEF ProposeOwnershipTransfer, SenderRole, BetweenBatches
  <2>3. CASE AcquireOwnership \/ RelinquishOwnership
    <3>1. tx.sender \in {work.owner, work.pendingOwner}
      BY <2>3 DEF AcquireOwnership, RelinquishOwnership, SenderRole
    <3> QED
      BY <2>1, <3>1
  <2>4. ASSUME NEW a \in Account, AddAdmin(a) \/ RevokeAdmin(a)
        PROVE  MovedByEntitled'
    <3>1. work'.owner = work.owner /\ work'.pendingOwner = work.pendingOwner
      BY <2>4 DEF AddAdmin, RevokeAdmin, Command, TypeOK, Storage
    <3> QED
      BY <2>1, <3>1
  <2> QED
    BY <1>4, <2>1, <2>2, <2>3, <2>4 DEF RoleCommand
<1>5. CASE Commit \/ Revert
  BY <1>5 DEF Commit, Revert
<1>6. CASE UNCHANGED vars
  BY <1>6 DEF vars
<1> QED
  BY <1>1, <1>2, <1>3, <1>4, <1>5, <1>6 DEF Next

(* A canonical peer that is set moves only in a transaction of the owner,  *)
(* or of the successor that acquires ownership in that transaction.        *)
THEOREM OwnerMovesCanonical == Spec => CanonicalMovesByOwner
<1> DEFINE Moves ==
      \A c \in Chain :
        (/\ store.canonicalPeer[c] # ZeroAddress
         /\ store'.canonicalPeer[c] # store.canonicalPeer[c]) =>
          tx.sender \in {store.owner, store.pendingOwner}
<1>1. Init => MovedByEntitled
  BY DEF Init, MovedByEntitled, Running
<1>2. TypeOK /\ MovedByEntitled /\ [Next]_vars => [Moves]_vars
  <2> SUFFICES ASSUME TypeOK, MovedByEntitled, Next PROVE Moves
    BY DEF vars
  <2>1. CASE Commit
    BY <2>1 DEF Commit, MovedByEntitled, Entitled, Running
  <2>2. CASE store' = store
    BY <2>2
  <2>3. Commit \/ store' = store
    BY DEF Next, Begin, OpenBatch, CloseBatch, Revert, ConfigCommand, AddPeer,
       UpdateCanonicalPeer, UpdateBaseFee, UpdateMaxGasDropoff, PauseChain,
       UpdateFeeRecipient, RoleCommand, ProposeOwnershipTransfer,
       AcquireOwnership, RelinquishOwnership, AddAdmin, RevokeAdmin, Command
  <2> QED
    BY <2>1, <2>2, <2>3
<1> QED
  BY <1>1, <1>2, EntitledStep, BatchRole, TypeCorrect, PTL
     DEF Spec, CanonicalMovesByOwner

-----------------------------------------------------------------------------
(* A transaction forgets no peer that the storage had when it started.     *)
PeersGrow == store.peers \subseteq work.peers

LEMMA PeersGrowStep == TypeOK /\ PeersGrow /\ [Next]_vars => PeersGrow'
<1> SUFFICES ASSUME TypeOK, PeersGrow, [Next]_vars PROVE PeersGrow'
  OBVIOUS
<1> USE DEF PeersGrow
<1>1. ASSUME NEW c \in Chain, NEW a \in Address,
             AddPeer(c, a) \/ UpdateCanonicalPeer(c, a)
      PROVE  PeersGrow'
  <2>1. PICK b \in Address :
          work' = [work EXCEPT
            !.peers = work.peers \cup {<<c, a>>},
            !.canonicalPeer = [work.canonicalPeer EXCEPT ![c] = b]]
    BY <1>1, PeerCommand
  <2>2. work'.peers = work.peers \cup {<<c, a>>}
    BY <2>1 DEF TypeOK, Storage
  <2>3. store' = store
    BY <1>1 DEF AddPeer, UpdateCanonicalPeer, Command
  <2> QED
    BY <2>2, <2>3
<1>2. CASE \E c \in Chain, v \in Values :
             UpdateBaseFee(c, v) \/ UpdateMaxGasDropoff(c, v)
  BY <1>2 DEF UpdateBaseFee, UpdateMaxGasDropoff, Command, TypeOK, Storage
<1>3. CASE \E c \in Chain, p \in BOOLEAN : PauseChain(c, p)
  BY <1>3 DEF PauseChain, Command, TypeOK, Storage
<1>4. CASE \E r \in Account \cup {NoAccount} : UpdateFeeRecipient(r)
  BY <1>4 DEF UpdateFeeRecipient, Command, TypeOK, Storage
<1>5. CASE RoleCommand
  BY <1>5 DEF RoleCommand, ProposeOwnershipTransfer, AcquireOwnership,
       RelinquishOwnership, AddAdmin, RevokeAdmin, Command, TypeOK, Storage
<1>6. CASE Commit \/ Revert
  BY <1>6 DEF Commit, Revert
<1>7. CASE UNCHANGED <<store, work>>
  BY <1>7
<1> QED
  BY <1>1, <1>2, <1>3, <1>4, <1>5, <1>6, <1>7
     DEF Next, ConfigCommand, Begin, OpenBatch, CloseBatch, vars

LEMMA StoreConsistent ==
  TypeOK /\ CanonicalRegistered =>
    Registry!Consistent(store.peers, store.canonicalPeer)
BY DEF TypeOK, Storage, CanonicalRegistered, Registered, Registry!Consistent

(* What other transactions see of the registrations implements the         *)
(* abstract registry, however many commands a transaction has and whether  *)
(* or not it is taken back.                                                *)
THEOREM ImplementsRegistry == Spec => RegistrySpec
<1>1. Init => Registry!RInit
  BY DEF Init, Registry!RInit
<1>2. Init => PeersGrow
  BY DEF Init, PeersGrow
<1>3. /\ TypeOK
      /\ CanonicalRegistered
      /\ PeersGrow
      /\ Registry!Consistent(store.peers, store.canonicalPeer)'
      /\ [Next]_vars
      => [Registry!Update]_(Registry!rVars)
  <2> SUFFICES ASSUME PeersGrow, [Next]_vars,
                      Registry!Consistent(store.peers, store.canonicalPeer)'
               PROVE  [Registry!Update]_(Registry!rVars)
    OBVIOUS
  <2>1. CASE Commit
    BY <2>1 DEF Commit, PeersGrow, Registry!Update, Registry!Consistent
  <2>2. CASE store' = store
    BY <2>2 DEF Registry!rVars
  <2>3. Commit \/ store' = store
    BY DEF Next, Begin, OpenBatch, CloseBatch, Revert, ConfigCommand, AddPeer,
       UpdateCanonicalPeer, UpdateBaseFee, UpdateMaxGasDropoff, PauseChain,
       UpdateFeeRecipient, RoleCommand, ProposeOwnershipTransfer,
       AcquireOwnership, RelinquishOwnership, AddAdmin, RevokeAdmin, Command, vars
  <2> QED
    BY <2>1, <2>2, <2>3
<1> QED
  BY <1>1, <1>2, <1>3, PeersGrowStep, StoreConsistent, TypeCorrect,
     CanonicalPeersRegistered, PTL
     DEF Spec, RegistrySpec, Registry!RSpec
=============================================================================
