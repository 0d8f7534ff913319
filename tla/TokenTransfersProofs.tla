------------------------- MODULE TokenTransfersProofs -------------------------
(***************************************************************************)
(* Proofs about TokenTransfers, for any set of chains, deployments, users, *)
(* amounts and units, and any number of messages.                          *)
(***************************************************************************)
EXTENDS TokenTransfers, SumTheorems

(* Messages and receipts are numbered: a message that is published has a   *)
(* number that no message and no receipt has.                              *)
Numbered ==
  /\ IsFiniteSet(messages)
  /\ \A m \in messages : m.id \in 1..Cardinality(messages)
  /\ \A x \in receipts : x.id \in 1..Cardinality(messages)
  /\ \A m, n \in messages : m.id = n.id => m = n

(* The canonical peer of a chain is a peer, on that chain.                 *)
Routed ==
  \A c \in Contract, t \in Chain :
    canonical[c][t] # None =>
      canonical[c][t] \in peers[c] /\ ChainOf[canonical[c][t]] = t

(* The chain of a message is the chain of the contract it is for.          *)
Addressed == \A m \in messages : ChainOf[m.to] = m.chain

IInv ==
  /\ TypeOK
  /\ Numbered
  /\ Routed
  /\ Addressed
  /\ SentToPeer
  /\ RedeemedAsAsked

-----------------------------------------------------------------------------
LEMMA Products == \A a, b \in Nat : a * b \in Nat
OBVIOUS

(* What a contract bridges of an amount is a number of units.              *)
LEMMA BridgedType ==
  ASSUME NEW c \in Contract \cup {Outsider}, NEW n \in Nat
  PROVE  Bridged(c, n) \in Nat /\ Bridged(c, n) * Unit[ChainOf[c]] \in Nat
<1>1. Unit[ChainOf[c]] \in Nat \ {0}
  BY TransfersAssumption
<1>2. Bridged(c, n) \in Nat
  BY <1>1 DEF Bridged
<1> QED
  BY <1>1, <1>2, Products

(* A published message is new, and the messages stay numbered.             *)
LEMMA PublishNumbers ==
  ASSUME Numbered, NEW m, m.id = NextId, Publish(m), UNCHANGED receipts
  PROVE  /\ Numbered'
         /\ m \notin messages
         /\ Cardinality(messages') = Cardinality(messages) + 1
         /\ \A x \in receipts : x.id # m.id
<1>1. Cardinality(messages) \in Nat
  BY FS_CardinalityType DEF Numbered
<1>2. \A n \in messages : n.id # m.id
  BY <1>1 DEF Numbered, NextId
<1>3. \A x \in receipts : x.id # m.id
  BY <1>1 DEF Numbered, NextId
<1>4. IsFiniteSet(messages') /\ Cardinality(messages') = Cardinality(messages) + 1
  BY <1>2, FS_AddElement DEF Numbered, Publish
<1>5. \A n \in messages' : n.id \in 1..Cardinality(messages')
  BY <1>1, <1>4 DEF Numbered, Publish, NextId
<1>6. \A x \in receipts' : x.id \in 1..Cardinality(messages')
  BY <1>1, <1>4 DEF Numbered
<1>7. \A n, k \in messages' : n.id = k.id => n = k
  BY <1>2 DEF Numbered, Publish
<1> QED
  BY <1>2, <1>3, <1>4, <1>5, <1>6, <1>7 DEF Numbered

-----------------------------------------------------------------------------
(* Registrations and settings: peers are only added, and a canonical peer  *)
(* is one of them.                                                         *)
LEMMA ConfigureStep ==
  ASSUME IInv, Configure
  PROVE  IInv'
<1> USE TransfersAssumption
<1>1. UNCHANGED <<messages, receipts, tokens>>
  BY DEF Configure, RegisterPeer, UpdateCanonicalPeer, SetPause, UpdateMaxGasDropoff
<1>2. /\ TypeOK' /\ Routed'
      /\ \A c \in Contract : peers[c] \subseteq peers'[c]
  <2>1. ASSUME NEW c \in Contract, NEW p \in Contract, RegisterPeer(c, p)
        PROVE  <1>2!1 /\ <1>2!2
    BY <2>1, <1>1 DEF RegisterPeer, IInv, TypeOK, Routed
  <2>2. ASSUME NEW c \in Contract, NEW p \in Contract, UpdateCanonicalPeer(c, p)
        PROVE  <1>2!1 /\ <1>2!2
    BY <2>2, <1>1 DEF UpdateCanonicalPeer, IInv, TypeOK, Routed
  <2>3. ASSUME NEW c \in Contract, NEW t \in Chain, NEW b \in BOOLEAN,
               SetPause(c, t, b)
        PROVE  <1>2!1 /\ <1>2!2
    BY <2>3, <1>1 DEF SetPause, IInv, TypeOK, Routed
  <2>4. ASSUME NEW c \in Contract, NEW t \in Chain, NEW v \in Dropoffs,
               UpdateMaxGasDropoff(c, t, v)
        PROVE  <1>2!1 /\ <1>2!2
    BY <2>4, <1>1 DEF UpdateMaxGasDropoff, IInv, TypeOK, Routed
  <2> QED
    BY <2>1, <2>2, <2>3, <2>4 DEF Configure
<1>3. Numbered' /\ Addressed'
  BY <1>1 DEF IInv, Numbered, Addressed
<1>4. SentToPeer' /\ RedeemedAsAsked'
  <2>1. \A m \in messages : m.to \in Contract
    BY DEF IInv, TypeOK, Message
  <2> QED
    BY <1>1, <1>2, <2>1 DEF IInv, SentToPeer, RedeemedAsAsked
<1> QED
  BY <1>2, <1>3, <1>4 DEF IInv

(* Publishing a well-addressed message, with any change of the tokens.     *)
LEMMA PublishStep ==
  ASSUME IInv, NEW m \in Message, m.id = NextId, Publish(m),
         ChainOf[m.to] = m.chain,
         m.from \in Contract => m.to \in peers[m.from],
         tokens' \in [Accounts -> Nat],
         UNCHANGED <<registration, receipts>>
  PROVE  IInv'
<1>1. /\ Numbered'
      /\ \A x \in receipts : x.id # m.id
  BY PublishNumbers DEF IInv
<1>2. TypeOK' /\ Routed'
  BY DEF IInv, TypeOK, Routed, Publish, registration
<1>3. Addressed' /\ SentToPeer'
  BY DEF IInv, Addressed, SentToPeer, Publish, registration
<1>4. RedeemedAsAsked'
  <2>1. UNCHANGED <<peers, receipts>> /\ messages \subseteq messages'
    BY DEF registration, Publish
  <2> QED
    BY <2>1 DEF IInv, RedeemedAsAsked
<1> QED
  BY <1>1, <1>2, <1>3, <1>4 DEF IInv

(* A transfer through a deployment: the canonical peer is a peer.          *)
LEMMA SendStep ==
  ASSUME IInv, NEW c \in Contract, NEW t \in Chain, NEW s \in Person,
         NEW r \in Holder, NEW n \in Amounts,
         NEW x \in Dropoffs, NEW u \in BOOLEAN, Send(c, s, t, r, n, x, u)
  PROVE  IInv'
<1> DEFINE m == [id |-> NextId, from |-> c, chain |-> t, to |-> canonical[c][t],
                 recipient |-> r, amount |-> Bridged(c, n), dropoff |-> x,
                 unwrap |-> u]
<1>1. canonical[c][t] \in peers[c] /\ ChainOf[canonical[c][t]] = t
  BY DEF Send, IInv, Routed
<1>2. Bridged(c, n) \in Nat /\ Bridged(c, n) * Unit[ChainOf[c]] \in Nat
  BY BridgedType, TransfersAssumption
<1>3. NextId \in Nat
  BY FS_CardinalityType DEF IInv, Numbered, NextId
<1>4. m \in Message
  BY <1>1, <1>2, <1>3 DEF IInv, TypeOK, Message
<1>5. tokens' \in [Accounts -> Nat]
  BY <1>2, TransfersAssumption DEF Send, IInv, TypeOK, Accounts, Holder
<1>6. Publish(m) /\ UNCHANGED <<registration, receipts>>
  BY DEF Send
<1> QED
  BY <1>1, <1>4, <1>5, <1>6, PublishStep

(* A message of somebody else's contract is not one of a deployment.       *)
LEMMA SendByOutsiderStep ==
  ASSUME IInv, NEW s \in Person, NEW to \in Contract,
         NEW r \in Holder, NEW n \in Amounts,
         NEW x \in Dropoffs, SendByOutsider(s, to, r, n, x)
  PROVE  IInv'
<1> DEFINE m == [id |-> NextId, from |-> Outsider, chain |-> ChainOf[to],
                 to |-> to, recipient |-> r, amount |-> Bridged(Outsider, n),
                 dropoff |-> x, unwrap |-> FALSE]
<1>2. /\ Bridged(Outsider, n) \in Nat
      /\ Bridged(Outsider, n) * Unit[ChainOf[Outsider]] \in Nat
  BY BridgedType, TransfersAssumption
<1>3. NextId \in Nat
  BY FS_CardinalityType DEF IInv, Numbered, NextId
<1>4. m \in Message
  BY <1>2, <1>3, TransfersAssumption DEF Message
<1>5. tokens' \in [Accounts -> Nat]
  BY <1>2, TransfersAssumption DEF SendByOutsider, IInv, TypeOK, Accounts, Holder
<1>6. Publish(m) /\ UNCHANGED <<registration, receipts>>
  BY DEF SendByOutsider
<1> QED
  BY <1>4, <1>5, <1>6, PublishStep, TransfersAssumption

(* A redemption: its message came from a peer and had no receipt, and the  *)
(* new receipt tells what was spent on it.                                 *)
LEMMA CompleteTransferStep ==
  ASSUME IInv, NEW c \in Contract, NEW m \in messages, NEW by \in Person,
         CompleteTransfer(c, m, by)
  PROVE  IInv'
<1> DEFINE x == [id |-> m.id, by |-> by, dropoff |-> Spent(m, by)]
<1>1. /\ m \in Message
      /\ m.to = c /\ m.from \in peers[c] /\ m.recipient \in Holder
      /\ receipts' = receipts \cup {x}
      /\ UNCHANGED <<registration, messages>>
  BY DEF IInv, TypeOK, Message, CompleteTransfer, Redeemable, Claimable
<1>2. m.amount * Unit[ChainOf[c]] \in Nat /\ ChainOf[c] \in Chain
  BY <1>1, Products, TransfersAssumption DEF Message
<1>3. tokens' \in [Accounts -> Nat]
  BY <1>1, <1>2 DEF IInv, TypeOK, Accounts, CompleteTransfer, Credit
<1>4. x \in Receipt
  BY <1>1, TransfersAssumption DEF Message, Receipt, Spent
<1>5. TypeOK' /\ Routed' /\ Addressed' /\ SentToPeer'
  BY <1>1, <1>3, <1>4
     DEF IInv, TypeOK, Routed, Addressed, SentToPeer, registration
<1>6. Numbered'
  BY <1>1 DEF IInv, Numbered
<1>7. \A y \in receipts : y.id # x.id
  BY DEF CompleteTransfer, Redeemable, Claimable, Claimed
<1>8. x.dropoff = m.dropoff \/ x.by = m.recipient
  BY DEF Spent
<1>9. RedeemedAsAsked'
  <2>1. x.id = m.id /\ m.from \in peers[m.to]
    BY <1>1
  <2> HIDE DEF x
  <2> QED
    BY <1>1, <1>7, <1>8, <2>1 DEF IInv, RedeemedAsAsked, registration
<1> QED
  BY <1>5, <1>6, <1>9 DEF IInv

-----------------------------------------------------------------------------
(* The inductive invariant.                                                *)
THEOREM Inductive == Spec => []IInv
<1>1. Init => IInv
  BY FS_EmptySet, TransfersAssumption
     DEF Init, IInv, TypeOK, Numbered, Routed, Addressed, SentToPeer,
         RedeemedAsAsked
<1>2. IInv /\ [Next]_vars => IInv'
  <2> SUFFICES ASSUME IInv, [Next]_vars PROVE IInv'
    OBVIOUS
  <2>1. CASE UNCHANGED vars
    BY <2>1 DEF vars, registration, IInv, TypeOK, Numbered, Routed, Addressed,
                SentToPeer, RedeemedAsAsked
  <2>2. CASE Next
    BY <2>2, ConfigureStep, SendStep, SendByOutsiderStep, CompleteTransferStep
       DEF Next
  <2> QED
    BY <2>1, <2>2
<1> QED
  BY <1>1, <1>2, PTL DEF Spec

(* No account is overdrawn and every variable keeps its kind.              *)
THEOREM TypeCorrect == Spec => []TypeOK
BY Inductive, PTL DEF IInv

(* Every message of a deployment went to a peer of its own, on the chain   *)
(* that the user named, and canonical changes do not undo that.            *)
THEOREM MessagesGoToPeers == Spec => []SentToPeer
BY Inductive, PTL DEF IInv

(* Whatever is paid out is for a message of a peer of the paying contract, *)
(* with the dropoff asked for or redeemed by the recipient itself, and is  *)
(* paid for that message once.                                             *)
THEOREM RedemptionsAsAsked == Spec => []RedeemedAsAsked
BY Inductive, PTL DEF IInv

-----------------------------------------------------------------------------
(* What RelayedTransfers sees of a message.                                *)
Flight(m) == [id |-> m.id, to |-> m.chain, recipient |-> m.recipient,
              amount |-> m.amount]
Flights == {Flight(m) : m \in InFlight}

LEMMA FlightType ==
  ASSUME NEW m \in Message
  PROVE  Flight(m) \in Transfers!Transfer
BY DEF Flight, Message, Transfers!Transfer

(* A published message is in flight.                                       *)
LEMMA Publishes ==
  ASSUME IInv, NEW m, m.id = NextId, Publish(m), UNCHANGED receipts
  PROVE  /\ InFlight' = InFlight \cup {m}
         /\ \A n \in InFlight : n.id # m.id
         /\ m \notin InFlight
         /\ Cardinality(messages') = Cardinality(messages) + 1
<1>1. /\ m \notin messages
      /\ Cardinality(messages') = Cardinality(messages) + 1
      /\ \A x \in receipts : x.id # m.id
  BY PublishNumbers DEF IInv
<1>2. Claimed' = Claimed /\ m.id \notin Claimed
  BY <1>1 DEF Claimed
<1>3. InFlight' = InFlight \cup {m}
  BY <1>2 DEF InFlight, Publish
<1>4. \A n \in InFlight : n.id # m.id
  <2>1. \A n \in messages' : n.id = m.id => n = m
    BY PublishNumbers DEF IInv, Numbered, Publish
  <2> QED
    BY <1>1, <2>1 DEF InFlight, Publish
<1> QED
  BY <1>1, <1>3, <1>4

(* Publishing a message adds its transfer to those in flight.              *)
LEMMA FlightDeparts ==
  ASSUME IInv, NEW m, m.id = NextId, Publish(m), UNCHANGED receipts
  PROVE  /\ Flights' = Flights \cup {Flight(m)}
         /\ Flight(m) \notin Flights
         /\ Cardinality(messages') = Cardinality(messages) + 1
BY Publishes DEF Flights, Flight

(* A transfer that leaves is a departure, whoever calls the token bridge.  *)
LEMMA Departs ==
  ASSUME IInv, NEW c \in Chain, NEW s \in Person, NEW m \in Message,
         m.id = NextId, Publish(m), UNCHANGED receipts,
         tokens[<<c, s>>] >= m.amount * Unit[c],
         tokens' = [tokens EXCEPT ![<<c, s>>] = @ - m.amount * Unit[c]]
  PROVE  Transfers!TNext
<1> DEFINE t == Flight(m)
<1>1. /\ Flights' = Flights \cup {t}
      /\ t \notin Flights
      /\ Cardinality(messages') = Cardinality(messages) + 1
  BY FlightDeparts
<1>2. t \in Transfers!Transfer /\ t.id = Cardinality(messages) + 1 /\ t.amount = m.amount
  BY FlightType DEF Flight, NextId
<1>3. Transfers!Depart(c, s, t)
  BY <1>1, <1>2 DEF Transfers!Depart, Flights, Flight
<1>4. t \in Flights' \ Flights
  BY <1>1
<1> QED
  BY <1>2, <1>3, <1>4 DEF Transfers!TNext, Flights, Flight

(* A redemption takes its message, and no other, out of those in flight,   *)
(* and credits it.                                                         *)
LEMMA Redeems ==
  ASSUME IInv, NEW c \in Contract, NEW m \in messages, NEW by \in Person,
         CompleteTransfer(c, m, by)
  PROVE  /\ m \in Message /\ ChainOf[c] = m.chain /\ m.recipient \in Holder
         /\ m \in InFlight /\ InFlight' = InFlight \ {m}
         /\ UNCHANGED messages
         /\ tokens' = [tokens EXCEPT ![<<m.chain, m.recipient>>] =
                         @ + m.amount * Unit[m.chain]]
<1> DEFINE x == [id |-> m.id, by |-> by, dropoff |-> Spent(m, by)]
<1>1. /\ m \in Message
      /\ ChainOf[c] = m.chain
      /\ m \in InFlight
      /\ m.recipient \in Holder
      /\ messages' = messages
      /\ receipts' = receipts \cup {x}
  BY DEF IInv, TypeOK, Message, Addressed, CompleteTransfer, Redeemable,
         Claimable, InFlight
<1>2. x.id = m.id
  OBVIOUS
<1> HIDE DEF x
<1>3. Claimed' = Claimed \cup {m.id}
  BY <1>1, <1>2 DEF Claimed
<1>4. InFlight' = InFlight \ {m}
  BY <1>1, <1>3 DEF IInv, Numbered, InFlight
<1> QED
  BY <1>1, <1>4 DEF CompleteTransfer, Credit

(* A redemption is an arrival of the transfer of its message alone.        *)
LEMMA Arrival ==
  ASSUME IInv, NEW c \in Contract, NEW m \in messages, NEW by \in Person,
         CompleteTransfer(c, m, by)
  PROVE  Transfers!TNext
<1> DEFINE t == Flight(m)
<1>1. \A n \in InFlight : Flight(n) = t => n = m
  BY DEF IInv, Numbered, InFlight, Flight
<1>2. Flights' = Flights \ {t} /\ t \in Flights
  BY <1>1, Redeems DEF Flights
<1>3. Transfers!Arrive(t)
  BY <1>2, Redeems DEF Transfers!Arrive, Flights, Flight
<1> QED
  BY <1>2, <1>3 DEF Transfers!TNext, Flights, Flight

(* The deployments implement the transfers that users are promised: every  *)
(* amount that leaves arrives at most once, in full, where it was sent.    *)
THEOREM ImplementsTransfers == Spec => TransfersSpec
<1>1. Init => Transfers!TInit
  BY FS_EmptySet, TransfersAssumption
     DEF Init, Transfers!TInit, InFlight, Accounts
<1>2. IInv /\ [Next]_vars => [Transfers!TNext]_(Transfers!tVars)
  <2> SUFFICES ASSUME IInv, [Next]_vars
               PROVE  [Transfers!TNext]_(Transfers!tVars)
    OBVIOUS
  <2>1. ASSUME UNCHANGED <<messages, receipts, tokens>>
        PROVE  UNCHANGED Transfers!tVars
    BY <2>1 DEF Transfers!tVars, InFlight, Claimed
  <2>2. CASE UNCHANGED vars \/ Configure
    BY <2>1, <2>2 DEF vars, Configure, RegisterPeer, UpdateCanonicalPeer,
                      SetPause, UpdateMaxGasDropoff
  <2>3. ASSUME NEW c \in Contract, NEW t \in Chain, NEW s \in Person,
               NEW r \in Holder, NEW n \in Amounts,
               NEW x \in Dropoffs, NEW u \in BOOLEAN,
               Send(c, s, t, r, n, x, u)
        PROVE  Transfers!TNext
    <3> DEFINE m == [id |-> NextId, from |-> c, chain |-> t,
                     to |-> canonical[c][t], recipient |-> r,
                     amount |-> Bridged(c, n), dropoff |-> x, unwrap |-> u]
    <3>1. canonical[c][t] \in Contract
      BY <2>3 DEF Send, IInv, TypeOK
    <3>2. NextId \in Nat /\ Bridged(c, n) \in Nat
      <4>1. NextId \in Nat
        BY FS_CardinalityType DEF IInv, Numbered, NextId
      <4>2. Bridged(c, n) \in Nat
        BY BridgedType, TransfersAssumption
      <4> QED
        BY <4>1, <4>2
    <3>3. m \in Message
      BY <3>1, <3>2 DEF Message
    <3> QED
      BY <2>3, <3>3, Departs, TransfersAssumption DEF Send
  <2>4. ASSUME NEW s \in Person, NEW to \in Contract,
               NEW r \in Holder, NEW n \in Amounts,
               NEW x \in Dropoffs, SendByOutsider(s, to, r, n, x)
        PROVE  Transfers!TNext
    <3> DEFINE m == [id |-> NextId, from |-> Outsider, chain |-> ChainOf[to],
                     to |-> to, recipient |-> r,
                     amount |-> Bridged(Outsider, n), dropoff |-> x,
                     unwrap |-> FALSE]
    <3>1. NextId \in Nat /\ Bridged(Outsider, n) \in Nat
      <4>1. NextId \in Nat
        BY FS_CardinalityType DEF IInv, Numbered, NextId
      <4>2. Bridged(Outsider, n) \in Nat
        BY BridgedType, TransfersAssumption
      <4> QED
        BY <4>1, <4>2
    <3>2. m \in Message
      BY <3>1, TransfersAssumption DEF Message
    <3> QED
      BY <2>4, <3>2, Departs, TransfersAssumption DEF SendByOutsider
  <2> QED
    BY <2>2, <2>3, <2>4, Arrival DEF Next
<1> QED
  BY <1>1, <1>2, Inductive, PTL DEF Spec, TransfersSpec, Transfers!TSpec

-----------------------------------------------------------------------------
(* A unit of a chain is worth as many home units as divide it.             *)
Share(k) == Unit[Home] \div Unit[k[1]]

LEMMA Shares ==
  ASSUME NEW k \in Accounts
  PROVE  /\ Share(k) \in Nat
         /\ \A n \in Int : (n * Unit[k[1]]) * Share(k) = Unit[Home] * n
<1> DEFINE u == Unit[k[1]]
           h == Unit[Home]
           q == h \div u
<1>1. k[1] \in Chain
  BY DEF Accounts
<1>2. u \in Nat /\ u > 0 /\ h \in Nat /\ h % u = 0
  BY <1>1, TransfersAssumption, UnitAssumption
<1>3. Share(k) = q
  BY DEF Share
<1> HIDE DEF u, h
<1>4. q \in Nat /\ u * q = h
  BY <1>2
<1> HIDE DEF q
<1>5. \A n \in Int : (n * u) * q = h * n
  <2> SUFFICES ASSUME NEW n \in Int PROVE (n * u) * q = h * n
    OBVIOUS
  <2>1. (n * u) * q = n * (u * q)
    BY <1>2, <1>4
  <2>2. n * (u * q) = n * h
    BY <1>4
  <2>3. n * h = h * n
    BY <1>2
  <2> QED
    BY <2>1, <2>2, <2>3
<1> QED
  BY <1>3, <1>4, <1>5 DEF u, h

LEMMA FiniteAccounts == IsFiniteSet(Accounts)
<1>1. IsFiniteSet(Holder)
  BY FS_AddElement, UsersAssumption DEF Holder
<1> QED
  BY <1>1, FS_Product, UsersAssumption DEF Accounts

LEMMA HeldType ==
  ASSUME NEW f \in [Accounts -> Int]
  PROVE  Held(f) \in Int
<1> DEFINE ff == [x \in Accounts |-> f[x] * Share(x)]
<1>1. IsFiniteSet(Accounts)
  BY FiniteAccounts
<1>2. \A x \in Accounts : ff[x] \in Int
  <2> TAKE x \in Accounts
  <2>1. Share(x) \in Int /\ f[x] \in Int
    BY Shares
  <2> QED
    BY <2>1
<1>3. Held(f) = SumFunctionOnSet(ff, Accounts)
  BY DEF Held, Share
<1> HIDE DEF ff
<1> QED
  BY <1>1, <1>2, <1>3, SumType

(* An account that gains n units of its chain adds n units to what is held.*)
LEMMA HeldMoves ==
  ASSUME NEW f \in [Accounts -> Int], NEW g \in [Accounts -> Int],
         NEW k \in Accounts, NEW n \in Int,
         g[k] - f[k] = n * Unit[k[1]],
         \A x \in Accounts \ {k} : g[x] = f[x]
  PROVE  Held(g) = Held(f) + Unit[Home] * n /\ Held(f) \in Int
<1> DEFINE ff == [x \in Accounts |-> f[x] * Share(x)]
           gg == [x \in Accounts |-> g[x] * Share(x)]
<1>1. Held(f) = SumFunctionOnSet(ff, Accounts) /\ Held(g) = SumFunctionOnSet(gg, Accounts)
  BY DEF Held, Share
<1>2. IsFiniteSet(Accounts)
  BY FiniteAccounts
<1>3. \A x \in Accounts : f[x] * Share(x) \in Int /\ g[x] * Share(x) \in Int
  <2> TAKE x \in Accounts
  <2>1. Share(x) \in Int /\ f[x] \in Int /\ g[x] \in Int
    BY Shares
  <2> QED
    BY <2>1
<1>4. /\ \A x \in Accounts : ff[x] \in Int
      /\ gg[k] \in Int
      /\ \A x \in Accounts \ {k} : gg[x] = ff[x]
  BY <1>3
<1>5. gg[k] - ff[k] = Unit[Home] * n
  <2> DEFINE q == Share(k)
             a == f[k]
             b == g[k]
  <2>1. q \in Int /\ a \in Int /\ b \in Int
    BY Shares
  <2>2. (b - a) * q = Unit[Home] * n
    BY Shares
  <2>3. gg[k] = b * q /\ ff[k] = a * q
    OBVIOUS
  <2> HIDE DEF q, a, b, ff, gg
  <2>4. (b * q) - (a * q) = (b - a) * q
    BY <2>1
  <2> QED
    BY <2>2, <2>3, <2>4
<1> HIDE DEF ff, gg
<1>6. SumFunctionOnSet(gg, Accounts) = SumFunctionOnSet(ff, Accounts) + (gg[k] - ff[k])
  BY <1>2, <1>4, SumChange
<1> QED
  BY <1>1, <1>5, <1>6, HeldType

Amount(S) == SumFunctionOnSet([m \in S |-> m.amount], S)

(* One more message carries its amount.                                    *)
LEMMA AmountAdded ==
  ASSUME NEW S, IsFiniteSet(S), NEW m, m \notin S,
         \A x \in S \cup {m} : x.amount \in Int
  PROVE  Amount(S \cup {m}) = m.amount + Amount(S) /\ Amount(S) \in Int
<1> DEFINE T == S \cup {m}
           f == [x \in S |-> x.amount]
           g == [x \in T |-> x.amount]
<1>1. /\ \A x \in S : f[x] = g[x] /\ f[x] \in Int
      /\ \A x \in S \cup {m} : g[x] \in Int
      /\ g[m] = m.amount
  OBVIOUS
<1>2. Amount(S) = SumFunctionOnSet(f, S) /\ Amount(T) = SumFunctionOnSet(g, T)
  BY DEF Amount
<1> HIDE DEF f, g
<1>3. SumFunctionOnSet(g, S \cup {m}) = g[m] + SumFunctionOnSet(g, S)
  BY <1>1, SumAdded
<1>4. SumFunctionOnSet(f, S) = SumFunctionOnSet(g, S)
  BY <1>1, SumAgrees
<1>5. SumFunctionOnSet(f, S) \in Int
  BY <1>1, SumType
<1> QED
  BY <1>1, <1>2, <1>3, <1>4, <1>5

LEMMA FlyingType == ASSUME IInv PROVE IsFiniteSet(InFlight) /\ Flying = Amount(InFlight) /\ Flying \in Int
<1>1. IsFiniteSet(InFlight)
  BY FS_Subset DEF IInv, Numbered, InFlight
<1>2. \A m \in InFlight : m.amount \in Int
  BY DEF IInv, TypeOK, Message, InFlight
<1> DEFINE f == [m \in InFlight |-> m.amount]
<1>3. \A m \in InFlight : f[m] \in Int
  BY <1>2
<1> HIDE DEF f
<1>4. SumFunctionOnSet(f, InFlight) \in Int
  BY <1>1, <1>3, SumType
<1> QED
  BY <1>1, <1>4 DEF Flying, Amount, f

Worth == Held(tokens) + Unit[Home] * Flying

(* What leaves an account is in flight.                                    *)
LEMMA DepartureConserves ==
  ASSUME IInv, IInv', NEW c \in Chain, NEW s \in Person, NEW m \in Message,
         m.id = NextId, Publish(m), UNCHANGED receipts,
         tokens' = [tokens EXCEPT ![<<c, s>>] = @ - m.amount * Unit[c]]
  PROVE  Worth' = Worth
<1> DEFINE k == <<c, s>>
           n == 0 - m.amount
<1>1. k \in Accounts /\ k[1] = c /\ n \in Int /\ m.amount \in Int /\ Unit[c] \in Int
  BY TransfersAssumption DEF Accounts, Holder, Message
<1>2. tokens \in [Accounts -> Int] /\ tokens' \in [Accounts -> Int]
  BY DEF IInv, TypeOK, Accounts
<1>3. tokens'[k] - tokens[k] = n * Unit[k[1]]
  <2>1. tokens'[k] = tokens[k] - m.amount * Unit[c]
    BY <1>1, <1>2
  <2>2. n * Unit[c] = 0 - m.amount * Unit[c]
    BY <1>1
  <2>3. tokens[k] \in Int /\ m.amount * Unit[c] \in Int
    BY <1>1, <1>2
  <2> QED
    BY <1>1, <2>1, <2>2, <2>3
<1>4. \A x \in Accounts \ {k} : tokens'[x] = tokens[x]
  BY <1>2
<1> HIDE DEF k, n
<1>5. Held(tokens)' = Held(tokens) + Unit[Home] * n /\ Held(tokens) \in Int
  <2>1. Held(tokens') = Held(tokens) + Unit[Home] * n /\ Held(tokens) \in Int
    <3>1. PICK f \in [Accounts -> Int], g \in [Accounts -> Int] : f = tokens /\ g = tokens'
      BY <1>2
    <3>2. g[k] - f[k] = n * Unit[k[1]] /\ \A x \in Accounts \ {k} : g[x] = f[x]
      BY <1>3, <1>4, <3>1, Zenon
    <3>3. Held(g) = Held(f) + Unit[Home] * n /\ Held(f) \in Int
      BY <1>1, <3>2, HeldMoves
    <3> QED
      BY <3>1, <3>3, Zenon
  <2>2. Held(tokens)' = Held(tokens')
    BY DEF Held, Accounts
  <2> QED
    BY <2>1, <2>2
<1>6. Flying' = m.amount + Flying /\ Flying \in Int
  <2>1. InFlight' = InFlight \cup {m} /\ m \notin InFlight
    BY Publishes
  <2>2. \A x \in InFlight \cup {m} : x.amount \in Int
    BY <1>1 DEF IInv, TypeOK, Message, InFlight
  <2>3. IsFiniteSet(InFlight) /\ Flying = Amount(InFlight) /\ Flying \in Int
    BY FlyingType
  <2>4. Flying' = Amount(InFlight \cup {m})
    BY <2>1 DEF Flying, Amount
  <2> QED
    BY <2>1, <2>2, <2>3, <2>4, AmountAdded
<1>7. Unit[Home] \in Int
  BY TransfersAssumption
<1>8. Unit[Home] * n = 0 - Unit[Home] * m.amount
  BY <1>1, <1>7 DEF n
<1>9. Unit[Home] * Flying' = Unit[Home] * m.amount + Unit[Home] * Flying
  BY <1>1, <1>6, <1>7
<1>10. Unit[Home] * m.amount \in Int /\ Unit[Home] * Flying \in Int
  BY <1>1, <1>6, <1>7
<1> QED
  BY <1>5, <1>8, <1>9, <1>10 DEF Worth

(* What arrives was in flight.                                             *)
LEMMA ArrivalConserves ==
  ASSUME IInv, IInv', NEW c \in Contract, NEW m \in messages, NEW by \in Person,
         CompleteTransfer(c, m, by)
  PROVE  Worth' = Worth
<1> DEFINE k == <<m.chain, m.recipient>>
           n == m.amount
<1>0. m \in Message /\ m \in InFlight /\ InFlight' = InFlight \ {m}
  BY Redeems
<1>1. k \in Accounts /\ k[1] = m.chain /\ n \in Int /\ Unit[m.chain] \in Int
  BY <1>0, Redeems, TransfersAssumption DEF Accounts, Message
<1>2. tokens \in [Accounts -> Int] /\ tokens' \in [Accounts -> Int]
  BY DEF IInv, TypeOK, Accounts
<1>3. tokens' = [tokens EXCEPT ![k] = @ + n * Unit[m.chain]]
  BY Redeems
<1> HIDE DEF k, n
<1>4. /\ tokens'[k] - tokens[k] = n * Unit[k[1]]
      /\ \A x \in Accounts \ {k} : tokens'[x] = tokens[x]
  <2>1. n * Unit[m.chain] \in Int /\ tokens[k] \in Int
    BY <1>1, <1>2
  <2>2. tokens'[k] = tokens[k] + n * Unit[m.chain]
    BY <1>1, <1>2, <1>3
  <2> QED
    BY <1>1, <1>2, <1>3, <2>1, <2>2
<1>5. Held(tokens)' = Held(tokens) + Unit[Home] * n /\ Held(tokens) \in Int
  <2>1. Held(tokens') = Held(tokens) + Unit[Home] * n /\ Held(tokens) \in Int
    BY <1>1, <1>2, <1>4, HeldMoves
  <2>2. Held(tokens)' = Held(tokens')
    BY DEF Held, Accounts
  <2> QED
    BY <2>1, <2>2
<1>6. Flying = n + Flying' /\ Flying' \in Int
  <2>1. \A x \in InFlight' \cup {m} : x.amount \in Int
    BY <1>0 DEF IInv, TypeOK, Message, InFlight
  <2>2. IsFiniteSet(InFlight) /\ Flying = Amount(InFlight)
    BY FlyingType
  <2>3. IsFiniteSet(InFlight') /\ Flying' = Amount(InFlight')
    BY <1>0, <2>2, FS_Subset DEF Flying, Amount
  <2>4. m \notin InFlight' /\ InFlight = InFlight' \cup {m}
    BY <1>0
  <2> HIDE DEF InFlight
  <2>5. Amount(InFlight' \cup {m}) = m.amount + Amount(InFlight') /\ Amount(InFlight') \in Int
    BY <2>1, <2>3, <2>4, AmountAdded
  <2> QED
    BY <2>2, <2>3, <2>4, <2>5 DEF n
<1>7. Unit[Home] \in Int
  BY TransfersAssumption
<1>8. Unit[Home] * Flying = Unit[Home] * n + Unit[Home] * Flying'
  BY <1>1, <1>6, <1>7
<1>9. Unit[Home] * n \in Int /\ Unit[Home] * Flying' \in Int
  BY <1>1, <1>6, <1>7
<1> QED
  BY <1>5, <1>8, <1>9 DEF Worth

(* The steps that move tokens.                                             *)
LEMMA WorthKept == IInv /\ IInv' /\ [Next]_vars => Worth' = Worth
<1> SUFFICES ASSUME IInv, IInv', [Next]_vars PROVE Worth' = Worth
  OBVIOUS
<1>1. ASSUME UNCHANGED <<messages, receipts, tokens>> PROVE Worth' = Worth
  BY <1>1 DEF Worth, Held, Accounts, Flying, InFlight, Claimed
<1>2. CASE UNCHANGED vars \/ Configure
  BY <1>1, <1>2 DEF vars, Configure, RegisterPeer, UpdateCanonicalPeer,
                    SetPause, UpdateMaxGasDropoff
<1>3. ASSUME NEW c \in Contract, NEW t \in Chain, NEW s \in Person,
             NEW r \in Holder, NEW n \in Amounts,
             NEW x \in Dropoffs, NEW u \in BOOLEAN,
             Send(c, s, t, r, n, x, u)
      PROVE  Worth' = Worth
  <2> DEFINE m == [id |-> NextId, from |-> c, chain |-> t,
                   to |-> canonical[c][t], recipient |-> r,
                   amount |-> Bridged(c, n), dropoff |-> x, unwrap |-> u]
  <2>1. m \in messages'
    BY <1>3 DEF Send, Publish
  <2>2. m \in Message
    BY <2>1 DEF IInv, TypeOK
  <2> QED
    BY <1>3, <2>2, DepartureConserves, TransfersAssumption DEF Send
<1>4. ASSUME NEW s \in Person, NEW to \in Contract,
             NEW r \in Holder, NEW n \in Amounts,
             NEW x \in Dropoffs, SendByOutsider(s, to, r, n, x)
      PROVE  Worth' = Worth
  <2> DEFINE m == [id |-> NextId, from |-> Outsider, chain |-> ChainOf[to],
                   to |-> to, recipient |-> r,
                   amount |-> Bridged(Outsider, n), dropoff |-> x,
                   unwrap |-> FALSE]
  <2>1. m \in messages'
    BY <1>4 DEF SendByOutsider, Publish
  <2>2. m \in Message
    BY <2>1 DEF IInv, TypeOK
  <2> QED
    BY <1>4, <2>2, DepartureConserves, TransfersAssumption DEF SendByOutsider
<1> QED
  BY <1>2, <1>3, <1>4, ArrivalConserves DEF Next

LEMMA InitWorth == Init => Worth = Held(Endowment)
<1> SUFFICES ASSUME Init PROVE Worth = Held(Endowment)
  OBVIOUS
<1>1. InFlight = {} /\ tokens = Endowment
  BY DEF Init, InFlight
<1>2. Flying = 0
  BY <1>1, SumOfNone DEF Flying
<1>3. Unit[Home] * Flying = 0
  BY <1>2, TransfersAssumption
<1>4. Endowment \in [Accounts -> Int]
  BY TransfersAssumption DEF Accounts
<1> QED
  BY <1>1, <1>3, <1>4, HeldType DEF Worth

(* Whatever was sent, to whom and by whom, redeemed or not: what is held   *)
(* on all chains and what is between them is what there was.               *)
THEOREM NothingLost == Spec => []Conserved
<1>1. Worth = Held(Endowment) <=> Conserved
  BY DEF Worth, Conserved
<1>2. Held(Endowment)' = Held(Endowment)
  BY DEF Held, Accounts
<1>3. Conserved /\ Worth' = Worth => Conserved'
  <2>1. Conserved' <=> Worth' = Held(Endowment)'
    BY DEF Worth, Conserved
  <2> QED
    BY <1>1, <1>2, <2>1
<1> QED
  BY <1>1, <1>3, InitWorth, WorthKept, Inductive, PTL DEF Spec

-----------------------------------------------------------------------------
(* No step forgets a peer.                                                 *)
LEMMA PeersGrow ==
  ASSUME IInv, [Next]_vars, NEW c \in Contract
  PROVE  peers[c] \subseteq peers'[c]
<1>1. ASSUME NEW d \in Contract, NEW p \in Contract, RegisterPeer(d, p)
      PROVE  peers[c] \subseteq peers'[c]
  BY <1>1 DEF RegisterPeer, IInv, TypeOK
<1>2. ASSUME NEW d \in Contract, NEW p \in Contract, UpdateCanonicalPeer(d, p)
      PROVE  peers[c] \subseteq peers'[c]
  BY <1>2 DEF UpdateCanonicalPeer, IInv, TypeOK
<1>3. CASE UNCHANGED peers
  BY <1>3
<1>4. CASE Configure
  BY <1>1, <1>2, <1>3, <1>4 DEF Configure, SetPause, UpdateMaxGasDropoff
<1>5. ASSUME NEW d, NEW t, NEW s, NEW r, NEW n, NEW x, NEW u, Send(d, s, t, r, n, x, u)
      PROVE  UNCHANGED peers
  BY <1>5 DEF Send, registration
<1>6. ASSUME NEW s, NEW d, NEW r, NEW n, NEW x, SendByOutsider(s, d, r, n, x)
      PROVE  UNCHANGED peers
  BY <1>6 DEF SendByOutsider, registration
<1>7. ASSUME NEW d, NEW m, NEW w, CompleteTransfer(d, m, w) PROVE UNCHANGED peers
  BY <1>7 DEF CompleteTransfer, registration
<1> QED
  BY <1>3, <1>4, <1>5, <1>6, <1>7 DEF Next, vars, registration

(* What can be redeemed stays so until it is, whatever is registered, set, *)
(* sent or redeemed meanwhile.                                             *)
THEOREM RedeemableStays == Spec => StaysRedeemable
<1>1. IInv /\ [Next]_vars =>
        \A c \in Contract, m \in messages, by \in Person :
          Redeemable(c, m, by) => Redeemable(c, m, by)' \/ m.id \in Claimed'
  BY PeersGrow DEF Redeemable, Claimable, Receivable, Payable, Spent
<1> QED
  BY <1>1, Inductive, PTL DEF Spec, StaysRedeemable

-----------------------------------------------------------------------------
(* What a deployment knows of the others, as PeerRegistry has it.          *)
Registry(c) == INSTANCE PeerRegistry
  WITH Address <- Contract,
       peers <- {<<ChainOf[p], p>> : p \in peers[c]},
       canonical <- canonical[c]

(* Messages are accepted from a chain only if there is a way back to it.   *)
Answerable ==
  \A c \in Contract : \A p \in peers[c] : canonical[c][ChainOf[p]] # None

LEMMA AnswerableStep ==
  ASSUME IInv, Answerable, [Next]_vars
  PROVE  Answerable'
<1> USE TransfersAssumption
<1>1. ASSUME NEW d \in Contract, NEW p \in Contract, RegisterPeer(d, p)
      PROVE  Answerable'
  BY <1>1 DEF RegisterPeer, IInv, TypeOK, Answerable
<1>2. ASSUME NEW d \in Contract, NEW p \in Contract, UpdateCanonicalPeer(d, p)
      PROVE  Answerable'
  BY <1>2 DEF UpdateCanonicalPeer, IInv, TypeOK, Answerable
<1>3. CASE UNCHANGED <<peers, canonical>>
  BY <1>3 DEF Answerable
<1>4. CASE Configure
  BY <1>1, <1>2, <1>3, <1>4 DEF Configure, SetPause, UpdateMaxGasDropoff
<1>5. ASSUME NEW d, NEW t, NEW s, NEW r, NEW n, NEW x, NEW u, Send(d, s, t, r, n, x, u)
      PROVE  UNCHANGED <<peers, canonical>>
  BY <1>5 DEF Send, registration
<1>6. ASSUME NEW s, NEW d, NEW r, NEW n, NEW x, SendByOutsider(s, d, r, n, x)
      PROVE  UNCHANGED <<peers, canonical>>
  BY <1>6 DEF SendByOutsider, registration
<1>7. ASSUME NEW d, NEW m, NEW w, CompleteTransfer(d, m, w)
      PROVE  UNCHANGED <<peers, canonical>>
  BY <1>7 DEF CompleteTransfer, registration
<1> QED
  BY <1>3, <1>4, <1>5, <1>6, <1>7 DEF Next, vars, registration

LEMMA ConsistentAt ==
  ASSUME TypeOK, Routed, Answerable, NEW c \in Contract
  PROVE  Registry(c)!Consistent({<<ChainOf[p], p>> : p \in peers[c]}, canonical[c])
<1> DEFINE ps == {<<ChainOf[p], p>> : p \in peers[c]}
<1>1. ps \subseteq Chain \X Contract
  BY TransfersAssumption DEF TypeOK
<1>2. canonical[c] \in [Chain -> Contract \cup {None}]
  BY DEF TypeOK
<1>3. ASSUME NEW t \in Chain, canonical[c][t] # None
      PROVE  <<t, canonical[c][t]>> \in ps
  BY <1>3 DEF Routed
<1>4. ASSUME NEW x \in ps
      PROVE  canonical[c][x[1]] # None
  BY <1>4 DEF Answerable
<1> HIDE DEF ps
<1>5. Registry(c)!Consistent(ps, canonical[c])
  BY <1>1, <1>2, <1>3, <1>4 DEF Registry!Consistent
<1> QED
  BY <1>5 DEF ps

(* Each deployment keeps the promise of PeerRegistry, which SolanaConfig   *)
(* and EvmConfig keep too: the registrations of the transfers between      *)
(* chains are ones that the configuration of both kinds of contract makes. *)
THEOREM RegistriesKept ==
  ASSUME NEW c \in Contract
  PROVE  Spec => Registry(c)!RSpec
<1>1. Init => Registry(c)!RInit /\ Answerable
  BY DEF Init, Registry!RInit, Answerable
<1>2. IInv /\ IInv' /\ Answerable /\ [Next]_vars => Answerable'
  BY AnswerableStep
<1>3. Spec => []Answerable
  BY <1>1, <1>2, Inductive, PTL DEF Spec
<1>4. IInv /\ Answerable =>
        Registry(c)!Consistent({<<ChainOf[p], p>> : p \in peers[c]}, canonical[c])
  BY ConsistentAt DEF IInv
<1>5. (IInv /\ Answerable =>
        Registry(c)!Consistent({<<ChainOf[p], p>> : p \in peers[c]}, canonical[c]))'
  BY <1>4, PTL
<1>6. IInv /\ IInv' /\ Answerable' /\ [Next]_vars => Registry(c)!Update
  BY <1>5, PeersGrow DEF Registry!Update, Registry!Consistent
<1> QED
  BY <1>1, <1>3, <1>6, Inductive, PTL DEF Spec, Registry!RSpec
===============================================================================
