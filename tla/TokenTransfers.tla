---------------------------- MODULE TokenTransfers ----------------------------
(***************************************************************************)
(* The deployments together.  Contracts on several chains register each    *)
(* other, each on its own schedule; users send tokens through their        *)
(* contract to the canonical peer of another chain; the Wormhole message   *)
(* is redeemed at any later time, in any order, by a relayer or by the     *)
(* recipient, any number of times being tried.  Registrations and settings *)
(* change meanwhile.  The price of the relay is left out here.             *)
(***************************************************************************)
EXTENDS Naturals, FiniteSets, Functions

CONSTANTS
  Chain,
  Contract, ChainOf,   \* the deployments and their chains
  Outsider,            \* another contract that calls the token bridge
  OnSolana,            \* the deployments that are the Solana program
  Home,                \* the chain the token comes from, as its gas token
  Unit,                \* base units of the token per bridged unit, by chain
  Person, Nobody,      \* accounts, and the zero address
  Refusing,            \* contracts that refuse plain payments
  Endowment,           \* base units each account starts with, by chain
  Amounts, Dropoffs,   \* amounts and dropoffs tried
  None, MaxMessages

(* What a transfer may name as its recipient, and what holds tokens.  What *)
(* the zero address holds is burned, as nobody can take it from there.     *)
Holder == Person \cup {Nobody}
Accounts == Chain \X Holder

ASSUME TransfersAssumption ==
  /\ ChainOf \in [Contract \cup {Outsider} -> Chain]
  /\ Outsider \notin Contract
  /\ Home \in Chain
  /\ Unit \in [Chain -> Nat \ {0}]
  /\ Refusing \subseteq Person
  /\ Nobody \notin Person
  /\ Endowment \in [Accounts -> Nat]
  /\ Amounts \subseteq Nat /\ Dropoffs \subseteq Nat /\ 0 \in Dropoffs
  /\ None \notin Contract
  /\ MaxMessages \in Nat

(* Away from home the token is a wrapped one, whose decimals the bridge    *)
(* expresses all, so that Unit is 1 there.  Users are finitely many.       *)
ASSUME UnitAssumption == \A c \in Chain : Unit[Home] % Unit[c] = 0
ASSUME UsersAssumption == IsFiniteSet(Chain) /\ IsFiniteSet(Person)

VARIABLES
  peers,        \* the peers each contract accepts messages from
  canonical,    \* the peer each contract sends to, by chain
  paused,       \* outbound transfers of a contract to a chain
  maxDropoff,   \* the largest dropoff a contract accepts for a chain
  messages,     \* what was published; anyone can fetch and submit it
  receipts,     \* one for each redeemed message
  tokens        \* base units held by an account on a chain, in any form

registration == <<peers, canonical, paused, maxDropoff>>
vars == <<registration, messages, receipts, tokens>>

Message ==
  [id : Nat, from : Contract \cup {Outsider}, chain : Chain, to : Contract,
   recipient : Holder, amount : Nat, dropoff : Dropoffs,
   unwrap : BOOLEAN]

Receipt == [id : Nat, by : Person, dropoff : Dropoffs]

Init ==
  /\ peers = [c \in Contract |-> {}]
  /\ canonical = [c \in Contract |-> [t \in Chain |-> None]]
  /\ paused = [c \in Contract |-> [t \in Chain |-> FALSE]]
  /\ maxDropoff = [c \in Contract |-> [t \in Chain |-> 0]]
  /\ messages = {}
  /\ receipts = {}
  /\ tokens = Endowment

-----------------------------------------------------------------------------
(* Registrations, as SolanaConfig and EvmConfig have them: the first peer  *)
(* of a chain becomes canonical, and on Solana the chain starts paused.    *)
(* A bound: nobody registers a peer of its own chain.  SolanaConfig allows *)
(* it, but the token bridge pays out no message of its own chain.          *)
RegisterPeer(c, p) ==
  LET t == ChainOf[p]
      first == canonical[c][t] = None
  IN
  /\ t # ChainOf[c]
  /\ p \notin peers[c]
  /\ peers' = [peers EXCEPT ![c] = @ \cup {p}]
  /\ canonical' = IF first THEN [canonical EXCEPT ![c][t] = p] ELSE canonical
  /\ paused' = [paused EXCEPT ![c][t] = @ \/ (first /\ c \in OnSolana)]
  /\ UNCHANGED <<maxDropoff, messages, receipts, tokens>>

MutUpdateCanonicalForgets(c, p) ==
  LET t == ChainOf[p] IN
  /\ t # ChainOf[c]
  /\ p \in peers[c] \/ c \notin OnSolana
  /\ canonical[c][t] # p
  /\ canonical' = [canonical EXCEPT ![c][t] = p]
  /\ peers' = [peers EXCEPT ![c] = {p}]
  /\ UNCHANGED <<paused, maxDropoff, messages, receipts, tokens>>

MutUpdateCanonicalUnregistered(c, p) ==
  LET t == ChainOf[p] IN
  /\ t # ChainOf[c]
  /\ canonical[c][t] # p
  /\ canonical' = [canonical EXCEPT ![c][t] = p]
  /\ UNCHANGED <<peers, paused, maxDropoff, messages, receipts, tokens>>

(* The EVM contract registers the new canonical peer if it has to.         *)
UpdateCanonicalPeer(c, p) ==
  LET t == ChainOf[p] IN
  /\ t # ChainOf[c]
  /\ p \in peers[c] \/ c \notin OnSolana
  /\ canonical[c][t] # p
  /\ canonical' = [canonical EXCEPT ![c][t] = p]
  /\ peers' = [peers EXCEPT ![c] = @ \cup {p}]
  /\ UNCHANGED <<paused, maxDropoff, messages, receipts, tokens>>

SetPause(c, t, b) ==
  /\ canonical[c][t] # None
  /\ paused' = [paused EXCEPT ![c][t] = b]
  /\ UNCHANGED <<peers, canonical, maxDropoff, messages, receipts, tokens>>

UpdateMaxGasDropoff(c, t, v) ==
  /\ canonical[c][t] # None
  /\ maxDropoff' = [maxDropoff EXCEPT ![c][t] = v]
  /\ UNCHANGED <<peers, canonical, paused, messages, receipts, tokens>>

-----------------------------------------------------------------------------
(* Only what a bridged unit can express is taken: the rest is not moved.   *)
Bridged(c, amount) == amount \div Unit[ChainOf[c]]

Publish(m) == messages' = messages \cup {m}

NextId == Cardinality(messages) + 1

MutSendChecksBridged(c, s, t, r, amount, dropoff, unwrap) ==
  LET n == Bridged(c, amount) IN
  /\ canonical[c][t] # None
  /\ ~paused[c][t]
  /\ dropoff <= maxDropoff[c][t]
  /\ c \notin OnSolana => r # Nobody /\ n > 0
  /\ tokens[<<ChainOf[c], s>>] >= n
  /\ tokens' = [tokens EXCEPT ![<<ChainOf[c], s>>] = @ - n * Unit[ChainOf[c]]]
  /\ Publish([id |-> NextId, from |-> c, chain |-> t, to |-> canonical[c][t],
              recipient |-> r, amount |-> n, dropoff |-> dropoff,
              unwrap |-> unwrap])
  /\ UNCHANGED <<registration, receipts>>

MutSendTakesAll(c, s, t, r, amount, dropoff, unwrap) ==
  LET n == Bridged(c, amount) IN
  /\ canonical[c][t] # None
  /\ ~paused[c][t]
  /\ dropoff <= maxDropoff[c][t]
  /\ c \notin OnSolana => r # Nobody /\ n > 0
  /\ tokens[<<ChainOf[c], s>>] >= amount
  /\ tokens' = [tokens EXCEPT ![<<ChainOf[c], s>>] = @ - amount]
  /\ Publish([id |-> NextId, from |-> c, chain |-> t, to |-> canonical[c][t],
              recipient |-> r, amount |-> n, dropoff |-> dropoff,
              unwrap |-> unwrap])
  /\ UNCHANGED <<registration, receipts>>

(* The EVM contract refuses the zero recipient and an amount that bridges  *)
(* to nothing, the Solana program does not.                                *)
Send(c, s, t, r, amount, dropoff, unwrap) ==
  LET n == Bridged(c, amount)
      taken == n * Unit[ChainOf[c]]
  IN
  /\ canonical[c][t] # None
  /\ ~paused[c][t]
  /\ dropoff <= maxDropoff[c][t]
  /\ c \notin OnSolana => r # Nobody /\ n > 0
  /\ tokens[<<ChainOf[c], s>>] >= taken
  /\ tokens' = [tokens EXCEPT ![<<ChainOf[c], s>>] = @ - taken]
  /\ Publish([id |-> NextId, from |-> c, chain |-> t, to |-> canonical[c][t],
              recipient |-> r, amount |-> n, dropoff |-> dropoff,
              unwrap |-> unwrap])
  /\ UNCHANGED <<registration, receipts>>

(* External: another contract hands the token bridge a payload of the same *)
(* form, addressed to a deployment.                                        *)
SendByOutsider(s, to, r, amount, dropoff) ==
  LET c == ChainOf[Outsider]
      n == Bridged(Outsider, amount)
  IN
  /\ c # ChainOf[to]
  /\ n > 0
  /\ tokens[<<c, s>>] >= n * Unit[c]
  /\ tokens' = [tokens EXCEPT ![<<c, s>>] = @ - n * Unit[c]]
  /\ Publish([id |-> NextId, from |-> Outsider, chain |-> ChainOf[to],
              to |-> to, recipient |-> r, amount |-> n, dropoff |-> dropoff,
              unwrap |-> FALSE])
  /\ UNCHANGED <<registration, receipts>>

Claimed == {x.id : x \in receipts}

(* External: the token bridge pays a message out once, and only to the     *)
(* contract it is addressed to.                                            *)
Claimable(c, m) == m.to = c /\ m.id \notin Claimed

(* The payment that goes with the tokens: the dropoff, unless the          *)
(* recipient redeems by itself.                                            *)
Spent(m, by) == IF by = m.recipient THEN 0 ELSE m.dropoff

(* On EVM a dropoff and unwrapped gas tokens are a call of the recipient,  *)
(* which fails if it refuses payments, and the redemption with it.         *)
Payable(c, m, by) ==
  \/ c \in OnSolana
  \/ m.recipient \notin Refusing
  \/ Spent(m, by) = 0 /\ ~(m.unwrap /\ ChainOf[c] = Home)

(* External: WETH9 transfers to the zero address and so does a payment of  *)
(* gas tokens.  The wrapped tokens of the token bridge refuse it, and on   *)
(* Solana key 0 is the system program, which no transaction can write to,  *)
(* while the recipient's account is declared writable.                     *)
Receivable(c, r) == r # Nobody \/ (c \notin OnSolana /\ ChainOf[c] = Home)

(* No check of the program looks at the recipient.                         *)
Redeemable(c, m, by) ==
  /\ Claimable(c, m)
  /\ m.from \in peers[c]
  /\ Receivable(c, m.recipient)
  /\ Payable(c, m, by)

Credit(c, m) ==
  tokens' = [tokens EXCEPT ![<<ChainOf[c], m.recipient>>] =
               @ + m.amount * Unit[ChainOf[c]]]

MutCompleteFromAnyone(c, m, by) ==
  /\ Claimable(c, m)
  /\ Receivable(c, m.recipient)
  /\ Payable(c, m, by)
  /\ receipts' = receipts \cup {[id |-> m.id, by |-> by, dropoff |-> Spent(m, by)]}
  /\ Credit(c, m)
  /\ UNCHANGED <<registration, messages>>

MutCompleteUnnormalized(c, m, by) ==
  /\ Redeemable(c, m, by)
  /\ receipts' = receipts \cup {[id |-> m.id, by |-> by, dropoff |-> Spent(m, by)]}
  /\ tokens' = [tokens EXCEPT ![<<ChainOf[c], m.recipient>>] = @ + m.amount]
  /\ UNCHANGED <<registration, messages>>

MutCompleteUnlessPaused(c, m, by) ==
  /\ Redeemable(c, m, by)
  /\ ~paused[c][ChainOf[m.from]]
  /\ receipts' = receipts \cup {[id |-> m.id, by |-> by, dropoff |-> Spent(m, by)]}
  /\ Credit(c, m)
  /\ UNCHANGED <<registration, messages>>

CompleteTransfer(c, m, by) ==
  /\ Redeemable(c, m, by)
  /\ receipts' = receipts \cup {[id |-> m.id, by |-> by, dropoff |-> Spent(m, by)]}
  /\ Credit(c, m)
  /\ UNCHANGED <<registration, messages>>

Configure ==
  \/ \E c, p \in Contract : RegisterPeer(c, p) \/ UpdateCanonicalPeer(c, p)
  \/ \E c \in Contract, t \in Chain, b \in BOOLEAN : SetPause(c, t, b)
  \/ \E c \in Contract, t \in Chain, v \in Dropoffs : UpdateMaxGasDropoff(c, t, v)

(* MaxMessages is a bound.                                                 *)
Next ==
  \/ Configure
  \/ /\ Cardinality(messages) < MaxMessages
     /\ \/ \E c \in Contract, t \in Chain, s \in Person, r \in Holder,
              amount \in Amounts, dropoff \in Dropoffs, unwrap \in BOOLEAN :
             Send(c, s, t, r, amount, dropoff, unwrap)
        \/ \E s \in Person, to \in Contract, r \in Holder,
              amount \in Amounts, dropoff \in Dropoffs :
             SendByOutsider(s, to, r, amount, dropoff)
  \/ \E c \in Contract, m \in messages, by \in Person : CompleteTransfer(c, m, by)

Spec == Init /\ [][Next]_vars

(* Every recipient keeps redeeming what is meant for it, as its wallet can *)
(* do with the message alone.                                              *)
LiveSpec ==
  Spec /\ \A i \in 1..MaxMessages :
            WF_vars(\E m \in messages :
                      /\ m.id = i /\ m.recipient \in Person
                      /\ CompleteTransfer(m.to, m, m.recipient))

-----------------------------------------------------------------------------
(* Every variable holds a value of its kind; no account is overdrawn.      *)
TypeOK ==
  /\ peers \in [Contract -> SUBSET Contract]
  /\ canonical \in [Contract -> [Chain -> Contract \cup {None}]]
  /\ paused \in [Contract -> [Chain -> BOOLEAN]]
  /\ maxDropoff \in [Contract -> [Chain -> Dropoffs]]
  /\ messages \subseteq Message
  /\ receipts \subseteq Receipt
  /\ tokens \in [Accounts -> Nat]

(* A message of a deployment is addressed to a contract whose messages the *)
(* sender accepts, on the chain the user named, also after the canonical   *)
(* peer moved on: a transfer back by the same pair would be accepted.      *)
SentToPeer ==
  \A m \in messages :
    m.from \in Contract => m.to \in peers[m.from] /\ ChainOf[m.to] = m.chain

(* Every payment is for a published message, which came from a peer of the *)
(* contract that paid it out, with the dropoff that was asked for unless   *)
(* the recipient redeemed by itself; no message is paid out twice, tried   *)
(* by whom and as often as may be.                                         *)
RedeemedAsAsked ==
  /\ \A x \in receipts : \E m \in messages :
       /\ m.id = x.id
       /\ m.from \in peers[m.to]
       /\ x.dropoff = m.dropoff \/ x.by = m.recipient
  /\ \A x, y \in receipts : x.id = y.id => x = y

InFlight == {m \in messages : m.id \notin Claimed}

(* What the accounts hold, and what is between them, in base units of the  *)
(* token's home.                                                           *)
Held(f) ==
  SumFunctionOnSet([k \in Accounts |-> f[k] * (Unit[Home] \div Unit[k[1]])], Accounts)

Flying == SumFunctionOnSet([m \in InFlight |-> m.amount], InFlight)

(* No unit of the token is created or lost between the chains, whatever    *)
(* the number of decimals it has on each: it is in flight, with a user, or *)
(* at the zero address, where a transfer without a recipient may end.      *)
Conserved == Held(tokens) + Unit[Home] * Flying = Held(Endowment)

(* What a redeemer can redeem stays redeemable until it is redeemed: no    *)
(* pause, no change of the canonical peer or of the largest dropoff, and   *)
(* no other transfer gets in the way of a message in flight.               *)
StaysRedeemable ==
  [][\A c \in Contract, m \in messages, by \in Person :
       Redeemable(c, m, by) => Redeemable(c, m, by)' \/ m.id \in Claimed']_vars

(* A recipient needs nobody else: once the addressed contract knows the    *)
(* sender, the tokens reach it whether or not it could pay a dropoff, or   *)
(* would be paid one, except gas tokens it asked for and refuses.          *)
Arrives ==
  \A i \in 1..MaxMessages :
    (\E m \in messages :
        /\ m.id = i
        /\ m.from \in peers[m.to]
        /\ m.recipient \in Person
        /\ m.recipient \in Refusing /\ m.unwrap => m.to \in OnSolana)
      ~> (i \in Claimed)

(* Users see the transfers that RelayedTransfers promises.                 *)
Transfers == INSTANCE RelayedTransfers
  WITH Destination <- Holder,
       ledger <- tokens,
       inFlight <- {[id |-> m.id, to |-> m.chain, recipient |-> m.recipient,
                     amount |-> m.amount] : m \in InFlight},
       issued <- Cardinality(messages)
TransfersSpec == Transfers!TSpec
=============================================================================
