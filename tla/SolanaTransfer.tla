---------------------------- MODULE SolanaTransfer ----------------------------
(***************************************************************************)
(* Transfers through the Solana program: the client builds a transaction   *)
(* from what it reads, the transaction runs later and whole or not at all, *)
(* and inside it a temporary token account, one per mint and shared by     *)
(* everybody, is opened, filled, emptied and closed.  Lamports and tokens  *)
(* are moved one call at a time, in the order of the program.  The rent of *)
(* accounts that other programs create on the way is left out.             *)
(***************************************************************************)
EXTENDS Integers, FiniteSets, Functions

CONSTANTS
  Wallet,
  Mint, Sol,        \* the mints, and the one of wrapped SOL
  Grain,            \* base units of a mint per unit the bridge can express
  Rent,             \* lamports a token account must hold
  Amounts, Fees, Dropoffs,
  Limits,           \* the largest dropoffs an admin sets
  Lamports, Tokens, \* what each wallet has at first
  Abroad,           \* base units of each mint that are on other chains at first
  None,
  MaxSequence, MaxDrafts, MaxVaas

ASSUME SolanaTransferAssumption ==
  /\ Sol \in Mint /\ Wallet \cap Mint = {}
  /\ Grain \in [Mint -> Nat \ {0}]
  /\ Rent \in Nat \ {0}
  /\ Amounts \subseteq Nat /\ Fees \subseteq Nat /\ Dropoffs \subseteq Nat
  /\ Limits \subseteq Nat
  /\ Lamports \in [Wallet -> Nat] /\ Tokens \in [Wallet \X Mint -> Nat]
  /\ Abroad \in [Mint -> Nat]
  /\ None \notin Nat
  /\ MaxSequence \in Nat /\ MaxDrafts \in Nat /\ MaxVaas \in Nat

(* A ledger holds finitely many accounts.                                  *)
ASSUME AccountsAssumption == IsFiniteSet(Wallet) /\ IsFiniteSet(Mint)

VARIABLES
  lamports,      \* of each wallet, and of each mint's temporary account
  tokens,        \* in the token account of a wallet for a mint
  accounts,      \* the token accounts that exist
  bridge,        \* what the token bridge may pay out, of each mint
  sequence,      \* SignerSequenceState of each wallet, None before init_user
  posted,        \* the message accounts written by outbound transfers
  fee, feeRecipient, paused, maxDropoff,
  drafts,        \* transactions signed and not yet executed or expired
  vaas, claimed  \* messages from other chains, and those redeemed

settings == <<fee, feeRecipient, paused, maxDropoff>>
money == <<lamports, tokens, bridge>>
vars == <<money, accounts, sequence, posted, settings, drafts, vaas, claimed>>

Draft ==
  [payer : Wallet, init : BOOLEAN, seq : Nat, mint : Mint, amount : Amounts,
   dropoff : Dropoffs, maxFee : Fees, feeRecipient : Wallet]

Posted == [by : Wallet, seq : Nat, mint : Mint, amount : Nat]

Vaa ==
  [id : Nat, mint : Mint, amount : Nat, recipient : Wallet, dropoff : Dropoffs,
   unwrap : BOOLEAN]

Init ==
  /\ lamports = [a \in Wallet \cup Mint |-> IF a \in Wallet THEN Lamports[a] ELSE 0]
  /\ tokens = Tokens
  /\ accounts = {k \in Wallet \X Mint : Tokens[k] > 0}
  /\ bridge = Abroad
  /\ sequence = [w \in Wallet |-> None]
  /\ posted = {}
  /\ fee \in Fees /\ feeRecipient \in Wallet
  /\ paused = FALSE /\ maxDropoff \in Limits
  /\ drafts = {}
  /\ vaas = {} /\ claimed = {}

-----------------------------------------------------------------------------
(* Calls on lamports.  A mint stands for its temporary account.            *)
Pay(l, from, to, n) == [[l EXCEPT ![from] = @ - n] EXCEPT ![to] = @ + n]

Drain(l, m, payer) == Pay(l, m, payer, l[m])

(* The account may have a balance before it is created, which goes to the  *)
(* payer.                                                                  *)
Open(l, m, payer) == Pay(Drain(l, m, payer), payer, m, Rent)

MutCanOpenUndrained(l, m, payer) == l[m] = 0 /\ l[payer] >= Rent

CanOpen(l, m, payer) == l[payer] + l[m] >= Rent

Close(l, m, payer) == Pay(l, m, payer, l[m])

MutNormalizeNot(n, m) == n

(* What the bridge cannot express stays with the sender.                   *)
NormalizeTokenAmount(n, m) == (n \div Grain[m]) * Grain[m]

-----------------------------------------------------------------------------
(* The client reads the sequence, the fee for dropoff x and the fee        *)
(* recipient, derives the message account and asks for a signature.        *)
MutBuildTransferNoInit(w, m, n, x) ==
  LET s == sequence[w] IN
  /\ Cardinality(drafts) < MaxDrafts
  /\ s # None => s < MaxSequence
  /\ drafts' = drafts \cup
       {[payer |-> w, init |-> s = None, seq |-> s,
         mint |-> m, amount |-> n, dropoff |-> x, maxFee |-> fee,
         feeRecipient |-> feeRecipient]}
  /\ UNCHANGED <<money, accounts, sequence, posted, settings, vaas, claimed>>

BuildTransfer(w, m, n, x) ==
  LET s == sequence[w] IN
  /\ Cardinality(drafts) < MaxDrafts
  /\ s # None => s < MaxSequence
  /\ drafts' = drafts \cup
       {[payer |-> w, init |-> s = None, seq |-> IF s = None THEN 0 ELSE s,
         mint |-> m, amount |-> n, dropoff |-> x, maxFee |-> fee,
         feeRecipient |-> feeRecipient]}
  /\ UNCHANGED <<money, accounts, sequence, posted, settings, vaas, claimed>>

Expire(d) ==
  /\ drafts' = drafts \ {d}
  /\ UNCHANGED <<money, accounts, sequence, posted, settings, vaas, claimed>>

(* The sequence that the program finds, after init_user if the transaction *)
(* starts with it.                                                         *)
Sequence(d) == IF d.init THEN 0 ELSE sequence[d.payer]

MutUptickForgotten(d) == Sequence(d)

TakeAndUptick(d) == Sequence(d) + 1

(* init_user wants no sequence account and transfer_tokens wants one; the  *)
(* message account must be the one of the program's sequence, and new.     *)
SequenceFits(d) ==
  /\ d.init <=> sequence[d.payer] = None
  /\ d.seq = Sequence(d)
  /\ \A p \in posted : ~(p.by = d.payer /\ p.seq = d.seq)

MutAffordableAlways(d) == TRUE

Affordable(d) == fee <= d.maxFee

Executable(d) ==
  LET m == d.mint
      l == Open(lamports, m, d.payer)
  IN
  /\ SequenceFits(d)
  /\ ~paused
  /\ feeRecipient = d.feeRecipient
  /\ d.dropoff <= maxDropoff
  /\ Affordable(d)
  /\ CanOpen(lamports, m, d.payer)
  /\ l[d.payer] >= fee
  /\ <<d.payer, m>> \in accounts
  /\ tokens[<<d.payer, m>>] >= NormalizeTokenAmount(d.amount, m)

TransferTokens(d) ==
  LET m == d.mint
      n == NormalizeTokenAmount(d.amount, m)
      opened == Open(lamports, m, d.payer)
      paid == Pay(opened, d.payer, feeRecipient, fee)
  IN
  /\ Executable(d)
  /\ lamports' = Close(paid, m, d.payer)
  /\ tokens' = [tokens EXCEPT ![<<d.payer, m>>] = @ - n]
  /\ bridge' = [bridge EXCEPT ![m] = @ + n]
  /\ sequence' = [sequence EXCEPT ![d.payer] = TakeAndUptick(d)]
  /\ posted' = posted \cup {[by |-> d.payer, seq |-> d.seq, mint |-> m, amount |-> n]}
  /\ drafts' = drafts \ {d}
  /\ UNCHANGED <<accounts, settings, vaas, claimed>>

-----------------------------------------------------------------------------
(* redeem_gas: the payer leaves the dropoff to somebody else only.         *)
Dropoff(v, payer) == IF payer = v.recipient THEN 0 ELSE v.dropoff

MutUnwrapsAnything(v) == v.unwrap

Unwraps(v) == v.unwrap /\ v.mint = Sol

(* The lamports of wrapped SOL are in the account that holds it.           *)
Backing(v) == IF v.mint = Sol THEN v.amount ELSE 0

MutRedeemKeepsSol(l, v, payer) ==
  Close(IF Unwraps(v) THEN l ELSE [l EXCEPT ![v.mint] = @ - Backing(v)],
        v.mint, payer)

(* redeem_token: closing the account leaves unwrapped SOL with the payer,  *)
(* who sends it on unless it is the recipient.                             *)
RedeemToken(l, v, payer) ==
  IF Unwraps(v)
  THEN LET closed == Close(l, v.mint, payer) IN
       IF payer = v.recipient THEN closed
       ELSE Pay(closed, payer, v.recipient, v.amount)
  ELSE Close([l EXCEPT ![v.mint] = @ - Backing(v)], v.mint, payer)

(* The SDK puts the creation of the recipient's token account in front of  *)
(* the redemption, unless SOL is paid out.                                 *)
MutCreateUnlessUnwrap(v) ==
  IF v.unwrap THEN accounts ELSE accounts \cup {<<v.recipient, v.mint>>}

CreateRecipientAccount(v) ==
  IF Unwraps(v) THEN accounts ELSE accounts \cup {<<v.recipient, v.mint>>}

(* have: the token accounts when the redemption runs.                      *)
Redeemable(v, payer, have) ==
  LET l == Open(lamports, v.mint, payer) IN
  /\ v.id \notin claimed
  /\ v.amount <= bridge[v.mint]
  /\ CanOpen(lamports, v.mint, payer)
  /\ l[payer] >= Dropoff(v, payer)
  /\ Unwraps(v) \/ <<v.recipient, v.mint>> \in have

CompleteTransfer(v, payer, have) ==
  LET m == v.mint
      opened == Open(lamports, m, payer)
      filled == [opened EXCEPT ![m] = @ + Backing(v)]
      helped == Pay(filled, payer, v.recipient, Dropoff(v, payer))
  IN
  /\ Redeemable(v, payer, have)
  /\ accounts' = have
  /\ claimed' = claimed \cup {v.id}
  /\ bridge' = [bridge EXCEPT ![m] = @ - v.amount]
  /\ lamports' = RedeemToken(helped, v, payer)
  /\ tokens' = IF Unwraps(v) THEN tokens
               ELSE [tokens EXCEPT ![<<v.recipient, m>>] = @ + v.amount]
  /\ UNCHANGED <<sequence, posted, settings, drafts, vaas>>

-----------------------------------------------------------------------------
(* External: other chains send what they have; wallets open token          *)
(* accounts; anybody may send lamports to an address, as to that of a      *)
(* temporary account; prices and settings change.                          *)
Unredeemed == {v \in vaas : v.id \notin claimed}

Owed(m) ==
  SumFunctionOnSet([v \in Unredeemed |-> IF v.mint = m THEN v.amount ELSE 0],
                   Unredeemed)

SendFromAbroad(v) ==
  /\ Cardinality(vaas) < MaxVaas
  /\ v.id = Cardinality(vaas) + 1
  /\ Owed(v.mint) + v.amount <= bridge[v.mint]
  /\ vaas' = vaas \cup {v}
  /\ UNCHANGED <<money, accounts, sequence, posted, settings, drafts, claimed>>

OpenAccount(k) ==
  /\ k \notin accounts
  /\ accounts' = accounts \cup {k}
  /\ UNCHANGED <<money, sequence, posted, settings, drafts, vaas, claimed>>

Donate(w, m) ==
  /\ lamports[w] > 0
  /\ lamports[m] = 0
  /\ lamports' = Pay(lamports, w, m, 1)
  /\ UNCHANGED <<tokens, bridge, accounts, sequence, posted, settings, drafts,
                 vaas, claimed>>

ChangeSettings ==
  /\ fee' \in Fees /\ feeRecipient' \in Wallet
  /\ paused' \in BOOLEAN /\ maxDropoff' \in Limits
  /\ UNCHANGED <<money, accounts, sequence, posted, drafts, vaas, claimed>>

Next ==
  \/ \E w \in Wallet, m \in Mint, n \in Amounts, x \in Dropoffs :
       BuildTransfer(w, m, n, x)
  \/ \E d \in drafts : Expire(d) \/ TransferTokens(d)
  \/ \E v \in vaas, w \in Wallet :
       \E have \in {accounts, CreateRecipientAccount(v)} : CompleteTransfer(v, w, have)
  \/ \E m \in Mint, n \in Amounts, r \in Wallet, x \in Dropoffs, u \in BOOLEAN :
       SendFromAbroad([id |-> Cardinality(vaas) + 1, mint |-> m,
                       amount |-> NormalizeTokenAmount(n, m),
                       recipient |-> r, dropoff |-> x, unwrap |-> u])
  \/ \E k \in Wallet \X Mint : OpenAccount(k)
  \/ \E w \in Wallet, m \in Mint : Donate(w, m)
  \/ ChangeSettings

Spec == Init /\ [][Next]_vars

(* Recipients redeem their messages, with the transactions of the SDK.     *)
RedeemOwn(i) ==
  \E v \in vaas :
    v.id = i /\ CompleteTransfer(v, v.recipient, CreateRecipientAccount(v))

LiveSpec == Spec /\ \A i \in 1 .. MaxVaas : WF_vars(RedeemOwn(i))

-----------------------------------------------------------------------------
(* Every variable holds a value of its kind; no account is overdrawn.      *)
TypeOK ==
  /\ lamports \in [Wallet \cup Mint -> Nat]
  /\ tokens \in [Wallet \X Mint -> Nat]
  /\ accounts \subseteq Wallet \X Mint
  /\ bridge \in [Mint -> Nat]
  /\ sequence \in [Wallet -> Nat \cup {None}]
  /\ posted \subseteq Posted
  /\ fee \in Fees /\ feeRecipient \in Wallet
  /\ paused \in BOOLEAN /\ maxDropoff \in Limits
  /\ drafts \subseteq Draft
  /\ vaas \subseteq Vaa /\ claimed \subseteq Nat

(* The message accounts of a wallet are those of 0 up to its sequence:     *)
(* however many of its transactions were built from the same sequence, in  *)
(* whatever order they run or expire, none writes a message account twice  *)
(* and none skips one, so that a client finds all messages by counting.    *)
MessagesCounted ==
  /\ \A w \in Wallet :
       {p.seq : p \in {q \in posted : q.by = w}}
         = IF sequence[w] = None THEN {} ELSE 0 .. sequence[w] - 1
  /\ \A p, q \in posted : p.by = q.by /\ p.seq = q.seq => p = q

(* What one bridged unit is worth is all that crosses: no dust is taken.   *)
OnlyWholeUnits == \A m \in Mint : (bridge[m] - Abroad[m]) % Grain[m] = 0

(* A wallet's lamports and its tokens of a mint, wrapped SOL being SOL.    *)
Worth(w, m) == tokens[<<w, m>>] + IF m = Sol THEN lamports[w] ELSE 0

Held(m) == SumFunctionOnSet([w \in Wallet |-> Worth(w, m)], Wallet)

Total(m) ==
  (Held(m) + bridge[m]) + IF m = Sol THEN SumFunctionOnSet(lamports, Mint) ELSE 0

Endowment(w, m) == Tokens[<<w, m>>] + IF m = Sol THEN Lamports[w] ELSE 0

(* Nothing is lost in, left in, or taken out of a temporary account, but   *)
(* for what somebody put there between the transfers.                      *)
Conserved ==
  \A m \in Mint :
    Total(m) = SumFunctionOnSet([w \in Wallet |-> Endowment(w, m)], Wallet)
               + Abroad[m]

(* A redemption gives the recipient the amount, and the dropoff if another *)
(* wallet redeems for it, in SOL or in tokens as it asked; the redeemer is *)
(* out of the dropoff alone, and gets what it advanced for the temporary   *)
(* account back with what others had left there.                           *)
RedemptionSettles ==
  [][\A v \in vaas : v.id \in claimed' \ claimed =>
       LET r == v.recipient
           own == IF Unwraps(v) THEN v.amount ELSE 0
           gift == lamports[v.mint]
       IN /\ tokens'[<<r, v.mint>>] = tokens[<<r, v.mint>>] + (v.amount - own)
          /\ \/ lamports'[r] = lamports[r] + own + gift
                /\ \A w \in Wallet \ {r} : lamports'[w] = lamports[w]
             \/ /\ lamports'[r] = lamports[r] + own + v.dropoff
                /\ \E p \in Wallet \ {r} :
                     /\ lamports'[p] = lamports[p] - v.dropoff + gift
                     /\ \A w \in Wallet \ {r, p} : lamports'[w] = lamports[w]]_vars

(* A sender pays at most the fee it signed for, to the recipient it saw,   *)
(* whatever prices and settings were changed before the transaction runs.  *)
SignedFeeOnly ==
  [][\A p \in posted' \ posted :
       \E d \in drafts \ drafts' :
         /\ d.payer = p.by
         /\ lamports'[p.by] >= lamports[p.by] - d.maxFee
         /\ \A w \in Wallet \ {p.by, d.feeRecipient} : lamports'[w] = lamports[w]]_vars

(* Others cannot get in the way: a transaction that would succeed keeps    *)
(* succeeding until its payer spends, an admin changes a setting, or the   *)
(* lamports that were sent to the temporary account, and that the payer    *)
(* would have had, are gone.  Sharing the account or paying it does not    *)
(* block.                                                                  *)
NotBlocked ==
  [][UNCHANGED settings =>
       \A d \in drafts \cap drafts' :
         /\ Executable(d)
         /\ lamports'[d.payer] >= lamports[d.payer]
         /\ tokens'[<<d.payer, d.mint>>] >= tokens[<<d.payer, d.mint>>]
         /\ sequence'[d.payer] = sequence[d.payer]
         /\ lamports[d.mint] <= lamports'[d.mint]
         => Executable(d)']_vars

Poor(v) == lamports[v.recipient] + lamports[v.mint] < Rent

(* A message gets redeemed once its recipient tries, unless the recipient  *)
(* cannot advance the rent of the temporary account at some moment: it     *)
(* needs no token account opened before, no relayer and no admin, and      *)
(* neither lamports put into the shared account, other redemptions, nor a  *)
(* pause get in the way.                                                   *)
RecipientRedeems ==
  \A i \in 1 .. MaxVaas :
    (\E v \in vaas : v.id = i)
      ~> (i \in claimed \/ \E v \in vaas : v.id = i /\ Poor(v))
===============================================================================
