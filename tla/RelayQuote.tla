------------------------------ MODULE RelayQuote ------------------------------
(***************************************************************************)
(* From a quote to a relayed transfer.  The route reads the target's       *)
(* settings to offer a dropoff, quotes a fee for it, and later sends a     *)
(* transaction with what it quoted; the settings and prices may change     *)
(* before each of the three, and the contract decides by those of its own  *)
(* time.  A quote may be sent more than once.                              *)
(***************************************************************************)
EXTENDS RelayFee

CONSTANTS
  Routes,          \* from and to which platforms
  SolanaPerMicro,  \* 10^3, base units in a micro-SOL
  Prices,          \* what oracle, core bridge and relay configuration may hold
  MaxDropoffs, RelayerFees,
  Hundred,         \* 100, in percents
  None

ASSUME RelayQuoteAssumption ==
  /\ Routes \subseteq [from : {"Evm", "Solana"}, to : {"Evm", "Solana"}]
  /\ \A r \in Routes : r.from = "Solana" => r.to = "Evm"
  /\ SolanaPerMicro \in Nat \ {0} /\ Hundred \in Nat \ {0}
  /\ Prices \subseteq
       [gas : Nat, size : Nat, gasPrice : Nat, bytePrice : Nat, gasToken : Nat,
        sol : Nat, messageFee : Nat, evm : BOOLEAN]
  /\ MaxDropoffs \subseteq Nat /\ RelayerFees \subseteq Nat
  /\ 0 \in MaxDropoffs /\ 0 \in RelayerFees

VARIABLES
  route,
  chain,       \* the settings of the target in the source's contract
  prices,
  option,      \* the dropoff the route offers, in base units of the target
  quote,       \* what the user accepted; fresh while nothing changed since
  sent,        \* the transfer just executed, and what became of it
  message,     \* the dropoff of the last transfer that went out, until redeemed
  redemption   \* what became of the last redemption

vars == <<route, chain, prices, option, quote, sent, message, redemption>>

Chain ==
  [registered : BOOLEAN, paused : BOOLEAN, maxDropoff : MaxDropoffs,
   relayerFee : RelayerFees]

\* On EVM the double that is quoted is the one that is sent, and so is its
\* micro amount; on Solana only base units are kept.
Quote == [units : Nat, micro : Nat, fee : Nat, fresh : BOOLEAN]

Transfer == [result : {"Sent", "ShortOfFee", "Refused"}, micro : Nat, charge : Nat]

Init ==
  /\ route \in Routes
  /\ chain = [registered |-> FALSE, paused |-> FALSE, maxDropoff |-> 0, relayerFee |-> 0]
  /\ prices \in Prices
  /\ option = None /\ quote = None /\ sent = None
  /\ message = None /\ redemption = None

UnitsPerMicro == IF route.to = "Solana" THEN SolanaPerMicro ELSE WeiPerMicro

-----------------------------------------------------------------------------
\* What others change.

Stale ==
  /\ quote' = IF quote = None THEN None ELSE [quote EXCEPT !.fresh = FALSE]
  /\ sent' = None
  /\ UNCHANGED <<message, redemption>>

\* The Solana program creates the settings of a chain paused.
RegisterPeer ==
  /\ ~ chain.registered
  /\ chain' = [chain EXCEPT !.registered = TRUE, !.paused = route.from = "Solana"]
  /\ Stale
  /\ UNCHANGED <<route, prices, option>>

UpdateSettings ==
  /\ chain.registered
  /\ \/ \E b \in BOOLEAN : chain' = [chain EXCEPT !.paused = b]
     \/ \E m \in MaxDropoffs : chain' = [chain EXCEPT !.maxDropoff = m]
     \/ \E f \in RelayerFees : chain' = [chain EXCEPT !.relayerFee = f]
  /\ Stale
  /\ UNCHANGED <<route, prices, option>>

UpdatePrices ==
  /\ prices' \in Prices
  /\ Stale
  /\ UNCHANGED <<route, chain, option>>

-----------------------------------------------------------------------------
\* Without a dropoff the settings are not read; a chain that is not registered
\* has no settings account on Solana.
Validate(percent) ==
  /\ route.from = "Solana" /\ percent > 0 => chain.registered
  /\ option' = (chain.maxDropoff * UnitsPerMicro * percent) \div Hundred
  /\ quote' = None /\ sent' = None
  /\ UNCHANGED <<route, chain, prices, message, redemption>>

\* What relayingFee of the platform takes for the dropoff in micro tokens.
QuoteMicros ==
  IF route.from = "Evm" THEN CutMicros(InMicro(option, UnitsPerMicro))
  ELSE {InMicro(option, WeiPerMicro)}

\* The EVM SDK refuses to encode a dropoff of which nothing is left, and the
\* contract one above the maximum and a fee beyond a u64.  The Solana client
\* reads the accounts of program and oracle, and checks neither the widths nor
\* the price of the gas token.
Quotable(micro) ==
  IF route.from = "Evm"
  THEN /\ micro = 0 => option = 0
       /\ micro <= chain.maxDropoff
       /\ RelayFee(QuoteRelay(prices, micro, chain.relayerFee)) < Word
  ELSE chain.registered /\ prices.evm /\ prices.sol # 0

QuoteFees(micro) ==
  IF route.from = "Evm"
  THEN AttachedFees(RelayFee(QuoteRelay(prices, micro, chain.relayerFee)))
  ELSE ClientFees(prices, micro, chain.relayerFee)

QuoteRoute(micro, fee) ==
  /\ ~ chain.paused
  /\ quote' = [units |-> option, micro |-> micro, fee |-> fee, fresh |-> TRUE]
  /\ sent' = None
  /\ UNCHANGED <<route, chain, prices, option, message, redemption>>

-----------------------------------------------------------------------------
\* The dropoff of the message: on Solana it goes through a double once more.
SentMicros ==
  IF route.from = "Evm" THEN {quote.micro} ELSE CutMicros(InMicro(quote.units, UnitsPerMicro))

\* What _getAndCheckTransferParams, or the accounts of OutboundTransfer and the
\* encoding of its arguments, ask for besides the fee.
Open(micro) == chain.registered /\ ~ chain.paused /\ micro <= chain.maxDropoff

Priced(micro) ==
  route.from = "Solana" => Computable(prices, micro, chain.relayerFee) /\ quote.fee < Word

\* What the contract takes: the quote of its oracle and the message fee, or the
\* fee of the program.
Charge(micro) ==
  IF route.from = "Evm" THEN QuoteRelay(prices, micro, chain.relayerFee)
  ELSE TotalFee(prices, micro, chain.relayerFee)

Covered(charge) == charge <= quote.fee

Outcome(micro) ==
  IF ~ (Open(micro) /\ Priced(micro)) THEN "Refused"
  ELSE IF Covered(Charge(micro)) THEN "Sent"
  ELSE "ShortOfFee"

\* initiate, and the transaction it signs when that is executed.
Initiate(micro) ==
  LET result == Outcome(micro)
  IN  /\ sent' = [result |-> result, micro |-> micro,
                  charge |-> IF Priced(micro) THEN Charge(micro) ELSE 0]
      /\ message' = IF result = "Sent" THEN micro ELSE message
      /\ UNCHANGED <<route, chain, prices, option, quote, redemption>>

\* redeem of the EVM platform, by the recipient or by somebody else.
Redeem(byRecipient) ==
  /\ message # None /\ route.to = "Evm"
  /\ redemption' =
       IF ~ Whole(message) THEN "NotBuilt"
       ELSE IF byRecipient \/ DropoffInWei(message) <= AttachedDropoff(message) THEN "Done"
       ELSE "ShortOfDropoff"
  /\ message' = IF redemption' = "Done" THEN None ELSE message
  /\ sent' = None
  /\ UNCHANGED <<route, chain, prices, option, quote>>

Next ==
  \/ RegisterPeer
  \/ UpdateSettings
  \/ UpdatePrices
  \/ \E percent \in 0 .. Hundred : Validate(percent)
  \/ /\ option # None
     /\ \E micro \in QuoteMicros :
          Quotable(micro) /\ \E fee \in QuoteFees(micro) : QuoteRoute(micro, fee)
  \/ quote # None /\ \E micro \in SentMicros : Initiate(micro)
  \/ \E byRecipient \in BOOLEAN : Redeem(byRecipient)

Spec == Init /\ [][Next]_vars

-----------------------------------------------------------------------------
\* Amounts stay natural numbers, with every cut and every rounding.
TypeOK ==
  /\ route \in Routes
  /\ chain \in Chain
  /\ prices \in Prices
  /\ option = None \/ option \in Nat
  /\ quote = None \/ quote \in Quote
  /\ sent = None \/ sent \in Transfer
  /\ message = None \/ message \in Nat
  /\ redemption \in {None, "Done", "NotBuilt", "ShortOfDropoff"}

\* What was quoted pays for the transfer as long as no setting and no price
\* changes: the fee of the Solana program is never above its client's quote, and
\* that of the EVM contract by no more than the doubles of the SDK lose, which is
\* less than the Mwei that _relayFee rounds up to.
QuoteSuffices ==
  sent # None =>
    (quote.fresh /\ sent.result = "ShortOfFee" =>
       route.from = "Evm" /\ sent.charge <= quote.fee + DoubleError)

\* Dollars of the fee, in micro-USD and times MweiPerToken.
ExactMicroUsd ==
  (prices.gas * prices.gasPrice + prices.size * prices.bytePrice
     + sent.micro * MweiPerMicro) * prices.gasToken
    + chain.relayerFee * MweiPerToken

\* The program's fee is the exact one rounded down, by less than a micro-USD in
\* dollars and less than a lamport in lamports.
FeeIsExact ==
  /\ sent.charge * prices.sol * MweiPerToken <= ExactMicroUsd * LamportsPerSol
  /\ (ExactMicroUsd - MweiPerToken) * LamportsPerSol
       < (sent.charge + 1) * prices.sol * MweiPerToken

\* A transfer that goes out, on whatever quote and however stale, meets the
\* settings of its time, takes no more than the user accepted and no less than
\* the relay costs at the prices of its time, and brings the dropoff the user
\* chose up to the last two micro tokens.
SentAsQuoted ==
  sent # None =>
    (sent.result = "Sent" =>
       /\ chain.registered /\ ~ chain.paused /\ sent.micro <= chain.maxDropoff
       /\ sent.charge <= quote.fee
       /\ IF route.from = "Solana" THEN FeeIsExact
          ELSE QuoteRelay(prices, sent.micro, chain.relayerFee) <= quote.fee
       /\ sent.micro * UnitsPerMicro <= quote.units
       /\ quote.units < (sent.micro + 2) * UnitsPerMicro)

\* A redemption that the EVM SDK builds for a relayer attaches the dropoff: "We
\* are redeeming on an EVM chain so the gas token has 18 decimals. Here we need to
\* calculate the amount in wei." (contract.ts:341-342)
RedemptionFunded == redemption # "ShortOfDropoff"
=============================================================================
