--------------------------- MODULE RelayQuoteProofs ---------------------------
(* What a quote and a fee are worth, for all prices, settings and units.    *)
EXTENDS RelayQuote, TLAPS

-----------------------------------------------------------------------------
(* Arithmetic. *)

LEMMA Products == \A a, b \in Nat : a * b \in Nat
OBVIOUS

\* Integer division, and its remainder.
LEMMA Division ==
  ASSUME NEW a \in Nat, NEW d \in Nat \ {0}
  PROVE  /\ a \div d \in Nat /\ a % d \in 0 .. d - 1
         /\ a = d * (a \div d) + (a % d)
OBVIOUS

\* The quotient is the rounded down one, stated without remainder.
LEMMA Floor ==
  ASSUME NEW a \in Nat, NEW d \in Nat \ {0}
  PROVE  (a \div d) * d <= a /\ a < (a \div d + 1) * d
OBVIOUS

LEMMA TimesGrows ==
  ASSUME NEW a \in Nat, NEW b \in Nat, NEW c \in Nat, a <= b
  PROVE  a * c <= b * c
OBVIOUS

\* Dividing keeps the order.
LEMMA DivisionGrows ==
  ASSUME NEW a \in Nat, NEW b \in Nat, NEW d \in Nat \ {0}, a <= b
  PROVE  a \div d <= b \div d
OBVIOUS

THEOREM RoundedUp ==
  ASSUME NEW wei \in Nat
  PROVE  /\ RelayFee(wei) \in Nat
         /\ wei <= RelayFee(wei) * WeiPerMwei
         /\ RelayFee(wei) * WeiPerMwei < wei + WeiPerMwei
<1> DEFINE q == wei \div WeiPerMwei
           r == wei % WeiPerMwei
<1>1. WeiPerMwei \in Nat \ {0}
  BY RelayFeeAssumption
<1>2. q \in Nat /\ r \in 0 .. WeiPerMwei - 1 /\ wei = WeiPerMwei * q + r
  BY <1>1, Division
<1>3. RelayFee(wei) = IF r > 0 THEN q + 1 ELSE q
  BY <1>2 DEF RelayFee
<1> HIDE DEF q, r
<1>4. (q + 1) * WeiPerMwei = WeiPerMwei * q + WeiPerMwei /\ q * WeiPerMwei = WeiPerMwei * q
  BY <1>1, <1>2
<1>5. WeiPerMwei * q \in Nat
  BY <1>1, <1>2, Products
<1> QED
  BY <1>1, <1>2, <1>3, <1>4, <1>5

LEMMA Units ==
  /\ MweiPerToken \in Nat \ {0} /\ WeiPerMicro \in Nat \ {0}
  /\ LamportsPerSol \in Nat \ {0} /\ WeiPerMwei \in Nat \ {0} /\ MweiPerMicro \in Nat \ {0}
<1>1. \A a, b \in Nat \ {0} : a * b \in Nat \ {0}
  OBVIOUS
<1> QED
  BY <1>1, RelayFeeAssumption DEF MweiPerToken, WeiPerMicro

LEMMA PriceTypes ==
  ASSUME NEW p \in Prices
  PROVE  /\ p.gas \in Nat /\ p.size \in Nat /\ p.gasPrice \in Nat /\ p.bytePrice \in Nat
         /\ p.gasToken \in Nat /\ p.sol \in Nat /\ p.messageFee \in Nat
BY RelayQuoteAssumption

LEMMA FeeTypes ==
  ASSUME NEW p \in Prices, NEW d \in Nat, NEW r \in Nat
  PROVE  /\ FeeMwei(p, d) \in Nat /\ FeeMwei(p, d) * p.gasToken \in Nat
         /\ FeeMicroUsd(p, d, r) \in Nat
         /\ FeeMicroUsd(p, d, r) * LamportsPerSol \in Nat
         /\ p.sol # 0 => TotalFee(p, d, r) \in Nat
         /\ QuoteRelay(p, d, r) \in Nat
<1>1. p.gas * p.gasPrice \in Nat /\ p.size * p.bytePrice \in Nat /\ d * MweiPerMicro \in Nat
      /\ d * p.gasToken \in Nat
  BY PriceTypes, Units, Products
<1>2. FeeMwei(p, d) \in Nat /\ QuoteRelay(p, d, r) \in Nat
  BY <1>1, PriceTypes DEF FeeMwei, QuoteRelay, OracleQuote
<1>3. FeeMwei(p, d) * p.gasToken \in Nat
  BY <1>2, PriceTypes, Products
<1>4. FeeMicroUsd(p, d, r) \in Nat
  <2>1. (FeeMwei(p, d) * p.gasToken) \div MweiPerToken \in Nat
    BY <1>3, Units, Division
  <2> QED
    BY <2>1 DEF FeeMicroUsd
<1>5. FeeMicroUsd(p, d, r) * LamportsPerSol \in Nat
  BY <1>4, Units, Products
<1>6. p.sol # 0 => TotalFee(p, d, r) \in Nat
  BY <1>5, PriceTypes, Division DEF TotalFee
<1> QED
  BY <1>2, <1>3, <1>4, <1>5, <1>6

\* A smaller dropoff does not cost more.
LEMMA FeeGrows ==
  ASSUME NEW p \in Prices, NEW d \in Nat, NEW e \in Nat, NEW r \in Nat,
         d <= e, p.sol # 0
  PROVE  TotalFee(p, d, r) <= TotalFee(p, e, r)
<1>1. d * MweiPerMicro <= e * MweiPerMicro
  BY TimesGrows, Units
<1>2. FeeMwei(p, d) <= FeeMwei(p, e)
  <2>1. p.gas * p.gasPrice \in Nat /\ p.size * p.bytePrice \in Nat
        /\ d * MweiPerMicro \in Nat /\ e * MweiPerMicro \in Nat
    BY PriceTypes, Units, Products
  <2> QED
    BY <1>1, <2>1 DEF FeeMwei
<1>3. FeeMwei(p, d) * p.gasToken <= FeeMwei(p, e) * p.gasToken
  BY <1>2, FeeTypes, PriceTypes, TimesGrows
<1>4. FeeMicroUsd(p, d, r) <= FeeMicroUsd(p, e, r)
  <2>1. (FeeMwei(p, d) * p.gasToken) \div MweiPerToken
          <= (FeeMwei(p, e) * p.gasToken) \div MweiPerToken
    BY <1>3, FeeTypes, Units, DivisionGrows
  <2>2. /\ (FeeMwei(p, d) * p.gasToken) \div MweiPerToken \in Nat
        /\ (FeeMwei(p, e) * p.gasToken) \div MweiPerToken \in Nat
    BY FeeTypes, Units, Division
  <2> QED
    BY <2>1, <2>2 DEF FeeMicroUsd
<1>5. FeeMicroUsd(p, d, r) * LamportsPerSol <= FeeMicroUsd(p, e, r) * LamportsPerSol
  BY <1>4, FeeTypes, Units, TimesGrows
<1> QED
  BY <1>5, FeeTypes, PriceTypes, DivisionGrows DEF TotalFee

\* The two roundings of the program lose less than a micro-USD and a lamport.
THEOREM FeeRounds ==
  ASSUME NEW p \in Prices, NEW d \in Nat, NEW r \in Nat, p.sol # 0
  PROVE  /\ TotalFee(p, d, r) * p.sol * MweiPerToken
              <= (FeeMwei(p, d) * p.gasToken + r * MweiPerToken) * LamportsPerSol
         /\ ((FeeMwei(p, d) * p.gasToken + r * MweiPerToken) - MweiPerToken) * LamportsPerSol
              < (TotalFee(p, d, r) + 1) * p.sol * MweiPerToken
<1> DEFINE x == FeeMwei(p, d) * p.gasToken
           m == MweiPerToken
           l == LamportsPerSol
           s == p.sol
           q == x \div m
           u == FeeMicroUsd(p, d, r)
           c == TotalFee(p, d, r)
<1>1. x \in Nat /\ m \in Nat \ {0} /\ l \in Nat \ {0} /\ s \in Nat \ {0} /\ u * l \in Nat
  BY FeeTypes, PriceTypes, Units
<1>2. q \in Nat /\ u = q + r /\ u \in Nat
  BY <1>1, Division, FeeTypes DEF FeeMicroUsd
<1>3. c \in Nat /\ c = (u * l) \div s
  BY FeeTypes DEF TotalFee
<1>4. q * m <= x /\ x < (q + 1) * m
  BY <1>1, Floor
<1>5. c * s <= u * l /\ u * l < (c + 1) * s
  BY <1>1, <1>3, Floor
<1> HIDE DEF x, m, l, s, q, u, c
<1>6. u * m <= x + r * m /\ (x + r * m) - m < u * m
  <2>1. u * m = q * m + r * m /\ (q + 1) * m = q * m + m
    BY <1>1, <1>2
  <2>2. q * m \in Nat /\ r * m \in Nat
    BY <1>1, <1>2, Products
  <2> QED
    BY <1>1, <1>4, <2>1, <2>2
<1>7. \A a, b \in Int : \A k \in Nat \ {0} : (a <= b => a * k <= b * k) /\ (a < b => a * k < b * k)
  OBVIOUS
<1>8. c * s \in Int /\ (c + 1) * s \in Int /\ u * l \in Int /\ u * m \in Int /\ r * m \in Int
  BY <1>1, <1>2, <1>3
<1>9. (c * s) * m <= (u * l) * m /\ (u * l) * m < ((c + 1) * s) * m
  BY <1>1, <1>5, <1>7, <1>8
<1>10. (u * m) * l <= (x + r * m) * l /\ ((x + r * m) - m) * l < (u * m) * l
  BY <1>1, <1>6, <1>7, <1>8
<1>11. (u * m) * l = (u * l) * m
  BY <1>1, <1>2
<1>12. /\ (c * s) * m \in Int /\ (u * l) * m \in Int /\ ((c + 1) * s) * m \in Int
       /\ (x + r * m) * l \in Int /\ ((x + r * m) - m) * l \in Int
  BY <1>1, <1>8
<1>13. c * s * m <= (x + r * m) * l /\ ((x + r * m) - m) * l < (c + 1) * s * m
  BY <1>9, <1>10, <1>11, <1>12
<1> QED
  BY <1>13, Zenon DEF x, m, l, s, c

LEMMA Cuts ==
  ASSUME NEW units \in Nat, NEW u \in Nat \ {0}, NEW n \in CutMicros(InMicro(units, u))
  PROVE  /\ n \in Nat /\ n <= InMicro(units, u)
         /\ n * u <= units /\ units < (n + 2) * u
<1> DEFINE k == units \div u
<1>1. k \in Nat /\ k * u <= units /\ units < (k + 1) * u
  BY Division, Floor
<1>2. n \in {k, k - 1} /\ n >= 0
  BY DEF CutMicros, InMicro
<1> HIDE DEF k
<1>3. n \in Nat /\ n <= k /\ k <= n + 1
  BY <1>1, <1>2
<1>4. n * u <= k * u /\ (k + 1) * u <= (n + 2) * u
  BY <1>1, <1>3, TimesGrows
<1>5. n * u \in Nat /\ k * u \in Nat /\ (k + 1) * u \in Nat /\ (n + 2) * u \in Nat
  BY <1>1, <1>3, Products
<1>6. n * u <= units /\ units < (n + 2) * u
  BY <1>1, <1>4, <1>5
<1> QED
  BY <1>3, <1>6 DEF InMicro, k

\* What a transfer attaches falls short of the contract's quote by no more than
\* the doubles lose.
LEMMA Attached ==
  ASSUME NEW wei \in Nat, NEW a \in AttachedFees(RelayFee(wei))
  PROVE  a \in Nat /\ wei <= a + DoubleError
<1> DEFINE f == RelayFee(wei)
           e == f * WeiPerMwei
<1>1. f \in Nat /\ wei <= e /\ e \in Nat
  BY RoundedUp, Units, Products
<1>2. a \in IF f = 0 THEN {0} ELSE e - DoubleError .. e + DoubleError
  BY DEF AttachedFees
<1>3. f # 0 => e >= WeiPerMwei
  BY <1>1, Units
<1>4. f = 0 => e = 0
  BY <1>1, Units
<1> HIDE DEF f, e
<1> QED
  BY <1>1, <1>2, <1>3, <1>4, RelayFeeAssumption

-----------------------------------------------------------------------------
(* The invariant: a quote remembers the dropoff it was made for, and while  *)
(* fresh it is one that would be made now.                                  *)

Kept ==
  quote # None =>
    IF route.from = "Evm" THEN quote.micro \in CutMicros(InMicro(quote.units, UnitsPerMicro))
    ELSE quote.micro = InMicro(quote.units, UnitsPerMicro)

FreshTerms ==
  quote # None =>
    (quote.fresh =>
       /\ quote.fee \in QuoteFees(quote.micro)
       /\ route.from = "Solana" => prices.sol # 0)

IInv == TypeOK /\ Kept /\ FreshTerms /\ QuoteSuffices /\ SentAsQuoted

LEMMA UnitTypes == TypeOK => UnitsPerMicro \in Nat \ {0}
BY Units, RelayQuoteAssumption DEF UnitsPerMicro

LEMMA SolanaTargets == TypeOK /\ route.from # "Evm" => route.from = "Solana" /\ UnitsPerMicro = WeiPerMicro
BY RelayQuoteAssumption DEF TypeOK, UnitsPerMicro

LEMMA ChainTypes ==
  TypeOK => chain.maxDropoff \in Nat /\ chain.relayerFee \in Nat /\ chain.relayerFee \in RelayerFees
            /\ chain.maxDropoff \in MaxDropoffs
BY RelayQuoteAssumption DEF TypeOK, Chain

LEMMA InitInv == Init => IInv
BY RelayQuoteAssumption
   DEF Init, IInv, TypeOK, Kept, FreshTerms, QuoteSuffices, SentAsQuoted, Chain

\* A change by others leaves a quote that is stale.
LEMMA StaleInv ==
  ASSUME IInv, Stale, route' = route, option' = option, chain' \in Chain, prices' \in Prices
  PROVE  IInv'
<1>1. quote # None =>
        /\ quote' \in Quote /\ quote'.micro = quote.micro /\ quote'.units = quote.units
        /\ quote'.fresh = FALSE
  BY DEF IInv, TypeOK, Stale, Quote
<1>2. quote = None => quote' = None
  BY DEF Stale
<1>3. TypeOK'
  BY <1>1, <1>2 DEF IInv, TypeOK, Stale
<1>4. Kept'
  BY <1>1, <1>2 DEF IInv, Kept, UnitsPerMicro
<1>5. FreshTerms'
  BY <1>1, <1>2 DEF FreshTerms
<1>6. QuoteSuffices' /\ SentAsQuoted'
  BY DEF Stale, QuoteSuffices, SentAsQuoted
<1> QED
  BY <1>3, <1>4, <1>5, <1>6 DEF IInv

LEMMA ValidateInv ==
  ASSUME IInv, NEW percent \in 0 .. Hundred, Validate(percent)
  PROVE  IInv'
<1>1. option' \in Nat
  <2>1. chain.maxDropoff * UnitsPerMicro \in Nat
    BY UnitTypes, ChainTypes, Products DEF IInv
  <2>2. percent \in Nat
    BY RelayQuoteAssumption
  <2>3. chain.maxDropoff * UnitsPerMicro * percent \in Nat
    BY <2>1, <2>2, Products
  <2> QED
    BY <2>3, Division, RelayQuoteAssumption DEF Validate
<1>2. TypeOK'
  BY <1>1 DEF IInv, TypeOK, Validate
<1>3. Kept' /\ FreshTerms' /\ QuoteSuffices' /\ SentAsQuoted'
  BY DEF Validate, Kept, FreshTerms, QuoteSuffices, SentAsQuoted
<1> QED
  BY <1>2, <1>3 DEF IInv

LEMMA QuoteRouteInv ==
  ASSUME IInv, option # None, NEW micro \in QuoteMicros, Quotable(micro),
         NEW fee \in QuoteFees(micro), QuoteRoute(micro, fee)
  PROVE  IInv'
<1>1. option \in Nat
  BY DEF IInv, TypeOK
<1>2. /\ micro \in Nat
      /\ IF route.from = "Evm" THEN micro \in CutMicros(InMicro(option, UnitsPerMicro))
         ELSE micro = InMicro(option, UnitsPerMicro)
  <2>1. UnitsPerMicro \in Nat \ {0}
    BY UnitTypes DEF IInv
  <2>2. CASE route.from = "Evm"
    BY <1>1, <2>1, <2>2, Cuts DEF QuoteMicros
  <2>3. CASE route.from # "Evm"
    <3>1. micro = InMicro(option, UnitsPerMicro)
      BY <2>3, SolanaTargets DEF QuoteMicros, IInv
    <3> QED
      BY <1>1, <2>1, <2>3, <3>1, Division DEF InMicro
  <2> QED
    BY <2>2, <2>3
<1>3. prices \in Prices /\ chain.relayerFee \in Nat
  BY ChainTypes DEF IInv, TypeOK
<1>4. fee \in Nat
  <2>1. CASE route.from = "Evm"
    BY <1>2, <1>3, <2>1, FeeTypes, Attached DEF QuoteFees
  <2>2. CASE route.from # "Evm"
    <3>1. TotalFee(prices, micro, chain.relayerFee) \in Nat
      BY <1>2, <1>3, <2>2, FeeTypes DEF Quotable
    <3> QED
      BY <2>2, <3>1 DEF QuoteFees, ClientFees
  <2> QED
    BY <2>1, <2>2
<1>5. quote' = [units |-> option, micro |-> micro, fee |-> fee, fresh |-> TRUE]
  BY DEF QuoteRoute
<1>6. quote' \in Quote /\ quote'.units = option /\ quote'.micro = micro /\ quote'.fee = fee
  BY <1>1, <1>2, <1>4, <1>5 DEF Quote
<1>7. TypeOK'
  BY <1>6 DEF IInv, TypeOK, QuoteRoute
<1>8. Kept'
  BY <1>2, <1>6 DEF Kept, QuoteRoute, UnitsPerMicro
<1>9. FreshTerms'
  <2>1. route.from = "Solana" => prices.sol # 0
    BY DEF Quotable
  <2>2. QuoteFees(micro)' = QuoteFees(micro)
    BY DEF QuoteFees, QuoteRoute
  <2> QED
    BY <1>6, <2>1, <2>2 DEF FreshTerms, QuoteRoute, QuoteFees
<1>10. QuoteSuffices' /\ SentAsQuoted'
  BY DEF QuoteRoute, QuoteSuffices, SentAsQuoted
<1> QED
  BY <1>7, <1>8, <1>9, <1>10 DEF IInv

\* What the sent dropoff has to do with the quoted one.
LEMMA SentDropoff ==
  ASSUME TypeOK, Kept, quote # None, NEW micro \in SentMicros
  PROVE  /\ micro \in Nat /\ quote.micro \in Nat /\ micro <= quote.micro
         /\ route.from = "Evm" => micro = quote.micro
         /\ micro * UnitsPerMicro <= quote.units
         /\ quote.units < (micro + 2) * UnitsPerMicro
<1>1. UnitsPerMicro \in Nat \ {0} /\ quote.units \in Nat /\ quote.micro \in Nat
  BY UnitTypes DEF TypeOK, Quote
<1>2. micro \in CutMicros(InMicro(quote.units, UnitsPerMicro))
  BY DEF SentMicros, Kept
<1>3. /\ micro \in Nat /\ micro <= InMicro(quote.units, UnitsPerMicro)
      /\ micro * UnitsPerMicro <= quote.units
      /\ quote.units < (micro + 2) * UnitsPerMicro
  BY <1>1, <1>2, Cuts
<1>4. route.from = "Evm" => micro = quote.micro
  BY DEF SentMicros
<1>5. micro <= quote.micro
  BY <1>1, <1>3, <1>4 DEF Kept
<1> QED
  BY <1>1, <1>3, <1>4, <1>5

LEMMA ChargeType ==
  ASSUME TypeOK, NEW micro \in Nat, Priced(micro)
  PROVE  Charge(micro) \in Nat
<1>1. prices \in Prices /\ chain.relayerFee \in Nat
  BY ChainTypes DEF TypeOK
<1>2. CASE route.from = "Evm"
  BY <1>1, <1>2, FeeTypes DEF Charge
<1>3. CASE route.from # "Evm"
  BY <1>1, <1>3, FeeTypes, SolanaTargets DEF Charge, Priced, Computable
<1> QED
  BY <1>2, <1>3

\* A charge at the prices of a fresh quote.
LEMMA FreshCharge ==
  ASSUME TypeOK, Kept, FreshTerms, quote # None, quote.fresh,
         NEW micro \in SentMicros, Priced(micro), ~ Covered(Charge(micro))
  PROVE  route.from = "Evm" /\ Charge(micro) <= quote.fee + DoubleError
<1>1. prices \in Prices /\ chain.relayerFee \in Nat /\ quote.fee \in Nat
  BY ChainTypes DEF TypeOK, Quote
<1>2. micro \in Nat /\ quote.micro \in Nat /\ micro <= quote.micro
      /\ (route.from = "Evm" => micro = quote.micro)
  BY SentDropoff
<1>3. quote.fee \in QuoteFees(quote.micro) /\ (route.from = "Solana" => prices.sol # 0)
  BY DEF FreshTerms
<1>4. CASE route.from = "Evm"
  <2>1. QuoteRelay(prices, micro, chain.relayerFee) \in Nat
    BY <1>1, <1>2, FeeTypes
  <2>2. quote.fee \in AttachedFees(RelayFee(QuoteRelay(prices, micro, chain.relayerFee)))
    BY <1>2, <1>3, <1>4 DEF QuoteFees
  <2> QED
    BY <1>4, <2>1, <2>2, Attached DEF Charge
<1>5. CASE route.from # "Evm"
  <2>1. route.from = "Solana" /\ prices.sol # 0
    BY <1>3, <1>5, SolanaTargets
  <2> DEFINE old == TotalFee(prices, quote.micro, chain.relayerFee)
             new == TotalFee(prices, micro, chain.relayerFee)
  <2>2. old \in Nat /\ new \in Nat
    BY <1>1, <1>2, <2>1, FeeTypes
  <2>3. new <= old
    BY <1>1, <1>2, <2>1, FeeGrows
  <2>4. quote.fee \in old .. old + 2
    BY <1>3, <1>5 DEF QuoteFees, ClientFees
  <2>5. Charge(micro) = new
    BY <1>5 DEF Charge
  <2> HIDE DEF old, new
  <2>6. Charge(micro) <= quote.fee
    BY <1>1, <2>2, <2>3, <2>4, <2>5
  <2> QED
    BY <2>6 DEF Covered
<1> QED
  BY <1>4, <1>5

LEMMA InitiateInv ==
  ASSUME IInv, quote # None, NEW micro \in SentMicros, Initiate(micro)
  PROVE  IInv'
<1> USE DEF IInv
<1> DEFINE charge == IF Priced(micro) THEN Charge(micro) ELSE 0
           s == [result |-> Outcome(micro), micro |-> micro, charge |-> charge]
<1>1. /\ micro \in Nat
      /\ micro * UnitsPerMicro <= quote.units
      /\ quote.units < (micro + 2) * UnitsPerMicro
  BY SentDropoff
<1>2. charge \in Nat
  BY <1>1, ChargeType
<1>3. sent' = s /\ s.result = Outcome(micro) /\ s.micro = micro /\ s.charge = charge
  BY DEF Initiate
<1>4. UNCHANGED <<route, chain, prices, option, quote, redemption>>
  BY DEF Initiate
<1>5. Outcome(micro) \in {"Sent", "ShortOfFee", "Refused"}
  BY DEF Outcome
<1>6. TypeOK'
  <2>1. s \in Transfer
    BY <1>1, <1>2, <1>5 DEF Transfer
  <2>2. message' = None \/ message' \in Nat
    BY <1>1 DEF Initiate, TypeOK
  <2> QED
    BY <1>3, <1>4, <2>1, <2>2 DEF TypeOK
<1>7. Kept' /\ FreshTerms'
  BY <1>4 DEF Kept, FreshTerms, UnitsPerMicro, QuoteFees
<1>8. Outcome(micro) # "Refused" => Open(micro) /\ Priced(micro)
  BY DEF Outcome
<1>9. Outcome(micro) = "Sent" => Covered(Charge(micro))
  BY DEF Outcome
<1>10. Outcome(micro) = "ShortOfFee" => ~ Covered(Charge(micro))
  BY DEF Outcome
<1>11. QuoteSuffices'
  <2>1. SUFFICES ASSUME quote.fresh, Outcome(micro) = "ShortOfFee"
                 PROVE  route.from = "Evm" /\ charge <= quote.fee + DoubleError
    BY <1>3, <1>4 DEF QuoteSuffices
  <2>2. Priced(micro) /\ ~ Covered(Charge(micro))
    BY <1>8, <1>10, <2>1
  <2> QED
    BY <2>1, <2>2, FreshCharge
<1>12. SentAsQuoted'
  <2>1. SUFFICES ASSUME Outcome(micro) = "Sent"
                 PROVE  /\ chain.registered /\ ~ chain.paused /\ micro <= chain.maxDropoff
                        /\ charge <= quote.fee
                        /\ IF route.from = "Solana" THEN FeeIsExact'
                           ELSE QuoteRelay(prices, micro, chain.relayerFee) <= quote.fee
                        /\ micro * UnitsPerMicro <= quote.units
                        /\ quote.units < (micro + 2) * UnitsPerMicro
    BY <1>3, <1>4 DEF SentAsQuoted, UnitsPerMicro
  <2>2. Open(micro) /\ Priced(micro) /\ Covered(Charge(micro)) /\ charge = Charge(micro)
    BY <1>8, <1>9, <2>1
  <2>3. CASE route.from = "Solana"
    <3>1. prices \in Prices /\ chain.relayerFee \in Nat /\ prices.sol # 0
      BY <2>2, <2>3, ChainTypes DEF TypeOK, Priced, Computable
    <3>2. charge = TotalFee(prices, micro, chain.relayerFee)
      BY <2>2, <2>3 DEF Charge
    <3>3. /\ TotalFee(prices, micro, chain.relayerFee) * prices.sol * MweiPerToken
              <= (FeeMwei(prices, micro) * prices.gasToken + chain.relayerFee * MweiPerToken)
                   * LamportsPerSol
          /\ ((FeeMwei(prices, micro) * prices.gasToken + chain.relayerFee * MweiPerToken)
                - MweiPerToken) * LamportsPerSol
              < (TotalFee(prices, micro, chain.relayerFee) + 1) * prices.sol * MweiPerToken
      BY <1>1, <3>1, FeeRounds
    <3>4. ExactMicroUsd' = FeeMwei(prices, micro) * prices.gasToken
                             + chain.relayerFee * MweiPerToken
      <4>1. prices' = prices /\ chain' = chain /\ sent'.micro = micro
        BY <1>3, <1>4
      <4> QED
        BY <4>1, Zenon DEF ExactMicroUsd, FeeMwei
    <3> HIDE DEF charge, s
    <3>5. FeeIsExact'
      <4>1. prices' = prices /\ sent'.charge = TotalFee(prices, micro, chain.relayerFee)
        BY <1>3, <1>4, <3>2
      <4>2. /\ sent'.charge * prices'.sol * MweiPerToken <= ExactMicroUsd' * LamportsPerSol
            /\ (ExactMicroUsd' - MweiPerToken) * LamportsPerSol
                 < (sent'.charge + 1) * prices'.sol * MweiPerToken
        BY <3>3, <3>4, <4>1, Zenon
      <4> QED
        BY <4>2, Zenon DEF FeeIsExact
    <3> QED
      BY <1>1, <2>2, <2>3, <3>5 DEF Open, Covered
  <2>4. CASE route.from # "Solana"
    <3>1. route.from = "Evm"
      BY <2>4, SolanaTargets
    <3> QED
      BY <1>1, <2>2, <2>4, <3>1 DEF Open, Covered, Charge
  <2> QED
    BY <2>3, <2>4
<1> QED
  BY <1>6, <1>7, <1>11, <1>12

LEMMA RedeemInv ==
  ASSUME IInv, NEW byRecipient \in BOOLEAN, Redeem(byRecipient)
  PROVE  IInv'
<1>1. TypeOK'
  BY DEF IInv, TypeOK, Redeem
<1>2. Kept' /\ FreshTerms'
  BY DEF IInv, Kept, FreshTerms, Redeem, UnitsPerMicro, QuoteFees
<1>3. QuoteSuffices' /\ SentAsQuoted'
  BY DEF Redeem, QuoteSuffices, SentAsQuoted
<1> QED
  BY <1>1, <1>2, <1>3 DEF IInv

LEMMA NextInv == IInv /\ [Next]_vars => IInv'
<1> SUFFICES ASSUME IInv, [Next]_vars
             PROVE  IInv'
  OBVIOUS
<1>1. CASE RegisterPeer
  BY <1>1, StaleInv DEF RegisterPeer, Chain, IInv, TypeOK
<1>2. CASE UpdateSettings
  BY <1>2, StaleInv DEF UpdateSettings, Chain, IInv, TypeOK
<1>3. CASE UpdatePrices
  BY <1>3, StaleInv DEF UpdatePrices, IInv, TypeOK
<1>4. CASE \E percent \in 0 .. Hundred : Validate(percent)
  BY <1>4, ValidateInv
<1>5. CASE /\ option # None
           /\ \E micro \in QuoteMicros :
                Quotable(micro) /\ \E fee \in QuoteFees(micro) : QuoteRoute(micro, fee)
  BY <1>5, QuoteRouteInv
<1>6. CASE quote # None /\ \E micro \in SentMicros : Initiate(micro)
  BY <1>6, InitiateInv
<1>7. CASE \E byRecipient \in BOOLEAN : Redeem(byRecipient)
  BY <1>7, RedeemInv
<1>8. CASE UNCHANGED vars
  <2>1. TypeOK' /\ Kept' /\ FreshTerms'
    BY <1>8 DEF IInv, vars, TypeOK, Kept, FreshTerms, UnitsPerMicro, QuoteFees
  <2>2. QuoteSuffices' /\ SentAsQuoted'
    BY <1>8 DEF IInv, vars, QuoteSuffices, SentAsQuoted, FeeIsExact, ExactMicroUsd, UnitsPerMicro
  <2> QED
    BY <2>1, <2>2 DEF IInv
<1> QED
  BY <1>1, <1>2, <1>3, <1>4, <1>5, <1>6, <1>7, <1>8 DEF Next

LEMMA Inductive == Spec => []IInv
BY InitInv, NextInv, PTL DEF Spec

\* Amounts are natural numbers for all units, prices and settings.
THEOREM TypeCorrect == Spec => []TypeOK
BY Inductive, PTL DEF IInv

\* What was quoted pays for the transfer, up to what doubles lose on EVM, as
\* long as nothing changes.
THEOREM QuotesSuffice == Spec => []QuoteSuffices
BY Inductive, PTL DEF IInv

\* What goes out is within the settings, the accepted fee and the chosen
\* dropoff, and covers the relay's cost.
THEOREM TransfersAreAsQuoted == Spec => []SentAsQuoted
BY Inductive, PTL DEF IInv
=============================================================================
