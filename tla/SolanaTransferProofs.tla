------------------------- MODULE SolanaTransferProofs -------------------------
(***************************************************************************)
(* Proofs about SolanaTransfer, for any wallets, mints, amounts, fees and  *)
(* rent, and any number of transactions and messages.                      *)
(***************************************************************************)
EXTENDS SolanaTransfer, SumTheorems

Address == Wallet \cup Mint

-----------------------------------------------------------------------------
(* The calls on lamports, as what they change for every address.           *)
LEMMA PayType ==
  ASSUME NEW l \in [Address -> Int], NEW a \in Address, NEW b \in Address,
         NEW n \in Int
  PROVE  Pay(l, a, b, n) \in [Address -> Int]
<1>1. [l EXCEPT ![a] = @ - n] \in [Address -> Int]
  OBVIOUS
<1> QED
  BY <1>1 DEF Pay

LEMMA PayValue ==
  ASSUME NEW l \in [Address -> Int], NEW a \in Address, NEW b \in Address,
         NEW n \in Int, NEW x \in Address
  PROVE  Pay(l, a, b, n)[x] = l[x] - At(x, a, n) + At(x, b, n)
<1> DEFINE k == [l EXCEPT ![a] = @ - n]
<1>1. k \in [Address -> Int] /\ k[x] = l[x] - At(x, a, n)
  BY DEF At
<1> HIDE DEF k
<1>2. [k EXCEPT ![b] = @ + n][x] = k[x] + At(x, b, n)
  BY <1>1 DEF At
<1> QED
  BY <1>1, <1>2 DEF Pay, k

LEMMA CloseValue ==
  ASSUME NEW l \in [Address -> Int], NEW m \in Mint, NEW p \in Wallet
  PROVE  /\ Close(l, m, p) \in [Address -> Int]
         /\ \A x \in Address :
              Close(l, m, p)[x] = IF x = m THEN 0 ELSE l[x] + At(x, p, l[m])
<1>1. m \in Address /\ p \in Address /\ l[m] \in Int /\ p # m
  BY SolanaTransferAssumption DEF Address
<1> DEFINE n == l[m]
<1> HIDE DEF n
<1>2. n \in Int
  BY <1>1 DEF n
<1>3. /\ Pay(l, m, p, n) \in [Address -> Int]
      /\ \A x \in Address : Pay(l, m, p, n)[x] = l[x] - At(x, m, n) + At(x, p, n)
  BY <1>1, <1>2, PayType, PayValue
<1>4. Close(l, m, p) = Pay(l, m, p, n)
  BY DEF Close, n
<1> QED
  BY <1>1, <1>2, <1>3, <1>4 DEF At, n

LEMMA OpenValue ==
  ASSUME NEW l \in [Address -> Int], NEW m \in Mint, NEW p \in Wallet
  PROVE  /\ Open(l, m, p) \in [Address -> Int]
         /\ \A x \in Address :
              Open(l, m, p)[x] = IF x = m THEN Rent
                                 ELSE l[x] + At(x, p, l[m] - Rent)
<1> DEFINE d == Drain(l, m, p)
           o == Open(l, m, p)
<1>1. m \in Address /\ p \in Address /\ l[m] \in Int /\ p # m /\ Rent \in Int
  BY SolanaTransferAssumption DEF Address
<1>2. d = Close(l, m, p) /\ o = Pay(d, p, m, Rent)
  BY DEF Drain, Close, Open
<1> HIDE DEF d, o
<1>3. d \in [Address -> Int]
  BY <1>2, CloseValue
<1>4. \A x \in Address : d[x] = IF x = m THEN 0 ELSE l[x] + At(x, p, l[m])
  BY <1>2, CloseValue
<1>5. /\ Pay(d, p, m, Rent) \in [Address -> Int]
      /\ \A x \in Address :
           Pay(d, p, m, Rent)[x] = d[x] - At(x, p, Rent) + At(x, m, Rent)
  BY <1>1, <1>3, PayType, PayValue
<1>6. \A x \in Address : o[x] = IF x = m THEN Rent ELSE l[x] + At(x, p, l[m] - Rent)
  BY <1>1, <1>2, <1>4, <1>5 DEF At
<1> QED
  BY <1>2, <1>5, <1>6 DEF o

-----------------------------------------------------------------------------
(* After transfer_tokens the payer has paid the fee and has what was in    *)
(* the temporary account, which is empty.                                  *)
LEMMA TransferTokensValue ==
  ASSUME TypeOK, NEW d \in drafts, TransferTokens(d)
  PROVE  /\ lamports' \in [Address -> Int]
         /\ \A x \in Address :
              lamports'[x] =
                IF x = d.mint THEN 0
                ELSE lamports[x] + At(x, d.payer, lamports[d.mint] - fee)
                                 + At(x, feeRecipient, fee)
<1> DEFINE m == d.mint
           p == d.payer
           o == Open(lamports, m, p)
           paid == Pay(o, p, feeRecipient, fee)
<1>1. /\ lamports \in [Address -> Int] /\ fee \in Int
      /\ m \in Mint /\ p \in Wallet /\ feeRecipient \in Wallet
      /\ m \in Address /\ p \in Address /\ feeRecipient \in Address
      /\ p # m /\ feeRecipient # m /\ lamports[m] \in Int /\ Rent \in Int
  BY SolanaTransferAssumption DEF TypeOK, Draft, Address
<1> HIDE DEF m, p
<1>2. /\ o \in [Address -> Int]
      /\ \A x \in Address :
           o[x] = IF x = m THEN Rent ELSE lamports[x] + At(x, p, lamports[m] - Rent)
  BY <1>1, OpenValue
<1>3. lamports' = Close(paid, m, p)
  BY DEF TransferTokens, m, p
<1> HIDE DEF o
<1>4. o \in [Address -> Int]
  BY <1>2
<1>5. fee \in Int /\ p \in Address /\ feeRecipient \in Address
  BY <1>1
<1> HIDE DEF paid
<1>6. paid \in [Address -> Int]
  BY <1>4, <1>5, PayType DEF paid
<1>7. \A x \in Address : paid[x] = o[x] - At(x, p, fee) + At(x, feeRecipient, fee)
  BY <1>4, <1>5, PayValue DEF paid
<1>8. /\ Close(paid, m, p) \in [Address -> Int]
      /\ \A x \in Address :
           Close(paid, m, p)[x] = IF x = m THEN 0 ELSE paid[x] + At(x, p, paid[m])
  BY <1>1, <1>6, CloseValue
<1>9. paid[m] = Rent
  BY <1>1, <1>2, <1>7 DEF At
<1>10. \A x \in Address :
        lamports'[x] = IF x = m THEN 0
                       ELSE lamports[x] + At(x, p, lamports[m] - fee)
                                        + At(x, feeRecipient, fee)
  BY <1>1, <1>2, <1>3, <1>8, <1>9, <1>7 DEF At
<1> QED
  BY <1>3, <1>8, <1>10 DEF m, p

-----------------------------------------------------------------------------
(* A redemption moves the dropoff from the payer to the recipient, and     *)
(* gives the recipient what is unwrapped and the payer what was in the     *)
(* temporary account before.                                               *)
LEMMA CompleteTransferValue ==
  ASSUME TypeOK, NEW v \in vaas, NEW p \in Wallet,
         NEW have, CompleteTransfer(v, p, have)
  PROVE  LET drop == Dropoff(v, p)
             own == IF Unwraps(v) THEN v.amount ELSE 0
         IN /\ lamports' \in [Address -> Int]
            /\ \A x \in Address :
                 lamports'[x] =
                   IF x = v.mint THEN 0
                   ELSE lamports[x] + At(x, p, lamports[v.mint] - drop)
                                    + At(x, v.recipient, drop + own)
<1> DEFINE m == v.mint
           r == v.recipient
           drop == Dropoff(v, p)
           back == Backing(v)
           o == Open(lamports, m, p)
           f == [o EXCEPT ![m] = @ + back]
           h == Pay(f, p, r, drop)
<1>1. /\ lamports \in [Address -> Int] /\ m \in Mint /\ r \in Wallet
      /\ m \in Address /\ p \in Address /\ r \in Address
      /\ p # m /\ r # m /\ lamports[m] \in Int /\ Rent \in Int
  BY SolanaTransferAssumption DEF TypeOK, Vaa, Address
<1>2. v.amount \in Nat /\ v.dropoff \in Nat
  BY SolanaTransferAssumption DEF TypeOK, Vaa
<1>3. drop \in Nat /\ back \in Nat /\ (p = r => drop = 0)
  BY <1>2 DEF Dropoff, Backing
<1>4. lamports' = RedeemToken(h, v, p)
  BY DEF CompleteTransfer
<1>5. Unwraps(v) => back = v.amount
  BY DEF Unwraps, Backing
<1> HIDE DEF drop, back
<1>6. /\ o \in [Address -> Int]
      /\ \A x \in Address :
           o[x] = IF x = m THEN Rent ELSE lamports[x] + At(x, p, lamports[m] - Rent)
  BY <1>1, OpenValue
<1> HIDE DEF o
<1>7. /\ f \in [Address -> Int]
      /\ \A x \in Address :
           f[x] = IF x = m THEN Rent + back
                  ELSE lamports[x] + At(x, p, lamports[m] - Rent)
  BY <1>1, <1>3, <1>6
<1> HIDE DEF f
<1>8. f \in [Address -> Int] /\ drop \in Int /\ p \in Address /\ r \in Address
  BY <1>1, <1>3, <1>7
<1> HIDE DEF h, r, m
<1>9. h \in [Address -> Int]
  BY <1>8, PayType DEF h
<1>10. \A x \in Address : h[x] = f[x] - At(x, p, drop) + At(x, r, drop)
  BY <1>8, PayValue DEF h
<1>11. h[m] = Rent + back
  BY <1>1, <1>3, <1>7, <1>10 DEF At
<1>12. CASE Unwraps(v)
  <2> DEFINE c == Close(h, m, p)
  <2>1. /\ c \in [Address -> Int]
        /\ \A x \in Address : c[x] = IF x = m THEN 0 ELSE h[x] + At(x, p, h[m])
    BY <1>1, <1>9, CloseValue
  <2> HIDE DEF c
  <2>2. CASE p = r
    <3>1. lamports' = c
      BY <1>4, <1>12, <2>2 DEF RedeemToken, c, m, r
    <3> QED
      BY <1>1, <1>2, <1>3, <1>5, <1>7, <1>10, <1>11, <1>12, <2>1, <2>2, <3>1
      DEF At, drop, m, r
  <2>3. CASE p # r
    <3>1. lamports' = Pay(c, p, r, v.amount)
      BY <1>4, <1>12, <2>3 DEF RedeemToken, c, m, r
    <3>2. c \in [Address -> Int] /\ v.amount \in Int
          /\ p \in Address /\ r \in Address
      BY <1>1, <1>2, <2>1
    <3>3. lamports' \in [Address -> Int]
      BY <3>1, <3>2, PayType
    <3>4. \A x \in Address :
            lamports'[x] = c[x] - At(x, p, v.amount) + At(x, r, v.amount)
      BY <3>1, <3>2, PayValue
    <3> QED
      BY <1>1, <1>2, <1>3, <1>5, <1>7, <1>10, <1>11, <1>12, <2>1, <2>3, <3>3, <3>4
      DEF At, drop, m, r
  <2> QED
    BY <2>2, <2>3
<1>13. CASE ~Unwraps(v)
  <2> DEFINE e == [h EXCEPT ![m] = @ - back]
  <2>1. /\ e \in [Address -> Int] /\ e[m] = Rent
        /\ \A x \in Address \ {m} : e[x] = h[x]
    BY <1>1, <1>3, <1>9, <1>11
  <2>2. lamports' = Close(e, m, p)
    BY <1>4, <1>13 DEF RedeemToken, m, back
  <2> HIDE DEF e
  <2>3. /\ lamports' \in [Address -> Int]
        /\ \A x \in Address : lamports'[x] = IF x = m THEN 0 ELSE e[x] + At(x, p, e[m])
    BY <1>1, <2>1, <2>2, CloseValue
  <2>4. \A x \in Address :
          lamports'[x] = IF x = m THEN 0
                         ELSE lamports[x] + At(x, p, lamports[m] - drop)
                                          + At(x, r, drop)
    BY <1>1, <1>3, <1>7, <1>10, <2>1, <2>3 DEF At
  <2> QED
    BY <1>3, <1>13, <2>3, <2>4 DEF drop, m, r
<1> QED
  BY <1>12, <1>13

-----------------------------------------------------------------------------
(* Messages from abroad are told apart by their numbers.                   *)
VaasNumbered ==
  /\ IsFiniteSet(vaas)
  /\ \A v \in vaas : v.id <= Cardinality(vaas)
  /\ \A u, v \in vaas : u.id = v.id => u = v

Inv == TypeOK /\ VaasNumbered /\ MessagesCounted

LEMMA NormalizeType ==
  ASSUME NEW n \in Nat, NEW m \in Mint
  PROVE  NormalizeTokenAmount(n, m) \in Nat
<1>1. \A a, b \in Nat : a * b \in Nat
  OBVIOUS
<1>2. Grain[m] \in Nat /\ Grain[m] > 0
  BY SolanaTransferAssumption
<1>3. n \div Grain[m] \in Nat
  BY <1>2
<1> QED
  BY <1>1, <1>2, <1>3 DEF NormalizeTokenAmount

LEMMA InitInv == Init => Inv
<1> SUFFICES ASSUME Init PROVE Inv
  OBVIOUS
<1>1. lamports \in [Wallet \cup Mint -> Nat]
  BY SolanaTransferAssumption DEF Init
<1>2. TypeOK
  BY <1>1, SolanaTransferAssumption DEF Init, TypeOK
<1>3. VaasNumbered
  BY FS_EmptySet DEF Init, VaasNumbered
<1>4. MessagesCounted
  BY DEF Init, MessagesCounted
<1> QED
  BY <1>2, <1>3, <1>4 DEF Inv

(* The steps that move no money and post no message.                       *)
LEMMA BuildTransferInv ==
  ASSUME Inv, NEW w \in Wallet, NEW m \in Mint, NEW n \in Amounts,
         NEW y \in Dropoffs, BuildTransfer(w, m, n, y)
  PROVE  Inv'
<1> DEFINE s == sequence[w]
           d == [payer |-> w, init |-> s = None, seq |-> IF s = None THEN 0 ELSE s,
                 mint |-> m, amount |-> n, dropoff |-> y, maxFee |-> fee,
                 feeRecipient |-> feeRecipient]
<1>1. d \in Draft
  BY DEF Inv, TypeOK, Draft
<1>2. drafts' = drafts \cup {d}
  BY DEF BuildTransfer
<1> HIDE DEF d
<1>3. UNCHANGED <<lamports, tokens, bridge, accounts, sequence, posted, fee,
                  feeRecipient, paused, maxDropoff, vaas, claimed>>
  BY DEF BuildTransfer, money, settings
<1> QED
  BY <1>1, <1>2, <1>3 DEF Inv, TypeOK, VaasNumbered, MessagesCounted

LEMMA TransferTokensInv ==
  ASSUME Inv, NEW d \in drafts, TransferTokens(d)
  PROVE  Inv'
<1> DEFINE n == NormalizeTokenAmount(d.amount, d.mint)
           q == [by |-> d.payer, seq |-> d.seq, mint |-> d.mint, amount |-> n]
           taken == Sequence(d)
<1>1. TypeOK /\ VaasNumbered /\ MessagesCounted
  BY DEF Inv
<1>2. /\ d.payer \in Wallet /\ d.mint \in Mint /\ d.seq \in Nat
      /\ d.amount \in Nat /\ n \in Nat
  BY <1>1, NormalizeType, SolanaTransferAssumption DEF TypeOK, Draft
<1>3. /\ q \in Posted /\ q.by = d.payer /\ q.seq = d.seq
  BY <1>2 DEF Posted
<1>4. taken = IF sequence[d.payer] = None THEN 0 ELSE sequence[d.payer]
  BY DEF TransferTokens, Executable, SequenceFits, Sequence
<1>5. taken \in Nat /\ d.seq = taken
  BY <1>1, <1>2, <1>4 DEF TypeOK, TransferTokens, Executable, SequenceFits
<1>6. /\ tokens' = [tokens EXCEPT ![<<d.payer, d.mint>>] = @ - n]
      /\ bridge' = [bridge EXCEPT ![d.mint] = @ + n]
      /\ sequence' = [sequence EXCEPT ![d.payer] = taken + 1]
      /\ posted' = posted \cup {q}
      /\ drafts' \subseteq drafts
      /\ UNCHANGED <<accounts, fee, feeRecipient, paused, maxDropoff, vaas, claimed>>
  BY DEF TransferTokens, TakeAndUptick, settings
<1>7. tokens[<<d.payer, d.mint>>] >= n
  BY DEF TransferTokens, Executable
<1>8. ~\E p \in posted : p.by = d.payer /\ p.seq = d.seq
  BY DEF TransferTokens, Executable, SequenceFits
<1> HIDE DEF n, q, taken
<1>9. lamports' \in [Wallet \cup Mint -> Nat]
  <2>1. /\ lamports' \in [Address -> Int]
        /\ \A x \in Address :
             lamports'[x] =
               IF x = d.mint THEN 0
               ELSE lamports[x] + At(x, d.payer, lamports[d.mint] - fee)
                                + At(x, feeRecipient, fee)
    BY <1>1, TransferTokensValue
  <2>2. /\ lamports \in [Address -> Nat] /\ fee \in Nat /\ Rent \in Nat
        /\ d.mint \in Address /\ d.payer \in Address /\ d.payer # d.mint
    BY <1>1, <1>2, SolanaTransferAssumption DEF TypeOK, Address
  <2>3. lamports[d.payer] + lamports[d.mint] - Rent >= fee
    <3>1. Open(lamports, d.mint, d.payer)[d.payer] >= fee
      BY DEF TransferTokens, Executable
    <3>2. lamports \in [Address -> Int]
      BY <2>2
    <3>3. Open(lamports, d.mint, d.payer)[d.payer]
            = lamports[d.payer] + At(d.payer, d.payer, lamports[d.mint] - Rent)
      BY <1>2, <2>2, <3>2, OpenValue
    <3> QED
      BY <2>2, <3>1, <3>3 DEF At
  <2>4. \A x \in Address : lamports'[x] \in Nat
    BY <2>1, <2>2, <2>3 DEF At
  <2> QED
    BY <2>1, <2>4 DEF Address
<1>10. tokens' \in [Wallet \X Mint -> Nat]
  BY <1>1, <1>2, <1>6, <1>7 DEF TypeOK
<1>11. bridge' \in [Mint -> Nat] /\ sequence' \in [Wallet -> Nat \cup {None}]
  BY <1>1, <1>2, <1>5, <1>6 DEF TypeOK
<1>12. TypeOK'
  BY <1>1, <1>3, <1>6, <1>9, <1>10, <1>11 DEF TypeOK
<1>13. MessagesCounted'
  <2>1. \A p, r \in posted' : p.by = r.by /\ p.seq = r.seq => p = r
    BY <1>1, <1>3, <1>6, <1>8 DEF MessagesCounted
  <2>2. ASSUME NEW w \in Wallet
        PROVE  {p.seq : p \in {r \in posted' : r.by = w}}
                 = IF sequence'[w] = None THEN {} ELSE 0 .. sequence'[w] - 1
    <3>1. {p.seq : p \in {r \in posted : r.by = w}}
            = IF sequence[w] = None THEN {} ELSE 0 .. sequence[w] - 1
      BY <1>1 DEF MessagesCounted
    <3>2. CASE w = d.payer
      <4>1. sequence'[w] = taken + 1 /\ taken + 1 # None
        BY <1>1, <1>2, <1>5, <1>6, <3>2, SolanaTransferAssumption DEF TypeOK
      <4>2. {p.seq : p \in {r \in posted' : r.by = w}}
              = {p.seq : p \in {r \in posted : r.by = w}} \cup {taken}
        BY <1>3, <1>5, <1>6, <3>2
      <4>3. {p.seq : p \in {r \in posted : r.by = w}} = 0 .. taken - 1
        BY <1>4, <1>5, <3>1, <3>2
      <4>4. 0 .. taken = 0 .. taken - 1 \cup {taken}
        BY <1>5
      <4>5. {p.seq : p \in {r \in posted' : r.by = w}} = 0 .. taken
        BY <4>2, <4>3, <4>4, Zenon
      <4>6. sequence'[w] # None /\ sequence'[w] - 1 = taken
        BY <1>5, <4>1
      <4> QED
        BY <4>5, <4>6, Zenon
    <3>3. CASE w # d.payer
      <4>1. sequence'[w] = sequence[w]
        BY <1>1, <1>6, <3>3 DEF TypeOK
      <4>2. {r \in posted' : r.by = w} = {r \in posted : r.by = w}
        BY <1>3, <1>6, <3>3
      <4> QED
        BY <3>1, <4>1, <4>2
    <3> QED
      BY <3>2, <3>3
  <2> QED
    BY <2>1, <2>2 DEF MessagesCounted
<1> QED
  BY <1>1, <1>6, <1>12, <1>13 DEF Inv, VaasNumbered

LEMMA CompleteTransferInv ==
  ASSUME Inv, NEW v \in vaas, NEW w \in Wallet,
         NEW have \in SUBSET (Wallet \X Mint), CompleteTransfer(v, w, have)
  PROVE  Inv'
<1> DEFINE own == IF Unwraps(v) THEN v.amount ELSE 0
           drop == Dropoff(v, w)
<1>1. TypeOK /\ VaasNumbered /\ MessagesCounted
  BY DEF Inv
<1>2. /\ v.id \in Nat /\ v.mint \in Mint /\ v.amount \in Nat
      /\ v.recipient \in Wallet /\ drop \in Nat /\ own \in Nat
  BY <1>1, SolanaTransferAssumption DEF TypeOK, Vaa, Dropoff
<1>3. /\ claimed' = claimed \cup {v.id}
      /\ bridge' = [bridge EXCEPT ![v.mint] = @ - v.amount]
      /\ \/ tokens' = tokens
         \/ tokens' = [tokens EXCEPT ![<<v.recipient, v.mint>>] = @ + v.amount]
      /\ accounts' = have
      /\ UNCHANGED <<sequence, posted, fee, feeRecipient, paused, maxDropoff,
                   drafts, vaas>>
  BY DEF CompleteTransfer, settings
<1>4. v.amount <= bridge[v.mint]
  BY DEF CompleteTransfer, Redeemable
<1>5. lamports' \in [Wallet \cup Mint -> Nat]
  <2>1. /\ lamports' \in [Address -> Int]
        /\ \A x \in Address :
             lamports'[x] =
               IF x = v.mint THEN 0
               ELSE lamports[x] + At(x, w, lamports[v.mint] - drop)
                                + At(x, v.recipient, drop + own)
    BY <1>1, CompleteTransferValue
  <2>2. /\ lamports \in [Address -> Nat] /\ Rent \in Nat
        /\ v.mint \in Address /\ w \in Address /\ w # v.mint
    BY <1>1, <1>2, SolanaTransferAssumption DEF TypeOK, Address
  <2>3. lamports[w] + lamports[v.mint] - Rent >= drop
    <3>1. Open(lamports, v.mint, w)[w] >= drop
      BY DEF CompleteTransfer, Redeemable
    <3>2. lamports \in [Address -> Int]
      BY <2>2
    <3>3. Open(lamports, v.mint, w)[w]
            = lamports[w] + At(w, w, lamports[v.mint] - Rent)
      BY <1>2, <2>2, <3>2, OpenValue
    <3> QED
      BY <2>2, <3>1, <3>3 DEF At
  <2> HIDE DEF own, drop
  <2>4. \A x \in Address : lamports'[x] \in Nat
    BY <1>2, <2>1, <2>2, <2>3 DEF At
  <2> QED
    BY <2>1, <2>4 DEF Address
<1>6. tokens' \in [Wallet \X Mint -> Nat]
  <2> DEFINE k == <<v.recipient, v.mint>>
  <2>1. tokens \in [Wallet \X Mint -> Nat] /\ k \in Wallet \X Mint
    BY <1>1, <1>2 DEF TypeOK
  <2>2. tokens' = tokens \/ tokens' = [tokens EXCEPT ![k] = @ + v.amount]
    BY <1>3
  <2> HIDE DEF k
  <2> QED
    BY <1>2, <2>1, <2>2
<1>7. bridge' \in [Mint -> Nat] /\ claimed' \subseteq Nat
  <2>1. bridge \in [Mint -> Nat] /\ claimed \subseteq Nat
    BY <1>1 DEF TypeOK
  <2>2. bridge[v.mint] - v.amount \in Nat
    BY <1>2, <1>4, <2>1
  <2>3. bridge' \in [Mint -> Nat]
    BY <1>2, <1>3, <2>1, <2>2
  <2> QED
    BY <1>2, <1>3, <2>1, <2>3
<1>8. TypeOK'
  BY <1>1, <1>3, <1>5, <1>6, <1>7 DEF TypeOK
<1> QED
  BY <1>1, <1>3, <1>8 DEF Inv, VaasNumbered, MessagesCounted

LEMMA SendFromAbroadInv ==
  ASSUME Inv, NEW v \in Vaa, SendFromAbroad(v)
  PROVE  Inv'
<1>1. TypeOK /\ VaasNumbered /\ MessagesCounted
  BY DEF Inv
<1>2. /\ vaas' = vaas \cup {v} /\ v.id = Cardinality(vaas) + 1
      /\ UNCHANGED <<lamports, tokens, bridge, accounts, sequence, posted, fee,
                     feeRecipient, paused, maxDropoff, drafts, claimed>>
  BY DEF SendFromAbroad, money, settings
<1>3. Cardinality(vaas) \in Nat
  BY <1>1, FS_CardinalityType DEF VaasNumbered
<1>4. \A u \in vaas : u.id \in Nat /\ u.id <= Cardinality(vaas)
  BY <1>1 DEF TypeOK, Vaa, VaasNumbered
<1>5. v \notin vaas
  BY <1>2, <1>3, <1>4
<1>6. IsFiniteSet(vaas') /\ Cardinality(vaas') = Cardinality(vaas) + 1
  BY <1>1, <1>2, <1>5, FS_AddElement DEF VaasNumbered
<1>7. \A u \in vaas' : u.id <= Cardinality(vaas')
  BY <1>2, <1>3, <1>4, <1>6
<1>8. \A t, u \in vaas' : t.id = u.id => t = u
  BY <1>1, <1>2, <1>3, <1>4 DEF VaasNumbered
<1>9. VaasNumbered'
  BY <1>6, <1>7, <1>8 DEF VaasNumbered
<1> QED
  BY <1>1, <1>2, <1>9 DEF Inv, TypeOK, MessagesCounted

LEMMA DonateInv ==
  ASSUME Inv, NEW w \in Wallet, NEW m \in Mint, Donate(w, m)
  PROVE  Inv'
<1>1. TypeOK /\ VaasNumbered /\ MessagesCounted
  BY DEF Inv
<1>2. /\ lamports \in [Address -> Nat] /\ w \in Address /\ m \in Address /\ w # m
  BY <1>1, SolanaTransferAssumption DEF TypeOK, Address
<1>3. lamports' = Pay(lamports, w, m, 1) /\ lamports[w] > 0
  BY DEF Donate
<1>4. lamports' \in [Wallet \cup Mint -> Nat]
  <2>1. lamports \in [Address -> Int] /\ 1 \in Int
    BY <1>2
  <2>2. lamports' \in [Address -> Int]
    BY <1>2, <1>3, <2>1, PayType
  <2>3. \A x \in Address : lamports'[x] = lamports[x] - At(x, w, 1) + At(x, m, 1)
    BY <1>2, <1>3, <2>1, PayValue
  <2>4. \A x \in Address : lamports'[x] \in Nat
    BY <1>2, <1>3, <2>3 DEF At
  <2> QED
    BY <2>2, <2>4 DEF Address
<1>5. UNCHANGED <<tokens, bridge, accounts, sequence, posted, fee, feeRecipient,
                  paused, maxDropoff, drafts, vaas, claimed>>
  BY DEF Donate, settings
<1> QED
  BY <1>1, <1>4, <1>5 DEF Inv, TypeOK, VaasNumbered, MessagesCounted

LEMMA NextInv == Inv /\ [Next]_vars => Inv'
<1> SUFFICES ASSUME Inv, [Next]_vars PROVE Inv'
  OBVIOUS
<1>1. ASSUME NEW w \in Wallet, NEW m \in Mint, NEW n \in Amounts,
             NEW y \in Dropoffs, BuildTransfer(w, m, n, y)
      PROVE  Inv'
  BY <1>1, BuildTransferInv
<1>2. ASSUME NEW d \in drafts, Expire(d) PROVE Inv'
  BY <1>2 DEF Expire, money, settings, Inv, TypeOK, VaasNumbered, MessagesCounted
<1>3. ASSUME NEW d \in drafts, TransferTokens(d) PROVE Inv'
  BY <1>3, TransferTokensInv
<1>4. ASSUME NEW v \in vaas, NEW w \in Wallet,
             NEW have \in {accounts, CreateRecipientAccount(v)},
             CompleteTransfer(v, w, have)
      PROVE  Inv'
  <2>1. accounts \subseteq Wallet \X Mint /\ v.recipient \in Wallet /\ v.mint \in Mint
    BY DEF Inv, TypeOK, Vaa
  <2>2. have \in SUBSET (Wallet \X Mint)
    BY <2>1 DEF CreateRecipientAccount
  <2> QED
    BY <1>4, <2>2, CompleteTransferInv
<1>5. ASSUME NEW m \in Mint, NEW n \in Amounts, NEW r \in Wallet,
             NEW x \in Dropoffs, NEW u \in BOOLEAN,
             SendFromAbroad([id |-> Cardinality(vaas) + 1, mint |-> m,
                             amount |-> NormalizeTokenAmount(n, m),
                             recipient |-> r, dropoff |-> x, unwrap |-> u])
      PROVE  Inv'
  <2> DEFINE v == [id |-> Cardinality(vaas) + 1, mint |-> m,
                   amount |-> NormalizeTokenAmount(n, m),
                   recipient |-> r, dropoff |-> x, unwrap |-> u]
  <2>1. Cardinality(vaas) \in Nat
    BY FS_CardinalityType DEF Inv, VaasNumbered
  <2>2. NormalizeTokenAmount(n, m) \in Nat
    BY NormalizeType, SolanaTransferAssumption
  <2>3. v \in Vaa
    BY <2>1, <2>2 DEF Vaa
  <2> QED
    BY <1>5, <2>3, SendFromAbroadInv
<1>6. ASSUME NEW k \in Wallet \X Mint, OpenAccount(k) PROVE Inv'
  BY <1>6 DEF OpenAccount, money, settings, Inv, TypeOK, VaasNumbered, MessagesCounted
<1>7. ASSUME NEW w \in Wallet, NEW m \in Mint, Donate(w, m) PROVE Inv'
  BY <1>7, DonateInv
<1>8. ASSUME ChangeSettings PROVE Inv'
  BY <1>8 DEF ChangeSettings, money, Inv, TypeOK, VaasNumbered, MessagesCounted
<1>9. ASSUME UNCHANGED vars PROVE Inv'
  BY <1>9 DEF vars, money, settings, Inv, TypeOK, VaasNumbered, MessagesCounted
<1> QED
  BY <1>1, <1>2, <1>3, <1>4, <1>5, <1>6, <1>7, <1>8, <1>9 DEF Next

(* Inv holds in every reachable state.                                     *)
THEOREM Inductive == Spec => []Inv
<1> QED
  BY InitInv, NextInv, PTL DEF Spec

(* The kinds of values, of which the ones that matter are the natural      *)
(* numbers: no wallet, temporary account, token account or bridge custody  *)
(* is overdrawn, whatever the order in which transactions run.             *)
THEOREM TypeCorrect == Spec => []TypeOK
<1>1. Inv => TypeOK
  BY DEF Inv
<1> QED
  BY <1>1, Inductive, PTL

(* A wallet's messages are numbered without a gap and without a repetition *)
(* by its sequence account, however its transactions are built, run late   *)
(* or expire.                                                              *)
THEOREM MessagesAreCounted == Spec => []MessagesCounted
<1>1. Inv => MessagesCounted
  BY DEF Inv
<1> QED
  BY <1>1, Inductive, PTL

(* The one action that posts messages and the one that redeems them.       *)
LEMMA PostOrRedeem ==
  ASSUME [Next]_vars
  PROVE  \/ \E d \in drafts : TransferTokens(d)
         \/ \E v \in vaas, w \in Wallet : \E have : CompleteTransfer(v, w, have)
         \/ posted' = posted /\ claimed' = claimed
<1>1. ASSUME NEW w \in Wallet, NEW m \in Mint, NEW n \in Amounts,
             NEW y \in Dropoffs, BuildTransfer(w, m, n, y)
      PROVE  posted' = posted /\ claimed' = claimed
  BY <1>1 DEF BuildTransfer
<1>2. ASSUME NEW d \in drafts, Expire(d)
      PROVE  posted' = posted /\ claimed' = claimed
  BY <1>2 DEF Expire
<1>3. ASSUME NEW v, SendFromAbroad(v)
      PROVE  posted' = posted /\ claimed' = claimed
  BY <1>3 DEF SendFromAbroad
<1>4. ASSUME NEW k \in Wallet \X Mint, OpenAccount(k)
      PROVE  posted' = posted /\ claimed' = claimed
  BY <1>4 DEF OpenAccount
<1>5. ASSUME NEW w \in Wallet, NEW m \in Mint, Donate(w, m)
      PROVE  posted' = posted /\ claimed' = claimed
  BY <1>5 DEF Donate
<1>6. ASSUME ChangeSettings
      PROVE  posted' = posted /\ claimed' = claimed
  BY <1>6 DEF ChangeSettings
<1>7. ASSUME UNCHANGED vars
      PROVE  posted' = posted /\ claimed' = claimed
  BY <1>7 DEF vars
<1> QED
  BY <1>1, <1>2, <1>3, <1>4, <1>5, <1>6, <1>7 DEF Next

(* What a sender pays when its transaction runs is at most the fee it      *)
(* signed for, and goes to the fee recipient it signed for.                *)
THEOREM SignedFee == Spec => SignedFeeOnly
<1> DEFINE Signed(p) ==
      \E d \in drafts \ drafts' :
        /\ d.payer = p.by
        /\ lamports'[p.by] >= lamports[p.by] - d.maxFee
        /\ \A w \in Wallet \ {p.by, d.feeRecipient} : lamports'[w] = lamports[w]
<1>1. Inv /\ [Next]_vars => \A p \in posted' \ posted : Signed(p)
  <2> SUFFICES ASSUME Inv, [Next]_vars, NEW q \in posted' \ posted PROVE Signed(q)
    OBVIOUS
  <2>1. PICK d \in drafts : TransferTokens(d)
    BY PostOrRedeem DEF CompleteTransfer
  <2>2. d \in drafts \ drafts' /\ d.payer = q.by
    BY <2>1 DEF TransferTokens
  <2>3. feeRecipient = d.feeRecipient /\ fee <= d.maxFee
    BY <2>1 DEF TransferTokens, Executable, Affordable
  <2>4. /\ lamports \in [Address -> Nat] /\ d.payer \in Wallet /\ d.mint \in Mint
        /\ d.mint \in Address /\ fee \in Nat /\ d.maxFee \in Nat
        /\ \A w \in Wallet : w \in Address /\ w # d.mint
    BY <2>2, SolanaTransferAssumption DEF Inv, TypeOK, Draft, Address
  <2>5. \A x \in Address :
          lamports'[x] =
            IF x = d.mint THEN 0
            ELSE lamports[x] + At(x, d.payer, lamports[d.mint] - fee)
                             + At(x, feeRecipient, fee)
    BY <2>1, TransferTokensValue DEF Inv
  <2>6. lamports'[d.payer] >= lamports[d.payer] - d.maxFee
    <3>1. /\ d.payer \in Address /\ d.payer # d.mint
          /\ lamports[d.payer] \in Nat /\ lamports[d.mint] \in Nat
      BY <2>4
    <3>2. lamports'[d.payer] = lamports[d.payer] + (lamports[d.mint] - fee)
                                 + At(d.payer, feeRecipient, fee)
      BY <2>5, <3>1 DEF At
    <3> QED
      BY <2>3, <2>4, <3>1, <3>2 DEF At
  <2>7. ASSUME NEW w \in Wallet \ {d.payer, d.feeRecipient}
        PROVE  lamports'[w] = lamports[w]
    <3>1. w \in Address /\ w # d.mint /\ lamports[w] \in Nat
      BY <2>4
    <3>2. lamports'[w] = lamports[w] + 0 + 0
      BY <2>3, <2>5, <3>1 DEF At
    <3> QED
      BY <3>1, <3>2
  <2> QED
    BY <2>2, <2>6, <2>7
<1> HIDE DEF Signed
<1>2. Spec => [][\A p \in posted' \ posted : Signed(p)]_vars
  BY <1>1, Inductive, PTL DEF Spec
<1> QED
  BY <1>2 DEF Signed, SignedFeeOnly

(* A redemption pays out what the message says: the amount and, from       *)
(* another wallet, the dropoff; the redeemer gets its advances back.       *)
THEOREM RedemptionsSettle == Spec => RedemptionSettles
<1> DEFINE Settles(v) ==
      LET r == v.recipient
          own == IF Unwraps(v) THEN v.amount ELSE 0
          gift == lamports[v.mint]
      IN /\ tokens'[<<r, v.mint>>] = tokens[<<r, v.mint>>] + (v.amount - own)
         /\ \/ lamports'[r] = lamports[r] + own + gift
               /\ \A w \in Wallet \ {r} : lamports'[w] = lamports[w]
            \/ /\ lamports'[r] = lamports[r] + own + v.dropoff
               /\ \E p \in Wallet \ {r} :
                    /\ lamports'[p] = lamports[p] - v.dropoff + gift
                    /\ \A w \in Wallet \ {r, p} : lamports'[w] = lamports[w]
<1>1. ASSUME Inv, NEW v \in vaas, NEW p \in Wallet, NEW have,
             CompleteTransfer(v, p, have)
      PROVE  Settles(v)
  <2> DEFINE r == v.recipient
             m == v.mint
             own == IF Unwraps(v) THEN v.amount ELSE 0
             drop == Dropoff(v, p)
  <2>1. /\ lamports \in [Address -> Nat] /\ tokens \in [Wallet \X Mint -> Nat]
        /\ r \in Wallet /\ m \in Mint /\ v.amount \in Nat /\ v.dropoff \in Nat
        /\ m \in Address /\ \A w \in Wallet : w \in Address /\ w # m
    <3>1. /\ lamports \in [Address -> Nat] /\ tokens \in [Wallet \X Mint -> Nat]
          /\ v \in Vaa
      BY <1>1 DEF Inv, TypeOK, Address
    <3>2. r \in Wallet /\ m \in Mint /\ v.amount \in Nat /\ v.dropoff \in Nat
      BY <3>1, SolanaTransferAssumption DEF Vaa
    <3> QED
      BY <3>1, <3>2, SolanaTransferAssumption DEF Address
  <2>2. own \in Nat /\ drop = IF p = r THEN 0 ELSE v.dropoff
    BY <2>1 DEF Dropoff
  <2>3. tokens'[<<r, m>>] = tokens[<<r, m>>] + (v.amount - own)
    <3>1. tokens' = IF Unwraps(v) THEN tokens
                    ELSE [tokens EXCEPT ![<<r, m>>] = @ + v.amount]
      BY <1>1 DEF CompleteTransfer
    <3> QED
      BY <2>1, <3>1
  <2>4. \A x \in Address :
          lamports'[x] = IF x = m THEN 0
                         ELSE lamports[x] + At(x, p, lamports[m] - drop)
                                          + At(x, r, drop + own)
    BY <1>1, CompleteTransferValue DEF Inv
  <2> HIDE DEF own, drop, r, m
  <2>5. ASSUME NEW w \in Wallet
        PROVE  lamports'[w] = lamports[w] + At(w, p, lamports[m] - drop)
                                          + At(w, r, drop + own)
    <3>1. w \in Address /\ w # m
      BY <2>1
    <3> QED
      BY <2>4, <3>1, Zenon
  <2>6. lamports[m] \in Nat /\ \A w \in Wallet : lamports[w] \in Nat
    BY <2>1
  <2>7. CASE p = r
    <3>1. lamports'[r] = lamports[r] + own + lamports[m]
      BY <2>1, <2>2, <2>5, <2>6, <2>7 DEF At
    <3>2. \A w \in Wallet \ {r} : lamports'[w] = lamports[w]
      BY <2>5, <2>6, <2>7 DEF At
    <3> QED
      BY <2>3, <3>1, <3>2 DEF own, r, m
  <2>8. CASE p # r
    <3>1. lamports'[r] = lamports[r] + own + v.dropoff
      BY <2>1, <2>2, <2>5, <2>6, <2>8 DEF At
    <3>2. lamports'[p] = lamports[p] - v.dropoff + lamports[m]
      BY <2>1, <2>2, <2>5, <2>6, <2>8 DEF At
    <3>3. \A w \in Wallet \ {r, p} : lamports'[w] = lamports[w]
      BY <2>5, <2>6 DEF At
    <3>4. p \in Wallet \ {r}
      BY <2>8
    <3>5. \E y \in Wallet \ {r} :
            /\ lamports'[y] = lamports[y] - v.dropoff + lamports[m]
            /\ \A w \in Wallet \ {r, y} : lamports'[w] = lamports[w]
      BY <3>2, <3>3, <3>4
    <3> QED
      BY <2>3, <3>1, <3>5 DEF own, r, m
  <2> QED
    BY <2>7, <2>8
<1> HIDE DEF Settles
<1>2. Inv /\ [Next]_vars
        => \A v \in vaas : v.id \in claimed' \ claimed => Settles(v)
  <2> SUFFICES ASSUME Inv, [Next]_vars, NEW v \in vaas, v.id \in claimed' \ claimed
               PROVE  Settles(v)
    OBVIOUS
  <2>1. PICK u \in vaas, w \in Wallet : \E have : CompleteTransfer(u, w, have)
    BY PostOrRedeem DEF TransferTokens
  <2>2. v.id = u.id
    BY <2>1 DEF CompleteTransfer
  <2>3. u = v
    BY <2>2 DEF Inv, VaasNumbered
  <2> QED
    BY <1>1, <2>1, <2>3
<1>3. Spec => [][\A v \in vaas : v.id \in claimed' \ claimed => Settles(v)]_vars
  BY <1>2, Inductive, PTL DEF Spec
<1> QED
  BY <1>3 DEF Settles, RedemptionSettles

-----------------------------------------------------------------------------
(* The total of a mint changes by what the bridge, one temporary account   *)
(* and at most two wallets gain in a step.                                 *)
Gain(w, m) == Worth(w, m)' - Worth(w, m)

LEMMA TotalMoves ==
  ASSUME TypeOK, TypeOK', NEW m \in Mint, NEW t \in Mint,
         NEW p \in Wallet, NEW r \in Wallet,
         \A w \in Wallet \ {p, r} : Worth(w, m)' = Worth(w, m),
         \A x \in Mint \ {t} : lamports'[x] = lamports[x]
  PROVE  Total(m)' =
           Total(m) + ((Gain(p, m) + (IF p = r THEN 0 ELSE Gain(r, m)))
                       + ((bridge'[m] - bridge[m])
                          + (IF m = Sol THEN lamports'[t] - lamports[t] ELSE 0)))
<1> USE AccountsAssumption
<1> DEFINE f == [w \in Wallet |-> Worth(w, m)]
           h == [w \in Wallet |-> Worth(w, m)']
           a == Gain(p, m)
           b == IF p = r THEN 0 ELSE Gain(r, m)
           s == SumFunctionOnSet(lamports, Mint)
           g == lamports'[t] - lamports[t]
<1>1. \A w \in Wallet : Worth(w, m) \in Int /\ Worth(w, m)' \in Int
  BY DEF TypeOK, Worth
<1>2. a \in Int /\ b \in Int
  BY <1>1 DEF Gain
<1>3. /\ \A w \in Wallet : f[w] \in Int
      /\ \A w \in Wallet : h[w] = (f[w] + At(w, p, a)) + At(w, r, b)
  BY <1>1 DEF Gain, At
<1>4. Held(m) = SumFunctionOnSet(f, Wallet) /\ Held(m)' = SumFunctionOnSet(h, Wallet)
  BY DEF Held
<1> HIDE DEF a, b, f, h
<1>5. Held(m)' = Held(m) + (a + b) /\ Held(m) \in Int
  BY <1>2, <1>3, <1>4, SumTwoChange, SumType
<1>6. /\ \A x \in Mint : lamports[x] \in Int
      /\ lamports'[t] \in Int /\ bridge[m] \in Int /\ bridge'[m] \in Int
  BY DEF TypeOK
<1>7. SumFunctionOnSet(lamports', Mint) = s + g
  BY <1>6, SumChange
<1>8. s \in Int /\ g \in Int
  BY <1>6, SumType
<1> HIDE DEF s, g
<1>9. /\ Total(m) = (Held(m) + bridge[m]) + (IF m = Sol THEN s ELSE 0)
      /\ Total(m)' = ((Held(m) + (a + b)) + bridge'[m])
                       + (IF m = Sol THEN s + g ELSE 0)
  BY <1>5, <1>7 DEF Total, s
<1>10. Total(m)' = Total(m) + ((a + b) + ((bridge'[m] - bridge[m])
                                          + (IF m = Sol THEN g ELSE 0)))
  BY <1>2, <1>5, <1>6, <1>8, <1>9
<1> QED
  BY <1>10 DEF a, b, g

LEMMA TotalType == ASSUME TypeOK, NEW m \in Mint PROVE Total(m) \in Int
<1> DEFINE f == [w \in Wallet |-> Worth(w, m)]
<1>1. \A w \in Wallet : f[w] \in Int
  BY DEF TypeOK, Worth
<1>2. Held(m) = SumFunctionOnSet(f, Wallet)
  BY DEF Held
<1> HIDE DEF f
<1>3. Held(m) \in Int
  BY <1>1, <1>2, SumType, AccountsAssumption
<1>4. \A x \in Mint : lamports[x] \in Int
  BY DEF TypeOK
<1>5. SumFunctionOnSet(lamports, Mint) \in Int /\ bridge[m] \in Int
  BY <1>4, SumType, AccountsAssumption DEF TypeOK
<1> QED
  BY <1>3, <1>5 DEF Total

(* A transfer takes from the payer's tokens what the bridge gains, and     *)
(* moves lamports between the payer, the fee recipient and the temporary   *)
(* account alone.                                                          *)
LEMMA TransferTokensTotal ==
  ASSUME TypeOK, TypeOK', NEW d \in drafts, TransferTokens(d), NEW m \in Mint
  PROVE  Total(m)' = Total(m)
<1>0. PICK p \in Wallet, r \in Wallet : p = d.payer /\ r = feeRecipient
  BY DEF TypeOK, Draft
<1> DEFINE n == NormalizeTokenAmount(d.amount, d.mint)
           gift == lamports[d.mint]
           a == (IF m = Sol THEN gift - fee ELSE 0) - (IF m = d.mint THEN n ELSE 0)
           b == IF m = Sol THEN fee ELSE 0
<1>1. /\ d.mint \in Mint /\ d.amount \in Nat /\ fee \in Nat /\ n \in Nat /\ gift \in Nat
      /\ d.mint \in Address /\ \A w \in Wallet : w \in Address /\ w # d.mint
      /\ \A x \in Mint : x \in Address /\ x # p /\ x # r
  <2>1. d.mint \in Mint /\ d.amount \in Nat
    BY SolanaTransferAssumption DEF TypeOK, Draft
  <2> QED
    BY <2>1, NormalizeType, SolanaTransferAssumption DEF TypeOK, Address
<1>2. \A x \in Address :
        lamports'[x] = IF x = d.mint THEN 0
                       ELSE lamports[x] + At(x, p, gift - fee) + At(x, r, fee)
  BY <1>0, TransferTokensValue
<1>3. /\ tokens' = [tokens EXCEPT ![<<p, d.mint>>] = @ - n]
      /\ bridge' = [bridge EXCEPT ![d.mint] = @ + n]
  BY <1>0 DEF TransferTokens
<1>4. /\ tokens \in [Wallet \X Mint -> Nat] /\ bridge \in [Mint -> Nat]
      /\ \A x \in Address : lamports[x] \in Int
  BY DEF TypeOK, Address
<1> HIDE DEF n, gift
<1>5. ASSUME NEW w \in Wallet
      PROVE  /\ Worth(w, m)' = (Worth(w, m) + At(w, p, a)) + At(w, r, b)
             /\ Worth(w, m) \in Int
  <2>1. lamports'[w] = (lamports[w] + At(w, p, gift - fee)) + At(w, r, fee)
    BY <1>1, <1>2, <1>4 DEF At
  <2>2. tokens'[<<w, m>>] = tokens[<<w, m>>]
                              - (IF w = p /\ m = d.mint THEN n ELSE 0)
    BY <1>1, <1>3, <1>4
  <2>3. lamports[w] \in Int /\ tokens[<<w, m>>] \in Int
    BY <1>1, <1>4
  <2>4. /\ Worth(w, m) = tokens[<<w, m>>] + (IF m = Sol THEN lamports[w] ELSE 0)
        /\ Worth(w, m)' = tokens'[<<w, m>>] + (IF m = Sol THEN lamports'[w] ELSE 0)
    BY DEF Worth
  <2> QED
    BY <1>1, <2>1, <2>2, <2>3, <2>4 DEF At
<1>6. a \in Int /\ b \in Int
  BY <1>1
<1>7. /\ \A w \in Wallet \ {p, r} : Worth(w, m)' = Worth(w, m)
      /\ Gain(p, m) + (IF p = r THEN 0 ELSE Gain(r, m)) = a + b
  <2> HIDE DEF a, b
  <2> QED
    BY <1>1, <1>5, <1>6 DEF At, Gain
<1>8. bridge'[m] - bridge[m] = IF m = d.mint THEN n ELSE 0
  BY <1>1, <1>3, <1>4
<1>9. /\ lamports'[d.mint] - lamports[d.mint] = 0 - gift
      /\ \A x \in Mint \ {d.mint} : lamports'[x] = lamports[x]
  BY <1>1, <1>2, <1>4 DEF At, gift
<1>10. Total(m)' = Total(m) + ((a + b) + ((IF m = d.mint THEN n ELSE 0)
                                          + (IF m = Sol THEN 0 - gift ELSE 0)))
  <2> HIDE DEF a, b
  <2> QED
    BY <1>1, <1>7, <1>8, <1>9, TotalMoves
<1>11. (a + b) + ((IF m = d.mint THEN n ELSE 0)
                  + (IF m = Sol THEN 0 - gift ELSE 0)) = 0
  BY <1>1
<1> QED
  BY <1>10, <1>11, TotalType

(* A redemption gives the recipient what the bridge loses, as tokens or as *)
(* lamports, and what the payer leaves it.                                 *)
LEMMA CompleteTransferTotal ==
  ASSUME TypeOK, TypeOK', NEW v \in vaas, NEW p \in Wallet, NEW have,
         CompleteTransfer(v, p, have), NEW m \in Mint
  PROVE  Total(m)' = Total(m)
<1> DEFINE r == v.recipient
           gift == lamports[v.mint]
           drop == Dropoff(v, p)
           own == IF Unwraps(v) THEN v.amount ELSE 0
           a == IF m = Sol THEN gift - drop ELSE 0
           b == (IF m = Sol THEN drop + own ELSE 0)
                  + (IF m = v.mint THEN v.amount - own ELSE 0)
<1>1. /\ r \in Wallet /\ v.mint \in Mint /\ v.amount \in Nat
      /\ drop \in Nat /\ own \in Nat /\ gift \in Nat
      /\ v.mint \in Address /\ \A w \in Wallet : w \in Address /\ w # v.mint
      /\ \A x \in Mint : x \in Address /\ x # p /\ x # r
      /\ own = 0 \/ v.mint = Sol
  <2>1. /\ r \in Wallet /\ v.mint \in Mint /\ v.amount \in Nat
        /\ v.dropoff \in Nat
    BY SolanaTransferAssumption DEF TypeOK, Vaa
  <2> QED
    BY <2>1, SolanaTransferAssumption DEF TypeOK, Address, Dropoff, Unwraps
<1>2. \A x \in Address :
        lamports'[x] = IF x = v.mint THEN 0
                       ELSE lamports[x] + At(x, p, gift - drop)
                                        + At(x, r, drop + own)
  BY CompleteTransferValue
<1>3. /\ tokens' = IF Unwraps(v) THEN tokens
                   ELSE [tokens EXCEPT ![<<r, v.mint>>] = @ + v.amount]
      /\ bridge' = [bridge EXCEPT ![v.mint] = @ - v.amount]
  BY DEF CompleteTransfer
<1>4. /\ tokens \in [Wallet \X Mint -> Nat] /\ bridge \in [Mint -> Nat]
      /\ \A x \in Address : lamports[x] \in Int
  BY DEF TypeOK, Address
<1>5. ASSUME NEW w \in Wallet
      PROVE  tokens'[<<w, m>>] = tokens[<<w, m>>]
               + (IF w = r /\ m = v.mint THEN v.amount - own ELSE 0)
  BY <1>1, <1>3, <1>4
<1> HIDE DEF r, gift, drop, own
<1>6. ASSUME NEW w \in Wallet
      PROVE  /\ Worth(w, m)' = (Worth(w, m) + At(w, p, a)) + At(w, r, b)
             /\ Worth(w, m) \in Int
  <2>1. lamports'[w] = (lamports[w] + At(w, p, gift - drop)) + At(w, r, drop + own)
    BY <1>1, <1>2, <1>4 DEF At
  <2>2. lamports[w] \in Int /\ tokens[<<w, m>>] \in Int
    BY <1>1, <1>4
  <2>3. /\ Worth(w, m) = tokens[<<w, m>>] + (IF m = Sol THEN lamports[w] ELSE 0)
        /\ Worth(w, m)' = tokens'[<<w, m>>] + (IF m = Sol THEN lamports'[w] ELSE 0)
    BY DEF Worth
  <2> QED
    BY <1>1, <1>5, <2>1, <2>2, <2>3 DEF At
<1>7. a \in Int /\ b \in Int
  BY <1>1
<1>8. /\ \A w \in Wallet \ {p, r} : Worth(w, m)' = Worth(w, m)
      /\ Gain(p, m) + (IF p = r THEN 0 ELSE Gain(r, m)) = a + b
  <2> HIDE DEF a, b
  <2> QED
    BY <1>1, <1>6, <1>7 DEF At, Gain
<1>9. bridge'[m] - bridge[m] = IF m = v.mint THEN 0 - v.amount ELSE 0
  BY <1>1, <1>3, <1>4
<1>10. /\ lamports'[v.mint] - lamports[v.mint] = 0 - gift
       /\ \A x \in Mint \ {v.mint} : lamports'[x] = lamports[x]
  BY <1>1, <1>2, <1>4 DEF At, gift
<1>11. Total(m)' = Total(m) + ((a + b) + ((IF m = v.mint THEN 0 - v.amount ELSE 0)
                                          + (IF m = Sol THEN 0 - gift ELSE 0)))
  <2> HIDE DEF a, b
  <2> QED
    BY <1>1, <1>8, <1>9, <1>10, TotalMoves
<1>12. (a + b) + ((IF m = v.mint THEN 0 - v.amount ELSE 0)
                  + (IF m = Sol THEN 0 - gift ELSE 0)) = 0
  BY <1>1
<1> QED
  BY <1>11, <1>12, TotalType

(* A donation moves one lamport to a temporary account.                    *)
LEMMA DonateTotal ==
  ASSUME TypeOK, TypeOK', NEW w \in Wallet, NEW t \in Mint, Donate(w, t),
         NEW m \in Mint
  PROVE  Total(m)' = Total(m)
<1>1. /\ lamports \in [Address -> Int] /\ w \in Address /\ t \in Address
      /\ \A x \in Mint : x \in Address /\ x # w
      /\ \A x \in Wallet : x \in Address /\ x # t
      /\ 1 \in Int
  BY SolanaTransferAssumption DEF TypeOK, Address
<1>2. lamports' = Pay(lamports, w, t, 1) /\ UNCHANGED <<tokens, bridge>>
  BY DEF Donate
<1>3. \A x \in Address : lamports'[x] = lamports[x] - At(x, w, 1) + At(x, t, 1)
  BY <1>1, <1>2, PayValue
<1>4. /\ \A x \in Wallet \ {w, w} : Worth(x, m)' = Worth(x, m)
      /\ Gain(w, m) = IF m = Sol THEN -1 ELSE 0
  <2>1. \A x \in Wallet : tokens[<<x, m>>] \in Int
    BY DEF TypeOK
  <2> QED
    BY <1>1, <1>2, <1>3, <2>1 DEF At, Worth, Gain
<1>5. bridge'[m] - bridge[m] = 0
  BY <1>2 DEF TypeOK
<1>6. /\ lamports'[t] - lamports[t] = 1
      /\ \A x \in Mint \ {t} : lamports'[x] = lamports[x]
  BY <1>1, <1>3 DEF At
<1>7. Total(m)' = Total(m) + (((IF m = Sol THEN -1 ELSE 0) + 0)
                              + (0 + (IF m = Sol THEN 1 ELSE 0)))
  BY <1>4, <1>5, <1>6, TotalMoves
<1> QED
  BY <1>7, TotalType

(* The actions that move money.                                            *)
LEMMA MoneyMoves ==
  ASSUME [Next]_vars
  PROVE  \/ \E d \in drafts : TransferTokens(d)
         \/ \E v \in vaas, w \in Wallet : \E have : CompleteTransfer(v, w, have)
         \/ \E w \in Wallet, m \in Mint : Donate(w, m)
         \/ UNCHANGED money
<1>1. ASSUME NEW w \in Wallet, NEW m \in Mint, NEW n \in Amounts,
             NEW y \in Dropoffs, BuildTransfer(w, m, n, y)
      PROVE  UNCHANGED money
  BY <1>1 DEF BuildTransfer
<1>2. ASSUME NEW d \in drafts, Expire(d) PROVE UNCHANGED money
  BY <1>2 DEF Expire
<1>3. ASSUME NEW v, SendFromAbroad(v) PROVE UNCHANGED money
  BY <1>3 DEF SendFromAbroad
<1>4. ASSUME NEW k \in Wallet \X Mint, OpenAccount(k) PROVE UNCHANGED money
  BY <1>4 DEF OpenAccount
<1>5. ASSUME ChangeSettings PROVE UNCHANGED money
  BY <1>5 DEF ChangeSettings
<1>6. ASSUME UNCHANGED vars PROVE UNCHANGED money
  BY <1>6 DEF vars
<1> QED
  BY <1>1, <1>2, <1>3, <1>4, <1>5, <1>6 DEF Next

LEMMA TotalKept == Inv /\ Inv' /\ [Next]_vars => \A m \in Mint : Total(m)' = Total(m)
<1> SUFFICES ASSUME Inv, Inv', [Next]_vars, NEW m \in Mint
             PROVE  Total(m)' = Total(m)
  OBVIOUS
<1> USE DEF Inv
<1>1. ASSUME UNCHANGED money PROVE Total(m)' = Total(m)
  BY <1>1 DEF money, Total, Held, Worth
<1>2. CASE UNCHANGED money
  BY <1>1, <1>2
<1>3. ASSUME NEW d \in drafts, TransferTokens(d) PROVE Total(m)' = Total(m)
  BY <1>3, TransferTokensTotal
<1>4. ASSUME NEW v \in vaas, NEW w \in Wallet, NEW have, CompleteTransfer(v, w, have)
      PROVE  Total(m)' = Total(m)
  BY <1>4, CompleteTransferTotal
<1>5. ASSUME NEW w \in Wallet, NEW t \in Mint, Donate(w, t) PROVE Total(m)' = Total(m)
  BY <1>5, DonateTotal
<1> QED
  BY <1>2, <1>3, <1>4, <1>5, MoneyMoves

LEMMA InitConserved == Init => Conserved
<1> SUFFICES ASSUME Init, NEW m \in Mint
             PROVE  Total(m) = SumFunctionOnSet([w \in Wallet |-> Endowment(w, m)],
                                                Wallet) + Abroad[m]
  BY DEF Conserved
<1>1. [w \in Wallet |-> Worth(w, m)] = [w \in Wallet |-> Endowment(w, m)]
  BY DEF Init, Worth, Endowment
<1>2. \A x \in Mint : lamports[x] = 0
  BY SolanaTransferAssumption DEF Init
<1>3. SumFunctionOnSet(lamports, Mint) = 0
  BY <1>2, SumOfZeros, AccountsAssumption
<1> DEFINE e == SumFunctionOnSet([w \in Wallet |-> Endowment(w, m)], Wallet)
<1>4. Held(m) = e /\ bridge[m] = Abroad[m]
  BY <1>1 DEF Held, Init
<1>5. e \in Int /\ Abroad[m] \in Int
  <2>1. \A w \in Wallet : [x \in Wallet |-> Endowment(x, m)][w] \in Int
    BY SolanaTransferAssumption DEF Endowment
  <2> QED
    BY <2>1, SumType, AccountsAssumption, SolanaTransferAssumption
<1> HIDE DEF e
<1>6. Total(m) = e + Abroad[m]
  BY <1>3, <1>4, <1>5 DEF Total
<1> QED
  BY <1>6 DEF e

(* Whatever the transfers and redemptions, and whatever is sent to the     *)
(* temporary accounts between them: the tokens and lamports of all wallets *)
(* and temporary accounts and what the bridge holds add up to what there   *)
(* was.                                                                    *)
THEOREM NothingLost == Spec => []Conserved
<1>1. Conserved /\ (\A m \in Mint : Total(m)' = Total(m)) => Conserved'
  BY DEF Conserved, Endowment
<1> QED
  BY <1>1, InitConserved, TotalKept, Inductive, PTL DEF Spec

-----------------------------------------------------------------------------
(* Multiples of a unit.                                                    *)
LEMMA Multiple ==
  ASSUME NEW k \in Int, NEW g \in Nat, g > 0
  PROVE  (k * g) % g = 0
OBVIOUS

LEMMA Quotient ==
  ASSUME NEW a \in Int, NEW g \in Nat, g > 0, a % g = 0
  PROVE  \E k \in Int : a = k * g
<1>1. a \div g \in Int /\ a = ((a \div g) * g) + (a % g)
  OBVIOUS
<1> QED
  BY <1>1

LEMMA MultiplesAdd ==
  ASSUME NEW a \in Int, NEW b \in Int, NEW g \in Nat, g > 0,
         a % g = 0, b % g = 0
  PROVE  (a + b) % g = 0 /\ (a - b) % g = 0
<1>1. PICK k \in Int : a = k * g
  BY Quotient
<1>2. PICK l \in Int : b = l * g
  BY Quotient
<1>3. a + b = (k + l) * g /\ a - b = (k - l) * g
  BY <1>1, <1>2
<1>4. k + l \in Int /\ k - l \in Int
  OBVIOUS
<1> QED
  BY <1>3, <1>4, Multiple

LEMMA NormalizeWhole ==
  ASSUME NEW n \in Nat, NEW m \in Mint
  PROVE  NormalizeTokenAmount(n, m) % Grain[m] = 0
<1>1. Grain[m] \in Nat /\ Grain[m] > 0
  BY SolanaTransferAssumption
<1>2. n \div Grain[m] \in Int
  BY <1>1
<1> QED
  BY <1>1, <1>2, Multiple DEF NormalizeTokenAmount

(* Messages carry whole units, which is why redemptions take whole units   *)
(* from the bridge.                                                        *)
Whole ==
  /\ \A v \in vaas : v.amount % Grain[v.mint] = 0
  /\ OnlyWholeUnits

LEMMA WholeStep == Inv /\ Inv' /\ Whole /\ [Next]_vars => Whole'
<1> SUFFICES ASSUME Inv, Inv', Whole, [Next]_vars PROVE Whole'
  OBVIOUS
<1>1. /\ bridge \in [Mint -> Nat] /\ Abroad \in [Mint -> Nat]
      /\ \A m \in Mint : Grain[m] \in Nat /\ Grain[m] > 0
  BY SolanaTransferAssumption DEF Inv, TypeOK
<1>2. ASSUME NEW m \in Mint, NEW n \in Int, n % Grain[m] = 0, UNCHANGED vaas,
             bridge' = [bridge EXCEPT ![m] = @ + n]
      PROVE  Whole'
  <2>1. ASSUME NEW x \in Mint
        PROVE  (bridge'[x] - Abroad[x]) % Grain[x] = 0
    <3>1. (bridge[x] - Abroad[x]) % Grain[x] = 0 /\ bridge[x] - Abroad[x] \in Int
      BY <1>1 DEF Whole, OnlyWholeUnits
    <3>2. CASE x = m
      <4>1. bridge'[x] - Abroad[x] = (bridge[x] - Abroad[x]) + n
        BY <1>1, <1>2, <3>2
      <4> QED
        BY <1>1, <1>2, <3>1, <3>2, <4>1, MultiplesAdd
    <3>3. CASE x # m
      BY <1>1, <1>2, <3>1, <3>3
    <3> QED
      BY <3>2, <3>3
  <2> QED
    BY <1>2, <2>1 DEF Whole, OnlyWholeUnits
<1>3. ASSUME NEW d \in drafts, TransferTokens(d) PROVE Whole'
  <2> DEFINE n == NormalizeTokenAmount(d.amount, d.mint)
  <2>1. d.mint \in Mint /\ d.amount \in Nat
    BY SolanaTransferAssumption DEF Inv, TypeOK, Draft
  <2>2. n \in Int /\ n % Grain[d.mint] = 0
    BY <2>1, NormalizeType, NormalizeWhole
  <2>3. bridge' = [bridge EXCEPT ![d.mint] = @ + n] /\ UNCHANGED vaas
    BY <1>3 DEF TransferTokens
  <2> HIDE DEF n
  <2> QED
    BY <1>2, <2>1, <2>2, <2>3
<1>4. ASSUME NEW v \in vaas, NEW w \in Wallet, NEW have, CompleteTransfer(v, w, have)
      PROVE  Whole'
  <2> DEFINE n == 0 - v.amount
  <2>1. v.mint \in Mint /\ v.amount \in Nat
    BY DEF Inv, TypeOK, Vaa
  <2>2. n \in Int /\ n % Grain[v.mint] = 0
    <3>1. v.amount % Grain[v.mint] = 0 /\ 0 % Grain[v.mint] = 0
      BY <1>1, <2>1 DEF Whole
    <3> QED
      BY <1>1, <2>1, <3>1, MultiplesAdd
  <2>3. UNCHANGED vaas /\ bridge' = [bridge EXCEPT ![v.mint] = @ - v.amount]
    BY <1>4 DEF CompleteTransfer
  <2>4. bridge' = [bridge EXCEPT ![v.mint] = @ + n]
    <3>1. bridge[v.mint] - v.amount = bridge[v.mint] + n
      BY <1>1, <2>1
    <3> HIDE DEF n
    <3> QED
      BY <2>3, <3>1
  <2> HIDE DEF n
  <2> QED
    BY <1>2, <2>1, <2>2, <2>3, <2>4
<1>5. ASSUME NEW m \in Mint, NEW n \in Amounts, NEW r \in Wallet,
             NEW x \in Dropoffs, NEW u \in BOOLEAN,
             SendFromAbroad([id |-> Cardinality(vaas) + 1, mint |-> m,
                             amount |-> NormalizeTokenAmount(n, m),
                             recipient |-> r, dropoff |-> x, unwrap |-> u])
      PROVE  Whole'
  <2> DEFINE v == [id |-> Cardinality(vaas) + 1, mint |-> m,
                   amount |-> NormalizeTokenAmount(n, m),
                   recipient |-> r, dropoff |-> x, unwrap |-> u]
  <2>1. v.amount % Grain[v.mint] = 0
    BY NormalizeWhole, SolanaTransferAssumption
  <2> HIDE DEF v
  <2>2. vaas' = vaas \cup {v} /\ UNCHANGED bridge
    BY <1>5 DEF SendFromAbroad, money, v
  <2> QED
    BY <2>1, <2>2 DEF Whole, OnlyWholeUnits
<1>6. CASE UNCHANGED <<vaas, bridge>>
  BY <1>6 DEF Whole, OnlyWholeUnits
<1> QED
  BY <1>3, <1>4, <1>5, <1>6
     DEF Next, vars, money, BuildTransfer, Expire, OpenAccount, Donate,
         ChangeSettings

(* All that ever crosses the bridge is whole bridged units, so that what   *)
(* arrives on the other side is what left.                                 *)
THEOREM WholeUnits == Spec => []OnlyWholeUnits
<1>1. Init => Whole
  BY SolanaTransferAssumption DEF Init, Whole, OnlyWholeUnits
<1>2. Whole => OnlyWholeUnits
  BY DEF Whole
<1> QED
  BY <1>1, <1>2, WholeStep, Inductive, PTL DEF Spec

-----------------------------------------------------------------------------
(* Token accounts are not closed.                                          *)
LEMMA AccountsStay == [Next]_vars => accounts \subseteq accounts'
<1> SUFFICES ASSUME [Next]_vars PROVE accounts \subseteq accounts'
  OBVIOUS
<1>1. ASSUME NEW d \in drafts, TransferTokens(d) PROVE UNCHANGED accounts
  BY <1>1 DEF TransferTokens
<1>2. ASSUME NEW v \in vaas, NEW w \in Wallet,
             NEW have \in {accounts, CreateRecipientAccount(v)},
             CompleteTransfer(v, w, have)
      PROVE  accounts \subseteq accounts'
  BY <1>2 DEF CompleteTransfer, CreateRecipientAccount
<1>3. ASSUME NEW v, SendFromAbroad(v) PROVE UNCHANGED accounts
  BY <1>3 DEF SendFromAbroad
<1>4. ASSUME NEW k \in Wallet \X Mint, OpenAccount(k) PROVE accounts \subseteq accounts'
  BY <1>4 DEF OpenAccount
<1> QED
  BY <1>1, <1>2, <1>3, <1>4
     DEF Next, vars, BuildTransfer, Expire, Donate, ChangeSettings

(* The message account of the program's sequence is new.                   *)
NextMessageNew ==
  \A d \in drafts :
    /\ d.init <=> sequence[d.payer] = None
    /\ d.seq = Sequence(d)
    => \A p \in posted : ~(p.by = d.payer /\ p.seq = d.seq)

LEMMA MessagesCountedNextNew == Inv => NextMessageNew
<1> SUFFICES ASSUME Inv, NEW d \in drafts,
                    d.init <=> sequence[d.payer] = None, d.seq = Sequence(d),
                    NEW p \in posted, p.by = d.payer, p.seq = d.seq
             PROVE  FALSE
  BY DEF NextMessageNew
<1>1. d.payer \in Wallet /\ sequence[d.payer] \in Nat \cup {None}
  BY DEF Inv, TypeOK, Draft
<1>2. p.seq \in {q.seq : q \in {r \in posted : r.by = d.payer}}
  OBVIOUS
<1>3. p.seq \in IF sequence[d.payer] = None THEN {} ELSE 0 .. sequence[d.payer] - 1
  BY <1>1, <1>2 DEF Inv, MessagesCounted
<1>4. sequence[d.payer] # None /\ d.seq = sequence[d.payer]
  BY <1>3 DEF Sequence
<1> QED
  BY <1>1, <1>3, <1>4

(* What the payer can do stays possible while its balances do not fall.    *)
LEMMA ExecutableStays ==
  ASSUME Inv, Inv', NextMessageNew', [Next]_vars, UNCHANGED settings,
         NEW d \in drafts, d \in drafts', Executable(d),
         lamports'[d.payer] >= lamports[d.payer],
         tokens'[<<d.payer, d.mint>>] >= tokens[<<d.payer, d.mint>>],
         sequence'[d.payer] = sequence[d.payer],
         lamports[d.mint] <= lamports'[d.mint]
  PROVE  Executable(d)'
<1> DEFINE m == d.mint
           p == d.payer
<1>1. /\ m \in Mint /\ p \in Wallet /\ m # p /\ d.amount \in Nat
      /\ m \in Address /\ p \in Address /\ <<p, m>> \in Wallet \X Mint
  BY SolanaTransferAssumption DEF Inv, TypeOK, Draft, Address
<1>2. /\ lamports \in [Address -> Int] /\ lamports' \in [Address -> Int]
      /\ tokens \in [Wallet \X Mint -> Nat] /\ tokens' \in [Wallet \X Mint -> Nat]
      /\ Rent \in Int /\ fee \in Int
  BY SolanaTransferAssumption DEF Inv, TypeOK, Address
<1>3. SequenceFits(d)'
  <2>1. /\ d.init <=> sequence'[p] = None
        /\ d.seq = Sequence(d)'
    BY DEF Executable, SequenceFits, Sequence
  <2>2. (\A q \in posted : ~(q.by = d.payer /\ q.seq = d.seq))'
    BY <2>1 DEF NextMessageNew
  <2> QED
    BY <2>1, <2>2 DEF SequenceFits
<1>4. /\ ~paused' /\ feeRecipient' = d.feeRecipient /\ d.dropoff <= maxDropoff'
      /\ Affordable(d)' /\ fee' = fee
  BY DEF Executable, settings, Affordable
<1>5. CanOpen(lamports', m, p)
  <2>1. lamports[p] + lamports[m] >= Rent
    BY DEF Executable, CanOpen
  <2> QED
    BY <1>1, <1>2, <2>1 DEF CanOpen
<1>6. Open(lamports', m, p)[p] >= fee
  <2>1. Open(lamports, m, p)[p] >= fee
    BY DEF Executable
  <2>2. Open(lamports, m, p)[p] = lamports[p] + At(p, p, lamports[m] - Rent)
    BY <1>1, <1>2, OpenValue
  <2>3. Open(lamports', m, p)[p] = lamports'[p] + At(p, p, lamports'[m] - Rent)
    BY <1>1, <1>2, OpenValue
  <2> QED
    BY <1>1, <1>2, <2>1, <2>2, <2>3 DEF At
<1>7. <<p, m>> \in accounts'
  BY AccountsStay DEF Executable
<1>8. tokens'[<<p, m>>] >= NormalizeTokenAmount(d.amount, m)
  <2>1. tokens[<<p, m>>] >= NormalizeTokenAmount(d.amount, m)
    BY DEF Executable
  <2>2. NormalizeTokenAmount(d.amount, m) \in Nat
    BY <1>1, NormalizeType
  <2>3. tokens[<<p, m>>] \in Nat /\ tokens'[<<p, m>>] \in Nat
    BY <1>1, <1>2
  <2> QED
    BY <2>1, <2>2, <2>3
<1> QED
  BY <1>3, <1>4, <1>5, <1>6, <1>7, <1>8 DEF Executable

(* Others cannot make a transaction fail that would succeed.               *)
THEOREM OthersDoNotBlock == Spec => NotBlocked
<1>1. Inv /\ Inv' /\ NextMessageNew' /\ [Next]_vars /\ UNCHANGED settings =>
        \A d \in drafts \cap drafts' :
          /\ Executable(d)
          /\ lamports'[d.payer] >= lamports[d.payer]
          /\ tokens'[<<d.payer, d.mint>>] >= tokens[<<d.payer, d.mint>>]
          /\ sequence'[d.payer] = sequence[d.payer]
          /\ lamports[d.mint] <= lamports'[d.mint]
          => Executable(d)'
  BY ExecutableStays
<1> QED
  BY <1>1, MessagesCountedNextNew, Inductive, PTL DEF Spec, NotBlocked

-----------------------------------------------------------------------------
(* The bridge holds what the messages on their way are about.              *)
Covered ==
  /\ \A i \in claimed : \E v \in vaas : v.id = i
  /\ \A m \in Mint : Owed(m) <= bridge[m]

(* A message that waits can be redeemed by its recipient, with the         *)
(* transaction of the SDK, if it has the rent of the temporary account.    *)
Unlocked ==
  \A v \in Unredeemed :
    Poor(v) \/ Redeemable(v, v.recipient, CreateRecipientAccount(v))

Part(v, m) == IF v.mint = m THEN v.amount ELSE 0
Sum(S, m) == SumFunctionOnSet([v \in S |-> Part(v, m)], S)

LEMMA SumOf ==
  ASSUME NEW S, IsFiniteSet(S), S \subseteq Vaa, NEW m \in Mint
  PROVE  Sum(S, m) \in Nat
<1> DEFINE f == [v \in S |-> Part(v, m)]
<1>1. \A v \in S : f[v] \in Nat
  BY DEF Vaa, Part
<1>2. Sum(S, m) = SumFunctionOnSet(f, S)
  BY DEF Sum
<1> HIDE DEF f
<1> QED
  BY <1>1, <1>2, SumNatural

(* One more message adds its part.                                         *)
LEMMA SumOneMore ==
  ASSUME NEW S, IsFiniteSet(S), S \subseteq Vaa, NEW v \in Vaa, v \notin S,
         NEW m \in Mint
  PROVE  Sum(S \cup {v}, m) = Part(v, m) + Sum(S, m)
<1> DEFINE T == S \cup {v}
           f == [u \in S |-> Part(u, m)]
           g == [u \in T |-> Part(u, m)]
<1>1. /\ \A u \in S : f[u] = g[u]
      /\ \A u \in S \cup {v} : g[u] \in Int
      /\ g[v] = Part(v, m)
  BY DEF Vaa, Part
<1>2. Sum(S, m) = SumFunctionOnSet(f, S) /\ Sum(T, m) = SumFunctionOnSet(g, T)
  BY DEF Sum
<1> HIDE DEF f, g
<1>3. SumFunctionOnSet(g, S \cup {v}) = g[v] + SumFunctionOnSet(g, S)
  BY <1>1, SumAdded
<1>4. SumFunctionOnSet(f, S) = SumFunctionOnSet(g, S)
  BY <1>1, SumAgrees
<1> QED
  BY <1>1, <1>2, <1>3, <1>4

LEMMA OwedSum ==
  ASSUME Inv, NEW m \in Mint
  PROVE  /\ Owed(m) = Sum(Unredeemed, m)
         /\ IsFiniteSet(Unredeemed) /\ Unredeemed \subseteq Vaa
         /\ Owed(m) \in Nat
<1>1. IsFiniteSet(Unredeemed) /\ Unredeemed \subseteq Vaa
  BY FS_Subset DEF Inv, TypeOK, VaasNumbered, Unredeemed
<1>2. Owed(m) = Sum(Unredeemed, m)
  BY DEF Owed, Sum, Part
<1> QED
  BY <1>1, <1>2, SumOf

LEMMA CoveredStep == Inv /\ Inv' /\ Covered /\ [Next]_vars => Covered'
<1> SUFFICES ASSUME Inv, Inv', Covered, [Next]_vars PROVE Covered'
  OBVIOUS
<1>1. bridge \in [Mint -> Nat] /\ bridge' \in [Mint -> Nat]
  BY DEF Inv, TypeOK
<1>2. ASSUME UNCHANGED <<vaas, claimed>>, \A m \in Mint : bridge'[m] >= bridge[m]
      PROVE  Covered'
  <2>1. \A m \in Mint : Owed(m)' = Owed(m) /\ Owed(m) \in Int
    <3>1. Unredeemed' = Unredeemed
      BY <1>2 DEF Unredeemed
    <3>2. \A m \in Mint : Owed(m)' = Owed(m)
      BY <3>1 DEF Owed
    <3> QED
      BY <3>2, OwedSum
  <2> QED
    BY <1>1, <1>2, <2>1 DEF Covered
<1>3. ASSUME NEW d \in drafts, TransferTokens(d) PROVE Covered'
  <2> DEFINE n == NormalizeTokenAmount(d.amount, d.mint)
  <2>1. d.mint \in Mint /\ n \in Nat
    BY NormalizeType, SolanaTransferAssumption DEF Inv, TypeOK, Draft
  <2>2. bridge' = [bridge EXCEPT ![d.mint] = @ + n] /\ UNCHANGED <<vaas, claimed>>
    BY <1>3 DEF TransferTokens
  <2> HIDE DEF n
  <2> QED
    BY <1>1, <1>2, <2>1, <2>2
<1>4. ASSUME NEW v \in vaas, NEW w \in Wallet, NEW have, CompleteTransfer(v, w, have)
      PROVE  Covered'
  <2>1. /\ v \in Vaa /\ v \in Unredeemed
        /\ claimed' = claimed \cup {v.id} /\ UNCHANGED vaas
        /\ bridge' = [bridge EXCEPT ![v.mint] = @ - v.amount]
    BY <1>4 DEF CompleteTransfer, Redeemable, Unredeemed, Inv, TypeOK
  <2>2. /\ Unredeemed = Unredeemed' \cup {v} /\ v \notin Unredeemed'
    BY <2>1 DEF Unredeemed, Inv, VaasNumbered
  <2>3. ASSUME NEW m \in Mint
        PROVE  Owed(m)' <= bridge'[m]
    <3>1. PICK U : U = Unredeemed'
      OBVIOUS
    <3>2. IsFiniteSet(U) /\ U \subseteq Vaa
      BY <2>2, <3>1, OwedSum, FS_Subset
    <3>3. Owed(m)' = Sum(U, m)
      BY <3>1 DEF Owed, Sum, Part
    <3>4. Owed(m) = Part(v, m) + Sum(U, m) /\ Sum(U, m) \in Nat
      BY <2>1, <2>2, <3>1, <3>2, OwedSum, SumOneMore, SumOf
    <3>5. Owed(m) <= bridge[m] /\ Part(v, m) \in Nat /\ v.amount \in Nat
      BY <2>1 DEF Covered, Part, Vaa
    <3>6. bridge'[m] = bridge[m] - Part(v, m)
      BY <1>1, <2>1 DEF Part, Vaa
    <3> QED
      BY <1>1, <3>3, <3>4, <3>5, <3>6
  <2>4. \A i \in claimed' : \E u \in vaas' : u.id = i
    BY <2>1 DEF Covered
  <2> QED
    BY <2>3, <2>4 DEF Covered
<1>5. ASSUME NEW m \in Mint, NEW n \in Amounts, NEW r \in Wallet,
             NEW x \in Dropoffs, NEW u \in BOOLEAN,
             SendFromAbroad([id |-> Cardinality(vaas) + 1, mint |-> m,
                             amount |-> NormalizeTokenAmount(n, m),
                             recipient |-> r, dropoff |-> x, unwrap |-> u])
      PROVE  Covered'
  <2> DEFINE v == [id |-> Cardinality(vaas) + 1, mint |-> m,
                   amount |-> NormalizeTokenAmount(n, m),
                   recipient |-> r, dropoff |-> x, unwrap |-> u]
  <2>1. v.id = Cardinality(vaas) + 1 /\ v.mint = m
    OBVIOUS
  <2> HIDE DEF v
  <2>2. /\ vaas' = vaas \cup {v} /\ UNCHANGED <<claimed, bridge>>
        /\ Owed(m) + v.amount <= bridge[m]
    BY <1>5, <2>1 DEF SendFromAbroad, money, v
  <2>3. v \in Vaa
    BY <2>2 DEF Inv, TypeOK
  <2>4. Cardinality(vaas) \in Nat
    BY FS_CardinalityType DEF Inv, VaasNumbered
  <2>5. v.id \notin claimed /\ v \notin vaas
    BY <2>1, <2>4 DEF Covered, Inv, VaasNumbered, TypeOK, Vaa
  <2>6. Unredeemed' = Unredeemed \cup {v} /\ v \notin Unredeemed
    BY <2>2, <2>5 DEF Unredeemed
  <2>7. ASSUME NEW y \in Mint
        PROVE  Owed(y)' <= bridge'[y]
    <3>1. Owed(y)' = Sum(Unredeemed \cup {v}, y)
      BY <2>6 DEF Owed, Sum, Part
    <3>2. Owed(y)' = Part(v, y) + Owed(y) /\ Owed(y) \in Nat
      BY <2>3, <2>6, <3>1, OwedSum, SumOneMore
    <3>3. Owed(y) <= bridge[y] /\ v.amount \in Nat
      BY <2>3 DEF Covered, Vaa
    <3> QED
      BY <1>1, <2>1, <2>2, <3>2, <3>3 DEF Part
  <2>8. \A i \in claimed' : \E z \in vaas' : z.id = i
    BY <2>2 DEF Covered
  <2> QED
    BY <2>7, <2>8 DEF Covered
<1>6. ASSUME UNCHANGED <<vaas, claimed, bridge>> PROVE Covered'
  BY <1>1, <1>2, <1>6
<1> QED
  BY <1>3, <1>4, <1>5, <1>6
     DEF Next, vars, money, BuildTransfer, Expire, OpenAccount, Donate,
         ChangeSettings

LEMMA InitCovered == Init => Covered
<1> SUFFICES ASSUME Init PROVE Covered
  OBVIOUS
<1>1. Unredeemed = {} /\ claimed = {} /\ \A m \in Mint : bridge[m] \in Nat
  BY SolanaTransferAssumption DEF Init, Unredeemed
<1>2. \A m \in Mint : Owed(m) = 0
  BY <1>1, SumOfNone DEF Owed
<1> QED
  BY <1>1, <1>2 DEF Covered

LEMMA CoveredUnlocked == Inv /\ Covered => Unlocked
<1> SUFFICES ASSUME Inv, Covered, NEW v \in Unredeemed, ~Poor(v)
             PROVE  Redeemable(v, v.recipient, CreateRecipientAccount(v))
  BY DEF Unlocked
<1> DEFINE m == v.mint
           p == v.recipient
<1>1. v \in Vaa /\ v.id \notin claimed
  BY DEF Unredeemed, Inv, TypeOK
<1>2. /\ m \in Mint /\ p \in Wallet /\ m \in Address /\ p \in Address /\ p # m
      /\ lamports \in [Address -> Int] /\ Rent \in Int /\ v.amount \in Nat
  BY <1>1, SolanaTransferAssumption DEF Inv, TypeOK, Vaa, Address
<1>3. v.amount <= bridge[m]
  <2>1. IsFiniteSet(Unredeemed) /\ Unredeemed \subseteq Vaa
    BY <1>2, OwedSum
  <2> DEFINE U == Unredeemed \ {v}
  <2>2. IsFiniteSet(U) /\ U \subseteq Vaa /\ v \notin U /\ Unredeemed = U \cup {v}
    BY <2>1, FS_Subset
  <2> HIDE DEF U
  <2>3. Sum(U \cup {v}, m) = Part(v, m) + Sum(U, m) /\ Sum(U, m) \in Nat
    BY <1>1, <1>2, <2>2, SumOneMore, SumOf
  <2>4. Owed(m) = Part(v, m) + Sum(U, m)
    BY <1>2, <2>2, <2>3, OwedSum
  <2>5. Owed(m) <= bridge[m] /\ bridge[m] \in Nat
    BY <1>2 DEF Covered, Inv, TypeOK
  <2> QED
    BY <1>2, <2>3, <2>4, <2>5 DEF Part
<1>4. CanOpen(lamports, m, p)
  BY <1>2 DEF Poor, CanOpen
<1>5. Open(lamports, m, p)[p] >= Dropoff(v, p)
  <2>1. Open(lamports, m, p)[p] = lamports[p] + At(p, p, lamports[m] - Rent)
    BY <1>2, OpenValue
  <2> QED
    BY <1>2, <1>4, <2>1 DEF At, Dropoff, CanOpen
<1>6. Unwraps(v) \/ <<p, m>> \in CreateRecipientAccount(v)
  BY DEF CreateRecipientAccount
<1> QED
  BY <1>1, <1>3, <1>4, <1>5, <1>6 DEF Redeemable

(* No message is ever locked: whatever was sent, redeemed, set or paused,  *)
(* the bridge holds the amount of each that waits, and its recipient can   *)
(* redeem it alone.                                                        *)
THEOREM NoMessageLocked == Spec => []Unlocked
BY InitCovered, CoveredStep, CoveredUnlocked, Inductive, PTL DEF Spec
===============================================================================
