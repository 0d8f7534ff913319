------------------------- MODULE EvmDispatcherProofs -------------------------
(***************************************************************************)
(* Proofs about EvmDispatcher, for any callers, amounts, message fee and   *)
(* depth of reentrancy.  The invariant relates each frame only to the one  *)
(* above it, so no sum over the stack is needed.                           *)
(***************************************************************************)
EXTENDS EvmDispatcher, TLAPS

(* What a call attached never exceeds the supply, so nothing wraps.        *)
ValuesBounded == \A i \in 1..Depth : frames[i].value <= MaxBalance

LEMMA MinusNoWrap ==
  ASSUME NEW a \in Nat, NEW b \in Nat, b <= a, a <= MaxBalance
  PROVE  Minus(a, b) = a - b /\ Minus(a, b) \in Nat
BY DispatcherAssumption DEF Minus

(* Only a call that pays a dropoff has one in flight.                      *)
PaysInDropoff ==
  \A i \in 1..Depth : frames[i].stage # "dropoff" => frames[i].paying = 0

IInv == TypeOK /\ ValuesBounded /\ PaysInDropoff /\ SpendsOwnValue /\ Accounted

(* The actions that change only the top frame and the balance.             *)
LEMMA TopStep ==
  ASSUME IInv, Depth > 0, NEW f \in Frame, SetTop(f), balance' \in Nat,
         f.before = Top.before, f.value = Top.value,
         f.paying <= f.senderRefund, f.stage # "dropoff" => f.paying = 0,
         f.fees + f.senderRefund <= f.value,
         balance' + f.swept = f.before + Owed(f)
  PROVE  IInv'
<1>1. /\ frames' \in Seq(Frame) /\ Len(frames') = Len(frames)
      /\ frames'[Depth] = f
      /\ \A i \in 1..Depth : i # Depth => frames'[i] = frames[i]
  BY DEF IInv, TypeOK, SetTop, Depth
<1>2. Depth' = Depth /\ Depth \in Nat /\ Depth \in 1..Depth
  BY <1>1 DEF Depth, IInv, TypeOK
<1>3. TypeOK'
  BY <1>1, <1>2 DEF TypeOK, IInv
<1>4. ValuesBounded' /\ SpendsOwnValue' /\ PaysInDropoff'
  BY <1>1, <1>2 DEF ValuesBounded, SpendsOwnValue, PaysInDropoff, IInv, Top
<1>5. ASSUME NEW i \in 1..Depth
      PROVE  Level(i)' + frames'[i].swept = frames'[i].before + Owed(frames'[i])
  <2>1. CASE i = Depth
    BY <1>1, <1>2, <2>1 DEF Level
  <2>2. CASE i # Depth
    <3>1. frames'[i] = frames[i] /\ i + 1 \in 1..Depth
      BY <1>1, <1>2, <2>2
    <3>2. frames'[i + 1].before = frames[i + 1].before
      BY <1>1, <1>2, <3>1 DEF Top
    <3>3. Level(i)' = Level(i)
      BY <1>2, <2>2, <3>2 DEF Level
    <3> QED
      BY <3>1, <3>3 DEF IInv, Accounted
  <2> QED
    BY <2>1, <2>2
<1>6. Accounted'
  BY <1>2, <1>5 DEF Accounted
<1> QED
  BY <1>3, <1>4, <1>6 DEF IInv

(* What the invariant says of the top frame.                               *)
LEMMA TopFacts ==
  ASSUME IInv, Depth > 0
  PROVE  /\ Top \in Frame
         /\ Top.value <= MaxBalance
         /\ Top.paying <= Top.senderRefund
         /\ Top.stage # "dropoff" => Top.paying = 0
         /\ Top.fees + Top.senderRefund <= Top.value
         /\ balance + Top.swept = Top.before + Owed(Top)
<1>1. Depth \in 1..Depth /\ Top = frames[Depth] /\ Top \in Frame
  BY DEF IInv, TypeOK, Depth, Top
<1> QED
  BY <1>1 DEF IInv, ValuesBounded, SpendsOwnValue, PaysInDropoff, Accounted, Level

LEMMA ExecStep ==
  ASSUME IInv, NEW a \in Account, NEW v \in Amounts, Exec(a, v)
  PROVE  IInv'
<1> DEFINE f == [caller |-> a, value |-> v, before |-> balance,
                 stage |-> "commands", senderRefund |-> v, fees |-> 0,
                 paying |-> 0, swept |-> 0]
<1>1. v \in Nat /\ balance \in Nat /\ Depth \in Nat
  BY DispatcherAssumption DEF IInv, TypeOK, Depth
<1>2. f \in Frame
  BY <1>1 DEF Frame, Stage
<1> HIDE DEF f
<1>3. frames' = Append(frames, f) /\ frames \in Seq(Frame)
  BY DEF Exec, f, IInv, TypeOK
<1>4. /\ frames' \in Seq(Frame) /\ Depth' = Depth + 1
      /\ frames'[Depth + 1] = f
      /\ \A i \in 1..Depth : frames'[i] = frames[i]
  BY <1>2, <1>3 DEF Depth
<1>5. TypeOK'
  BY <1>1, <1>4, DispatcherAssumption DEF TypeOK, Exec
<1>6. /\ f.value <= MaxBalance /\ f.paying <= f.senderRefund /\ f.paying = 0
      /\ f.fees + f.senderRefund <= f.value
      /\ balance' + f.swept = f.before + Owed(f)
      /\ f.before = balance
  BY <1>1, DispatcherAssumption DEF f, Exec, Owed
<1>7. ValuesBounded' /\ SpendsOwnValue' /\ PaysInDropoff'
  BY <1>1, <1>4, <1>6 DEF ValuesBounded, SpendsOwnValue, PaysInDropoff, IInv
<1>8. ASSUME NEW i \in 1..(Depth + 1)
      PROVE  Level(i)' + frames'[i].swept = frames'[i].before + Owed(frames'[i])
  <2>1. CASE i = Depth + 1
    BY <1>4, <1>6, <2>1 DEF Level
  <2>2. CASE i \in 1..Depth
    <3>1. Level(i)' = Level(i)
      BY <1>1, <1>4, <1>6, <2>2 DEF Level
    <3> QED
      BY <1>4, <2>2, <3>1 DEF IInv, Accounted
  <2> QED
    BY <1>1, <2>1, <2>2
<1>9. Accounted'
  BY <1>4, <1>8 DEF Accounted
<1> QED
  BY <1>5, <1>7, <1>9 DEF IInv

(* Spending from the value of the running call.                            *)
LEMMA SpendStep ==
  ASSUME IInv, Depth > 0, Top.stage = "commands",
         NEW fee \in Nat, NEW sent \in Nat,
         fee + sent <= Top.senderRefund, sent <= balance,
         balance' = balance - sent,
         SetTop([Top EXCEPT !.fees = Top.fees + fee,
                            !.senderRefund = Minus(Top.senderRefund, fee + sent)])
  PROVE  IInv'
<1> DEFINE f == [Top EXCEPT !.fees = Top.fees + fee,
                            !.senderRefund = Minus(Top.senderRefund, fee + sent)]
<1>1. balance \in Nat
  BY DEF IInv, TypeOK
<1>2. Top.senderRefund \in Nat /\ Top.fees \in Nat /\ Top.paying \in Nat
      /\ Top.value \in Nat /\ Top.before \in Nat /\ Top.swept \in Nat
  BY TopFacts DEF Frame
<1>3. Minus(Top.senderRefund, fee + sent) = Top.senderRefund - (fee + sent)
  BY <1>2, TopFacts, MinusNoWrap, DispatcherAssumption
<1>4. Top.senderRefund - (fee + sent) \in Nat /\ Top.fees + fee \in Nat
  BY <1>2
<1>5. f \in Frame
  BY <1>3, <1>4, TopFacts DEF Frame
<1>6. /\ f.before = Top.before /\ f.value = Top.value /\ f.swept = Top.swept
      /\ f.fees = Top.fees + fee /\ f.paying = Top.paying
      /\ f.senderRefund = Top.senderRefund - (fee + sent)
      /\ f.stage = "commands"
  BY <1>3, TopFacts DEF Frame
<1>7. SetTop(f)
  OBVIOUS
<1> HIDE DEF f
<1>8. /\ Owed(Top) = Top.fees + Top.senderRefund
      /\ Owed(f) = f.fees + f.senderRefund
  BY <1>6 DEF Owed
<1>9. balance' + f.swept = f.before + Owed(f)
  BY <1>1, <1>2, <1>6, <1>8, TopFacts
<1>10. balance' \in Nat /\ f.fees + f.senderRefund <= f.value
       /\ f.paying <= f.senderRefund
  BY <1>1, <1>2, <1>4, <1>6, TopFacts
<1> QED
  BY <1>5, <1>6, <1>7, <1>9, <1>10, TopFacts, TopStep

LEMMA CompleteStep ==
  ASSUME IInv, NEW r \in Account, NEW dropoff \in Amounts,
         NEW unwrapped \in Amounts, CompleteTransfer(r, dropoff, unwrapped)
  PROVE  IInv'
<1> DEFINE spent == IF r = Top.caller THEN 0 ELSE dropoff
           f == [Top EXCEPT !.stage = "dropoff", !.paying = spent]
<1>1. spent \in Nat /\ spent <= Top.senderRefund /\ spent <= balance
      /\ balance' = balance - spent /\ SetTop(f)
      /\ Depth > 0 /\ Top.stage = "commands" /\ balance \in Nat
  BY DispatcherAssumption DEF CompleteTransfer, Reading, IInv, TypeOK
<1> HIDE DEF spent
<1>2. f \in Frame
  BY <1>1, TopFacts DEF Frame, Stage
<1>3. /\ f.before = Top.before /\ f.value = Top.value /\ f.swept = Top.swept
      /\ f.fees = Top.fees /\ f.paying = spent /\ f.stage = "dropoff"
      /\ f.senderRefund = Top.senderRefund
  BY <1>1, TopFacts DEF Frame
<1> HIDE DEF f
<1>4. balance' + f.swept = f.before + Owed(f)
  BY <1>1, <1>3, TopFacts DEF Owed, Frame
<1>5. balance' \in Nat
  BY <1>1
<1> QED
  BY <1>1, <1>2, <1>3, <1>4, <1>5, TopFacts, TopStep

LEMMA DropoffPaidStep ==
  ASSUME IInv, DropoffPaid
  PROVE  IInv'
<1> DEFINE f == [Top EXCEPT !.stage = "commands", !.paying = 0,
                            !.senderRefund = Minus(Top.senderRefund, Top.paying)]
<1>1. Depth > 0 /\ Top.stage = "dropoff" /\ SetTop(f) /\ balance' = balance
  BY DEF DropoffPaid
<1>2. /\ Top.senderRefund \in Nat /\ Top.paying \in Nat /\ Top.fees \in Nat
      /\ Top.before \in Nat /\ Top.swept \in Nat /\ Top.value \in Nat
      /\ balance \in Nat
  BY <1>1, TopFacts DEF Frame, IInv, TypeOK
<1>3. Minus(Top.senderRefund, Top.paying) = Top.senderRefund - Top.paying
  BY <1>1, <1>2, TopFacts, MinusNoWrap, DispatcherAssumption
<1>4. Top.senderRefund - Top.paying \in Nat
  BY <1>1, <1>2, TopFacts
<1>5. f \in Frame
  BY <1>1, <1>3, <1>4, TopFacts DEF Frame, Stage
<1>6. /\ f.before = Top.before /\ f.value = Top.value /\ f.swept = Top.swept
      /\ f.fees = Top.fees /\ f.paying = 0 /\ f.stage = "commands"
      /\ f.senderRefund = Top.senderRefund - Top.paying
  BY <1>1, <1>3, TopFacts DEF Frame
<1> HIDE DEF f
<1>7. balance' + f.swept = f.before + Owed(f)
  BY <1>1, <1>2, <1>6, TopFacts DEF Owed
<1> QED
  BY <1>1, <1>2, <1>5, <1>6, <1>7, TopFacts, TopStep

(* The steps that only move a call to another stage, paying p.             *)
LEMMA StageStep ==
  ASSUME IInv, Depth > 0, NEW f \in Frame, NEW p \in Nat,
         f.stage # "dropoff", Top.stage # "dropoff", p <= balance,
         balance' = balance - p, SetTop(f),
         f.before = Top.before, f.value = Top.value, f.paying = Top.paying,
         f.fees = Top.fees, f.senderRefund = Top.senderRefund,
         Owed(Top) + f.swept = Owed(f) + Top.swept + p
  PROVE  IInv'
<1>1. /\ Top.before \in Nat /\ Top.swept \in Nat /\ Top.fees \in Nat
      /\ Top.senderRefund \in Nat /\ f.swept \in Nat /\ balance \in Nat
  BY TopFacts DEF Frame, IInv, TypeOK
<1>2. Owed(f) \in Nat /\ Owed(Top) \in Nat
  BY <1>1, TopFacts DEF Owed, Frame, Stage
<1>3. balance' \in Nat /\ balance' + f.swept = f.before + Owed(f)
  BY <1>1, <1>2, TopFacts
<1> QED
  BY <1>1, <1>3, TopFacts, TopStep

(* A call that ends gives its caller the level that it left.               *)
LEMMA ReturnStep ==
  ASSUME IInv, Depth > 0, NEW sw \in Nat, frames' = Returned(sw),
         balance' \in Nat, balance' + sw = Top.before
  PROVE  IInv'
<1> DEFINE rest == SubSeq(frames, 1, Depth - 1)
<1>1. frames \in Seq(Frame) /\ Depth \in Nat /\ Depth = Len(frames)
  BY DEF IInv, TypeOK, Depth
<1>2. /\ rest \in Seq(Frame) /\ Len(rest) = Depth - 1
      /\ \A i \in 1..(Depth - 1) : rest[i] = frames[i]
  BY <1>1
<1>3. CASE Depth = 1
  <2>1. frames' \in Seq(Frame) /\ Depth' = 0
    BY <1>2, <1>3 DEF Returned, Depth
  <2> QED
    BY <1>1, <2>1, DispatcherAssumption
       DEF IInv, TypeOK, ValuesBounded, PaysInDropoff, SpendsOwnValue, Accounted
<1>4. CASE Depth > 1
  <2>1. PICK k \in Nat : k = Depth - 1
    BY <1>1, <1>4
  <2>2. /\ k \in 1..Depth /\ k \in 1..(Depth - 1) /\ k + 1 = Depth /\ k # Depth
        /\ frames[k] \in Frame /\ rest[k] = frames[k]
    BY <1>1, <1>2, <1>4, <2>1
  <2> DEFINE g == [frames[k] EXCEPT !.swept = @ + sw]
  <2>3. /\ g \in Frame /\ g.swept = frames[k].swept + sw
        /\ g.before = frames[k].before /\ g.value = frames[k].value
        /\ g.paying = frames[k].paying /\ g.fees = frames[k].fees
        /\ g.senderRefund = frames[k].senderRefund /\ g.stage = frames[k].stage
    BY <2>2 DEF Frame
  <2>4. frames' = [rest EXCEPT ![k] = g]
    <3>1. frames' = [rest EXCEPT ![k].swept = @ + sw]
      BY <1>4, <2>1 DEF Returned
    <3> QED
      BY <2>2, <3>1
  <2> HIDE DEF g, rest
  <2>5. /\ frames' \in Seq(Frame) /\ Depth' = k /\ frames'[k] = g
        /\ \A i \in 1..k : i # k => frames'[i] = frames[i]
    BY <1>2, <2>1, <2>2, <2>3, <2>4 DEF Depth
  <2>6. TypeOK'
    BY <1>1, <2>1, <2>2, <2>5, DispatcherAssumption DEF TypeOK, IInv
  <2>7. ValuesBounded' /\ SpendsOwnValue' /\ PaysInDropoff'
    <3>1. ASSUME NEW i \in 1..k
          PROVE  /\ frames'[i].value <= MaxBalance
                 /\ frames'[i].paying <= frames'[i].senderRefund
                 /\ frames'[i].fees + frames'[i].senderRefund <= frames'[i].value
                 /\ frames'[i].stage # "dropoff" => frames'[i].paying = 0
      <4>1. i \in 1..Depth
        BY <1>1, <2>2
      <4>2. CASE i = k
        BY <2>2, <2>3, <2>5, <4>1, <4>2
           DEF ValuesBounded, SpendsOwnValue, PaysInDropoff, IInv
      <4>3. CASE i # k
        BY <2>5, <4>1, <4>3
           DEF ValuesBounded, SpendsOwnValue, PaysInDropoff, IInv
      <4> QED
        BY <4>2, <4>3
    <3> QED
      BY <2>5, <3>1 DEF ValuesBounded, SpendsOwnValue, PaysInDropoff
  <2>8. ASSUME NEW i \in 1..k
        PROVE  Level(i)' + frames'[i].swept = frames'[i].before + Owed(frames'[i])
    <3>1. CASE i = k
      <4>1. Level(k)' = balance' /\ Level(k) = Top.before
        BY <1>1, <2>2, <2>5 DEF Level, Top
      <4>2. Level(k) + frames[k].swept = frames[k].before + Owed(frames[k])
        BY <2>2 DEF IInv, Accounted
      <4>3. Owed(g) = Owed(frames[k])
        BY <2>3 DEF Owed
      <4>4. Top.before \in Nat /\ frames[k].swept \in Nat
        BY <2>2, TopFacts DEF Frame
      <4> QED
        BY <2>3, <2>5, <3>1, <4>1, <4>2, <4>3, <4>4
    <3>2. CASE i # k
      <4>1. i \in 1..Depth /\ i # Depth /\ i + 1 \in 1..k
        BY <1>1, <2>2, <3>2
      <4>2. frames'[i + 1].before = frames[i + 1].before
        BY <2>3, <2>5, <4>1
      <4>3. Level(i)' = Level(i)
        BY <2>5, <3>2, <4>1, <4>2 DEF Level
      <4> QED
        BY <2>5, <3>2, <4>1, <4>3 DEF IInv, Accounted
    <3> QED
      BY <3>1, <3>2
  <2>9. Accounted'
    BY <2>5, <2>8 DEF Accounted
  <2> QED
    BY <2>6, <2>7, <2>9 DEF IInv
<1> QED
  BY <1>1, <1>3, <1>4

LEMMA Step == IInv /\ [Next]_vars => IInv'
<1> SUFFICES ASSUME IInv, [Next]_vars PROVE IInv'
  OBVIOUS
<1>1. balance \in Nat /\ MessageFee \in Nat /\ Amounts \subseteq Nat
  BY DispatcherAssumption DEF IInv, TypeOK
<1>2. Depth > 0 => /\ Top.fees \in Nat /\ Top.senderRefund \in Nat
                   /\ Top.swept \in Nat /\ Top.before \in Nat
  BY TopFacts DEF Frame
<1>3. ASSUME NEW a \in Account, NEW v \in Amounts, Exec(a, v) PROVE IInv'
  BY <1>3, ExecStep
<1>4. ASSUME NEW fee \in Amounts, TransferTokenWithRelay(fee) PROVE IInv'
  BY <1>1, <1>4, SpendStep DEF TransferTokenWithRelay, Reading
<1>5. ASSUME NEW fee \in Amounts, NEW amount \in Amounts,
             TransferGasTokenWithRelay(fee, amount)
      PROVE  IInv'
  <2>1. fee \in Nat /\ amount + MessageFee \in Nat
        /\ fee + amount + MessageFee = fee + (amount + MessageFee)
    BY <1>1
  <2> QED
    BY <1>5, <2>1, SpendStep DEF TransferGasTokenWithRelay, Reading
<1>6. ASSUME NEW r \in Account, NEW dropoff \in Amounts,
             NEW unwrapped \in Amounts, CompleteTransfer(r, dropoff, unwrapped)
      PROVE  IInv'
  BY <1>6, CompleteStep
<1>7. CASE DropoffPaid
  BY <1>7, DropoffPaidStep
<1>8. ASSUME NEW amount \in Amounts, Sweep(amount) PROVE IInv'
  <2> DEFINE f == [Top EXCEPT !.stage = "call", !.swept = Top.swept + amount]
  <2>1. /\ Depth > 0 /\ Top.stage = "commands" /\ amount <= balance
        /\ balance' = balance - amount /\ SetTop(f) /\ amount \in Nat
    BY <1>1, <1>8 DEF Sweep, Reading, SetTop
  <2>2. /\ f \in Frame /\ f.stage = "call" /\ f.swept = Top.swept + amount
        /\ f.before = Top.before /\ f.value = Top.value
        /\ f.paying = Top.paying /\ f.fees = Top.fees
        /\ f.senderRefund = Top.senderRefund
    <3>1. Top.swept + amount \in Nat /\ Top \in Frame
      BY <1>2, <2>1, TopFacts
    <3> QED
      BY <3>1 DEF Frame, Stage
  <2> HIDE DEF f
  <2>3. Owed(f) = Top.fees + Top.senderRefund
        /\ Owed(Top) = Top.fees + Top.senderRefund
    BY <1>2, <2>1, <2>2 DEF Owed
  <2> QED
    BY <1>1, <1>2, <2>1, <2>2, <2>3, StageStep
<1>9. CASE CallToken \/ CallReturned
  <2> DEFINE st == IF Top.stage = "commands" THEN "call" ELSE "commands"
             f == [Top EXCEPT !.stage = st]
  <2>1. /\ Depth > 0 /\ Top.stage \in {"commands", "call"} /\ 0 <= balance
        /\ balance' = balance - 0 /\ SetTop(f)
    BY <1>1, <1>9 DEF CallToken, CallReturned, Reading
  <2>2. /\ f \in Frame /\ f.stage \in {"commands", "call"}
        /\ f.swept = Top.swept
        /\ f.before = Top.before /\ f.value = Top.value
        /\ f.paying = Top.paying /\ f.fees = Top.fees
        /\ f.senderRefund = Top.senderRefund
    BY <2>1, TopFacts DEF Frame, Stage
  <2> HIDE DEF f
  <2>3. Owed(f) = Top.fees + Top.senderRefund
        /\ Owed(Top) = Top.fees + Top.senderRefund
    BY <1>2, <2>1, <2>2 DEF Owed
  <2> QED
    BY <1>1, <1>2, <2>1, <2>2, <2>3, StageStep
<1>10. CASE PayFees
  <2> DEFINE f == [Top EXCEPT !.stage = "fees"]
  <2>1. /\ Depth > 0 /\ Top.stage = "commands" /\ Top.fees <= balance
        /\ balance' = balance - Top.fees /\ SetTop(f)
    BY <1>1, <1>10 DEF PayFees, Reading
  <2>2. /\ f \in Frame /\ f.stage = "fees" /\ f.swept = Top.swept
        /\ f.before = Top.before /\ f.value = Top.value
        /\ f.paying = Top.paying /\ f.fees = Top.fees
        /\ f.senderRefund = Top.senderRefund
    BY <2>1, TopFacts DEF Frame, Stage
  <2> HIDE DEF f
  <2>3. Owed(f) = Top.senderRefund /\ Owed(Top) = Top.fees + Top.senderRefund
    BY <1>2, <2>1, <2>2 DEF Owed
  <2> QED
    BY <1>1, <1>2, <2>1, <2>2, <2>3, StageStep
<1>11. CASE PayRefund
  <2> DEFINE f == [Top EXCEPT !.stage = "refund"]
  <2>1. /\ Depth > 0 /\ Top.stage = "fees" /\ Top.senderRefund <= balance
        /\ balance' = balance - Top.senderRefund /\ SetTop(f)
    BY <1>1, <1>11 DEF PayRefund
  <2>2. /\ f \in Frame /\ f.stage = "refund" /\ f.swept = Top.swept
        /\ f.before = Top.before /\ f.value = Top.value
        /\ f.paying = Top.paying /\ f.fees = Top.fees
        /\ f.senderRefund = Top.senderRefund
    BY <2>1, TopFacts DEF Frame, Stage
  <2> HIDE DEF f
  <2>3. Owed(f) = 0 /\ Owed(Top) = Top.senderRefund
    BY <1>2, <2>1, <2>2 DEF Owed
  <2> QED
    BY <1>1, <1>2, <2>1, <2>2, <2>3, StageStep
<1>12. CASE Return
  <2>1. Owed(Top) = 0 /\ Depth > 0 /\ balance' = balance
    BY <1>12 DEF Return, Owed
  <2> QED
    BY <1>1, <1>2, <1>12, <2>1, TopFacts, ReturnStep DEF Return
<1>13. CASE Revert
  BY <1>2, <1>13, ReturnStep DEF Revert
<1>14. CASE UNCHANGED vars
  BY <1>14
     DEF vars, IInv, TypeOK, ValuesBounded, PaysInDropoff, SpendsOwnValue,
         Accounted, Level, Depth
<1> QED
  BY <1>3, <1>4, <1>5, <1>6, <1>7, <1>8, <1>9, <1>10, <1>11, <1>12, <1>13,
     <1>14 DEF Next

THEOREM Inductive == Spec => []IInv
<1>1. Init => IInv
  BY DispatcherAssumption
     DEF Init, IInv, TypeOK, ValuesBounded, PaysInDropoff, SpendsOwnValue,
         Accounted, Depth
<1> QED
  BY <1>1, Step, PTL DEF Spec

(* Type correctness of the stack of calls.                                 *)
THEOREM TypeCorrect == Spec => []TypeOK
BY Inductive, PTL DEF IInv

(* Every call of the stack finds its own money, however calls nest.        *)
THEOREM EveryCallAccounted == Spec => []Accounted
BY Inductive, PTL DEF IInv

(* The unchecked subtractions of _exec never wrap.                         *)
THEOREM NoCallOverspends == Spec => []SpendsOwnValue
BY Inductive, PTL DEF IInv

(* A call in which nothing was swept can pay its fees and its refund.      *)
THEOREM PaymentsCovered == Spec => []EndIsCovered
<1>1. IInv => EndIsCovered
  <2> SUFFICES ASSUME IInv, Reading, Top.swept = 0
               PROVE  balance >= Top.fees + Top.senderRefund
    BY DEF EndIsCovered
  <2>1. Owed(Top) = Top.fees + Top.senderRefund /\ Depth > 0
    BY DEF Reading, Owed
  <2>2. Top.before \in Nat /\ Top.fees \in Nat /\ Top.senderRefund \in Nat
        /\ balance \in Nat
    BY <2>1, TopFacts DEF Frame, IInv, TypeOK
  <2> QED
    BY <2>1, <2>2, TopFacts
<1> QED
  BY <1>1, Inductive, PTL

(* A call leaves the contract's balance as it found it, less what was      *)
(* swept: the one step that removes a frame is its return or its revert.   *)
THEOREM CallsKeepNothing == Spec => NothingKept
<1>1. IInv /\ [Next]_vars =>
        [Len(frames') < Depth =>
           balance' = Top.before \/ balance' + Top.swept = Top.before]_vars
  <2> SUFFICES ASSUME IInv, Next, Len(frames') < Depth
               PROVE  balance' = Top.before \/ balance' + Top.swept = Top.before
    BY DEF vars
  <2>1. frames \in Seq(Frame) /\ Depth = Len(frames) /\ Depth \in Nat
    BY DEF IInv, TypeOK, Depth
  <2>2. ASSUME NEW f, SetTop(f) PROVE FALSE
    BY <2>1, <2>2 DEF SetTop
  <2>3. ASSUME NEW f, frames' = Append(frames, f), f \in Frame PROVE FALSE
    BY <2>1, <2>3
  <2>4. ASSUME NEW a \in Account, NEW v \in Amounts, Exec(a, v) PROVE FALSE
    BY <2>1, <2>4 DEF Exec
  <2>5. CASE Return
    <3>1. Owed(Top) = 0 /\ Depth > 0 /\ balance' = balance
      BY <2>5 DEF Return, Owed
    <3> QED
      BY <3>1, TopFacts DEF Frame
  <2>6. CASE Revert
    BY <2>6 DEF Revert
  <2> QED
    BY <2>2, <2>4, <2>5, <2>6
       DEF Next, TransferTokenWithRelay, TransferGasTokenWithRelay,
           CompleteTransfer, DropoffPaid, Sweep, CallToken, CallReturned,
           PayFees, PayRefund
<1> QED
  BY <1>1, Inductive, PTL DEF Spec, NothingKept
=============================================================================
