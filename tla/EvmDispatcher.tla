---------------------------- MODULE EvmDispatcher ----------------------------
(***************************************************************************)
(* The native-currency accounting of the EVM contract.  A call of exec     *)
(* attaches a value, spends it command by command, and at its end pays the *)
(* collected fees and returns the rest.  Payments hand control to other    *)
(* contracts, which may call exec again before the payment returns, so     *)
(* several calls share one balance: frames is the stack of them.  A call   *)
(* that reverts takes back everything done since it was entered, and who   *)
(* called it may carry on.                                                 *)
(***************************************************************************)
EXTENDS Naturals, Sequences

CONSTANTS
  Account, Admins,    \* callers, and those with the owner or admin role
  Amounts,            \* amounts attached, bridged, dropped off, swept
  MessageFee,         \* the Wormhole fee of one message
  MaxBalance,         \* bound on the balance, so that Amounts stay covered
  MaxDepth,           \* bound on the depth of reentrant calls
  Word                \* arithmetic is modulo this (2^256)

ASSUME DispatcherAssumption ==
  /\ Amounts \subseteq Nat
  /\ MessageFee \in Nat
  /\ MaxBalance \in Nat /\ MaxDepth \in Nat
  /\ Word \in Nat /\ MaxBalance < Word

VARIABLES
  balance,      \* native currency the contract holds
  frames        \* running calls of exec, outermost first

vars == <<balance, frames>>

(* Where a call stands: reading commands, or waiting for a token contract  *)
(* or a sweeping admin (call), for the recipient of a dropoff, the fee     *)
(* recipient or the sender to return.                                      *)
Stage == {"commands", "call", "dropoff", "fees", "refund"}

(* before is the balance the call found, which a revert restores; paying   *)
(* is the part of refund that left with the payment in progress; swept is  *)
(* what admins took since the call was entered.                            *)
Frame ==
  [caller : Account, value : Nat, before : Nat, stage : Stage,
   senderRefund : Nat, fees : Nat, paying : Nat, swept : Nat]

Init ==
  /\ balance \in Amounts
  /\ frames = <<>>

-----------------------------------------------------------------------------
Depth == Len(frames)
Top == frames[Depth]

(* Unchecked subtraction, as in _exec.                                     *)
Minus(a, b) == (Word + a - b) % Word

(* The running call reads its next command.                                *)
Reading == Depth > 0 /\ Top.stage = "commands"

(* Control is with another contract, or there is no call at all.           *)
Outside == Depth > 0 => Top.stage # "commands"

SetTop(f) == frames' = [frames EXCEPT ![Depth] = f]

MutExecChargesUpFront(a, v) ==
  /\ Outside
  /\ Depth < MaxDepth
  /\ balance + v <= MaxBalance
  /\ balance' = balance + v
  /\ frames' = Append(frames,
       [caller |-> a, value |-> v, before |-> balance, stage |-> "commands",
        senderRefund |-> v - MessageFee, fees |-> 0, paying |-> 0, swept |-> 0])

(* The depth is bounded by the gas, the balance by the supply of the       *)
(* currency.                                                               *)
Exec(a, v) ==
  /\ Outside
  /\ Depth < MaxDepth
  /\ balance + v <= MaxBalance
  /\ balance' = balance + v
  /\ frames' = Append(frames,
       [caller |-> a, value |-> v, before |-> balance, stage |-> "commands",
        senderRefund |-> v, fees |-> 0, paying |-> 0, swept |-> 0])

MutTransferTokenOnlyFee(fee) ==
  /\ Reading
  /\ fee <= Top.senderRefund
  /\ balance >= MessageFee
  /\ balance' = balance - MessageFee
  /\ SetTop([Top EXCEPT
       !.fees = Top.fees + fee,
       !.senderRefund = Minus(Top.senderRefund, fee + MessageFee)])

(* The message fee leaves with the call to the token bridge; the relay fee *)
(* is kept until the end.  The tokens themselves only pass through.        *)
TransferTokenWithRelay(fee) ==
  /\ Reading
  /\ fee + MessageFee <= Top.senderRefund
  /\ balance >= MessageFee
  /\ balance' = balance - MessageFee
  /\ SetTop([Top EXCEPT
       !.fees = Top.fees + fee,
       !.senderRefund = Minus(Top.senderRefund, fee + MessageFee)])

(* The amount becomes gas tokens, deposited or moved as an ERC-20.         *)
TransferGasTokenWithRelay(fee, amount) ==
  /\ Reading
  /\ amount > 0
  /\ fee + amount + MessageFee <= Top.senderRefund
  /\ balance >= amount + MessageFee
  /\ balance' = balance - (amount + MessageFee)
  /\ SetTop([Top EXCEPT
       !.fees = Top.fees + fee,
       !.senderRefund = Minus(Top.senderRefund, fee + amount + MessageFee)])

MutCompleteSpendsTwice(r, dropoff, unwrapped) ==
  LET spent == IF r = Top.caller THEN 0 ELSE dropoff IN
  /\ Reading
  /\ spent <= Top.senderRefund
  /\ balance >= spent
  /\ spent + unwrapped > 0
  /\ balance' = balance - spent
  /\ SetTop([Top EXCEPT !.stage = "dropoff"])

(* The first half of a completion that pays its recipient.  The dropoff    *)
(* comes out of the value of this call, the unwrapped amount from the      *)
(* withdrawal of the gas tokens, which passes through the balance.         *)
CompleteTransfer(r, dropoff, unwrapped) ==
  LET spent == IF r = Top.caller THEN 0 ELSE dropoff IN
  /\ Reading
  /\ spent <= Top.senderRefund
  /\ balance >= spent
  /\ spent + unwrapped > 0
  /\ balance' = balance - spent
  /\ SetTop([Top EXCEPT !.stage = "dropoff", !.paying = spent])

MutDropoffFromBalance ==
  /\ Depth > 0 /\ Top.stage = "dropoff"
  /\ SetTop([Top EXCEPT !.stage = "commands", !.paying = 0])
  /\ UNCHANGED balance

(* The recipient returned: only now is the dropoff taken off the refund.   *)
DropoffPaid ==
  /\ Depth > 0 /\ Top.stage = "dropoff"
  /\ SetTop([Top EXCEPT !.stage = "commands", !.paying = 0,
                        !.senderRefund = Minus(Top.senderRefund, Top.paying)])
  /\ UNCHANGED balance

(* External: SweepTokens pays an admin any part of the balance.            *)
Sweep(amount) ==
  /\ Reading
  /\ Top.caller \in Admins
  /\ amount <= balance
  /\ balance' = balance - amount
  /\ SetTop([Top EXCEPT !.stage = "call", !.swept = Top.swept + amount])

(* Acquiring, approving or delivering tokens runs the token's code, which  *)
(* is anybody's, before the command counts what it spends.                 *)
CallToken ==
  /\ Reading
  /\ SetTop([Top EXCEPT !.stage = "call"])
  /\ UNCHANGED balance

CallReturned ==
  /\ Depth > 0 /\ Top.stage = "call"
  /\ SetTop([Top EXCEPT !.stage = "commands"])
  /\ UNCHANGED balance

PayFees ==
  /\ Reading
  /\ balance >= Top.fees
  /\ balance' = balance - Top.fees
  /\ SetTop([Top EXCEPT !.stage = "fees"])

PayRefund ==
  /\ Depth > 0 /\ Top.stage = "fees"
  /\ balance >= Top.senderRefund
  /\ balance' = balance - Top.senderRefund
  /\ SetTop([Top EXCEPT !.stage = "refund"])

(* The stack without the call that ends; what was swept inside it counts   *)
(* as swept inside its caller.                                             *)
Returned(swept) ==
  LET rest == SubSeq(frames, 1, Depth - 1) IN
  IF Depth = 1 THEN rest
  ELSE [rest EXCEPT ![Depth - 1].swept = @ + swept]

Return ==
  /\ Depth > 0 /\ Top.stage = "refund"
  /\ frames' = Returned(Top.swept)
  /\ UNCHANGED balance

MutRevertKeepsValue ==
  /\ Depth > 0
  /\ frames' = Returned(0)
  /\ UNCHANGED balance

(* A check that failed, a payment that was refused or could not be         *)
(* covered: the call and all it called are undone.                         *)
Revert ==
  /\ Depth > 0
  /\ balance' = Top.before
  /\ frames' = Returned(0)

Next ==
  \/ \E a \in Account, v \in Amounts : Exec(a, v)
  \/ \E fee \in Amounts : TransferTokenWithRelay(fee)
  \/ \E fee, amount \in Amounts : TransferGasTokenWithRelay(fee, amount)
  \/ \E r \in Account, dropoff, unwrapped \in Amounts :
       CompleteTransfer(r, dropoff, unwrapped)
  \/ DropoffPaid
  \/ \E amount \in Amounts : Sweep(amount)
  \/ CallToken
  \/ CallReturned
  \/ PayFees
  \/ PayRefund
  \/ Return
  \/ Revert

Spec == Init /\ [][Next]_vars

-----------------------------------------------------------------------------
(* The stack is bounded and every frame holds values of its kind.          *)
TypeOK ==
  /\ balance \in Nat
  /\ frames \in Seq(Frame)
  /\ Depth <= MaxDepth

(* What is still owed out of the value of a call: to the fee recipient and *)
(* to its sender.                                                          *)
Owed(f) ==
  CASE f.stage \in {"commands", "call"} -> f.fees + f.senderRefund
    [] f.stage = "dropoff" -> f.fees + (f.senderRefund - f.paying)
    [] f.stage = "fees" -> f.senderRefund
    [] f.stage = "refund" -> 0

(* The balance as the call at depth i sees it, its inner calls aside.      *)
Level(i) == IF i = Depth THEN balance ELSE frames[i + 1].before

(* However calls nest and whatever commands they run, each call finds the  *)
(* balance that it was entered with, plus what it still owes, less what    *)
(* admins swept: an inner call never spends the value of an outer one.     *)
Accounted ==
  \A i \in 1..Depth :
    Level(i) + frames[i].swept = frames[i].before + Owed(frames[i])

(* "underflows are checked in the associated transfer functions": the      *)
(* unchecked subtractions of _exec never wrap, so a call never refunds or  *)
(* collects more than its sender attached.                                 *)
SpendsOwnValue ==
  \A i \in 1..Depth :
    /\ frames[i].paying <= frames[i].senderRefund
    /\ frames[i].fees + frames[i].senderRefund <= frames[i].value

(* Unless an admin swept in it, a call can always cover its fees and its   *)
(* refund when its commands are done: no sender is stuck on a shortfall    *)
(* that another call of the same transaction caused.                       *)
EndIsCovered ==
  (Reading /\ Top.swept = 0) => balance >= Top.fees + Top.senderRefund

(* A call that ends leaves in the contract exactly what it found, less     *)
(* what admins swept if it completed: no currency of a sender stays        *)
(* behind, whether the call succeeds or not, and none is created.          *)
NothingKept ==
  [][Len(frames') < Depth =>
       balance' = Top.before \/ balance' + Top.swept = Top.before]_vars
=============================================================================
