------------------------------- MODULE RelayFee -------------------------------
(***************************************************************************)
(* What a relay costs, and the units in which it is said: the fee of the   *)
(* Solana program and its client's estimate, the quote of the EVM contract *)
(* and its SDK, and the dropoff between route, message and contracts.      *)
(*                                                                         *)
(* The powers of ten are constants, which small instances scale down.      *)
(* JavaScript's numbers are doubles: an operation on them returns any of   *)
(* the values that its rounding can give.                                  *)
(***************************************************************************)
EXTENDS Integers

CONSTANTS
  Word,           \* 2^64, one more than the largest u64
  WeiPerMwei,     \* 10^6, _TOTAL_FEE_DIVISOR
  MweiPerMicro,   \* 10^6, MWEI_PER_MICRO_ETH
  MicroPerToken,  \* 10^6
  LamportsPerSol, \* 10^9
  DoubleError     \* how far doubles may move a fee, in wei

ASSUME RelayFeeAssumption ==
  /\ {Word, WeiPerMwei, MweiPerMicro, MicroPerToken, LamportsPerSol} \subseteq Nat \ {0}
  /\ DoubleError \in Nat /\ DoubleError < WeiPerMwei

MweiPerToken == MweiPerMicro * MicroPerToken
WeiPerMicro == WeiPerMwei * MweiPerMicro

-----------------------------------------------------------------------------
\* calculate_total_fee.  What enters it: p has the prices of the oracle and the
\* gas and size of a relay from the program's configuration.

\* a dropoff taken for an amount of Mwei
MutFeeMweiOfMicros(p, dropoff) == p.gas * p.gasPrice + p.size * p.bytePrice + dropoff

FeeMwei(p, dropoff) ==
  p.gas * p.gasPrice + p.size * p.bytePrice + dropoff * MweiPerMicro

FeeMicroUsd(p, dropoff, relayerFee) ==
  (FeeMwei(p, dropoff) * p.gasToken) \div MweiPerToken + relayerFee

\* Each sum and product fits a u64, an unset price is refused and so is a
\* division by zero.  Summands are not negative, so that a sum fits exactly if
\* all of its checked additions succeed.
Computable(p, dropoff, relayerFee) ==
  /\ p.gasToken # 0
  /\ p.evm
  /\ FeeMwei(p, dropoff) < Word
  /\ FeeMicroUsd(p, dropoff, relayerFee) < Word
  /\ FeeMicroUsd(p, dropoff, relayerFee) * LamportsPerSol < Word
  /\ p.sol # 0

TotalFee(p, dropoff, relayerFee) ==
  (FeeMicroUsd(p, dropoff, relayerFee) * LamportsPerSol) \div p.sol

\* The client divides doubles and rounds up.  An error below one lamport moves
\* the result of Math.ceil by at most one, and never below the exact floor.
ClientFees(p, dropoff, relayerFee) ==
  LET floor == TotalFee(p, dropoff, relayerFee) IN floor .. floor + 2

-----------------------------------------------------------------------------
\* The EVM side, in wei.

\* The oracle integration (a library) prices gas, bytes and dropoff; any
\* function of the price and the arguments will do.
OracleQuote(p, dropoff, relayerFee) ==
  p.gas * p.gasPrice + p.size * p.bytePrice + dropoff * p.gasToken + relayerFee

\* _quoteRelay with the core bridge's message fee.
QuoteRelay(p, dropoff, relayerFee) ==
  OracleQuote(p, dropoff, relayerFee) + p.messageFee

\* a quote that is rounded down
MutRelayFeeDown(wei) == wei \div WeiPerMwei

\* _relayFee, in Mwei and rounded up.
RelayFee(wei) ==
  wei \div WeiPerMwei + (IF wei % WeiPerMwei > 0 THEN 1 ELSE 0)

\* The value a transfer attaches: the quote decoded to whole tokens, floored to
\* wei for the route, divided to whole tokens and rounded up to wei.
AttachedFees(mwei) ==
  LET exact == mwei * WeiPerMwei
  IN  IF mwei = 0 THEN {0} ELSE exact - DoubleError .. exact + DoubleError

-----------------------------------------------------------------------------
\* Dropoffs: base units of the target's gas token in the route, micro tokens in
\* the message.  The product of a double with 10^6 may end just below an
\* integer, and what follows cuts it.  It does not reach the next integer, since
\* a percentage of micro tokens leaves at most 99 hundredths.

InMicro(units, unitsPerMicro) == units \div unitsPerMicro

CutMicros(micro) == {n \in {micro, micro - 1} : n >= 0}

\* completeTransfer of the EVM SDK: decoding the message gives whole tokens,
\* which BigInt refuses if they are not integral, and which are multiplied by
\* the factor for micro tokens.
Whole(micro) == micro % MicroPerToken = 0

AttachedDropoff(micro) == (micro \div MicroPerToken) * WeiPerMicro

\* _completeTransfer
DropoffInWei(micro) == micro * WeiPerMicro
=============================================================================
