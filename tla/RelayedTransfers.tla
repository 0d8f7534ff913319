--------------------------- MODULE RelayedTransfers ---------------------------
(***************************************************************************)
(* What the relayer promises to its users, whatever chains, registrations  *)
(* and redeemers are involved: an amount that leaves the sender on one     *)
(* chain is either in flight, on its way to one recipient on one chain, or *)
(* was credited to that recipient there, once and in full.                 *)
(***************************************************************************)
EXTENDS Naturals

CONSTANTS
  Chain, Person,
  Destination,      \* what may hold tokens and be named as recipient
  Unit              \* the base units of one transferable unit, by chain

VARIABLES
  ledger,           \* base units held, by chain and holder
  inFlight,         \* transfers that left and did not arrive
  issued            \* the number of transfers that ever left

tVars == <<ledger, inFlight, issued>>

Transfer == [id : Nat, to : Chain, recipient : Destination, amount : Nat]

TInit ==
  /\ ledger \in [Chain \X Destination -> Nat]
  /\ inFlight = {}
  /\ issued = 0

Depart(c, s, t) ==
  /\ t.id = issued + 1
  /\ ledger[<<c, s>>] >= t.amount * Unit[c]
  /\ ledger' = [ledger EXCEPT ![<<c, s>>] = @ - t.amount * Unit[c]]
  /\ inFlight' = inFlight \cup {t}
  /\ issued' = issued + 1

Arrive(t) ==
  /\ ledger' = [ledger EXCEPT ![<<t.to, t.recipient>>] = @ + t.amount * Unit[t.to]]
  /\ inFlight' = inFlight \ {t}
  /\ UNCHANGED issued

TNext ==
  \/ \E c \in Chain, s \in Person :
       \E t \in inFlight' \ inFlight : t \in Transfer /\ Depart(c, s, t)
  \/ \E t \in inFlight : Arrive(t)

TSpec == TInit /\ [][TNext]_tVars
=============================================================================
