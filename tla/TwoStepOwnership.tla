-------------------------- MODULE TwoStepOwnership --------------------------
(***************************************************************************)
(* What the Solana program promises about its owner role:                  *)
(* ownership is established once, and afterwards it moves only in two      *)
(* steps, the owner naming a successor and that successor claiming the     *)
(* role.  A successor that was named by mistake never becomes the owner    *)
(* without acting, and the owner may withdraw the nomination, which it has *)
(* to before it names somebody else.                                       *)
(***************************************************************************)
CONSTANTS Account,      \* every key that can own the program
          None          \* no account

VARIABLES owner, pending

oVars == <<owner, pending>>

OInit == owner = None /\ pending = None

Establish ==
  /\ owner = None
  /\ owner' \in Account
  /\ pending' = None

Propose ==
  /\ owner # None
  /\ pending = None
  /\ pending' \in Account \ {owner}
  /\ UNCHANGED owner

Claim ==
  /\ owner # None
  /\ pending # None
  /\ owner' = pending
  /\ pending' = None

Withdraw ==
  /\ owner # None
  /\ pending' = None
  /\ UNCHANGED owner

ONext == Establish \/ Propose \/ Claim \/ Withdraw

OSpec == OInit /\ [][ONext]_oVars
=============================================================================
