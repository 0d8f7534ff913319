--------------------------- MODULE MCTokenTransfers ---------------------------
(***************************************************************************)
(* A Solana program, an EVM contract and its successor on one EVM chain,   *)
(* where the token comes from: one bridged unit is two base units there.   *)
(***************************************************************************)
EXTENDS TokenTransfers, TLC

CONSTANTS Solana, Ethereum, S, E1, E2, Alice, Vault

MCChainOf ==
  [c \in Contract \cup {Outsider} |-> IF c = S THEN Solana ELSE Ethereum]
MCUnit == (Solana :> 1) @@ (Ethereum :> 2)
MCEndowment ==
  [k \in Accounts |->
     IF k = <<Ethereum, Alice>> THEN 3 ELSE 0]
===============================================================================
