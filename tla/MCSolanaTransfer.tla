--------------------------- MODULE MCSolanaTransfer ---------------------------
(***************************************************************************)
(* Two wallets with a few lamports, wrapped SOL, of which one bridged unit *)
(* is two lamports, and another token.                                     *)
(***************************************************************************)
EXTENDS SolanaTransfer, TLC

CONSTANTS Usd, Alice, Bob

MCGrain == [m \in Mint |-> IF m = Sol THEN 2 ELSE 1]
MCLamports == (Alice :> 4) @@ (Bob :> 3)
MCTokensToSend ==
  [k \in Wallet \X Mint |->
     IF k[2] # Sol THEN 0 ELSE IF k[1] = Alice THEN 5 ELSE 2]
MCTokensToReceive ==
  [k \in Wallet \X Mint |-> IF k = <<Alice, Sol>> THEN 3 ELSE 0]
MCAbroad == [m \in Mint |-> IF m = Sol THEN 4 ELSE 2]
===============================================================================
