----------------------------- MODULE MCDeployment -----------------------------
(***************************************************************************)
(* One EVM chain and Solana are configured; another EVM chain is deployed  *)
(* to twice, and its entry is edited once.                                 *)
(***************************************************************************)
EXTENDS Deployment, TLC

CONSTANTS Here, There, Sol

MCMaxVersion == (Here :> 1) @@ (There :> 2) @@ (Sol :> 1)
MCMaxEdits == (Here :> 1) @@ (There :> 2) @@ (Sol :> 1)
===============================================================================
