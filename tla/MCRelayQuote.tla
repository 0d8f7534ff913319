----------------------------- MODULE MCRelayQuote -----------------------------
(* Prices that round, that are unset, and that leave a small word.          *)
EXTENDS RelayQuote

MCRoutes == {[from |-> "Solana", to |-> "Evm"], [from |-> "Evm", to |-> "Evm"],
             [from |-> "Evm", to |-> "Solana"]}

Price(gasPrice, gasToken, sol, evm) ==
  [gas |-> 3, size |-> 2, gasPrice |-> gasPrice, bytePrice |-> 1, gasToken |-> gasToken,
   sol |-> sol, messageFee |-> 1, evm |-> evm]

MCPrices ==
  {Price(0, 3, 2, TRUE), Price(1, 1, 5, TRUE), Price(2, 2, 3, TRUE), Price(1, 0, 3, TRUE),
   Price(1, 3, 0, TRUE), Price(5, 5, 2, TRUE), Price(40, 1, 1, TRUE), Price(1, 1, 1, FALSE)}
=============================================================================
