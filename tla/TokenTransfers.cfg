SPECIFICATION LiveSpec
CONSTANTS
  Solana = Solana
  Ethereum = Ethereum
  S = S
  E1 = E1
  E2 = E2
  Outsider = Outsider
  Alice = Alice
  Vault = Vault
  Nobody = Nobody
  None = None
  Chain = {Solana, Ethereum}
  Contract = {S, E1, E2}
  OnSolana = {S}
  Home = Ethereum
  Person = {Alice, Vault}
  Refusing = {Vault}
  Amounts = {1, 3}
  Dropoffs = {0, 1}
  MaxMessages = 2
  ChainOf <- MCChainOf
  Unit <- MCUnit
  Endowment <- MCEndowment
INVARIANTS TypeOK SentToPeer RedeemedAsAsked Conserved
PROPERTIES StaysRedeemable TransfersSpec Arrives
CHECK_DEADLOCK FALSE
