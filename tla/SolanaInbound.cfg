SPECIFICATION LiveSpec
CONSTANTS
  Alice = Alice
  Bob = Bob
  Sol = Sol
  Usd = Usd
  None = None
  Wallet = {Alice, Bob}
  Mint = {Sol, Usd}
  Grain <- MCGrain
  Rent = 2
  Amounts = {2}
  Fees = {0}
  Dropoffs = {0, 1}
  Limits = {0}
  Lamports <- MCLamports
  Tokens <- MCTokensToReceive
  Abroad <- MCAbroad
  MaxSequence = 0
  MaxDrafts = 0
  MaxVaas = 2
INVARIANTS Conserved
PROPERTIES RedemptionSettles RecipientRedeems
CHECK_DEADLOCK FALSE
