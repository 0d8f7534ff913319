SPECIFICATION Spec
CONSTANTS
  Alice = Alice
  Bob = Bob
  Sol = Sol
  Usd = Usd
  None = None
  Wallet = {Alice, Bob}
  Mint = {Sol}
  Grain <- MCGrain
  Rent = 2
  Amounts = {3}
  Fees = {0, 1}
  Dropoffs = {0, 1}
  Limits = {0, 1}
  Lamports <- MCLamports
  Tokens <- MCTokensToSend
  Abroad <- MCAbroad
  MaxSequence = 2
  MaxDrafts = 2
  MaxVaas = 0
INVARIANTS TypeOK MessagesCounted OnlyWholeUnits
PROPERTIES SignedFeeOnly NotBlocked
CHECK_DEADLOCK FALSE
