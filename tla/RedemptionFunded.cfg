SPECIFICATION Spec
CONSTANTS
  Word = 64
  WeiPerMwei = 3
  MweiPerMicro = 2
  MicroPerToken = 2
  LamportsPerSol = 3
  DoubleError = 1
  SolanaPerMicro = 2
  Routes <- MCRoutes
  Prices <- MCPrices
  MaxDropoffs = {0, 3}
  RelayerFees = {0, 2}
  Hundred = 3
  None = None
INVARIANT RedemptionFunded
