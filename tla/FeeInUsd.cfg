SPECIFICATION Spec
CONSTANTS
  Here = Here
  There = There
  Sol = Sol
  Evm = {Here, There}
  Solana = {Sol}
  Operating = {Here, Sol}
  None = None
  Micro = 3
  MaxVersion <- MCMaxVersion
  MaxEdits <- MCMaxEdits
  MaxFaults = 1
INVARIANT FeeInUsd
