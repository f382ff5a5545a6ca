SPECIFICATION Spec
CONSTANTS
  L = L
  S = S
  LeecherWallet = L
  SeederWallet = S
  ChannelId = {id}
  Id = id
  BytesPerMb = 3
  PricePerMb = 2
  CheckFrequencyMb = 1
  Deposit = 3
  MinDeposit = 0
  MaxPricePerMb = 3
  PieceBytes = 1
  FilePieces = 5
  Timeout = 1
  InitialBalance <- MCBalance
  NoAccount = NoAccount
  MaxNow = 2
  Faults = {"network", "rpc", "shutdown", "crash", "recovery"}
INVARIANTS
  TypeOK
  AcceptedChecksAreClaimable
  ActiveIsFunded
  CountsAgree
  LeecherNeverOverpays
  DebtIsBounded
  RefusedOnlyOverDeposit
PROPERTIES
  NoProtocolErrors
CHECK_DEADLOCK FALSE
