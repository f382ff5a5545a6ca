SPECIFICATION Spec
CONSTANTS
  L = L
  S = S
  LeecherWallet = L
  SeederWallet = S
  ChannelId = {id, other}
  Id = id
  BytesPerMb = 1
  PricePerMb = 1
  CheckFrequencyMb = 1
  Deposit = 1
  MinDeposit = 0
  PieceBytes = 1
  FilePieces = 0
  Amount = {1, 2}
  Checks <- MCChecks
  U64 = 4
  Duration = {1}
  MinTimeout = 1
  MaxTimeout = 1
  InitialBalance <- MCBalance
  NoAccount = NoAccount
  MaxNow = 4
  MaxOpenings = 2
  MaxSigned = 2
INVARIANTS
  AcceptedForThisChannel
CHECK_DEADLOCK FALSE
