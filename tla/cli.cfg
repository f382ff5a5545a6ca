SPECIFICATION FairSpec
CONSTANTS
  Wire = {w1, w2}
  PeerId = {p, q}
  None = None
  BytesPerMb = 1
  PricePerMb = 1
  CheckFrequencyMb = 1
  Deposit = 2
  ChannelId = {id}
  Id = id
  MinDeposit = 0
  PieceBytes = 1
  FilePieces = 2
  Balances = {2, 4}
  MaxNonce = 3
  MaxSignals = 2
  Checks <- MCChecks
INVARIANTS
  TypeOK
  NoStaleControllers
  OneClaimPerSession
  NoClaimForgotten
  ShutdownSettles
  OneOpeningPerWire
PROPERTIES
  ClosedForGood
  ProcessEnds
CHECK_DEADLOCK FALSE
