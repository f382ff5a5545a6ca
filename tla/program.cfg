SPECIFICATION FairSpec
CONSTANTS
  L = L
  S = S
  c1 = c1
  Wallet = {L, S}
  ChannelId = {c1}
  Key <- MCKey
  Amount = {0, 1, 2}
  Nonce = {0, 1}
  Duration = {0, 1, 2}
  MinTimeout = 1
  MaxTimeout = 1
  InitialBalance <- MCBalance
  NoAccount = NoAccount
  MaxNow = 4
  MaxOpenings = 2
  MaxSigned = 2
INVARIANTS
  TypeOK
  EscrowBacksChannel
  OneSettlementPerOpening
  ClaimsAreSigned
  RefundsAreFull
PROPERTIES
  NoEarlyRefund
  ImplementsLedger
  NeverLockedForever
CHECK_DEADLOCK FALSE
