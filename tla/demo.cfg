SPECIFICATION Spec
CONSTANTS
  L = L
  S = S
  LeecherWallet = L
  SeederWallet = S
  Id = id
  NoAccount = NoAccount
  BytesPerMb = 4
  MinimumDeposit = 2
  FileSizes = {1, 6, 8, 11}
  PieceSizes = {2, 3}
  Prices = {0, 1, 5}
  CheckFrequencies = {1, 2, 3}
  Balances = {0, 3, 40}
  InitialBalance <- MCBalance
INVARIANTS
  TypeOK
  SummaryIsTrue
  WholeFileIsPaid
  FailsOnlyOnRpc
  UnpaidIsBounded
CHECK_DEADLOCK FALSE
