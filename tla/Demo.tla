-------------------------------- MODULE Demo --------------------------------
(* The demonstration (packages/demo/src): one script, run.ts or              *)
(* run-devnet.ts, drives a Leecher and a Seeder of its own - no session, no  *)
(* wire - through one channel on the chain, a simulated transfer with a      *)
(* payment check every checkFrequency pieces, and the settlement; then it    *)
(* prints a summary computed from the leecher's checks.  The script is       *)
(* sequential and splits at its awaits; any of them may throw, which ends it *)
(* at whatever point it has reached.  No script calls timeoutClose, so time  *)
(* does not matter.                                                          *)
EXTENDS Integers, Sequences, FiniteSets

CONSTANTS LeecherWallet, SeederWallet, Id, NoAccount,
          BytesPerMb,       \* 1024 * 1024 in the code
          MinimumDeposit,   \* 10_000 base units in the code
          FileSizes, PieceSizes, Prices, CheckFrequencies,  \* what config.ts sets
          Balances,         \* tokens a wallet of devnet holds before
          InitialBalance    \* tokens of both wallets before the setup

ASSUME DemoAssumption ==
  /\ BytesPerMb \in Nat \ {0} /\ MinimumDeposit \in Nat \ {0}
  /\ FileSizes \subseteq Nat \ {0} /\ PieceSizes \subseteq Nat \ {0}
  /\ Prices \subseteq Nat /\ CheckFrequencies \subseteq Nat \ {0}
  /\ Balances \subseteq Nat

VARIABLES config,    \* DemoConfig
          phase,     \* where the script is
          currentPiece,
          leecher,   \* LeecherState: what the transfer changes
          seeder,    \* SeederState, likewise
          summary,   \* what the script has printed at its end
          rpcFailed, \* history: a call threw that the program would accept
          channel, escrow, balance, signed, now, log   \* see SeedPayProgram

chainVars == <<channel, escrow, balance, signed, now, log>>
vars == <<config, phase, currentPiece, leecher, seeder, summary, rpcFailed, chainVars>>

TheKey == [leecher |-> LeecherWallet, seeder |-> SeederWallet, id |-> Id]

Chain == INSTANCE SeedPayProgram WITH
           Wallet <- {LeecherWallet, SeederWallet}, ChannelId <- {Id},
           Key <- {TheKey}, Amount <- Nat, Nonce <- Nat, Duration <- Nat,
           MinTimeout <- 1, MaxTimeout <- 1, MaxNow <- 2,
           MaxOpenings <- 1, MaxSigned <- 100

(* Two keypairs, and accounts that are told from missing ones. *)
ASSUME WalletAssumption ==
  /\ LeecherWallet # SeederWallet
  /\ InitialBalance \in [{LeecherWallet, SeederWallet} -> Nat]
  /\ NoAccount \notin Nat /\ NoAccount \notin Chain!ChannelState

CeilDiv(a, b) == (a + b - 1) \div b

(* Math.ceil on Numbers, which are exact for the sizes in use. *)
TotalPieces(c) == CeilDiv(c.fileSize, c.pieceSize)
CostOf(bytes, price) == CeilDiv(bytes * price, BytesPerMb)
TotalCostBaseUnits(c) == CostOf(c.fileSize, c.pricePerMb)

(* Variant with a mistake: no buffer for what rounding up may add. *)
DepositForWholeMegabytes(fileSize, price) ==
  LET cost == (fileSize \div BytesPerMb) * price
  IN  IF cost > MinimumDeposit THEN cost ELSE MinimumDeposit

(* The total cost and 20 % more, and a minimum. *)
DefaultDeposit(fileSize, price) ==
  LET cost == CeilDiv(6 * CostOf(fileSize, price), 5)
  IN  IF cost > MinimumDeposit THEN cost ELSE MinimumDeposit

DefaultConfig(fileSize, pieceSize, price, frequency) ==
  [fileSize |-> fileSize, pieceSize |-> pieceSize, pricePerMb |-> price,
   checkFrequency |-> frequency, depositAmount |-> DefaultDeposit(fileSize, price)]

NoCheck == [amount |-> 0, nonce |-> 0]
Checks == [amount : Nat, nonce : Nat]

NewLeecher == [nonce |-> 0, bytesDownloaded |-> 0, highestCheck |-> NoCheck]
NewSeeder == [lastNonce |-> 0, lastAmount |-> 0, highestCheck |-> NoCheck,
              bytesServed |-> 0, channelDeposit |-> 0]

Init ==
  /\ \E f \in FileSizes, p \in PieceSizes, price \in Prices, n \in CheckFrequencies :
       config = DefaultConfig(f, p, price, n)
  /\ phase = "setup"
  /\ currentPiece = 0
  /\ leecher = NewLeecher
  /\ seeder = NewSeeder
  /\ summary = <<>>
  /\ rpcFailed = FALSE
  /\ Chain!Init

(* --- setup: tokens for the leecher --- *)
Fund(amount) ==
  /\ phase = "setup" /\ phase' = "open"
  /\ balance' = [balance EXCEPT ![LeecherWallet] = @ + amount]
  /\ UNCHANGED <<config, currentPiece, leecher, seeder, summary, rpcFailed,
                 channel, escrow, signed, now, log>>

(* run.ts: new accounts, and twice the deposit. *)
MintTwice == Fund(2 * config.depositAmount)

(* run-devnet.ts: the account may hold tokens; what the deposit lacks is     *)
(* minted.                                                                   *)
MintMissing ==
  \E held \in Balances :
    Fund(IF held < config.depositAmount THEN config.depositAmount ELSE held)

(* --- the channel --- *)
OpenChannel ==
  /\ phase = "open" /\ phase' = "verify"
  /\ Chain!OpenChannel(TheKey, LeecherWallet, config.depositAmount, 1)
  /\ UNCHANGED <<config, currentPiece, leecher, seeder, summary, rpcFailed>>

VerifyChannel ==
  LET info == channel[TheKey]
      valid == /\ info # NoAccount
               /\ info.status = "Open"
               /\ info.deposited >= config.depositAmount
  IN  /\ phase = "verify"
      /\ phase' = IF valid THEN "transfer" ELSE "failed"
      /\ seeder' = IF valid THEN [seeder EXCEPT !.channelDeposit = info.deposited]
                            ELSE seeder
      /\ UNCHANGED <<config, currentPiece, leecher, summary, rpcFailed, chainVars>>

(* --- the transfer --- *)
(* signCheck: the cost of all bytes so far, and the next nonce. *)
SignCheck(bytes) ==
  LET check == [amount |-> CostOf(bytes, config.pricePerMb), nonce |-> leecher.nonce + 1]
  IN  /\ leecher' = [nonce |-> check.nonce, bytesDownloaded |-> bytes,
                     highestCheck |-> check]
      /\ Chain!Sign(LeecherWallet, [id |-> Id, amount |-> check.amount,
                                    nonce |-> check.nonce])

(* What validateCheck throws about; the signature is the leecher's. *)
IsRefused(check) ==
  \/ check.nonce <= seeder.lastNonce
  \/ check.amount < seeder.lastAmount
  \/ check.amount > seeder.channelDeposit

(* Variant with a mistake: the last piece has no check of its own. *)
CheckEveryInterval(piece) == piece % config.checkFrequency = 0

(* Variant with a mistake: an interval is one piece too long. *)
CheckAfterInterval(piece) ==
  piece % (config.checkFrequency + 1) = 0 \/ piece = TotalPieces(config)

CheckIsDue(piece) == piece % config.checkFrequency = 0 \/ piece = TotalPieces(config)

(* Variant with a mistake: the last piece is as long as the others. *)
WholePiece(bytesServed) == config.pieceSize

NextPiece(bytesServed) ==
  LET left == config.fileSize - bytesServed
  IN  IF config.pieceSize < left THEN config.pieceSize ELSE left

(* Variant with a mistake: the first check stays the one to claim. *)
AcceptFirst(s, check) ==
  [s EXCEPT !.lastNonce = check.nonce, !.lastAmount = check.amount,
            !.highestCheck = IF @ = NoCheck THEN check ELSE @]

Accept(s, check) ==
  [s EXCEPT !.lastNonce = check.nonce, !.lastAmount = check.amount,
            !.highestCheck = check]

(* One turn of the loop of simulateTransfer. *)
TransferPiece ==
  LET piece == currentPiece + 1
      served == [seeder EXCEPT !.bytesServed = @ + NextPiece(@)]
  IN  /\ phase = "transfer" /\ piece <= TotalPieces(config)
      /\ currentPiece' = piece
      /\ \/ /\ ~CheckIsDue(piece)
            /\ seeder' = served
            /\ UNCHANGED <<phase, leecher, chainVars>>
         \/ /\ CheckIsDue(piece)
            /\ SignCheck(served.bytesServed)
            /\ LET check == leecher'.highestCheck
               IN  IF IsRefused(check)
                   THEN phase' = "failed" /\ seeder' = served
                   ELSE seeder' = Accept(served, check) /\ UNCHANGED phase
      /\ UNCHANGED <<config, summary, rpcFailed>>

TransferEnds ==
  /\ phase = "transfer" /\ currentPiece = TotalPieces(config)
  /\ phase' = IF leecher.highestCheck = NoCheck THEN "failed" ELSE "close"
  /\ UNCHANGED <<config, currentPiece, leecher, seeder, summary, rpcFailed, chainVars>>

(* --- settlement and summary --- *)
ClaimedCheck == [id |-> Id, amount |-> seeder.highestCheck.amount,
                 nonce |-> seeder.highestCheck.nonce]
SigVerify == [form |-> "sigVerify", signer |-> LeecherWallet, check |-> ClaimedCheck]
IsSigned == [signer |-> LeecherWallet, check |-> ClaimedCheck] \in signed

CloseChannel ==
  /\ phase = "close" /\ phase' = "summary"
  /\ IsSigned
  /\ Chain!CloseChannel(TheKey, SeederWallet, ClaimedCheck.amount, ClaimedCheck.nonce,
                        SigVerify)
  /\ UNCHANGED <<config, currentPiece, leecher, seeder, summary, rpcFailed>>

PrintSummary ==
  /\ phase = "summary" /\ phase' = "done"
  /\ summary' = <<[earned |-> leecher.highestCheck.amount,
                   refunded |-> config.depositAmount - leecher.highestCheck.amount,
                   transferred |-> seeder.bytesServed]>>
  /\ UNCHANGED <<config, currentPiece, leecher, seeder, rpcFailed, chainVars>>

(* The transaction that the script submits next would be accepted. *)
WouldBeAccepted ==
  /\ phase = "open" => Chain!MayOpen(TheKey, LeecherWallet, config.depositAmount, 1)
  /\ phase = "close" =>
       /\ IsSigned
       /\ Chain!MayClose(TheKey, SeederWallet, ClaimedCheck.amount, ClaimedCheck.nonce,
                         SigVerify)

(* main().catch: an awaited call throws, because the program refuses the     *)
(* transaction or because the call fails.  One that fails after its          *)
(* transaction landed is left out.                                           *)
RpcFails ==
  /\ phase \in {"setup", "open", "verify", "close", "summary"}
  /\ phase' = "failed"
  /\ rpcFailed' = WouldBeAccepted
  /\ UNCHANGED <<config, currentPiece, leecher, seeder, summary, chainVars>>

Next == MintTwice \/ MintMissing \/ OpenChannel \/ VerifyChannel \/ TransferPiece
          \/ TransferEnds \/ CloseChannel \/ PrintSummary \/ RpcFails

Spec == Init /\ [][Next]_vars
-----------------------------------------------------------------------------
TypeOK ==
  /\ config \in [fileSize : Nat, pieceSize : Nat, pricePerMb : Nat,
                 checkFrequency : Nat, depositAmount : Nat]
  /\ phase \in {"setup", "open", "verify", "transfer", "close", "summary", "done",
                "failed"}
  /\ currentPiece \in 0 .. TotalPieces(config)
  /\ leecher \in [nonce : Nat, bytesDownloaded : 0 .. config.fileSize,
                  highestCheck : Checks]
  /\ seeder \in [lastNonce : Nat, lastAmount : Nat, highestCheck : Checks,
                 bytesServed : 0 .. config.fileSize,
                 channelDeposit : {0, config.depositAmount}]
  /\ summary \in Seq([earned : Nat, refunded : Nat, transferred : Nat])
  /\ rpcFailed \in BOOLEAN
  /\ Chain!TypeOK

(* The summary, which is computed from the leecher's checks and the          *)
(* configuration, says what the chain paid out: the earnings and the refund  *)
(* are those of the ChannelClosed event, and the wallets hold the tokens.    *)
SummaryIsTrue ==
  phase = "done" =>
    LET closed == log[TheKey][2]
    IN  /\ closed.earned = summary[1].earned
        /\ closed.refunded = summary[1].refunded
        /\ balance[SeederWallet] = InitialBalance[SeederWallet] + summary[1].earned

(* A completed demonstration has transferred the whole file and paid for all *)
(* of it, whether or not its size is a multiple of the piece size and its    *)
(* number of pieces one of the check interval.                               *)
WholeFileIsPaid ==
  phase = "done" =>
    /\ summary[1].transferred = config.fileSize
    /\ summary[1].earned = TotalCostBaseUnits(config)

(* With the deposit of defaultConfig no check is refused and no transaction  *)
(* either: a script that failed has met a failure of the network.            *)
FailsOnlyOnRpc == phase = "failed" => rpcFailed

(* What the seeder has served and holds no check for never costs more than   *)
(* the pieces between two checks; with a check for every piece, nothing.     *)
UnpaidIsBounded ==
  phase \in {"transfer", "close"} =>
    CostOf(seeder.bytesServed, config.pricePerMb) <=
      seeder.lastAmount +
        CostOf((config.checkFrequency - 1) * config.pieceSize, config.pricePerMb)
=============================================================================
