---------------------------- MODULE SeedPaySystem ---------------------------
(* One download: a leecher, a seeder, their wire and the chain.  The         *)
(* controllers talk over the wire; the leecher's open_channel, the seeder's  *)
(* close_channel and the leecher's timeout_close are transactions of         *)
(* SeedPayProgram; the seeder's verification reads its channel account.      *)
(* Both peers follow the protocol, and nobody else sends tokens to the       *)
(* escrow account; what may go wrong is in Faults.  AnyLeecher is the seeder   *)
(* and the chain against a leecher that sends and signs anything.            *)
EXTENDS LeecherController, SeederController

CONSTANTS LeecherWallet, SeederWallet,
          Timeout,         \* config.timeout, in clock ticks
          InitialBalance,  \* token balance of each wallet
          NoAccount,
          MaxNow,          \* bound on the clock
          Faults           \* the faults that may happen, see below

(* "network": the connection breaks.  "rpc": a call to the chain throws,     *)
(* before or after its transaction landed, or a read returns nothing.        *)
(* "shutdown": SIGINT at the seeder.  "crash": the seeder's process dies.    *)
(* "recovery": the leecher's owner submits timeout_close when it is allowed  *)
(* (ChannelClient.timeoutClose; the command line tool never calls it).       *)
ASSUME FaultAssumption ==
  Faults \subseteq {"network", "rpc", "shutdown", "crash", "recovery"}

VARIABLES channel, escrow, balance, signed, now, log   \* see SeedPayProgram

chainVars == <<channel, escrow, balance, signed, now, log>>
vars == <<wireVars, leecherVars, seederVars, chainVars>>

(* Both sides derive the same id from the ECDH exchange, so a wire has one   *)
(* channel address.                                                          *)
TheKey == [leecher |-> LeecherWallet, seeder |-> SeederWallet, id |-> Id]

Chain == INSTANCE SeedPayProgram WITH
           Wallet <- {LeecherWallet, SeederWallet}, Key <- {TheKey}, Amount <- Nat,
           Nonce <- Nat, Duration <- Nat, MinTimeout <- 1, MaxTimeout <- Timeout,
           MaxOpenings <- 1, MaxSigned <- 2 * FilePieces

ASSUME ChainAssumption ==
  Timeout \in Nat /\ NoAccount \notin Nat /\ NoAccount \notin Chain!ChannelState

ASSUME BalanceAssumption == InitialBalance \in [{LeecherWallet, SeederWallet} -> Nat]

TheChannel == channel[TheKey]
Open == TheChannel # NoAccount

(* The check, under the id it carries, as the leecher's wallet signs it. *)
SignedBy(check) ==
  [signer |-> LeecherWallet,
   check |-> [id |-> check.channelId, amount |-> check.amount, nonce |-> check.nonce]]

(* The claim for a check: the Ed25519 instruction is made for the id of the  *)
(* session with the signature of the check, and is valid only when that      *)
(* signature is one of these bytes; close_channel then has the last word.    *)
ClaimProof(check) ==
  [form |-> "sigVerify", signer |-> LeecherWallet,
   check |-> [id |-> Id, amount |-> check.amount, nonce |-> check.nonce]]
Claimable(check) ==
  /\ SignedBy(check) \in signed /\ check.channelId = Id
  /\ Chain!MayClose(TheKey, SeederWallet, check.amount, check.nonce, ClaimProof(check))
-----------------------------------------------------------------------------
Init ==
  /\ WireInit /\ LeecherInit /\ SeederInit
  /\ Chain!Init

(* A leecher's callback; a payment check it sends has been signed. *)
Leecher(step) ==
  /\ step
  /\ signed' = IF leecher'.accounting.lastNonce = leecher.accounting.lastNonce
               THEN signed
               ELSE signed \cup
                      {SignedBy([channelId |-> Id,
                                 amount |-> leecher'.accounting.lastCheckAmount,
                                 nonce |-> leecher'.accounting.lastNonce])}
  /\ UNCHANGED <<seederVars, channel, escrow, balance, now, log>>

Seeder(step) == step /\ UNCHANGED <<leecherVars, chainVars>>

(* --- the leecher's awaited transaction --- *)
OpenLands ==
  /\ openRpc = "sent"
  /\ Chain!OpenChannel(TheKey, LeecherWallet, Deposit, Timeout)
  /\ openRpc' = "landed"
  /\ UNCHANGED <<wireVars, seederVars, leecher, received, done>>

OpenFails ==
  /\ "rpc" \in Faults \/ (openRpc = "sent" /\ balance[LeecherWallet] < Deposit)
  /\ OpenThrows
  /\ UNCHANGED <<seederVars, chainVars>>

(* --- the seeder's awaited calls --- *)
(* SolanaChannelVerifier.verifyChannel looks at the account's status and     *)
(* nothing else.                                                             *)
VerifyReads ==
  \/ Open /\ Seeder(VerifyReturns(TRUE, TheChannel.deposited))
  \/ ~Open /\ Seeder(VerifyReturns(FALSE, 0))

VerifyFails ==
  /\ "rpc" \in Faults
  /\ Seeder(VerifyReturns(FALSE, 0))

ClaimLands ==
  LET check == seederRpc.check
  IN  /\ ClaimReturns
      /\ Claimable(check)
      /\ Chain!CloseChannel(TheKey, SeederWallet, check.amount, check.nonce,
                            ClaimProof(check))
      /\ UNCHANGED leecherVars

(* The transaction is refused, or lost by the node or an exiting process. *)
ClaimFails ==
  /\ ClaimReturns
  /\ "rpc" \in Faults \/ ~seederAlive \/ ~Claimable(seederRpc.check)
  /\ UNCHANGED <<leecherVars, chainVars>>

(* --- connection and processes --- *)
LeecherWireCloses ==
  /\ done \/ ~seederUp
  /\ Leecher(LeecherDisconnects)

SeederWireCloses ==
  /\ ~leecherUp
  /\ Seeder(SeederDisconnects)

NetworkBreaks ==
  /\ "network" \in Faults
  /\ Leecher(LeecherDisconnects) \/ Seeder(SeederDisconnects)

Recover ==
  /\ "recovery" \in Faults
  /\ Chain!TimeoutClose(TheKey, LeecherWallet)
  /\ UNCHANGED <<wireVars, leecherVars, seederVars>>

(* Time matters to nobody unless the channel is open. *)
Tick ==
  /\ Open
  /\ Chain!Tick
  /\ UNCHANGED <<wireVars, leecherVars, seederVars>>

LeecherMessage == Leecher(LeecherReceives)
SeederMessage ==
  \E valid \in BOOLEAN :
    /\ toSeeder # <<>>
    /\ valid <=> (Head(toSeeder).type = "payment_check"
                    => SignedBy(Head(toSeeder)) \in signed)
    /\ Seeder(SeederReceives(valid))

LeecherStep ==
  \/ Leecher(LeecherHandshake) \/ LeecherMessage \/ Leecher(OpenResolves)
  \/ Leecher(LeecherDone) \/ LeecherWireCloses \/ OpenLands

SeederStep ==
  \/ SeederMessage \/ VerifyReads \/ Seeder(VerifyResolves) \/ Seeder(Upload)
  \/ SeederWireCloses \/ ClaimLands \/ Seeder(ShutdownEnds)

Next ==
  \/ LeecherStep \/ SeederStep
  \/ OpenFails \/ VerifyFails \/ ClaimFails \/ NetworkBreaks
  \/ "shutdown" \in Faults /\ Seeder(Shutdown)
  \/ "crash" \in Faults /\ Seeder(Crash)
  \/ Recover \/ Tick

Spec == Init /\ [][Next]_vars

(* Callbacks that are due run, messages on an open wire arrive, a closed     *)
(* wire is noticed, the torrent client goes on uploading what is missing and *)
(* a submitted transaction is processed.  No fault is obliged to happen.     *)
Fairness ==
  /\ WF_vars(Leecher(LeecherHandshake)) /\ WF_vars(LeecherMessage)
  /\ WF_vars(Leecher(OpenResolves)) /\ WF_vars(Leecher(LeecherDone))
  /\ WF_vars(LeecherWireCloses) /\ WF_vars(OpenLands)
  /\ WF_vars(SeederMessage) /\ WF_vars(VerifyReads)
  /\ WF_vars(Seeder(VerifyResolves)) /\ WF_vars(Seeder(Upload))
  /\ WF_vars(SeederWireCloses) /\ WF_vars(ClaimLands)

FairSpec == Spec /\ Fairness
-----------------------------------------------------------------------------
TypeOK ==
  /\ LeecherTypeOK /\ SeederTypeOK
  /\ leecherUp \in BOOLEAN /\ seederUp \in BOOLEAN
  /\ toSeeder \in Seq(SeedPayMessage)
  /\ toLeecher \in Seq(SeedPayMessage \cup [type : {"piece"}])
  /\ Chain!TypeOK

Holds(check) == seeder.highestCheck = check /\ check # NoCheck
Earned == {e.earned : e \in {log[TheKey][i] : i \in
             {j \in DOMAIN log[TheKey] : log[TheKey][j].type = "ChannelClosed"}}}
Refusals == {toLeecher[i].reason : i \in
              {j \in DOMAIN toLeecher : toLeecher[j].type = "payment_check_rejected"}}

(* What the seeder accepted off the chain from a leecher that follows the    *)
(* protocol it can claim on the chain: as long as the channel is open,       *)
(* close_channel takes the highest check, whatever crossed since.  A leecher *)
(* that does not is the subject of AnyLeecher.                               *)
AcceptedChecksAreClaimable ==
  (seeder.highestCheck # NoCheck /\ Open) => Claimable(seeder.highestCheck)

(* An active seeder's channel is on the chain with the deposit the seeder    *)
(* checks payments against, although the account was read before an await;   *)
(* only a passed timeout can take it away.                                   *)
ActiveIsFunded ==
  seeder.state = "active" =>
    \/ Open /\ TheChannel.deposited = seeder.channelDeposit
    \/ Len(log[TheKey]) = 2 /\ log[TheKey][2].type = "ChannelTimedOut"

(* The two counts of one transfer never let the leecher run ahead: it has    *)
(* counted no more than the seeder, and no check pays more than the seeder   *)
(* has counted.  (A seeder that shuts down stops counting before it closes.) *)
CountsAgree ==
  (seederAlive /\ quitting = "no") =>
    /\ leecher.accounting.totalBytes <= seeder.accounting.totalBytes
    /\ seeder.highestCheck.amount <= Cost(seeder.accounting.totalBytes)

(* A settlement never takes more from the leecher than the price of the      *)
(* pieces that have reached it.                                              *)
LeecherNeverOverpays ==
  \A earned \in Earned : earned <= Cost(received * PieceBytes)

(* While active the leecher owes less than the cost of one check interval.   *)
DebtIsBounded ==
  leecher.state = "active" =>
    LET step == Cost(CheckFrequencyMb * BytesPerMb)
    IN  \/ NextCheckAmount(leecher.accounting) <
             leecher.accounting.lastCheckAmount + step
        \/ step = 0 /\ NextCheckAmount(leecher.accounting) =
                         leecher.accounting.lastCheckAmount

(* Checks of an honest leecher are refused for one reason only: the deposit  *)
(* is used up.  No order of crossing messages makes one stale or smaller.    *)
RefusedOnlyOverDeposit == Refusals \subseteq {"Amount exceeds deposit"}

(* Two honest peers never run into an unexpected message before the download *)
(* is complete: handling a message closes the leecher's wire only when the   *)
(* channel was rejected or the torrent is done, the seeder's only when it is *)
(* shutting down.                                                            *)
NoProtocolErrors ==
  [][/\ (leecherUp /\ ~leecherUp' /\ toLeecher' # toLeecher) =>
          done \/ Head(toLeecher).type = "channel_rejected"
     /\ (seederUp /\ ~seederUp' /\ toSeeder' # toSeeder) => quitting # "no"]_vars

(* Every handshake comes to an end: the leecher's session does not wait for  *)
(* a channel forever.                                                        *)
HandshakeEnds ==
  (leecher.state \in {"handshake", "channel_pending"}) ~>
    (leecher.state \in {"active", "closed"})

(* A seeder that holds a check is paid at least its amount in the end.       *)
SeederIsPaid ==
  \A amount \in 0 .. Deposit :
    (\E n \in 1 .. 2 * FilePieces :
       Holds([channelId |-> Id, amount |-> amount, nonce |-> n])) ~>
      (\E earned \in Earned : earned >= amount)
=============================================================================
