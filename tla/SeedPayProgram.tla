--------------------------- MODULE SeedPayProgram ---------------------------
(* The on-chain program (programs/seedpay): one payment channel account and  *)
(* one escrow token account per (leecher, seeder, channel id), and the three *)
(* instructions that create and settle them.  A transaction that fails any   *)
(* check is rolled back by the runtime, so an instruction is one action      *)
(* whose guard is the conjunction of its account constraints, its require!   *)
(* checks and the conditions under which its token-program calls succeed.    *)
(*                                                                           *)
(* External to the source: the token program (balances, close_account), the  *)
(* Ed25519 program (a transaction holds a SigVerify instruction only for a   *)
(* signature that really was produced), the clock, the leecher's signatures  *)
(* and plain token transfers into an escrow account.  All token accounts     *)
(* have one mint, and a wallet has one token account.                        *)
EXTENDS Integers, Sequences, FiniteSets

CONSTANTS Wallet,          \* wallets; each owns one token account
          ChannelId,       \* 32-byte channel ids
          Key,             \* the channel PDAs in play: leecher, seeder, id
          Amount,          \* token amounts a caller may pass (u64)
          Nonce,           \* nonces a caller may pass (u64)
          Duration,        \* timeout_seconds a caller may pass (i64)
          MinTimeout,      \* 3600 in the code
          MaxTimeout,      \* 604800 in the code
          InitialBalance,  \* token balance of every wallet at the start
          NoAccount,       \* what an address without an account holds
          MaxNow,          \* bound on the clock
          MaxOpenings,     \* bound on the openings of one PDA
          MaxSigned        \* bound on the number of signed checks

(* The seeds of a channel PDA; its escrow PDA is derived from it. *)
ChannelPDA == [leecher : Wallet, seeder : Wallet, id : ChannelId]

ASSUME KeyAssumption == Key \subseteq ChannelPDA
ASSUME InputAssumption ==
  Amount \subseteq Nat /\ Nonce \subseteq Nat /\ Duration \subseteq Int
ASSUME TimeoutAssumption ==
  MinTimeout \in Nat /\ MaxTimeout \in Nat /\ MinTimeout <= MaxTimeout
ASSUME BalanceAssumption == InitialBalance \in [Wallet -> Nat]

VARIABLES channel,  \* PDA -> ChannelState, or NoAccount
          escrow,   \* PDA -> balance of its escrow token account, or NoAccount
          balance,  \* wallet -> balance of its token account
          signed,   \* checks the leechers' wallets have signed
          now,      \* Clock::get()?.unix_timestamp
          log       \* PDA -> the program events emitted for it, oldest first

vars == <<channel, escrow, balance, signed, now, log>>
-----------------------------------------------------------------------------
(* The identity fields of ChannelState (leecher, seeder, channel_id, bump)   *)
(* are the seeds of its address, so the key stands for them.                 *)
ChannelState ==
  [deposited : Nat, created_at : Nat, timeout : Int, last_nonce : Nat,
   status : {"Open", "Closed", "TimedOut"}]

ASSUME NoAccountAssumption == NoAccount \notin Nat /\ NoAccount \notin ChannelState

(* channel_id || amount || nonce, the 48 bytes a leecher signs. *)
Check == [id : ChannelId, amount : Nat, nonce : Nat]
SignedCheck == [signer : Wallet, check : Check]

OpenedEvent   == [type : {"ChannelOpened"}, deposited : Nat, timeout : Int]
ClosedEvent   == [type : {"ChannelClosed"}, earned : Nat, refunded : Nat,
                  nonce : Nat]
TimedOutEvent == [type : {"ChannelTimedOut"}, refunded : Nat]
Event == OpenedEvent \cup ClosedEvent \cup TimedOutEvent

(* The instruction right before close_channel in its transaction: none, one  *)
(* of another program, an Ed25519 instruction whose layout is not a single   *)
(* self-contained 48-byte signature, or a well-formed one.  The runtime has  *)
(* verified the signature of a well-formed one, hence it is in signed.       *)
Preceding ==
  [form : {"none", "otherProgram", "malformed"}]
    \cup {[form |-> "sigVerify", signer |-> s.signer, check |-> s.check] :
            s \in signed}

Live(k) == channel[k] # NoAccount

(* The balances after crediting a wallet's token account. *)
Credit(b, w, amount) == [b EXCEPT ![w] = @ + amount]

Emit(k, event) == log' = [log EXCEPT ![k] = Append(@, event)]

-----------------------------------------------------------------------------
(* Variants of the definitions of the next section, each with one mistake    *)
(* that is easy to make; the properties below tell them from the real ones.  *)

(* The public key is not compared. *)
VerifyAnySigner(pre, expectedSigner, id, amount, nonce) ==
  /\ pre.form = "sigVerify"
  /\ pre.check = [id |-> id, amount |-> amount, nonce |-> nonce]

(* Only the id of the signed message is compared. *)
VerifyIdOnly(pre, expectedSigner, id, amount, nonce) ==
  /\ pre.form = "sigVerify"
  /\ pre.signer = expectedSigner
  /\ pre.check.id = id

(* One token of the deposit is withheld on its way. *)
FundEscrowNetOfFee(k, amount) ==
  /\ balance' = Credit(balance, k.leecher, -amount)
  /\ escrow' = [escrow EXCEPT ![k] = amount - 1]

(* `close = leecher` is missing. *)
CloseEscrowOnly(k) ==
  /\ escrow' = [escrow EXCEPT ![k] = NoAccount]
  /\ UNCHANGED channel

(* AmountExceedsDeposit is not tested. *)
AnyClaim(ch, amount) == amount >= 0

(* Off by one. *)
TimeoutReachedInclusive(ch) == now >= ch.timeout

(* The recorded deposit is refunded instead of what the escrow holds. *)
RecordedDeposit(k) == channel[k].deposited
-----------------------------------------------------------------------------
(* verify_ed25519_signature: the preceding instruction must prove that       *)
(* expectedSigner signed this id, this amount and this nonce.                *)
VerifyEd25519Signature(pre, expectedSigner, id, amount, nonce) ==
  /\ pre.form = "sigVerify"
  /\ pre.signer = expectedSigner
  /\ pre.check = [id |-> id, amount |-> amount, nonce |-> nonce]

(* The deposit's transfer into the new escrow account. *)
FundEscrow(k, amount) ==
  /\ balance' = Credit(balance, k.leecher, -amount)
  /\ escrow' = [escrow EXCEPT ![k] = amount]

(* The token program closes an escrow account only when the transfers have   *)
(* emptied it.                                                               *)
IsEmptied(k, paidOut) == escrow[k] - paidOut = 0

(* Both accounts of a settled channel go: the escrow account is closed, and  *)
(* `close = leecher` deletes the channel account when the handler exits.     *)
CloseAccounts(k) ==
  /\ escrow' = [escrow EXCEPT ![k] = NoAccount]
  /\ channel' = [channel EXCEPT ![k] = NoAccount]

WithinDeposit(ch, amount) == amount <= ch.deposited

TimeoutReached(ch) == now > ch.timeout

(* timeout_close refunds whatever the escrow account holds. *)
TimeoutRefund(k) == escrow[k]
-----------------------------------------------------------------------------
Init ==
  /\ channel = [k \in Key |-> NoAccount]
  /\ escrow = [k \in Key |-> NoAccount]
  /\ balance = InitialBalance
  /\ signed = {}
  /\ now = 0
  /\ log = [k \in Key |-> <<>>]

(* open_channel, signed by the leecher: init of both accounts fails if they  *)
(* exist, the transfer fails if the leecher has too few tokens.              *)
MayOpen(k, signer, amount, seconds) ==
  /\ Len(log[k]) < 2 * MaxOpenings      \* bound
  /\ now + seconds < MaxNow             \* bound: the clock can pass the timeout
  /\ signer = k.leecher
  /\ ~Live(k) /\ escrow[k] = NoAccount
  /\ amount > 0
  /\ seconds >= MinTimeout
  /\ seconds <= MaxTimeout
  /\ balance[k.leecher] >= amount

OpenChannel(k, signer, amount, seconds) ==
  /\ MayOpen(k, signer, amount, seconds)
  /\ channel' = [channel EXCEPT ![k] =
                   [deposited |-> amount, created_at |-> now,
                    timeout |-> now + seconds, last_nonce |-> 0,
                    status |-> "Open"]]
  /\ FundEscrow(k, amount)
  /\ Emit(k, [type |-> "ChannelOpened", deposited |-> amount,
              timeout |-> now + seconds])
  /\ UNCHANGED <<signed, now>>

(* close_channel, signed by the seeder: amount to the seeder, the rest of    *)
(* the deposit to the leecher, so that the deposit is paid out.              *)
MayClose(k, signer, amount, nonce, pre) ==
  LET ch == channel[k]
  IN  /\ Live(k)
      /\ signer = k.seeder
      /\ ch.status = "Open"
      /\ WithinDeposit(ch, amount)
      /\ nonce > ch.last_nonce
      /\ VerifyEd25519Signature(pre, k.leecher, k.id, amount, nonce)
      /\ IsEmptied(k, ch.deposited)

CloseChannel(k, signer, amount, nonce, pre) ==
  LET refund == channel[k].deposited - amount
  IN  /\ MayClose(k, signer, amount, nonce, pre)
      /\ balance' = Credit(Credit(balance, k.seeder, amount), k.leecher, refund)
      /\ CloseAccounts(k)
      /\ Emit(k, [type |-> "ChannelClosed", earned |-> amount,
                  refunded |-> refund, nonce |-> nonce])
      /\ UNCHANGED <<signed, now>>

(* timeout_close, signed by the leecher. *)
TimeoutClose(k, signer) ==
  LET refund == TimeoutRefund(k)
  IN  /\ Live(k)
      /\ signer = k.leecher
      /\ channel[k].status = "Open"
      /\ TimeoutReached(channel[k])
      /\ IsEmptied(k, refund)
      /\ balance' = Credit(balance, k.leecher, refund)
      /\ CloseAccounts(k)
      /\ Emit(k, [type |-> "ChannelTimedOut", refunded |-> refund])
      /\ UNCHANGED <<signed, now>>
-----------------------------------------------------------------------------
(* External: a wallet signs a payment check, with no word to the chain. *)
Sign(w, check) ==
  /\ Cardinality(signed) < MaxSigned    \* bound
  /\ signed' = signed \cup {[signer |-> w, check |-> check]}
  /\ UNCHANGED <<channel, escrow, balance, now, log>>

(* External: the token program moves tokens into an existing escrow account  *)
(* for anybody; the channel account does not learn of it.                    *)
TopUp(k, w, amount) ==
  /\ escrow[k] # NoAccount
  /\ amount > 0
  /\ balance[w] >= amount
  /\ balance' = Credit(balance, w, -amount)
  /\ escrow' = [escrow EXCEPT ![k] = @ + amount]
  /\ UNCHANGED <<channel, signed, now, log>>

(* External: the chain's clock. *)
Tick ==
  /\ now < MaxNow                       \* bound
  /\ now' = now + 1
  /\ UNCHANGED <<channel, escrow, balance, signed, log>>

Open(k)  == \E w \in Wallet, a \in Amount, d \in Duration :
              OpenChannel(k, w, a, d)
Close(k) == \E w \in Wallet, a \in Amount, n \in Nonce, pre \in Preceding :
              CloseChannel(k, w, a, n, pre)
Expire(k) == \E w \in Wallet : TimeoutClose(k, w)

Next ==
  \/ \E k \in Key : Open(k) \/ Close(k) \/ Expire(k)
  \/ \E w \in Wallet, id \in ChannelId, a \in Amount, n \in Nonce :
       Sign(w, [id |-> id, amount |-> a, nonce |-> n])
  \/ \E k \in Key, w \in Wallet, a \in Amount : TopUp(k, w, a)
  \/ Tick

Spec == Init /\ [][Next]_vars

(* Time passes, and a leecher whose channel may be force-closed submits      *)
(* timeout_close until a transaction goes through.                           *)
FairSpec == Spec /\ WF_vars(Tick) /\ \A k \in Key : WF_vars(Expire(k))
-----------------------------------------------------------------------------
TypeOK ==
  /\ channel \in [Key -> ChannelState \cup {NoAccount}]
  /\ escrow \in [Key -> Nat \cup {NoAccount}]
  /\ balance \in [Wallet -> Nat]
  /\ signed \subseteq SignedCheck
  /\ now \in Nat
  /\ log \in [Key -> Seq(Event)]

(* Every open channel is backed: its escrow account exists exactly as long   *)
(* as the channel account and never holds less than the recorded deposit, so *)
(* neither settlement path can run short of tokens.                          *)
EscrowBacksChannel ==
  \A k \in Key :
    /\ (escrow[k] = NoAccount) <=> (channel[k] = NoAccount)
    /\ Live(k) => /\ channel[k].status = "Open"
                  /\ channel[k].deposited > 0
                  /\ escrow[k] >= channel[k].deposited

(* Double close is impossible: the events of a PDA alternate between an      *)
(* opening and exactly one settlement of it, and the channel account exists  *)
(* exactly between the two.                                                  *)
OneSettlementPerOpening ==
  \A k \in Key :
    /\ \A i \in 1 .. Len(log[k]) :
         (log[k][i].type = "ChannelOpened") <=> (i % 2 = 1)
    /\ Live(k) <=> (Len(log[k]) % 2 = 1)

(* A seeder is paid only what the leecher of that very channel signed for    *)
(* that channel id, and the leecher gets the rest of the deposit back.       *)
ClaimsAreSigned ==
  \A k \in Key : \A i \in 1 .. Len(log[k]) :
    LET e == log[k][i]
    IN  e.type = "ChannelClosed" =>
          /\ [signer |-> k.leecher,
              check |-> [id |-> k.id, amount |-> e.earned, nonce |-> e.nonce]]
               \in signed
          /\ i > 1 /\ log[k][i - 1].type = "ChannelOpened"
          /\ e.earned + e.refunded = log[k][i - 1].deposited

(* timeout_close gives the leecher back no less than the whole deposit, also *)
(* after tokens were added to the escrow account.                            *)
RefundsAreFull ==
  \A k \in Key : \A i \in 1 .. Len(log[k]) :
    log[k][i].type = "ChannelTimedOut" =>
      /\ i > 1 /\ log[k][i - 1].type = "ChannelOpened"
      /\ log[k][i].refunded >= log[k][i - 1].deposited

(* Until the timeout has passed, tokens leave an escrow account only through *)
(* a claim with a signed check: in particular the whole second in which the  *)
(* clock shows the timeout still belongs to the seeder.                      *)
NoEarlyRefund ==
  [][\A k \in Key :
       (Live(k) /\ channel'[k] = NoAccount /\ now <= channel[k].timeout) =>
         \E s \in signed :
           /\ s.signer = k.leecher /\ s.check.id = k.id
           /\ balance'[k.seeder] - balance[k.seeder] =
                IF k.seeder = k.leecher THEN escrow[k] ELSE s.check.amount]_vars

(* The program implements the abstract ledger: an escrow balance is a lock,  *)
(* a passed timeout a lapse, a signed check a promise.                       *)
Locked   == [k \in Key |-> IF Live(k) THEN escrow[k] ELSE 0]
Lapsed   == {k \in Key : Live(k) /\ now > channel[k].timeout}
Promised == {[by |-> s.signer, id |-> s.check.id, amount |-> s.check.amount] :
               s \in signed}
Ledger == INSTANCE EscrowLedger WITH
            locked <- Locked, lapsed <- Lapsed, promised <- Promised
ImplementsLedger == Ledger!Spec

(* No channel outlives its leecher's will: whatever was added to the escrow, *)
(* a leecher who keeps submitting timeout_close gets the tokens out.         *)
NeverLockedForever == \A k \in Key : Live(k) ~> ~Live(k)
=============================================================================
