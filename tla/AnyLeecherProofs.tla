-------------------------- MODULE AnyLeecherProofs --------------------------
(* Theorems about AnyLeecher for any number of openings, signed checks, ids, *)
(* amounts and nonces: what a seeder can rely on whatever the leecher sends, *)
(* signs and does on the chain.                                              *)
EXTENDS AnyLeecher, TLAPS

USE MinDepositAssumption, IdAssumption, InputAssumption, AccountAssumption,
    WidthAssumption
-----------------------------------------------------------------------------
(* --- numbers --- *)

(* An encoded number is a u64, and a u64 is encoded as itself. *)
LEMMA Wrapped ==
  ASSUME NEW n \in Int
  PROVE  n % U64 \in Word /\ (n \in Word => n % U64 = n)
<1>1. n % U64 \in Word
  BY DEF Word
<1>2. ASSUME n \in Word PROVE n % U64 = n
  BY <1>2 DEF Word
<1> QED
  BY <1>1, <1>2

LEMMA CarriedNat ==
  ASSUME NEW n \in Int
  PROVE  Carried(n) \in Nat /\ (n \in Word => Carried(n) = n)
  BY DEF Carried, Word
-----------------------------------------------------------------------------
(* --- the inductive invariant --- *)

Early == {"idle", "handshake", "key_exchange", "channel_pending"}
Ended == {"closing", "closed"}

Rpcs ==
  [call : {"none", "verify"}]
    \cup [call : {"verified"}, valid : BOOLEAN, deposited : Nat]
    \cup [call : {"claim"}, check : PaymentCheck]

(* The account that is open is the one that the seeder has read. *)
Read == Open /\ Len(log[TheKey]) = opening

ChannelInv ==
  /\ channel \in [{TheKey} -> Chain!ChannelState \cup {NoAccount}]
  /\ escrow \in [{TheKey} -> Nat \cup {NoAccount}]
  /\ log \in [{TheKey} -> Seq(Chain!Event)]
  /\ now \in Nat
  /\ opening \in Nat /\ opening <= Len(log[TheKey])
  /\ Open => /\ TheChannel.status = "Open" /\ TheChannel.last_nonce = 0
             /\ escrow[TheKey] \in Nat

(* A payment of amount under nonce is the one the session's check stands     *)
(* for; only a process that has died has forgotten it.                       *)
Pays(s, alive, amount, nonce) ==
  /\ alive => s.highestCheck # NoCheck
  /\ s.highestCheck # NoCheck => /\ amount = Carried(s.highestCheck.amount)
                                 /\ nonce = Carried(s.highestCheck.nonce)

(* The highest check is one the leecher signed, within the deposit.          *)
CheckOK(s) ==
  s.highestCheck # NoCheck =>
    /\ s.state \notin Early
    /\ SignedBy(s.highestCheck) \in signed
    /\ s.highestCheck.amount <= s.channelDeposit

(* The deposit a session counts on is that of the channel that was read.     *)
DepositOK(s) ==
  (s.state = "active" \/ s.highestCheck # NoCheck) =>
    (Read => s.channelDeposit = TheChannel.deposited)

(* The awaited call says what states the session can be in when it returns.  *)
RpcOK(s, rpc, alive) ==
  /\ rpc \in Rpcs
  /\ rpc.call \in {"verify", "verified"} =>
       s.state \in {"channel_pending", "closed"} /\ s.highestCheck = NoCheck
  /\ (rpc.call = "verified" /\ rpc.valid) =>
       (Read => rpc.deposited = TheChannel.deposited)
  /\ rpc.call = "claim" => /\ s.state \in Ended
                           /\ Pays(s, alive, Carried(rpc.check.amount),
                                             Carried(rpc.check.nonce))

(* A claim that has landed is the only one, and it ended the session.        *)
ClaimsOK(s, rpc, alive) ==
  /\ \A i, j \in Claims : i = j
  /\ \A i \in Claims : /\ s.state \in Ended /\ rpc.call = "none"
                       /\ Pays(s, alive, log[TheKey][i].earned, log[TheKey][i].nonce)

SeederOK(s, rpc, alive) ==
  /\ s \in SeederSessions
  /\ CheckOK(s)
  /\ DepositOK(s)
  /\ RpcOK(s, rpc, alive)
  /\ ClaimsOK(s, rpc, alive)

SeederInv == SeederOK(seeder, seederRpc, seederAlive)

WireInv == toSeeder \in Seq(LeecherMessages) /\ seederAlive \in BOOLEAN

Inv == WireInv /\ ChannelInv /\ SeederInv
-----------------------------------------------------------------------------
(* --- the seeder's session --- *)

WithState(s, st) == [s EXCEPT !.state = st]

(* What a step of the seeder does to its session s and the awaited call rpc. *)
Unmoved(s, rpc, t, rpc2) == t = s /\ rpc2 = rpc
Greets(s, rpc, t, rpc2) ==
  s.state = "idle" /\ t = WithState(s, "handshake") /\ rpc2 = rpc
Verifies(s, rpc, t, rpc2) ==
  /\ s.state = "handshake" /\ t = WithState(s, "channel_pending")
  /\ rpc2 = [call |-> "verify"]
Closes(s, rpc, t, rpc2) == t = WithState(s, "closed") /\ rpc2 = rpc
StartsClaim(s, rpc, t, rpc2) ==
  /\ s.state = "active" /\ s.highestCheck # NoCheck
  /\ t = WithState(s, "closing")
  /\ rpc2 = [call |-> "claim", check |-> s.highestCheck]
Accepts(s, rpc, t, rpc2) ==
  /\ s.state = "active" /\ rpc2 = rpc
  /\ \E c \in PaymentCheck : /\ SignedBy(c) \in signed
                             /\ ~(c.amount > s.channelDeposit)
                             /\ t = [s EXCEPT !.highestCheck = c]

Moves(s, rpc, t, rpc2) ==
  \/ Unmoved(s, rpc, t, rpc2) \/ Greets(s, rpc, t, rpc2) \/ Verifies(s, rpc, t, rpc2)
  \/ Closes(s, rpc, t, rpc2) \/ StartsClaim(s, rpc, t, rpc2)
  \/ Accepts(s, rpc, t, rpc2)

LEMMA StateChanged ==
  ASSUME NEW s \in SeederSessions, NEW st \in SessionState
  PROVE  /\ WithState(s, st) \in SeederSessions
         /\ WithState(s, st).state = st
         /\ WithState(s, st).highestCheck = s.highestCheck
         /\ WithState(s, st).channelDeposit = s.channelDeposit
  BY DEF WithState, SeederSessions

(* An active session waits for nothing, and none of its claims has landed;   *)
(* the same holds of a session before it.                                    *)
LEMMA NothingAwaited ==
  ASSUME NEW s, NEW rpc, NEW alive, SeederOK(s, rpc, alive),
         s.state \in {"idle", "handshake", "active"}
  PROVE  rpc.call = "none" /\ Claims = {}
<1>1. rpc.call \notin {"verify", "verified", "claim"}
  BY DEF SeederOK, RpcOK, Ended
<1>2. rpc.call \in {"none", "verify", "verified", "claim"}
  BY DEF SeederOK, RpcOK, Rpcs
<1>3. Claims = {}
  BY DEF SeederOK, ClaimsOK, Ended
<1> QED
  BY <1>1, <1>2, <1>3

LEMMA MovesKeep ==
  ASSUME NEW s, NEW rpc, NEW alive \in BOOLEAN, SeederOK(s, rpc, alive),
         NEW t, NEW rpc2, Moves(s, rpc, t, rpc2),
         NEW alive2 \in BOOLEAN, alive2 => alive
  PROVE  SeederOK(t, rpc2, alive2)
<1>1. s \in SeederSessions
  BY DEF SeederOK
<1>2. CASE Unmoved(s, rpc, t, rpc2)
  BY <1>2 DEF Unmoved, SeederOK, RpcOK, ClaimsOK, Pays
<1>3. CASE Greets(s, rpc, t, rpc2)
  <2>1. rpc.call = "none" /\ Claims = {} /\ rpc2 = rpc /\ s.highestCheck = NoCheck
    BY <1>3, NothingAwaited DEF Greets, SeederOK, CheckOK, Early
  <2>2. /\ t \in SeederSessions /\ t.state = "handshake"
        /\ t.highestCheck = NoCheck
    BY <1>1, <1>3, <2>1, StateChanged DEF Greets, SessionState
  <2> QED
    BY <2>1, <2>2 DEF SeederOK, CheckOK, DepositOK, RpcOK, ClaimsOK
<1>4. CASE Verifies(s, rpc, t, rpc2)
  <2>1. Claims = {} /\ rpc2 = [call |-> "verify"] /\ s.highestCheck = NoCheck
    BY <1>4, NothingAwaited DEF Verifies, SeederOK, CheckOK, Early
  <2>2. /\ t \in SeederSessions /\ t.state = "channel_pending"
        /\ t.highestCheck = NoCheck
    BY <1>1, <1>4, <2>1, StateChanged DEF Verifies, SessionState
  <2> QED
    BY <2>1, <2>2 DEF SeederOK, CheckOK, DepositOK, RpcOK, ClaimsOK, Rpcs
<1>5. CASE Closes(s, rpc, t, rpc2)
  <2>1. /\ t \in SeederSessions /\ t.state = "closed" /\ rpc2 = rpc
        /\ t.highestCheck = s.highestCheck /\ t.channelDeposit = s.channelDeposit
    BY <1>1, <1>5, StateChanged DEF Closes, SessionState
  <2> QED
    BY <2>1 DEF SeederOK, CheckOK, DepositOK, RpcOK, ClaimsOK, Pays, Early, Ended
<1>6. CASE StartsClaim(s, rpc, t, rpc2)
  <2>1. Claims = {} /\ s.highestCheck # NoCheck /\ s.state = "active"
        /\ rpc2 = [call |-> "claim", check |-> s.highestCheck]
    BY <1>6, NothingAwaited DEF StartsClaim
  <2>2. s.highestCheck \in PaymentCheck
    BY <1>1, <2>1 DEF SeederSessions
  <2>3. /\ t \in SeederSessions /\ t.state = "closing"
        /\ t.highestCheck = s.highestCheck /\ t.channelDeposit = s.channelDeposit
    BY <1>1, <1>6, StateChanged DEF StartsClaim, SessionState
  <2>4. RpcOK(t, rpc2, alive2)
    BY <2>1, <2>2, <2>3 DEF RpcOK, Rpcs, Pays, Ended
  <2>5. CheckOK(t) /\ DepositOK(t)
    BY <2>1, <2>3 DEF SeederOK, CheckOK, DepositOK, Early
  <2> QED
    BY <2>1, <2>3, <2>4, <2>5 DEF SeederOK, ClaimsOK
<1>7. CASE Accepts(s, rpc, t, rpc2)
  <2>1. PICK c \in PaymentCheck : /\ SignedBy(c) \in signed
                                  /\ ~(c.amount > s.channelDeposit)
                                  /\ t = [s EXCEPT !.highestCheck = c]
    BY <1>7 DEF Accepts
  <2>2. rpc.call = "none" /\ Claims = {} /\ rpc2 = rpc /\ s.state = "active"
    BY <1>7, NothingAwaited DEF Accepts
  <2>3. /\ t \in SeederSessions /\ t.state = "active"
        /\ t.highestCheck = c /\ t.channelDeposit = s.channelDeposit
    BY <1>1, <2>1, <2>2 DEF SeederSessions
  <2>4. c.amount <= s.channelDeposit
    BY <1>1, <2>1 DEF SeederSessions, PaymentCheck
  <2>5. CheckOK(t) /\ DepositOK(t)
    BY <2>1, <2>2, <2>3, <2>4 DEF SeederOK, CheckOK, DepositOK, Early
  <2> QED
    BY <2>2, <2>3, <2>5 DEF SeederOK, RpcOK, ClaimsOK
<1> QED
  BY <1>2, <1>3, <1>4, <1>5, <1>6, <1>7 DEF Moves
-----------------------------------------------------------------------------
(* --- the seeder's steps --- *)

(* onDisconnect: a claim starts, or the session is closed. *)
LEMMA DisconnectMoves ==
  ASSUME NEW s \in SeederSessions, NEW r, r = SeederOnDisconnect(s),
         seeder' = r.session, StartRpc(r)
  PROVE  Moves(s, seederRpc, seeder', seederRpc')
<1>1. CASE s.state = "active" /\ s.highestCheck # NoCheck
  <2>1. r.session = WithState(s, "closing") /\ r.action.action = "close_channel"
    BY <1>1 DEF SeederOnDisconnect, Returns, WithState
  <2>2. r.session.highestCheck = s.highestCheck
    BY <2>1, StateChanged DEF SessionState
  <2>3. seederRpc' = [call |-> "claim", check |-> s.highestCheck]
    BY <2>1, <2>2 DEF StartRpc
  <2> QED
    BY <1>1, <2>1, <2>3 DEF Moves, StartsClaim
<1>2. CASE ~(s.state = "active" /\ s.highestCheck # NoCheck)
  <2>1. r.session = WithState(s, "closed") /\ r.action.action = "none"
    BY <1>2 DEF SeederOnDisconnect, Returns, NoAction, WithState
  <2>2. seederRpc' = seederRpc
    BY <2>1 DEF StartRpc
  <2> QED
    BY <2>1, <2>2 DEF Moves, Closes
<1> QED
  BY <1>1, <1>2

(* The check a payment_check carries. *)
CheckOf(m) == [channelId |-> m.channelId, amount |-> m.amount, nonce |-> m.nonce]

LEMMA MessageCheck ==
  ASSUME NEW m \in LeecherMessages, m.type = "payment_check"
  PROVE  CheckOf(m) \in PaymentCheck /\ SignedBy(CheckOf(m)) = SignedBy(m)
<1>1. PICK c \in Checks :
        m = [type |-> "payment_check", channelId |-> c.channelId, amount |-> c.amount,
             nonce |-> c.nonce]
  BY DEF LeecherMessages
<1>2. c.channelId \in ChannelId /\ c.amount \in Int /\ c.nonce \in Int
  BY DEF PaymentCheck
<1> QED
  BY <1>1, <1>2 DEF CheckOf, PaymentCheck, SignedBy, Encoded

(* What a message makes of a session, before its action is executed.         *)
LEMMA Handled ==
  ASSUME NEW s \in SeederSessions, NEW m \in LeecherMessages, NEW valid \in BOOLEAN,
         NEW r, r = SeederHandle(s, m, valid)
  PROVE  \/ r.session = s /\ r.action.action \in {"error", "none", "send_message"}
         \/ /\ s.state = "idle" /\ r.session = WithState(s, "handshake")
            /\ r.action.action = "send_message"
         \/ /\ s.state = "handshake" /\ r.session = WithState(s, "channel_pending")
            /\ r.action.action = "verify_channel"
         \/ r.session = WithState(s, "closed") /\ r.action.action = "none"
         \/ /\ m.type = "payment_check" /\ valid /\ s.state = "active"
            /\ ~(m.amount > s.channelDeposit)
            /\ r.session = [s EXCEPT !.highestCheck = CheckOf(m)]
            /\ r.action.action = "none"
<1>1. CASE m.type = "ecdh_init"
  BY <1>1 DEF SeederHandle, SeederOnEcdhInit, InState, Returns, WithState,
              ErrorAction, SendMessage
<1>2. CASE m.type = "channel_opened"
  BY <1>2 DEF SeederHandle, SeederOnChannelOpened, InState, Returns, WithState,
              ErrorAction
<1>3. CASE m.type = "payment_check"
  <2>1. r = SeederOnPaymentCheck(s, CheckOf(m), valid)
    BY <1>3 DEF SeederHandle, CheckOf
  <2>2. CASE s.state # "active"
    BY <2>1, <2>2 DEF SeederOnPaymentCheck, InState, Returns, ErrorAction
  <2>3. CASE s.state = "active" /\ CheckRefusal(s, CheckOf(m), valid) # "none"
    BY <2>1, <2>3 DEF SeederOnPaymentCheck, InState, Returns, SendMessage
  <2>4. CASE s.state = "active" /\ CheckRefusal(s, CheckOf(m), valid) = "none"
    <3>1. /\ r.session = [s EXCEPT !.highestCheck = CheckOf(m)]
          /\ r.action.action = "none"
      BY <2>1, <2>4 DEF SeederOnPaymentCheck, InState, Returns, NoAction
    <3>2. valid /\ ~(CheckOf(m).amount > s.channelDeposit)
      BY <2>4 DEF CheckRefusal
    <3>3. CheckOf(m).amount = m.amount
      BY DEF CheckOf
    <3> QED
      BY <1>3, <2>4, <3>1, <3>2, <3>3
  <2> QED
    BY <2>2, <2>3, <2>4
<1>4. CASE m.type = "channel_closed"
  BY <1>4 DEF SeederHandle, SeederOnChannelClosed, Returns, NoAction, WithState
<1>5. CASE m.type \notin {"ecdh_init", "channel_opened", "payment_check", "channel_closed"}
  BY <1>5 DEF SeederHandle, Returns, NoAction
<1> QED
  BY <1>1, <1>2, <1>3, <1>4, <1>5

(* A session that an error leaves as it was is told of the close.            *)
LEMMA ReceiptMoves ==
  ASSUME NEW m \in LeecherMessages, NEW valid \in BOOLEAN,
         seeder \in SeederSessions,
         (m.type = "payment_check" /\ valid) => SignedBy(m) \in signed,
         SeederExecute(SeederHandle(seeder, m, valid))
  PROVE  Moves(seeder, seederRpc, seeder', seederRpc')
<1> DEFINE r == SeederHandle(seeder, m, valid)
<1>1. CASE r.action.action = "error"
  <2>1. SeederCloses(r.session)
    BY <1>1 DEF SeederExecute
  <2>2. r.session = seeder
    BY <1>1, Handled
  <2> HIDE DEF r
  <2>3. seeder' = SeederOnDisconnect(seeder).session /\ StartRpc(SeederOnDisconnect(seeder))
    BY <2>1, <2>2 DEF SeederCloses
  <2> QED
    BY <2>3, DisconnectMoves
<1>2. CASE r.action.action # "error"
  <2>1. seeder' = r.session /\ StartRpc(r)
    BY <1>2 DEF SeederExecute
  <2>2. \/ r.session = seeder /\ r.action.action \in {"none", "send_message"}
        \/ /\ seeder.state = "idle" /\ r.session = WithState(seeder, "handshake")
           /\ r.action.action = "send_message"
        \/ /\ seeder.state = "handshake"
           /\ r.session = WithState(seeder, "channel_pending")
           /\ r.action.action = "verify_channel"
        \/ r.session = WithState(seeder, "closed") /\ r.action.action = "none"
        \/ /\ m.type = "payment_check" /\ valid /\ seeder.state = "active"
           /\ ~(m.amount > seeder.channelDeposit)
           /\ r.session = [seeder EXCEPT !.highestCheck = CheckOf(m)]
           /\ r.action.action = "none"
    BY <1>2, Handled
  <2> HIDE DEF r
  <2>3. /\ r.action.action \in {"none", "send_message"} => seederRpc' = seederRpc
        /\ r.action.action = "verify_channel" => seederRpc' = [call |-> "verify"]
    BY <2>1 DEF StartRpc
  <2>4. m.type = "payment_check" /\ valid =>
          /\ CheckOf(m) \in PaymentCheck /\ SignedBy(CheckOf(m)) \in signed
          /\ CheckOf(m).amount = m.amount
    BY MessageCheck DEF CheckOf
  <2> QED
    BY <2>1, <2>2, <2>3, <2>4
       DEF Moves, Unmoved, Greets, Verifies, Closes, Accepts
<1> QED
  BY <1>1, <1>2

(* The continuation of verifyChannel. *)
LEMMA ResolvedOK ==
  ASSUME NEW s, NEW rpc, NEW alive \in BOOLEAN, SeederOK(s, rpc, alive),
         rpc.call = "verified", NEW t,
         t = (IF rpc.valid THEN ConfirmChannel(s, rpc.deposited)
                           ELSE RejectChannel(s)).session
  PROVE  SeederOK(t, [call |-> "none"], alive)
<1> DEFINE known == [s EXCEPT !.channelDeposit = rpc.deposited]
           none == [call |-> "none"]
<1>1. /\ s \in SeederSessions /\ s.highestCheck = NoCheck
      /\ rpc.valid \in BOOLEAN /\ rpc.deposited \in Nat
      /\ Claims = {}
  BY DEF SeederOK, RpcOK, Rpcs, ClaimsOK
<1>2. /\ known \in SeederSessions /\ known.highestCheck = NoCheck
      /\ known.channelDeposit = rpc.deposited
  BY <1>1 DEF SeederSessions
<1>3. \/ t = s /\ s.state # "channel_pending"
      \/ t = WithState(s, "closed") \/ t = WithState(known, "closed")
      \/ rpc.valid /\ t = WithState(known, "active")
  BY DEF ConfirmChannel, RejectChannel, InState, Returns, WithState
<1> HIDE DEF known
<1>4. \/ t = s /\ s.state = "closed"
      \/ t = WithState(s, "closed") \/ t = WithState(known, "closed")
      \/ rpc.valid /\ t = WithState(known, "active")
  BY <1>3 DEF SeederOK, RpcOK
<1>5. /\ t \in SeederSessions /\ t.highestCheck = NoCheck
      /\ \/ t.state = "closed"
         \/ t.state = "active" /\ rpc.valid /\ t.channelDeposit = rpc.deposited
  BY <1>1, <1>2, <1>4, StateChanged DEF SessionState
<1>6. DepositOK(t)
  BY <1>5 DEF DepositOK, SeederOK, RpcOK
<1>7. RpcOK(t, none, alive)
  BY DEF RpcOK, Rpcs
<1> QED
  BY <1>1, <1>5, <1>6, <1>7 DEF SeederOK, CheckOK, ClaimsOK
-----------------------------------------------------------------------------
(* --- the chain --- *)

LEMMA AppendEvent ==
  ASSUME NEW S, NEW s \in Seq(S), NEW e \in S
  PROVE  /\ Append(s, e) \in Seq(S)
         /\ Len(Append(s, e)) = Len(s) + 1
         /\ DOMAIN Append(s, e) = 1 .. Len(s) + 1 /\ DOMAIN s = 1 .. Len(s)
         /\ Append(s, e)[Len(s) + 1] = e
         /\ \A i \in DOMAIN s : Append(s, e)[i] = s[i]
  OBVIOUS

(* A transaction appends its event to the log: what the seeder has read is   *)
(* outdated, and only a ChannelClosed event adds a claim.                    *)
LEMMA Emitted ==
  ASSUME ChannelInv, NEW e \in Chain!Event, Chain!Emit(TheKey, e)
  PROVE  /\ log' \in [{TheKey} -> Seq(Chain!Event)]
         /\ opening < Len(log'[TheKey])
         /\ Claims' = Claims \cup (IF e.type = "ChannelClosed" THEN {Len(log[TheKey]) + 1}
                                                              ELSE {})
         /\ log'[TheKey][Len(log[TheKey]) + 1] = e
         /\ \A i \in Claims : log'[TheKey][i] = log[TheKey][i]
<1> DEFINE old == log[TheKey]
           n == Len(old)
<1>1. old \in Seq(Chain!Event) /\ n \in Nat /\ opening \in Nat /\ opening <= n
  BY DEF ChannelInv
<1>2. log' = [log EXCEPT ![TheKey] = Append(old, e)] /\ log'[TheKey] = Append(old, e)
  BY DEF Chain!Emit, ChannelInv
<1>3. /\ Append(old, e) \in Seq(Chain!Event)
      /\ Len(Append(old, e)) = n + 1
      /\ DOMAIN Append(old, e) = 1 .. n + 1 /\ DOMAIN old = 1 .. n
      /\ Append(old, e)[n + 1] = e
      /\ \A i \in DOMAIN old : Append(old, e)[i] = old[i]
  BY <1>1, AppendEvent
<1>4. log' \in [{TheKey} -> Seq(Chain!Event)]
  BY <1>2, <1>3 DEF ChannelInv
<1>5. Claims = {i \in 1 .. n : old[i].type = "ChannelClosed"}
  BY <1>3 DEF Claims
<1>6. Claims' = {i \in 1 .. n + 1 : Append(old, e)[i].type = "ChannelClosed"}
  BY <1>2, <1>3 DEF Claims, TheKey
<1> HIDE DEF old, n
<1>7. 1 .. n + 1 = (1 .. n) \cup {n + 1}
  BY <1>1
<1>8. Claims' = Claims \cup (IF e.type = "ChannelClosed" THEN {n + 1} ELSE {})
  BY <1>3, <1>5, <1>6, <1>7
<1>9. \A i \in Claims : log'[TheKey][i] = old[i]
  BY <1>2, <1>3, <1>5
<1>10. opening < n + 1
  BY <1>1
<1> QED
  BY <1>2, <1>3, <1>4, <1>8, <1>9, <1>10 DEF old, n

LEMMA OpenChannelInv ==
  ASSUME ChannelInv, Chain!Open(TheKey), opening' = opening
  PROVE  ChannelInv' /\ ~Read' /\ signed' = signed
         /\ \E e \in Chain!Event : Chain!Emit(TheKey, e) /\ e.type # "ChannelClosed"
<1>1. PICK w \in {LeecherWallet, SeederWallet}, a \in Amount, d \in Duration :
        Chain!OpenChannel(TheKey, w, a, d)
  BY DEF Chain!Open
<1> DEFINE account == [deposited |-> a, created_at |-> now, timeout |-> now + d,
                       last_nonce |-> 0, status |-> "Open"]
           e == [type |-> "ChannelOpened", deposited |-> a, timeout |-> now + d]
<1>2. /\ channel' = [channel EXCEPT ![TheKey] = account]
      /\ escrow' = [escrow EXCEPT ![TheKey] = a]
      /\ Chain!Emit(TheKey, e)
      /\ now' = now /\ signed' = signed
  BY <1>1 DEF Chain!OpenChannel, Chain!FundEscrow
<1>3. a \in Nat /\ d \in Int /\ now \in Nat
  BY DEF ChannelInv, Word
<1>4. /\ account \in Chain!ChannelState /\ account.status = "Open"
      /\ account.last_nonce = 0
      /\ e \in Chain!Event /\ e.type = "ChannelOpened"
  BY <1>3 DEF Chain!ChannelState, Chain!Event, Chain!OpenedEvent
<1> HIDE DEF account, e
<1>5. /\ channel' \in [{TheKey} -> Chain!ChannelState \cup {NoAccount}]
      /\ channel'[TheKey] = account
      /\ escrow' \in [{TheKey} -> Nat \cup {NoAccount}] /\ escrow'[TheKey] = a
  BY <1>2, <1>3, <1>4 DEF ChannelInv
<1>6. log' \in [{TheKey} -> Seq(Chain!Event)] /\ opening < Len(log'[TheKey])
  BY <1>2, <1>4, Emitted
<1>7. ChannelInv'
  BY <1>2, <1>3, <1>4, <1>5, <1>6 DEF ChannelInv, Open, TheChannel, TheKey
<1>8. ~Read'
  BY <1>6 DEF Read, TheKey, ChannelInv
<1> QED
  BY <1>2, <1>4, <1>7, <1>8

(* Both settlements delete the account. *)
LEMMA SettledInv ==
  ASSUME ChannelInv, NEW e \in Chain!Event, Chain!Emit(TheKey, e),
         Chain!CloseAccounts(TheKey), now' = now, opening' = opening
  PROVE  ChannelInv' /\ ~Read'
<1>1. /\ channel' \in [{TheKey} -> Chain!ChannelState \cup {NoAccount}]
      /\ channel'[TheKey] = NoAccount
      /\ escrow' \in [{TheKey} -> Nat \cup {NoAccount}]
  BY DEF ChannelInv, Chain!CloseAccounts
<1>2. log' \in [{TheKey} -> Seq(Chain!Event)] /\ opening < Len(log'[TheKey])
  BY Emitted
<1>3. ~Open'
  BY <1>1 DEF Open, TheChannel, TheKey
<1>4. opening' \in Nat /\ opening' <= Len(log'[TheKey])
  BY <1>2 DEF ChannelInv
<1> QED
  BY <1>1, <1>2, <1>3, <1>4 DEF ChannelInv, Read, TheKey

LEMMA ExpireInv ==
  ASSUME ChannelInv, Chain!Expire(TheKey), opening' = opening
  PROVE  ChannelInv' /\ ~Read' /\ signed' = signed
         /\ \E e \in Chain!Event : Chain!Emit(TheKey, e) /\ e.type # "ChannelClosed"
<1> DEFINE e == [type |-> "ChannelTimedOut", refunded |-> escrow[TheKey]]
<1>1. /\ Open /\ Chain!CloseAccounts(TheKey) /\ Chain!Emit(TheKey, e)
      /\ now' = now /\ signed' = signed
  BY DEF Chain!Expire, Chain!TimeoutClose, Chain!TimeoutRefund, Chain!Live, Open, TheChannel
<1>2. escrow[TheKey] \in Nat
  BY <1>1 DEF ChannelInv
<1>3. e \in Chain!Event /\ e.type # "ChannelClosed"
  BY <1>2 DEF Chain!Event, Chain!TimedOutEvent
<1> HIDE DEF e
<1> QED
  BY <1>1, <1>3, SettledInv

(* Signatures, tokens added to the escrow account and time change neither    *)
(* the channel account nor the log.                                          *)
LEMMA QuietInv ==
  ASSUME ChannelInv, channel' = channel, log' = log, opening' = opening,
         escrow' \in [{TheKey} -> Nat \cup {NoAccount}], now' \in Nat,
         escrow[TheKey] \in Nat => escrow'[TheKey] \in Nat
  PROVE  ChannelInv'
  BY DEF ChannelInv, Open, TheChannel, TheKey

LEMMA GrowsInv ==
  ASSUME ChannelInv, EscrowGrows, opening' = opening
  PROVE  ChannelInv' /\ channel' = channel /\ log' = log /\ signed' = signed
<1>1. PICK w \in {LeecherWallet, SeederWallet}, a \in Amount : Chain!TopUp(TheKey, w, a)
  BY DEF EscrowGrows
<1>2. /\ escrow[TheKey] # NoAccount
      /\ escrow' = [escrow EXCEPT ![TheKey] = @ + a]
      /\ channel' = channel /\ log' = log /\ signed' = signed /\ now' = now
  BY <1>1 DEF Chain!TopUp
<1>3. escrow[TheKey] \in Nat /\ a \in Nat
  BY <1>2 DEF ChannelInv, Word
<1>4. escrow' \in [{TheKey} -> Nat \cup {NoAccount}] /\ escrow'[TheKey] \in Nat
  BY <1>2, <1>3 DEF ChannelInv
<1>5. now' \in Nat
  BY <1>2 DEF ChannelInv
<1> QED
  BY <1>2, <1>4, <1>5, QuietInv
-----------------------------------------------------------------------------
(* --- the steps --- *)

LEMMA SameChannel ==
  ASSUME SeederOK(seeder', seederRpc', seederAlive'),
         channel' = channel, log' = log, opening' = opening, signed \subseteq signed'
  PROVE  SeederInv'
<1>1. Read' = Read /\ TheChannel' = TheChannel /\ Claims' = Claims /\ log'[TheKey] = log[TheKey]
  BY DEF Read, Open, TheChannel, Claims, TheKey
<1> DEFINE s == seeder'
<1>2. CheckOK(seeder)'
  BY DEF SeederOK, CheckOK, SignedBy
<1>3. DepositOK(seeder)'
  BY <1>1 DEF SeederOK, DepositOK
<1>4. RpcOK(seeder, seederRpc, seederAlive)'
  BY <1>1 DEF SeederOK, RpcOK, Pays
<1>5. ClaimsOK(seeder, seederRpc, seederAlive)'
  BY <1>1 DEF SeederOK, ClaimsOK, Pays, TheKey
<1> QED
  BY <1>2, <1>3, <1>4, <1>5 DEF SeederInv, SeederOK

(* The account the seeder has read is gone, and no claim was added.          *)
LEMMA OtherEvent ==
  ASSUME ChannelInv, SeederInv, UNCHANGED seederVars, ~Read', signed' = signed,
         \E e \in Chain!Event : Chain!Emit(TheKey, e) /\ e.type # "ChannelClosed"
  PROVE  SeederInv'
<1>1. Claims' = Claims /\ \A i \in Claims : log'[TheKey][i] = log[TheKey][i]
  BY Emitted
<1>2. seeder' = seeder /\ seederRpc' = seederRpc /\ seederAlive' = seederAlive
  BY DEF seederVars
<1>3. CheckOK(seeder)' /\ DepositOK(seeder)'
  BY <1>2 DEF SeederInv, SeederOK, CheckOK, DepositOK, SignedBy
<1>4. RpcOK(seeder, seederRpc, seederAlive)'
  BY <1>2 DEF SeederInv, SeederOK, RpcOK, Pays
<1>5. ClaimsOK(seeder, seederRpc, seederAlive)'
  BY <1>1, <1>2 DEF SeederInv, SeederOK, ClaimsOK, Pays, TheKey
<1> QED
  BY <1>2, <1>3, <1>4, <1>5 DEF SeederInv, SeederOK

(* The claim that lands pays the session's check and is the only one.        *)
LEMMA ClaimLandsInv ==
  ASSUME ChannelInv, SeederInv, ClaimLands
  PROVE  ChannelInv' /\ SeederInv'
<1> DEFINE check == seederRpc.check
           amount == Carried(check.amount)
           nonce == Carried(check.nonce)
           refund == TheChannel.deposited - amount
           e == [type |-> "ChannelClosed", earned |-> amount,
                 refunded |-> refund, nonce |-> nonce]
           n == Len(log[TheKey]) + 1
<1>1. /\ seederRpc.call = "claim" /\ seederRpc' = [call |-> "none"]
      /\ seeder' = seeder /\ seederAlive' = seederAlive /\ opening' = opening
  BY DEF ClaimLands, ClaimReturns, NoRpc
<1>2. /\ Open /\ amount <= TheChannel.deposited
      /\ Chain!CloseAccounts(TheKey) /\ Chain!Emit(TheKey, e)
      /\ now' = now /\ signed' = signed
  BY DEF ClaimLands, Chain!CloseChannel, Chain!MayClose, Chain!WithinDeposit,
         Chain!Live, Open, TheChannel
<1>3. check \in PaymentCheck
  BY <1>1 DEF SeederInv, SeederOK, RpcOK, Rpcs
<1>4. TheChannel.deposited \in Nat
  BY <1>2 DEF ChannelInv, Open, TheChannel, Chain!ChannelState
<1>5. amount \in Nat /\ nonce \in Nat /\ refund \in Nat
  <2>1. amount \in Nat /\ nonce \in Nat
    BY <1>3, CarriedNat DEF PaymentCheck
  <2> QED
    BY <1>2, <1>4, <2>1
<1>6. /\ e \in Chain!Event /\ e.type = "ChannelClosed"
      /\ e.earned = amount /\ e.nonce = nonce
  BY <1>5 DEF Chain!Event, Chain!ClosedEvent
<1> HIDE DEF check, amount, nonce, e
<1>7. ChannelInv' /\ ~Read'
  BY <1>1, <1>2, <1>6, SettledInv
<1>8. Claims = {} /\ seeder.state \in Ended
      /\ Pays(seeder, seederAlive, amount, nonce)
  BY <1>1 DEF SeederInv, SeederOK, RpcOK, ClaimsOK, check, amount, nonce
<1>9. Claims' = {n} /\ log'[TheKey][n] = e
  BY <1>2, <1>6, <1>8, Emitted
<1> HIDE DEF n
<1>10. CheckOK(seeder)' /\ DepositOK(seeder)'
  BY <1>1, <1>2, <1>7 DEF SeederInv, SeederOK, CheckOK, DepositOK, SignedBy
<1>11. RpcOK(seeder, seederRpc, seederAlive)'
  BY <1>1 DEF RpcOK, Rpcs
<1>12. ClaimsOK(seeder, seederRpc, seederAlive)'
  BY <1>1, <1>6, <1>8, <1>9 DEF ClaimsOK, Pays, TheKey
<1>13. seeder' \in SeederSessions
  BY <1>1 DEF SeederInv, SeederOK
<1> QED
  BY <1>7, <1>10, <1>11, <1>12, <1>13 DEF SeederInv, SeederOK

(* The account as it is read is the one the session will count on. *)
LEMMA VerifyReadsInv ==
  ASSUME ChannelInv, SeederInv, VerifyReads
  PROVE  ChannelInv' /\ SeederInv'
<1> DEFINE deposited == IF Open THEN TheChannel.deposited ELSE 0
<1>1. /\ seederRpc.call = "verify" /\ seeder' = seeder /\ seederAlive' = seederAlive
      /\ seederRpc' = [call |-> "verified", valid |-> Open, deposited |-> deposited]
      /\ opening' = Len(log[TheKey]) /\ UNCHANGED chainVars
  BY DEF VerifyReads, VerifyReturns
<1>2. Open \in BOOLEAN /\ deposited \in Nat
  BY DEF ChannelInv, Open, TheChannel, Chain!ChannelState
<1>3. /\ Open' = Open /\ TheChannel' = TheChannel /\ Claims' = Claims
      /\ log' = log /\ channel' = channel /\ escrow' = escrow /\ now' = now
      /\ log[TheKey] \in Seq(Chain!Event)
  BY <1>1 DEF chainVars, Open, TheChannel, Claims, TheKey, ChannelInv
<1>4. ChannelInv'
  BY <1>1, <1>3 DEF ChannelInv, TheKey
<1>5. seeder.highestCheck = NoCheck /\ seeder.state \in {"channel_pending", "closed"}
      /\ Claims = {} /\ seeder \in SeederSessions
  BY <1>1 DEF SeederInv, SeederOK, RpcOK, ClaimsOK
<1>6. RpcOK(seeder, seederRpc, seederAlive)'
  BY <1>1, <1>2, <1>3, <1>5 DEF RpcOK, Rpcs, Read
<1>7. CheckOK(seeder)' /\ DepositOK(seeder)' /\ ClaimsOK(seeder, seederRpc, seederAlive)'
  BY <1>1, <1>3, <1>5 DEF CheckOK, DepositOK, ClaimsOK
<1> QED
  BY <1>1, <1>4, <1>5, <1>6, <1>7 DEF SeederInv, SeederOK
-----------------------------------------------------------------------------
(* The steps of the seeder that leave the chain alone.                       *)
SeederStep ==
  \/ SeederMessage \/ VerifyFails \/ Seeder(VerifyResolves) \/ ClaimFails
  \/ Seeder(SeederDisconnects) \/ Seeder(Crash)
  \/ Seeder(Shutdown) \/ Seeder(ShutdownEnds)

LEMMA MoveKeeps ==
  ASSUME WireInv, SeederInv, Moves(seeder, seederRpc, seeder', seederRpc'),
         seederAlive' \in BOOLEAN, seederAlive' => seederAlive
  PROVE  SeederOK(seeder', seederRpc', seederAlive')
  BY MovesKeep DEF SeederInv, WireInv

LEMMA SeederStepKeeps ==
  ASSUME WireInv, SeederInv, SeederStep
  PROVE  SeederOK(seeder', seederRpc', seederAlive') /\ WireInv'
         /\ UNCHANGED <<chainVars, opening>>
<1> USE DEF SeederStep, Seeder
<1>0. /\ seeder \in SeederSessions /\ seederAlive \in BOOLEAN
      /\ toSeeder \in Seq(LeecherMessages)
      /\ SeederOK(seeder, seederRpc, seederAlive)
  BY DEF SeederInv, SeederOK, WireInv
<1>1. CASE SeederMessage
  <2> DEFINE m == Head(toSeeder)
  <2>1. PICK valid \in BOOLEAN :
          /\ toSeeder # <<>>
          /\ valid <=> (m.type = "payment_check" => SignedBy(m) \in signed)
          /\ Seeder(SeederReceives(valid))
    BY <1>1 DEF SeederMessage
  <2>2. /\ SeederExecute(SeederHandle(seeder, m, valid))
        /\ toSeeder' = Tail(toSeeder) /\ seederAlive' = seederAlive
    BY <2>1 DEF SeederReceives
  <2>3. m \in LeecherMessages /\ toSeeder' \in Seq(LeecherMessages)
    BY <1>0, <2>1, <2>2
  <2> HIDE DEF m
  <2>4. Moves(seeder, seederRpc, seeder', seederRpc')
    BY <1>0, <2>1, <2>2, <2>3, ReceiptMoves
  <2> QED
    BY <1>0, <2>1, <2>2, <2>3, <2>4, MoveKeeps DEF WireInv
<1>2. CASE VerifyFails
  <2>1. /\ seederRpc.call = "verify" /\ UNCHANGED <<seeder, seederAlive, toSeeder>>
        /\ seederRpc' = [call |-> "verified", valid |-> FALSE, deposited |-> 0]
    BY <1>2 DEF VerifyFails, VerifyReturns, wireVars
  <2>2. seeder.state \in {"channel_pending", "closed"} /\ seeder.highestCheck = NoCheck
        /\ Claims = {}
    BY <1>0, <2>1 DEF SeederOK, RpcOK, ClaimsOK
  <2>3. RpcOK(seeder, seederRpc', seederAlive)
    BY <2>1, <2>2 DEF RpcOK, Rpcs
  <2>4. SeederOK(seeder, seederRpc', seederAlive)
    BY <1>0, <2>2, <2>3 DEF SeederOK, ClaimsOK
  <2> QED
    BY <1>0, <1>2, <2>1, <2>4 DEF WireInv, VerifyFails
<1>3. CASE Seeder(VerifyResolves)
  <2>1. /\ seederRpc.call = "verified" /\ seederRpc' = [call |-> "none"]
        /\ UNCHANGED <<seederAlive, toSeeder>>
        /\ seeder' = (IF seederRpc.valid
                      THEN ConfirmChannel(seeder, seederRpc.deposited)
                      ELSE RejectChannel(seeder)).session
    BY <1>3 DEF VerifyResolves, NoRpc
  <2>2. SeederOK(seeder', [call |-> "none"], seederAlive)
    BY <1>0, <2>1, ResolvedOK
  <2> QED
    BY <1>0, <1>3, <2>1, <2>2 DEF WireInv
<1>4. CASE ClaimFails
  <2>1. /\ seederRpc.call = "claim" /\ seederRpc' = [call |-> "none"]
        /\ UNCHANGED <<seeder, seederAlive, toSeeder>>
    BY <1>4 DEF ClaimFails, ClaimReturns, NoRpc, wireVars
  <2>2. Claims = {} /\ RpcOK(seeder, seederRpc', seederAlive)
    BY <1>0, <2>1 DEF SeederOK, RpcOK, ClaimsOK, Rpcs
  <2>3. SeederOK(seeder, seederRpc', seederAlive)
    BY <1>0, <2>2 DEF SeederOK, ClaimsOK
  <2> QED
    BY <1>0, <1>4, <2>1, <2>3 DEF WireInv, ClaimFails
<1>5. CASE Seeder(SeederDisconnects)
  <2>1. SeederCloses(seeder) /\ UNCHANGED <<seederAlive, toSeeder>>
    BY <1>5 DEF SeederDisconnects
  <2>2. Moves(seeder, seederRpc, seeder', seederRpc')
    BY <1>0, <2>1, DisconnectMoves DEF SeederCloses
  <2> QED
    BY <1>0, <1>5, <2>1, <2>2, MoveKeeps DEF WireInv
<1>6. CASE Seeder(Crash)
  <2> DEFINE dead == [NewSeederSession EXCEPT !.state = "closed"]
  <2>1. /\ seeder' = dead /\ seederRpc' = seederRpc /\ seederAlive' = FALSE
        /\ UNCHANGED toSeeder
    BY <1>6 DEF Crash
  <2>2. dead \in SeederSessions /\ dead.state = "closed" /\ dead.highestCheck = NoCheck
    BY DEF NewSeederSession, SeederSessions, SessionState, NewAccounting,
           PieceAccounting
  <2> HIDE DEF dead
  <2>3. RpcOK(dead, seederRpc, FALSE) /\ ClaimsOK(dead, seederRpc, FALSE)
    BY <1>0, <2>2 DEF SeederOK, RpcOK, ClaimsOK, Pays, Ended
  <2>4. SeederOK(dead, seederRpc, FALSE)
    BY <2>2, <2>3 DEF SeederOK, CheckOK, DepositOK
  <2> QED
    BY <1>0, <1>6, <2>1, <2>4 DEF WireInv
<1>7. CASE Seeder(Shutdown)
  <2>1. seederAlive' = seederAlive /\ toSeeder' = toSeeder
    BY <1>7 DEF Shutdown, wireVars
  <2>2. Moves(seeder, seederRpc, seeder', seederRpc')
    <3>1. CASE seeder.state = "active"
      BY <1>0, <1>7, <3>1, DisconnectMoves DEF Shutdown
    <3>2. CASE seeder.state # "active"
      BY <1>7, <3>2 DEF Shutdown, Moves, Unmoved
    <3> QED
      BY <3>1, <3>2
  <2> QED
    BY <1>0, <1>7, <2>1, <2>2, MoveKeeps DEF WireInv
<1>8. CASE Seeder(ShutdownEnds)
  <2>1. seederAlive' = FALSE /\ toSeeder' = toSeeder
    BY <1>8 DEF ShutdownEnds
  <2>2. Moves(seeder, seederRpc, seeder', seederRpc')
    <3>1. CASE seederUp
      BY <1>0, <1>8, <3>1, DisconnectMoves DEF ShutdownEnds, SeederCloses
    <3>2. CASE ~seederUp
      BY <1>8, <3>2 DEF ShutdownEnds, Moves, Unmoved
    <3> QED
      BY <3>1, <3>2
  <2> QED
    BY <1>0, <1>8, <2>1, <2>2, MoveKeeps DEF WireInv
<1> QED
  BY <1>1, <1>2, <1>3, <1>4, <1>5, <1>6, <1>7, <1>8

(* What the leecher and others do: messages, signatures, transactions.       *)
LEMMA SendsInv ==
  ASSUME Inv, NEW m \in LeecherMessages, LeecherSends(m)
  PROVE  Inv'
<1>1. /\ toSeeder' = <<m>> /\ UNCHANGED <<seederVars, opening, channel, escrow, log, now>>
      /\ signed \subseteq signed'
  BY DEF LeecherSends, Chain!Sign, chainVars
<1>2. WireInv'
  BY <1>1 DEF Inv, WireInv, seederVars
<1>3. ChannelInv'
  BY <1>1, QuietInv DEF Inv, ChannelInv
<1>4. SeederOK(seeder', seederRpc', seederAlive')
  BY <1>1 DEF Inv, SeederInv, seederVars
<1>5. SeederInv'
  BY <1>1, <1>4, SameChannel
<1> QED
  BY <1>2, <1>3, <1>5 DEF Inv

LEMMA OnChainInv ==
  ASSUME Inv,
         \/ OnChain(Chain!Open(TheKey)) \/ OnChain(Chain!Expire(TheKey))
         \/ OnChain(EscrowGrows) \/ OnChain(Open /\ Chain!Tick)
  PROVE  Inv'
<1>1. UNCHANGED <<toSeeder, seeder, seederRpc, seederAlive, opening>>
      /\ UNCHANGED seederVars
  BY DEF OnChain, wireVars, seederVars
<1>2. WireInv'
  BY <1>1 DEF Inv, WireInv
<1>3. SeederOK(seeder', seederRpc', seederAlive')
  BY <1>1 DEF Inv, SeederInv
<1>4. CASE Chain!Open(TheKey)
  BY <1>1, <1>2, <1>4, OpenChannelInv, OtherEvent DEF Inv
<1>5. CASE Chain!Expire(TheKey)
  BY <1>1, <1>2, <1>5, ExpireInv, OtherEvent DEF Inv
<1>6. CASE EscrowGrows
  BY <1>1, <1>2, <1>3, <1>6, GrowsInv, SameChannel DEF Inv
<1>7. CASE Chain!Tick
  <2>1. /\ channel' = channel /\ escrow' = escrow /\ log' = log /\ signed' = signed
        /\ now' = now + 1
    BY <1>7 DEF Chain!Tick
  <2>2. ChannelInv'
    BY <1>1, <2>1, QuietInv DEF Inv, ChannelInv
  <2> QED
    BY <1>1, <1>2, <1>3, <2>1, <2>2, SameChannel DEF Inv
<1> QED
  BY <1>4, <1>5, <1>6, <1>7 DEF OnChain

LEMMA InitInv == Init => Inv
<1> SUFFICES ASSUME Init PROVE Inv
  OBVIOUS
<1>1. /\ channel = [k \in {TheKey} |-> NoAccount] /\ escrow = [k \in {TheKey} |-> NoAccount]
      /\ log = [k \in {TheKey} |-> <<>>] /\ now = 0 /\ opening = 0
  BY DEF Init, Chain!Init
<1>2. /\ seeder = NewSeederSession /\ seederRpc = NoRpc /\ seederAlive = TRUE
      /\ toSeeder = <<>>
  BY DEF Init, WireInit, SeederInit
<1>3. ~Open /\ log[TheKey] = <<>> /\ Claims = {}
  BY <1>1 DEF Open, TheChannel, Claims
<1>4. ChannelInv
  BY <1>1, <1>3 DEF ChannelInv
<1>5. NewSeederSession \in SeederSessions /\ NewSeederSession.state = "idle"
      /\ NewSeederSession.highestCheck = NoCheck
  BY DEF NewSeederSession, SeederSessions, SessionState, NewAccounting, PieceAccounting
<1>6. SeederInv
  BY <1>2, <1>3, <1>5
     DEF SeederInv, SeederOK, CheckOK, DepositOK, RpcOK, ClaimsOK, Rpcs, NoRpc
<1> QED
  BY <1>2, <1>4, <1>6 DEF Inv, WireInv

LEMMA NextInv == Inv /\ [Next]_vars => Inv'
<1> SUFFICES ASSUME Inv, [Next]_vars PROVE Inv'
  OBVIOUS
<1>1. ASSUME NEW m \in LeecherMessages, LeecherSends(m) PROVE Inv'
  BY <1>1, SendsInv
<1>2. CASE \/ OnChain(Chain!Open(TheKey)) \/ OnChain(Chain!Expire(TheKey))
           \/ OnChain(EscrowGrows) \/ OnChain(Open /\ Chain!Tick)
  BY <1>2, OnChainInv
<1>3. CASE SeederStep
  <2>1. /\ SeederOK(seeder', seederRpc', seederAlive') /\ WireInv'
        /\ UNCHANGED <<channel, escrow, log, now, signed, opening>>
    BY <1>3, SeederStepKeeps DEF Inv, chainVars
  <2>2. ChannelInv'
    BY <2>1, QuietInv DEF Inv, ChannelInv
  <2> QED
    BY <2>1, <2>2, SameChannel DEF Inv
<1>4. CASE VerifyReads
  <2>1. WireInv'
    BY <1>4 DEF VerifyReads, VerifyReturns, wireVars, Inv, WireInv
  <2> QED
    BY <1>4, <2>1, VerifyReadsInv DEF Inv
<1>5. CASE ClaimLands
  <2>1. WireInv'
    BY <1>5 DEF ClaimLands, ClaimReturns, wireVars, Inv, WireInv
  <2> QED
    BY <1>5, <2>1, ClaimLandsInv DEF Inv
<1>6. CASE UNCHANGED vars
  <2>1. /\ SeederOK(seeder', seederRpc', seederAlive') /\ WireInv'
        /\ UNCHANGED <<channel, escrow, log, now, signed, opening>>
    BY <1>6 DEF vars, wireVars, seederVars, chainVars, Inv, SeederInv, WireInv
  <2>2. ChannelInv'
    BY <2>1, QuietInv DEF Inv, ChannelInv
  <2> QED
    BY <2>1, <2>2, SameChannel DEF Inv
<1> QED
  BY <1>1, <1>2, <1>3, <1>4, <1>5, <1>6 DEF Next, SeederStep
-----------------------------------------------------------------------------
(* --- the theorems --- *)

THEOREM Invariance == Spec => []Inv
  BY InitInv, NextInv, PTL DEF Spec

(* While the channel that the seeder has read is open, close_channel takes   *)
(* the session's highest check if the check carries the session's id, has a  *)
(* nonce other than 0 and numbers that are u64s, and nobody has added tokens *)
(* to the escrow account: nothing else that a leecher does can spoil it.     *)
(* And it never takes a check of another id, of nonce 0, or with tokens      *)
(* added to the escrow account.                                              *)
THEOREM ClaimableUnlessProved == Spec => []ClaimableUnless
<1>1. ASSUME Inv PROVE ClaimableUnless
  <2> DEFINE check == seeder.highestCheck
             amount == Carried(check.amount)
             nonce == Carried(check.nonce)
             emptied == escrow[TheKey] = TheChannel.deposited
  <2> SUFFICES ASSUME check # NoCheck, Read
               PROVE  /\ (check.channelId = Id /\ check.nonce # 0 /\ emptied
                           /\ check.amount \in Word /\ check.nonce \in Word)
                           => Claimable(check)
                      /\ Claimable(check) =>
                           check.channelId = Id /\ check.nonce # 0 /\ emptied
    BY DEF ClaimableUnless, Read
  <2>1. check \in PaymentCheck /\ SignedBy(check) \in signed
        /\ check.amount <= TheChannel.deposited
    BY <1>1 DEF Inv, SeederInv, SeederOK, CheckOK, DepositOK, SeederSessions
  <2>2. /\ TheChannel.status = "Open" /\ TheChannel.last_nonce = 0
        /\ escrow[TheKey] \in Nat /\ TheChannel.deposited \in Nat
    BY <1>1 DEF Inv, ChannelInv, Read, Open, TheChannel, Chain!ChannelState
  <2>3. check.amount \in Int /\ check.nonce \in Int
    BY <2>1 DEF PaymentCheck
  <2> HIDE DEF check
  <2>4. Chain!Live(TheKey) /\ SeederWallet = TheKey.seeder
    BY DEF Chain!Live, Read, Open, TheChannel, TheKey
  <2>5. Chain!IsEmptied(TheKey, TheChannel.deposited) <=> emptied
    BY <2>2 DEF Chain!IsEmptied
  <2>6. Chain!MayClose(TheKey, SeederWallet, amount, nonce, ClaimProof(check))
          <=> /\ amount <= TheChannel.deposited /\ nonce > 0 /\ emptied
              /\ Chain!VerifyEd25519Signature(ClaimProof(check), TheKey.leecher,
                                              TheKey.id, amount, nonce)
    BY <2>2, <2>4, <2>5 DEF Chain!MayClose, Chain!WithinDeposit, TheChannel
  <2>7. ASSUME check.channelId = Id, check.nonce # 0, emptied,
               check.amount \in Word, check.nonce \in Word
        PROVE  Claimable(check)
    <3>1. amount = check.amount /\ nonce = check.nonce /\ nonce > 0
      BY <2>3, <2>7, CarriedNat DEF Word
    <3>2. check.amount % U64 = amount /\ check.nonce % U64 = nonce
      BY <2>3, <2>7, <3>1, Wrapped
    <3>3. Chain!VerifyEd25519Signature(ClaimProof(check), TheKey.leecher, TheKey.id,
                                       amount, nonce)
      BY <3>2 DEF Chain!VerifyEd25519Signature, ClaimProof, Encoded, TheKey
    <3> QED
      BY <2>1, <2>6, <2>7, <3>1, <3>3 DEF Claimable
  <2>8. ASSUME Claimable(check)
        PROVE  check.channelId = Id /\ check.nonce # 0 /\ emptied
    <3>1. check.channelId = Id /\ nonce > 0 /\ emptied
      BY <2>6, <2>8 DEF Claimable
    <3>2. check.nonce # 0
      BY <3>1 DEF Carried
    <3> QED
      BY <3>1, <3>2
  <2> QED
    BY <2>7, <2>8
<1> QED
  BY <1>1, Invariance, PTL

(* However often the leecher re-opens the address, a session's claims land   *)
(* at most once, and what lands is its highest check.                        *)
THEOREM PaidOnceInFullProved == Spec => []PaidOnceInFull
<1>1. Inv => PaidOnceInFull
  BY DEF Inv, SeederInv, SeederOK, ClaimsOK, Pays, PaidOnceInFull
<1> QED
  BY <1>1, Invariance, PTL
=============================================================================
