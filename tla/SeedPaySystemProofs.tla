------------------------ MODULE SeedPaySystemProofs -------------------------
(* Theorems about SeedPaySystem for every price, piece size, check interval, *)
(* deposit, file and timeout, and with every fault.                          *)
EXTENDS SeedPaySystem, TLAPS

USE AccountingAssumption, DepositAssumption, MinDepositAssumption, WireAssumption,
    ChainAssumption, IdAssumption
-----------------------------------------------------------------------------
(* --- what bytes cost --- *)

(* A product of natural numbers grows with its first factor. *)
LEMMA Product ==
  ASSUME NEW x \in Nat, NEW y \in Nat, NEW z \in Nat, x <= y
  PROVE  x * z \in Nat /\ y * z \in Nat /\ x * z <= y * z
  BY SMT

(* Division rounds down. *)
LEMMA Division ==
  ASSUME NEW x \in Nat, NEW d \in Nat \ {0}
  PROVE  /\ x \div d \in Nat
         /\ d * (x \div d) <= x
         /\ x < d * (x \div d) + d
  BY SMT

LEMMA DivisionMonotone ==
  ASSUME NEW x \in Nat, NEW y \in Nat, NEW d \in Nat \ {0}, x <= y
  PROVE  x \div d <= y \div d
  BY Division, SMT

(* A cost is an amount, more bytes never cost less, and no bytes cost        *)
(* nothing.                                                                  *)
LEMMA CostMonotone ==
  ASSUME NEW a \in Nat, NEW b \in Nat, a <= b
  PROVE  Cost(a) \in Nat /\ Cost(b) \in Nat /\ Cost(a) <= Cost(b)
<1>1. /\ a * PricePerMb \in Nat /\ b * PricePerMb \in Nat
      /\ a * PricePerMb <= b * PricePerMb
  BY Product
<1> DEFINE x == a * PricePerMb + BytesPerMb - 1
           y == b * PricePerMb + BytesPerMb - 1
<1>2. x \in Nat /\ y \in Nat /\ x <= y
  BY <1>1
<1> HIDE DEF x, y
<1>3. /\ x \div BytesPerMb \in Nat /\ y \div BytesPerMb \in Nat
      /\ x \div BytesPerMb <= y \div BytesPerMb
  BY <1>2, Division, DivisionMonotone
<1> QED
  BY <1>3 DEF x, y, Cost, ComputeCost

LEMMA CostOfNothing == Cost(0) = 0
<1> DEFINE x == BytesPerMb - 1
<1>1. 0 * PricePerMb + BytesPerMb - 1 = x /\ x \in Nat /\ x < BytesPerMb
  OBVIOUS
<1> HIDE DEF x
<1>2. x \div BytesPerMb = 0
  BY <1>1, Division, SMT
<1> QED
  BY <1>1, <1>2 DEF Cost, ComputeCost

(* The interval of payment checks, in tokens. *)
Interval == Cost(CheckFrequencyMb * BytesPerMb)

LEMMA IntervalType == Interval \in Nat
<1>1. CheckFrequencyMb * BytesPerMb \in Nat
  BY Product
<1> QED
  BY <1>1, CostMonotone DEF Interval
-----------------------------------------------------------------------------
(* --- the inductive invariant --- *)

Early == {"idle", "handshake", "channel_pending"}

Owes(s, bound) ==
  \/ NextCheckAmount(s.accounting) < s.accounting.lastCheckAmount + bound
  \/ bound = 0 /\ NextCheckAmount(s.accounting) = s.accounting.lastCheckAmount

(* A leecher's session: nothing is counted before it is active, no check     *)
(* pays for more than what was counted, and an active one owes less than an  *)
(* interval.                                                                 *)
LeecherOK(s) ==
  /\ s \in LeecherSessions
  /\ s.state \in Early => s.accounting = NewAccounting
  /\ s.accounting.lastCheckAmount <= Cost(s.accounting.totalBytes)
  /\ s.state = "active" => Owes(s, Interval)

LeecherInv ==
  /\ LeecherOK(leecher)
  /\ received \in Nat
  /\ leecher.accounting.totalBytes <= received * PieceBytes

(* Every signed check is for the channel and pays for bytes the leecher has  *)
(* counted.                                                                  *)
SignedInv ==
  \A s \in signed :
    /\ s.check.id = Id
    /\ s.check.nonce \in Nat \ {0}
    /\ s.check.amount \in Nat
    /\ s.check.amount <= Cost(leecher.accounting.totalBytes)

(* The one channel: not opened yet, open with the leecher's deposit, or      *)
(* settled.                                                                  *)
NotOpened == Len(log[TheKey]) = 0 /\ ~Open
IsOpen ==
  /\ Len(log[TheKey]) = 1 /\ Open
  /\ TheChannel.deposited = Deposit /\ TheChannel.last_nonce = 0
  /\ TheChannel.status = "Open"
  /\ escrow[TheKey] = Deposit
SettledBy(type) ==
  Len(log[TheKey]) = 2 /\ ~Open /\ log[TheKey][2].type = type

ChannelInv ==
  /\ channel \in [{TheKey} -> Chain!ChannelState \cup {NoAccount}]
  /\ escrow \in [{TheKey} -> Nat \cup {NoAccount}]
  /\ log \in [{TheKey} -> Seq(Chain!Event)]
  /\ now \in Nat
  /\ Len(log[TheKey]) > 0 => log[TheKey][1].type = "ChannelOpened"
  /\ NotOpened \/ IsOpen \/ SettledBy("ChannelClosed") \/ SettledBy("ChannelTimedOut")

(* What a seeder that serves relies on. *)
Funded == IsOpen \/ SettledBy("ChannelTimedOut")

SeederRpcs ==
  [call : {"none", "verify"}]
    \cup [call : {"verified"}, valid : BOOLEAN, deposited : Nat]
    \cup [call : {"claim"}, check : PaymentCheck]

(* The highest check is signed and within the deposit. *)
CheckOK(s) ==
  s.highestCheck # NoCheck =>
    /\ SignedBy(s.highestCheck) \in signed
    /\ s.highestCheck.amount <= s.channelDeposit

(* The awaited call says what states the session can be in when it returns.  *)
RpcOK(state, rpc) ==
  /\ rpc \in SeederRpcs
  /\ rpc.call \in {"verify", "verified"} => state \in {"channel_pending", "closed"}
  /\ (rpc.call = "verified" /\ rpc.valid) => rpc.deposited = Deposit /\ Funded
  /\ rpc.call = "claim" => state \in {"closing", "closed"}

(* The state says where the channel is. *)
StateOK(state, deposit) ==
  /\ state = "active" => Funded /\ deposit = Deposit
  /\ SettledBy("ChannelClosed") => state \in {"closing", "closed"}

SeederOK(s, rpc) ==
  /\ s \in SeederSessions
  /\ s.channelDeposit \in {0, Deposit}
  /\ CheckOK(s)
  /\ RpcOK(s.state, rpc)
  /\ StateOK(s.state, s.channelDeposit)

SeederInv == SeederOK(seeder, seederRpc)

(* What the chain paid for has arrived. *)
PaidInv ==
  SettledBy("ChannelClosed") => log[TheKey][2].earned <= Cost(received * PieceBytes)

Inv == LeecherInv /\ SignedInv /\ ChannelInv /\ SeederInv /\ PaidInv
-----------------------------------------------------------------------------
(* --- the leecher's session --- *)

LEMMA LeecherTypes ==
  ASSUME NEW s, LeecherOK(s)
  PROVE  /\ s.accounting.totalBytes \in Nat
         /\ s.accounting.lastCheckAmount \in Nat
         /\ s.accounting.lastNonce \in Nat
         /\ Cost(s.accounting.totalBytes) \in Nat
<1>1. s.accounting \in PieceAccounting
  BY DEF LeecherOK, LeecherSessions
<1> QED
  BY <1>1, CostMonotone DEF PieceAccounting

(* What a method may do to the accounting: count bytes, and sign a check for *)
(* all that is counted.                                                      *)
Advances(s, t) ==
  /\ t.accounting.totalBytes >= s.accounting.totalBytes
  /\ t.accounting.lastNonce # s.accounting.lastNonce =>
       /\ t.accounting.lastNonce = s.accounting.lastNonce + 1
       /\ t.accounting.lastCheckAmount = Cost(t.accounting.totalBytes)

Move(s, t, bytes) ==
  /\ LeecherOK(t)
  /\ Advances(s, t)
  /\ t.accounting.totalBytes = s.accounting.totalBytes + bytes

(* A check leaves no debt. *)
LEMMA CheckIsPaid ==
  ASSUME NEW s \in LeecherSessions, s.state = "active", NEW t,
         s.accounting.lastCheckAmount <= Cost(s.accounting.totalBytes),
         t = SendCheck(s).session
  PROVE  Move(s, t, 0)
<1> DEFINE acc == s.accounting
<1>1. /\ acc \in PieceAccounting /\ acc.totalBytes \in Nat /\ acc.lastNonce \in Nat
      /\ Cost(acc.totalBytes) \in Nat
  BY CostMonotone DEF LeecherSessions, PieceAccounting
<1>2a. MayRecord(acc, NextCheckAmount(acc), NextNonce(acc))
  BY <1>1 DEF MayRecord, NextCheckAmount, NextNonce, LeecherSessions, PieceAccounting
<1>2. t = [state |-> s.state,
           accounting |-> [totalBytes |-> acc.totalBytes,
                           lastCheckAmount |-> Cost(acc.totalBytes),
                           lastNonce |-> acc.lastNonce + 1]]
  BY <1>1, <1>2a DEF SendCheck, Returns, RecordCheck, NextCheckAmount, NextNonce,
              LeecherSessions, PieceAccounting
<1>3. t \in LeecherSessions
  BY <1>1, <1>2 DEF LeecherSessions, PieceAccounting
<1>4. Owes(t, Interval)
  BY <1>1, <1>2, IntervalType DEF Owes, NextCheckAmount
<1> QED
  BY <1>1, <1>2, <1>3, <1>4 DEF Move, LeecherOK, Advances, Early

(* A confirmed session has counted nothing and owes nothing. *)
LEMMA ConfirmedIsEven ==
  ASSUME NEW s, LeecherOK(s), s.state \in Early
  PROVE  Owes(s, Interval)
  BY CostOfNothing, IntervalType DEF LeecherOK, Owes, NextCheckAmount, NewAccounting

(* Nothing but those two methods touches the accounting. *)
WithState(s, st) == [s EXCEPT !.state = st]

LEMMA StateChange ==
  ASSUME NEW s, LeecherOK(s), NEW st \in SessionState,
         st \in Early => s.state \in Early,
         st = "active" => s.state \in Early
  PROVE  Move(s, WithState(s, st), 0)
<1> DEFINE t == WithState(s, st)
<1>1. t \in LeecherSessions /\ t.accounting = s.accounting /\ t.state = st
  BY DEF LeecherOK, LeecherSessions, WithState
<1> HIDE DEF t
<1>2. st = "active" => Owes(t, Interval)
  BY <1>1, ConfirmedIsEven DEF Owes
<1>3. LeecherOK(t)
  BY <1>1, <1>2 DEF LeecherOK
<1>4. Advances(s, t) /\ t.accounting.totalBytes = s.accounting.totalBytes + 0
  BY <1>1, LeecherTypes DEF Advances
<1> QED
  BY <1>3, <1>4 DEF Move, t

LEMMA HandledMessage ==
  ASSUME NEW s, LeecherOK(s), NEW message, NEW t, t = LeecherHandle(s, message).session
  PROVE  Move(s, t, 0)
<1>1. \/ t = s
      \/ s.state = "handshake" /\ t = WithState(s, "channel_pending")
      \/ s.state = "channel_pending" /\ t = WithState(s, "active")
      \/ t = WithState(s, "error")
      \/ t = WithState(s, "closed")
      \/ s.state = "active" /\ t = SendCheck(s).session
  BY DEF LeecherHandle, LeecherOnEcdhInit, LeecherOnChannelConfirmed,
         LeecherOnChannelRejected, LeecherOnPaymentCheckRequired,
         LeecherOnChannelClosed, InState, Returns, WithState
<1>2. s \in LeecherSessions /\ s.accounting.lastCheckAmount <= Cost(s.accounting.totalBytes)
  BY DEF LeecherOK
<1>3. CASE t = s
  BY <1>3, LeecherTypes DEF Advances, Move
<1>4. CASE s.state = "active" /\ t = SendCheck(s).session
  BY <1>2, <1>4, CheckIsPaid
<1>5. CASE s.state = "handshake" /\ t = WithState(s, "channel_pending")
  BY <1>5, StateChange DEF Early, SessionState
<1>6. CASE s.state = "channel_pending" /\ t = WithState(s, "active")
  BY <1>6, StateChange DEF Early, SessionState
<1>7. CASE t = WithState(s, "error")
  BY <1>7, StateChange DEF Early, SessionState
<1>8. CASE t = WithState(s, "closed")
  BY <1>8, StateChange DEF Early, SessionState
<1> QED
  BY <1>1, <1>3, <1>4, <1>5, <1>6, <1>7, <1>8

(* A piece is counted, and paid for when an interval is due. *)
LEMMA CountedPiece ==
  ASSUME NEW s, LeecherOK(s), s.state = "active", NEW t,
         t = LeecherOnPieceReceived(s, PieceBytes).session
  PROVE  Move(s, t, PieceBytes)
<1> DEFINE n == s.accounting.totalBytes + PieceBytes
           c == [s EXCEPT !.accounting = RecordBytes(@, PieceBytes)]
<1>1. /\ s \in LeecherSessions /\ s.accounting \in PieceAccounting
      /\ s.accounting.totalBytes \in Nat /\ s.accounting.lastCheckAmount \in Nat
      /\ s.accounting.lastNonce \in Nat /\ n \in Nat
  BY LeecherTypes DEF LeecherOK, LeecherSessions
<1>2. Cost(n) \in Nat /\ Cost(s.accounting.totalBytes) <= Cost(n)
  BY <1>1, CostMonotone
<1>3. c = [state |-> "active",
           accounting |-> [totalBytes |-> n,
                           lastCheckAmount |-> s.accounting.lastCheckAmount,
                           lastNonce |-> s.accounting.lastNonce]]
  BY <1>1 DEF RecordBytes, LeecherSessions, PieceAccounting
<1>4. /\ c \in LeecherSessions /\ c.state = "active"
      /\ c.accounting.totalBytes = n
      /\ c.accounting.lastCheckAmount = s.accounting.lastCheckAmount
      /\ c.accounting.lastNonce = s.accounting.lastNonce
  BY <1>1, <1>3 DEF LeecherSessions, PieceAccounting, SessionState
<1>5. c.accounting.lastCheckAmount <= Cost(n)
  BY <1>1, <1>2, <1>4, LeecherTypes DEF LeecherOK
<1>6. \/ t = SendCheck(c).session
      \/ t = c /\ ~NeedsCheck(c.accounting)
  BY DEF LeecherOnPieceReceived, InState, Returns
<1>7. n = s.accounting.totalBytes + PieceBytes /\ n >= s.accounting.totalBytes
  BY <1>1
<1> HIDE DEF c, n
<1>8. CASE t = SendCheck(c).session
  <2>1. Move(c, t, 0)
    BY <1>4, <1>5, <1>8, CheckIsPaid
  <2>2. LeecherOK(t) /\ t.accounting.totalBytes = n
    BY <1>1, <1>4, <2>1 DEF Move
  <2>3. Advances(s, t)
    BY <1>4, <1>7, <2>1, <2>2 DEF Move, Advances
  <2> QED
    BY <1>7, <2>2, <2>3 DEF Move
<1>9. CASE t = c /\ ~NeedsCheck(c.accounting)
  <2>1. Owes(c, Interval)
    BY <1>1, <1>2, <1>4, <1>9, IntervalType
       DEF Owes, NextCheckAmount, NeedsCheck, ShouldSendCheck, Interval
  <2>2. LeecherOK(c)
    BY <1>4, <1>5, <2>1 DEF LeecherOK, Early
  <2>3. Advances(s, c)
    BY <1>4, <1>7 DEF Advances
  <2> QED
    BY <1>4, <1>7, <1>9, <2>2, <2>3 DEF Move
<1> QED
  BY <1>6, <1>8, <1>9
-----------------------------------------------------------------------------
(* --- the leecher's steps --- *)

(* The wire's close after a move closes the session and pays nothing. *)
LEMMA ClosedMove ==
  ASSUME NEW s, NEW t, NEW bytes, NEW u, LeecherOK(s), Move(s, t, bytes),
         u = LeecherOnChannelClosed(t).session
  PROVE  Move(s, u, bytes)
<1>1. u = WithState(t, "closed") /\ LeecherOK(t)
  BY DEF LeecherOnChannelClosed, Returns, WithState, Move
<1>2. Move(t, u, 0)
  BY <1>1, StateChange DEF Early, SessionState
<1>3. u.accounting = t.accounting
  BY <1>1 DEF WithState, LeecherOK, LeecherSessions
<1> QED
  BY <1>2, <1>3 DEF Move, Advances

LEMMA ExecutedMove ==
  ASSUME LeecherInv, NEW r, NEW bytes, Move(leecher, r.session, bytes),
         LeecherExecute(r)
  PROVE  Move(leecher, leecher', bytes)
<1>1. CASE r.action.action = "error"
  <2>1. leecher' = LeecherOnChannelClosed(r.session).session
    BY <1>1 DEF LeecherExecute
  <2> QED
    BY <2>1, ClosedMove DEF LeecherInv
<1>2. CASE r.action.action # "error"
  <2>1. leecher' = r.session
    BY <1>2 DEF LeecherExecute
  <2> QED
    BY <2>1
<1> QED
  BY <1>1, <1>2

(* What every step of the leecher guarantees. *)
LeecherKeeps ==
  /\ LeecherInv'
  /\ Advances(leecher, leecher')
  /\ received' >= received

LEMMA MoveKeeps ==
  ASSUME LeecherInv, NEW bytes \in Nat, Move(leecher, leecher', bytes),
         \/ bytes = 0 /\ received' \in {received, received + 1}
         \/ bytes = PieceBytes /\ received' = received + 1
  PROVE  LeecherKeeps
<1> DEFINE total == leecher.accounting.totalBytes
           total1 == leecher'.accounting.totalBytes
<1>1. /\ total \in Nat /\ received \in Nat /\ received' \in Nat
      /\ total <= received * PieceBytes
      /\ total1 = total + bytes
      /\ received * PieceBytes \in Nat
  BY LeecherTypes, Product DEF LeecherInv, Move
<1> DEFINE paid == received * PieceBytes
           paid1 == received' * PieceBytes
<1>2. \/ bytes = 0 /\ received' = received /\ paid1 = paid
      \/ received' = received + 1 /\ paid1 = paid + PieceBytes
  <2>1. (received + 1) * PieceBytes = received * PieceBytes + PieceBytes
    BY <1>1, SMT
  <2> QED
    BY <2>1
<1> HIDE DEF total, total1, paid, paid1
<1>3. total1 <= paid1 /\ received' >= received
  <2>1. bytes \in {0, PieceBytes} /\ total \in Nat /\ paid \in Nat /\ total <= paid
    BY <1>1 DEF paid
  <2> QED
    BY <1>1, <1>2, <2>1
<1>4. LeecherOK(leecher)' /\ Advances(leecher, leecher')
  BY DEF Move
<1>5. LeecherInv'
  BY <1>1, <1>3, <1>4 DEF LeecherInv, total1, paid1
<1> QED
  BY <1>3, <1>4, <1>5 DEF LeecherKeeps

(* The steps that may change the leecher's session. *)
LeecherMoves ==
  \/ LeecherHandshake \/ LeecherReceives \/ OpenResolves \/ LeecherDone
  \/ LeecherDisconnects

LEMMA Still ==
  ASSUME NEW s, LeecherOK(s)
  PROVE  Move(s, s, 0)
  BY LeecherTypes DEF Move, Advances

LEMMA LeecherMovesKeep ==
  ASSUME LeecherInv, LeecherMoves
  PROVE  LeecherKeeps
<1> USE DEF LeecherMoves
<1>0. LeecherOK(leecher) /\ Move(leecher, leecher, 0) /\ received \in Nat
  BY Still DEF LeecherInv
<1>1. CASE LeecherHandshake
  <2> DEFINE r == IF PricePerMb > MaxPricePerMb
                  THEN Returns(leecher, ErrorAction) ELSE LeecherStart(leecher)
  <2>1. leecher.state = "idle" /\ LeecherExecute(r) /\ received' = received
    BY <1>1 DEF LeecherHandshake
  <2>2. r.session = leecher \/ r.session = WithState(leecher, "handshake")
    BY DEF Returns, LeecherStart, InState, WithState
  <2> HIDE DEF r
  <2>3. Move(leecher, r.session, 0)
    BY <1>0, <2>1, <2>2, StateChange DEF Early, SessionState
  <2>4. Move(leecher, leecher', 0)
    BY <2>1, <2>3, ExecutedMove
  <2> QED
    BY <2>1, <2>4, MoveKeeps
<1>2. CASE LeecherReceives
  <2>1. CASE Head(toLeecher).type = "piece"
    <3>1. LeecherExecute(LeecherPiece) /\ received' = received + 1
      BY <1>0, <1>2, <2>1 DEF LeecherReceives
    <3>2. CASE leecher.state = "active"
      <4>1. Move(leecher, LeecherPiece.session, PieceBytes)
        BY <1>0, <3>2, CountedPiece DEF LeecherPiece
      <4>2. Move(leecher, leecher', PieceBytes)
        BY <3>1, <4>1, ExecutedMove
      <4> QED
        BY <3>1, <4>2, MoveKeeps
    <3>3. CASE leecher.state # "active"
      <4>1. Move(leecher, LeecherPiece.session, 0)
        BY <1>0, <3>3 DEF LeecherPiece, Returns
      <4>2. Move(leecher, leecher', 0)
        BY <3>1, <4>1, ExecutedMove
      <4> QED
        BY <3>1, <4>2, MoveKeeps
    <3> QED
      BY <3>2, <3>3
  <2>2. CASE Head(toLeecher).type # "piece"
    <3> DEFINE r == LeecherHandle(leecher, Head(toLeecher))
    <3>1. LeecherExecute(r) /\ received' = received
      BY <1>0, <1>2, <2>2 DEF LeecherReceives
    <3>2. Move(leecher, r.session, 0)
      BY <1>0, HandledMessage
    <3> HIDE DEF r
    <3>3. Move(leecher, leecher', 0)
      BY <3>1, <3>2, ExecutedMove
    <3> QED
      BY <3>1, <3>3, MoveKeeps
  <2> QED
    BY <2>1, <2>2
<1>3. CASE OpenResolves
  <2>1. leecher' = leecher /\ received' = received
    BY <1>3 DEF OpenResolves, LeecherOnChannelOpened, InState, Returns
  <2> QED
    BY <1>0, <2>1, MoveKeeps
<1>4. CASE LeecherDone \/ LeecherDisconnects
  <2>1. leecher' = LeecherOnChannelClosed(leecher).session /\ received' = received
    BY <1>4 DEF LeecherDone, LeecherDisconnects
  <2>2. Move(leecher, leecher', 0)
    BY <1>0, <2>1, ClosedMove
  <2> QED
    BY <2>1, <2>2, MoveKeeps
<1> QED
  BY <1>1, <1>2, <1>3, <1>4

(* More is counted and the cost of it grows, so signed checks stay covered,  *)
(* and a check signed in the step pays for exactly what is counted.          *)
LEMMA SignedKeeps ==
  ASSUME LeecherInv, SignedInv, LeecherKeeps, NEW step, Leecher(step)
  PROVE  SignedInv' /\ signed \subseteq signed'
<1> DEFINE total == leecher.accounting.totalBytes
           total1 == leecher'.accounting.totalBytes
           acc1 == leecher'.accounting
           new == SignedBy([channelId |-> Id, amount |-> acc1.lastCheckAmount,
                            nonce |-> acc1.lastNonce])
<1>1. /\ total \in Nat /\ total1 \in Nat /\ total <= total1
      /\ leecher.accounting.lastNonce \in Nat
  BY LeecherTypes DEF LeecherInv, LeecherKeeps, Advances
<1>2. /\ Cost(total) \in Nat /\ Cost(total1) \in Nat /\ Cost(total) <= Cost(total1)
  BY <1>1, CostMonotone
<1>3. \/ signed' = signed
      \/ /\ signed' = signed \cup {new}
         /\ acc1.lastNonce # leecher.accounting.lastNonce
  BY DEF Leecher
<1>4. acc1.lastNonce # leecher.accounting.lastNonce =>
        acc1.lastNonce \in Nat \ {0} /\ acc1.lastCheckAmount = Cost(total1)
  BY <1>1 DEF LeecherKeeps, Advances
<1>5. /\ new.check.id = Id /\ new.check.nonce = acc1.lastNonce
      /\ new.check.amount = acc1.lastCheckAmount
  BY DEF SignedBy
<1> HIDE DEF total, total1, acc1, new
<1>6. ASSUME NEW s \in signed
      PROVE  /\ s.check.id = Id
             /\ s.check.nonce \in Nat \ {0} /\ s.check.amount \in Nat
             /\ s.check.amount <= Cost(total1)
  <2>1. /\ s.check.id = Id
        /\ s.check.nonce \in Nat \ {0} /\ s.check.amount \in Nat
        /\ s.check.amount <= Cost(total)
    BY <1>6 DEF SignedInv, total
  <2> QED
    BY <1>2, <2>1
<1>7. acc1.lastNonce # leecher.accounting.lastNonce =>
        /\ new.check.id = Id
        /\ new.check.nonce \in Nat \ {0} /\ new.check.amount \in Nat
        /\ new.check.amount <= Cost(total1)
  BY <1>2, <1>4, <1>5
<1>8. \A s \in signed' : /\ s.check.id = Id
                         /\ s.check.nonce \in Nat \ {0} /\ s.check.amount \in Nat
                         /\ s.check.amount <= Cost(total1)
  BY <1>3, <1>6, <1>7
<1> QED
  BY <1>3, <1>8 DEF SignedInv, total1
-----------------------------------------------------------------------------
(* --- the channel --- *)

LEMMA AppendEvent ==
  ASSUME NEW S, NEW s \in Seq(S), NEW e \in S
  PROVE  /\ Append(s, e) \in Seq(S)
         /\ Len(Append(s, e)) = Len(s) + 1
         /\ Append(s, e)[Len(s) + 1] = e
         /\ Len(s) > 0 => Append(s, e)[1] = s[1]
  OBVIOUS

LEMMA OpenIsOpen == ChannelInv /\ Open => IsOpen
  BY DEF ChannelInv, NotOpened, SettledBy

(* The account and the event that Emit appended to the log. *)
LEMMA Emitted ==
  ASSUME ChannelInv, NEW e \in Chain!Event, Chain!Emit(TheKey, e)
  PROVE  /\ log' \in [{TheKey} -> Seq(Chain!Event)]
         /\ Len(log'[TheKey]) = Len(log[TheKey]) + 1
         /\ log'[TheKey][Len(log[TheKey]) + 1] = e
         /\ Len(log[TheKey]) > 0 => log'[TheKey][1] = log[TheKey][1]
         /\ Len(log[TheKey]) \in Nat
<1>1. log[TheKey] \in Seq(Chain!Event)
  BY DEF ChannelInv
<1>2. log' = [log EXCEPT ![TheKey] = Append(log[TheKey], e)]
  BY DEF Chain!Emit
<1>3. log'[TheKey] = Append(log[TheKey], e)
  BY <1>2 DEF ChannelInv
<1>4. Append(log[TheKey], e) \in Seq(Chain!Event)
  BY <1>1, AppendEvent
<1>5. log' \in [{TheKey} -> Seq(Chain!Event)]
  BY <1>2, <1>4 DEF ChannelInv
<1> QED
  BY <1>1, <1>3, <1>5, AppendEvent

LEMMA OpenLandsInv ==
  ASSUME ChannelInv, OpenLands
  PROVE  ChannelInv' /\ IsOpen' /\ NotOpened /\ signed' = signed
<1> DEFINE account == [deposited |-> Deposit, created_at |-> now,
                       timeout |-> now + Timeout, last_nonce |-> 0, status |-> "Open"]
           e == [type |-> "ChannelOpened", deposited |-> Deposit,
                 timeout |-> now + Timeout]
<1>1. /\ Len(log[TheKey]) < 2
      /\ ~Open
      /\ channel' = [channel EXCEPT ![TheKey] = account]
      /\ escrow' = [escrow EXCEPT ![TheKey] = Deposit]
      /\ Chain!Emit(TheKey, e)
      /\ now' = now /\ signed' = signed
  BY DEF OpenLands, Chain!OpenChannel, Chain!MayOpen, Chain!FundEscrow, Chain!Live, Open,
     TheChannel
<1>2. account \in Chain!ChannelState /\ e \in Chain!Event
  BY DEF ChannelInv, Chain!ChannelState, Chain!Event, Chain!OpenedEvent
<1>3. /\ account.deposited = Deposit /\ account.last_nonce = 0
      /\ account.status = "Open"
      /\ e.type = "ChannelOpened"
  OBVIOUS
<1> HIDE DEF account, e
<1>4. NotOpened
  BY <1>1 DEF ChannelInv, IsOpen, SettledBy, NotOpened
<1>5. /\ channel' \in [{TheKey} -> Chain!ChannelState \cup {NoAccount}]
      /\ channel'[TheKey] = account /\ account # NoAccount
  BY <1>1, <1>2 DEF ChannelInv
<1>6. /\ escrow' \in [{TheKey} -> Nat \cup {NoAccount}]
      /\ escrow'[TheKey] = Deposit
  BY <1>1 DEF ChannelInv
<1>7. /\ log' \in [{TheKey} -> Seq(Chain!Event)]
      /\ Len(log'[TheKey]) = 1 /\ log'[TheKey][1].type = "ChannelOpened"
  <2>1. /\ log' \in [{TheKey} -> Seq(Chain!Event)]
        /\ Len(log'[TheKey]) = Len(log[TheKey]) + 1
        /\ log'[TheKey][Len(log[TheKey]) + 1] = e
    BY <1>1, <1>2, Emitted
  <2>2. Len(log[TheKey]) = 0
    BY <1>4 DEF NotOpened
  <2> QED
    BY <1>3, <2>1, <2>2
<1>8. IsOpen'
  BY <1>3, <1>5, <1>6, <1>7 DEF IsOpen, Open, TheChannel, TheKey
<1> QED
  BY <1>1, <1>4, <1>5, <1>6, <1>7, <1>8 DEF ChannelInv, TheKey

(* Both settlements delete the account and append their event. *)
LEMMA SettlementInv ==
  ASSUME ChannelInv, Open, NEW e \in Chain!Event,
         Chain!CloseAccounts(TheKey), Chain!Emit(TheKey, e), now' = now,
         e.type \in {"ChannelClosed", "ChannelTimedOut"}
  PROVE  ChannelInv' /\ SettledBy(e.type)' /\ IsOpen /\ log'[TheKey][2] = e
<1>1. IsOpen
  BY OpenIsOpen
<1>2. /\ channel' = [channel EXCEPT ![TheKey] = NoAccount]
      /\ escrow' = [escrow EXCEPT ![TheKey] = NoAccount]
  BY DEF Chain!CloseAccounts
<1>3. /\ channel' \in [{TheKey} -> Chain!ChannelState \cup {NoAccount}]
      /\ channel'[TheKey] = NoAccount
      /\ escrow' \in [{TheKey} -> Nat \cup {NoAccount}]
  BY <1>2 DEF ChannelInv
<1>4. /\ log' \in [{TheKey} -> Seq(Chain!Event)]
      /\ Len(log'[TheKey]) = 2 /\ log'[TheKey][2] = e
      /\ log'[TheKey][1].type = "ChannelOpened"
  BY <1>1, Emitted DEF IsOpen, ChannelInv
<1>5. SettledBy(e.type)'
  BY <1>3, <1>4 DEF SettledBy, Open, TheChannel, TheKey
<1> QED
  BY <1>1, <1>3, <1>4, <1>5 DEF ChannelInv, TheKey

LEMMA RecoverInv ==
  ASSUME ChannelInv, Recover
  PROVE  ChannelInv' /\ IsOpen /\ SettledBy("ChannelTimedOut")' /\ signed' = signed
<1> DEFINE refund == escrow[TheKey]
           e == [type |-> "ChannelTimedOut", refunded |-> refund]
<1>1. /\ Open /\ Chain!CloseAccounts(TheKey) /\ Chain!Emit(TheKey, e)
      /\ now' = now /\ signed' = signed
  BY DEF Recover, Chain!TimeoutClose, Chain!TimeoutRefund, Chain!Live, Open, TheChannel
<1>2. refund \in Nat
  BY <1>1, OpenIsOpen DEF IsOpen
<1>3. e \in Chain!Event /\ e.type = "ChannelTimedOut"
  BY <1>2 DEF Chain!Event, Chain!TimedOutEvent
<1> HIDE DEF e
<1> QED
  BY <1>1, <1>3, SettlementInv

(* Nothing but the four transactions and the clock touches the chain. *)
LEMMA ChainUnchanged ==
  ASSUME ChannelInv, UNCHANGED <<channel, escrow, log>>, now' = now \/ now' = now + 1
  PROVE  /\ ChannelInv' /\ Open' = Open /\ TheChannel' = TheChannel
         /\ IsOpen' = IsOpen
         /\ SettledBy("ChannelClosed")' = SettledBy("ChannelClosed")
         /\ SettledBy("ChannelTimedOut")' = SettledBy("ChannelTimedOut")
<1>1. /\ Open' = Open /\ TheChannel' = TheChannel /\ NotOpened' = NotOpened
      /\ IsOpen' = IsOpen
      /\ SettledBy("ChannelClosed")' = SettledBy("ChannelClosed")
      /\ SettledBy("ChannelTimedOut")' = SettledBy("ChannelTimedOut")
  BY DEF Open, TheChannel, TheKey, NotOpened, IsOpen, SettledBy
<1>2. now' \in Nat
  BY DEF ChannelInv
<1> QED
  BY <1>1, <1>2 DEF ChannelInv, TheKey
-----------------------------------------------------------------------------
(* --- the seeder's steps --- *)

LEMMA SeederStateChange ==
  ASSUME NEW s, NEW rpc, SeederOK(s, rpc), NEW st \in SessionState, NEW rpc2,
         RpcOK(st, rpc2), StateOK(st, s.channelDeposit)
  PROVE  SeederOK(WithState(s, st), rpc2)
<1> DEFINE t == WithState(s, st)
<1>1. /\ t \in SeederSessions /\ t.state = st
      /\ t.highestCheck = s.highestCheck /\ t.channelDeposit = s.channelDeposit
  BY DEF SeederOK, SeederSessions, WithState
<1> HIDE DEF t
<1>2. CheckOK(t)
  BY <1>1 DEF SeederOK, CheckOK
<1> QED
  BY <1>1, <1>2 DEF SeederOK, t

(* A highest check that is there is one the leecher signed. *)
LEMMA HighestCheckType ==
  ASSUME SignedInv, NEW s, NEW rpc, SeederOK(s, rpc), s.highestCheck # NoCheck
  PROVE  s.highestCheck \in PaymentCheck /\ s.highestCheck.channelId = Id
<1> DEFINE c == s.highestCheck
<1>1. c \in PaymentCheck /\ SignedBy(c) \in signed
  BY DEF SeederOK, CheckOK, SeederSessions
<1>2. SignedBy(c).check.id = Id
  BY <1>1 DEF SignedInv
<1>3. SignedBy(c).check.id = c.channelId
  BY DEF SignedBy
<1> QED
  BY <1>1, <1>2, <1>3

(* onDisconnect: a claim starts, or the session is closed. *)
LEMMA DisconnectOK ==
  ASSUME SignedInv, NEW s, SeederOK(s, seederRpc), NEW r, r = SeederOnDisconnect(s),
         seeder' = r.session, StartRpc(r)
  PROVE  SeederOK(seeder', seederRpc')
<1>1. CASE s.state = "active" /\ s.highestCheck # NoCheck
  <2>1. r.session = WithState(s, "closing") /\ r.action.action = "close_channel"
    BY <1>1 DEF SeederOnDisconnect, Returns, WithState
  <2>2. r.session.highestCheck = s.highestCheck
    BY <2>1 DEF WithState, SeederOK, SeederSessions
  <2>3. seederRpc' = [call |-> "claim", check |-> s.highestCheck]
    BY <2>1, <2>2 DEF StartRpc
  <2>4. seederRpc' \in SeederRpcs
    BY <1>1, <2>3, HighestCheckType DEF SeederRpcs
  <2>5. RpcOK("closing", seederRpc') /\ StateOK("closing", s.channelDeposit)
    BY <2>3, <2>4 DEF RpcOK, StateOK
  <2> QED
    BY <2>1, <2>5, SeederStateChange DEF SessionState
<1>2. CASE ~(s.state = "active" /\ s.highestCheck # NoCheck)
  <2>1. r.session = WithState(s, "closed") /\ r.action.action = "none"
    BY <1>2 DEF SeederOnDisconnect, Returns, NoAction, WithState
  <2>2. seederRpc' = seederRpc
    BY <2>1 DEF StartRpc
  <2>3. RpcOK("closed", seederRpc') /\ StateOK("closed", s.channelDeposit)
    BY <2>2 DEF RpcOK, StateOK, SeederOK
  <2> QED
    BY <2>1, <2>3, SeederStateChange DEF SessionState
<1> QED
  BY <1>1, <1>2

(* Only a check the leecher signed, within the deposit, becomes the highest. *)
LEMMA AcceptedCheckOK ==
  ASSUME SignedInv, NEW s, NEW rpc, SeederOK(s, rpc), NEW c,
         SignedBy(c) \in signed,
         c = [channelId |-> c.channelId, amount |-> c.amount, nonce |-> c.nonce],
         ~(c.amount > s.channelDeposit),
         NEW t, t = [s EXCEPT !.highestCheck = c]
  PROVE  SeederOK(t, rpc)
<1>1. SignedBy(c).check = [id |-> c.channelId, amount |-> c.amount, nonce |-> c.nonce]
  BY DEF SignedBy
<1>2. /\ SignedBy(c).check.id = Id
      /\ SignedBy(c).check.nonce \in Nat /\ SignedBy(c).check.amount \in Nat
  BY DEF SignedInv
<1>3. c.channelId \in ChannelId /\ c.nonce \in Nat /\ c.amount \in Nat
  BY <1>1, <1>2
<1>4. c \in PaymentCheck
  BY <1>3 DEF PaymentCheck
<1>5. /\ t \in SeederSessions /\ t.highestCheck = c
      /\ t.state = s.state /\ t.channelDeposit = s.channelDeposit
  BY <1>4 DEF SeederOK, SeederSessions
<1>6. c.amount <= s.channelDeposit
  BY <1>3 DEF SeederOK, SeederSessions
<1> QED
  BY <1>5, <1>6 DEF SeederOK, CheckOK

(* The check a message carries. *)
CheckOf(m) == [channelId |-> m.channelId, amount |-> m.amount, nonce |-> m.nonce]

(* What a message can make of a seeder's session. *)
LEMMA HandledBySeeder ==
  ASSUME NEW s, NEW m, NEW valid \in BOOLEAN, NEW r, r = SeederHandle(s, m, valid)
  PROVE  \/ r.session = s /\ r.action.action \in {"error", "none", "send_message"}
         \/ /\ s.state = "idle" /\ r.session = WithState(s, "handshake")
            /\ r.action.action = "send_message"
         \/ /\ s.state = "handshake" /\ r.session = WithState(s, "channel_pending")
            /\ r.action.action = "verify_channel"
         \/ r.session = WithState(s, "closed") /\ r.action.action = "none"
         \/ /\ m.type = "payment_check" /\ valid
            /\ ~(m.amount > s.channelDeposit)
            /\ r.session = [s EXCEPT !.highestCheck = CheckOf(m)]
            /\ r.action.action = "none"
<1>1. CASE m.type = "ecdh_init"
  BY <1>1 DEF SeederHandle, SeederOnEcdhInit, InState, Returns, WithState,
              ErrorAction, SendMessage
<1>2. CASE m.type = "channel_opened"
  BY <1>2 DEF SeederHandle, SeederOnChannelOpened, InState, Returns, WithState,
              ErrorAction
<1>3. CASE m.type = "payment_check"
  <2> DEFINE c == CheckOf(m)
             reason == CheckRefusal(s, c, valid)
  <2>1. r = SeederOnPaymentCheck(s, c, valid)
    BY <1>3 DEF SeederHandle, CheckOf
  <2>2. reason = "none" => valid /\ ~(m.amount > s.channelDeposit)
    BY DEF CheckRefusal, CheckOf
  <2>3. \/ r.session = s /\ r.action.action \in {"error", "send_message"}
        \/ /\ reason = "none" /\ r.action.action = "none"
           /\ r.session = [s EXCEPT !.highestCheck = c]
    BY <2>1 DEF SeederOnPaymentCheck, InState, Returns, ErrorAction, NoAction, SendMessage
  <2> QED
    BY <1>3, <2>2, <2>3
<1>4. CASE m.type = "channel_closed"
  BY <1>4 DEF SeederHandle, SeederOnChannelClosed, Returns, WithState, NoAction
<1>5. CASE m.type \notin {"ecdh_init", "channel_opened", "payment_check", "channel_closed"}
  BY <1>5 DEF SeederHandle, Returns, NoAction
<1> QED
  BY <1>1, <1>2, <1>3, <1>4, <1>5

LEMMA ReceivesOK ==
  ASSUME SignedInv, SeederInv, SeederMessage
  PROVE  SeederOK(seeder', seederRpc')
<1> DEFINE m == Head(toSeeder)
<1>1. PICK valid \in BOOLEAN :
        /\ valid <=> (m.type = "payment_check" => SignedBy(m) \in signed)
        /\ SeederReceives(valid)
  BY DEF SeederMessage, Seeder
<1> DEFINE r == SeederHandle(seeder, m, valid)
<1>2. SeederExecute(r) /\ SeederOK(seeder, seederRpc)
  BY <1>1 DEF SeederReceives, SeederInv
<1> HIDE DEF m
<1>3. \/ r.session = seeder /\ r.action.action \in {"error", "none", "send_message"}
      \/ /\ seeder.state = "idle" /\ r.session = WithState(seeder, "handshake")
         /\ r.action.action = "send_message"
      \/ /\ seeder.state = "handshake"
         /\ r.session = WithState(seeder, "channel_pending")
         /\ r.action.action = "verify_channel"
      \/ r.session = WithState(seeder, "closed") /\ r.action.action = "none"
      \/ /\ m.type = "payment_check" /\ valid
         /\ ~(m.amount > seeder.channelDeposit)
         /\ r.session = [seeder EXCEPT !.highestCheck = CheckOf(m)]
         /\ r.action.action = "none"
  BY HandledBySeeder, SMTT(30)
<1> HIDE DEF r
<1>4. CASE r.action.action = "error"
  <2>1. SeederCloses(seeder)
    BY <1>2, <1>3, <1>4 DEF SeederExecute
  <2> QED
    BY <1>2, <2>1, DisconnectOK DEF SeederCloses
<1>5. ASSUME r.action.action # "error"
      PROVE  seeder' = r.session /\ StartRpc(r)
  BY <1>2, <1>5 DEF SeederExecute
<1>6. CASE r.action.action \in {"none", "send_message"}
  <2>1. seederRpc' = seederRpc /\ seeder' = r.session
    BY <1>5, <1>6 DEF StartRpc
  <2>2. CASE r.session = seeder
    BY <1>2, <2>1, <2>2
  <2>3. CASE seeder.state = "idle" /\ r.session = WithState(seeder, "handshake")
    <3>1. RpcOK("handshake", seederRpc) /\ StateOK("handshake", seeder.channelDeposit)
      BY <1>2, <2>3 DEF SeederOK, RpcOK, StateOK
    <3> QED
      BY <1>2, <2>1, <2>3, <3>1, SeederStateChange DEF SessionState
  <2>4. CASE r.session = WithState(seeder, "closed")
    <3>1. RpcOK("closed", seederRpc) /\ StateOK("closed", seeder.channelDeposit)
      BY <1>2 DEF SeederOK, RpcOK, StateOK
    <3> QED
      BY <1>2, <2>1, <2>4, <3>1, SeederStateChange DEF SessionState
  <2>5. CASE /\ m.type = "payment_check" /\ valid
             /\ ~(m.amount > seeder.channelDeposit)
             /\ r.session = [seeder EXCEPT !.highestCheck = CheckOf(m)]
    <3> DEFINE c == CheckOf(m)
    <3>1. SignedBy(c) = SignedBy(m) /\ c.amount = m.amount
      BY DEF SignedBy, CheckOf
    <3>2. SignedBy(c) \in signed /\ ~(c.amount > seeder.channelDeposit)
      BY <1>1, <2>5, <3>1
    <3>3. c = [channelId |-> c.channelId, amount |-> c.amount, nonce |-> c.nonce]
      BY DEF CheckOf
    <3>4. r.session = [seeder EXCEPT !.highestCheck = c]
      BY <2>5
    <3> HIDE DEF c
    <3>5. SeederOK(r.session, seederRpc)
      BY <1>2, <3>2, <3>3, <3>4, AcceptedCheckOK
    <3> QED
      BY <2>1, <3>5
  <2> QED
    BY <1>3, <1>6, <2>2, <2>3, <2>4, <2>5
<1>7. CASE /\ seeder.state = "handshake"
           /\ r.session = WithState(seeder, "channel_pending")
           /\ r.action.action = "verify_channel"
  <2>1. seederRpc' = [call |-> "verify"] /\ seeder' = r.session
    BY <1>5, <1>7 DEF StartRpc
  <2>2. /\ RpcOK("channel_pending", seederRpc')
        /\ StateOK("channel_pending", seeder.channelDeposit)
    BY <1>2, <1>7, <2>1 DEF SeederOK, RpcOK, StateOK, SeederRpcs
  <2> QED
    BY <1>2, <1>7, <2>1, <2>2, SeederStateChange DEF SessionState
<1> QED
  BY <1>3, <1>4, <1>6, <1>7

(* The read saw the channel; when it is answered the channel is still there  *)
(* unless its timeout has passed.                                            *)
LEMMA VerifyOK ==
  ASSUME ChannelInv, SeederInv, VerifyReads \/ VerifyFails
  PROVE  SeederOK(seeder', seederRpc')
<1>1. PICK valid \in BOOLEAN, deposited \in {0, TheChannel.deposited} :
        /\ valid => Open /\ deposited = TheChannel.deposited
        /\ ~valid => deposited = 0
        /\ VerifyReturns(valid, deposited)
  BY DEF VerifyReads, VerifyFails, Seeder
<1>2. /\ seederRpc.call = "verify" /\ seeder' = seeder
      /\ seederRpc' = [call |-> "verified", valid |-> valid, deposited |-> deposited]
  BY <1>1 DEF VerifyReturns
<1>3. valid => Funded /\ deposited = Deposit
  BY <1>1, OpenIsOpen DEF Funded, IsOpen
<1>4. deposited \in Nat
  BY <1>1, <1>3
<1>5. RpcOK(seeder.state, seederRpc')
  BY <1>2, <1>3, <1>4 DEF RpcOK, SeederRpcs, SeederInv, SeederOK
<1> QED
  BY <1>2, <1>5 DEF SeederInv, SeederOK

LEMMA VerifyResolvesOK ==
  ASSUME SeederInv, VerifyResolves
  PROVE  SeederOK(seeder', seederRpc')
<1> DEFINE known == [seeder EXCEPT !.channelDeposit = seederRpc.deposited]
<1>0. SeederOK(seeder, seederRpc) /\ seederRpc.call = "verified" /\ seederRpc' = NoRpc
  BY DEF SeederInv, VerifyResolves
<1>1. \A state, deposit :
        StateOK(state, deposit) => RpcOK(state, NoRpc)
  BY DEF RpcOK, NoRpc, SeederRpcs
<1>2. \/ ~seederRpc.valid /\ seeder' = WithState(seeder, "closed")
      \/ seeder' = seeder
      \/ /\ seederRpc.valid
         /\ seeder' = WithState(known, "closed") \/ seeder' = WithState(known, "active")
  BY DEF VerifyResolves, ConfirmChannel, RejectChannel, InState, Returns, WithState
<1>3. CASE ~seederRpc.valid /\ seeder' = WithState(seeder, "closed")
  <2>1. StateOK("closed", seeder.channelDeposit)
    BY DEF StateOK
  <2> QED
    BY <1>0, <1>1, <1>3, <2>1, SeederStateChange DEF SessionState
<1>4. CASE seeder' = seeder
  BY <1>0, <1>1, <1>4 DEF SeederOK
<1>5. CASE seederRpc.valid
           /\ (seeder' = WithState(known, "closed") \/ seeder' = WithState(known, "active"))
  <2>1. seederRpc.deposited = Deposit /\ Funded
    BY <1>0, <1>5 DEF SeederOK, RpcOK
  <2>2. /\ known \in SeederSessions /\ known.channelDeposit = Deposit
        /\ known.state = seeder.state /\ known.highestCheck = seeder.highestCheck
    BY <1>0, <2>1 DEF SeederOK, SeederSessions
  <2>3. seeder.channelDeposit <= Deposit
    BY <1>0 DEF SeederOK
  <2> HIDE DEF known
  <2>4. CheckOK(known)
    BY <1>0, <2>2, <2>3 DEF SeederOK, CheckOK, SeederSessions, PaymentCheck
  <2>5. SeederOK(known, seederRpc)
    BY <1>0, <2>1, <2>2, <2>4 DEF SeederOK, RpcOK, StateOK
  <2>6. StateOK("closed", Deposit) /\ StateOK("active", Deposit)
    BY <2>1 DEF StateOK, Funded, IsOpen, SettledBy
  <2> QED
    BY <1>0, <1>1, <1>5, <2>2, <2>5, <2>6, SeederStateChange DEF SessionState
<1> QED
  BY <1>2, <1>3, <1>4, <1>5

LEMMA UploadOK ==
  ASSUME SeederInv, Upload
  PROVE  SeederOK(seeder', seederRpc')
<1> DEFINE counted == [seeder EXCEPT !.accounting = RecordBytes(@, PieceBytes)]
<1>1. SeederOK(seeder, seederRpc) /\ seederRpc' = seederRpc
  BY DEF SeederInv, Upload
<1>2. seeder' = seeder \/ seeder' = counted
  BY DEF Upload, SeederOnPieceRequested, InState, Returns
<1>3. /\ counted \in SeederSessions /\ counted.state = seeder.state
      /\ counted.highestCheck = seeder.highestCheck
      /\ counted.channelDeposit = seeder.channelDeposit
  BY <1>1 DEF SeederOK, SeederSessions, PieceAccounting, RecordBytes
<1> HIDE DEF counted
<1>4. SeederOK(counted, seederRpc)
  BY <1>1, <1>3 DEF SeederOK, CheckOK
<1> QED
  BY <1>1, <1>2, <1>4

(* Closing the wire, SIGINT and the death of the process. *)
LEMMA EndsOK ==
  ASSUME SignedInv, SeederInv,
         SeederDisconnects \/ Shutdown \/ ShutdownEnds \/ Crash
  PROVE  SeederOK(seeder', seederRpc')
<1>1. SeederOK(seeder, seederRpc)
  BY DEF SeederInv
<1>2. CASE SeederCloses(seeder)
  BY <1>1, <1>2, DisconnectOK DEF SeederCloses
<1>3. CASE SeederDisconnects \/ ShutdownEnds
  <2>1. SeederCloses(seeder) \/ (seeder' = seeder /\ seederRpc' = seederRpc)
    BY <1>3 DEF SeederDisconnects, ShutdownEnds
  <2> QED
    BY <1>1, <1>2, <2>1
<1>4. CASE Shutdown
  <2>1. \/ seeder' = SeederOnDisconnect(seeder).session
           /\ StartRpc(SeederOnDisconnect(seeder))
        \/ seeder' = seeder /\ seederRpc' = seederRpc
    BY <1>4 DEF Shutdown
  <2> QED
    BY <1>1, <2>1, DisconnectOK
<1>5. CASE Crash
  <2> DEFINE t == [NewSeederSession EXCEPT !.state = "closed"]
  <2>1. seeder' = t /\ seederRpc' = seederRpc
    BY <1>5 DEF Crash
  <2>2. /\ t \in SeederSessions /\ t.state = "closed"
        /\ t.highestCheck = NoCheck /\ t.channelDeposit = 0
    BY DEF NewSeederSession, SeederSessions, NewAccounting, PieceAccounting,
           SessionState, NoCheck
  <2> HIDE DEF t
  <2>3. RpcOK("closed", seederRpc) /\ StateOK("closed", 0)
    BY <1>1 DEF SeederOK, RpcOK, StateOK
  <2>4. CheckOK(t)
    BY <2>2 DEF CheckOK
  <2> QED
    BY <2>1, <2>2, <2>3, <2>4 DEF SeederOK
<1> QED
  BY <1>3, <1>4, <1>5

LEMMA ClaimReturnsOK ==
  ASSUME SeederInv, ClaimReturns
  PROVE  /\ SeederOK(seeder', seederRpc') /\ seederRpc' = NoRpc
         /\ seeder' = seeder /\ seeder.state \in {"closing", "closed"}
  BY DEF SeederInv, SeederOK, ClaimReturns, RpcOK, NoRpc, SeederRpcs
-----------------------------------------------------------------------------
(* --- every step keeps the invariant --- *)

(* More signed checks and a channel that stays funded change nothing for the *)
(* seeder.                                                                   *)
LEMMA SeederFrame ==
  ASSUME SeederOK(seeder', seederRpc'), signed \subseteq signed',
         Funded => Funded',
         SettledBy("ChannelClosed")' => SettledBy("ChannelClosed")
  PROVE  SeederInv'
  BY DEF SeederInv, SeederOK, CheckOK, RpcOK, StateOK, SignedBy

LEMMA PaidFrame ==
  ASSUME LeecherInv, ChannelInv, PaidInv, log' = log,
         received' \in Nat, received' >= received
  PROVE  PaidInv'
<1> SUFFICES ASSUME SettledBy("ChannelClosed")'
             PROVE  (log[TheKey][2].earned <= Cost(received * PieceBytes))'
  BY DEF PaidInv
<1>1. /\ Len(log[TheKey]) = 2 /\ log[TheKey][2].type = "ChannelClosed"
      /\ log'[TheKey] = log[TheKey]
  BY DEF SettledBy, TheKey
<1>2. log[TheKey] \in Seq(Chain!Event)
  BY DEF ChannelInv
<1>3. SettledBy("ChannelClosed")
  BY <1>1 DEF ChannelInv, NotOpened, IsOpen, SettledBy
<1>4. log[TheKey][2] \in Chain!Event
  BY <1>1, <1>2
<1>5. log[TheKey][2].earned \in Nat
  BY <1>1, <1>4 DEF Chain!Event, Chain!OpenedEvent, Chain!ClosedEvent, Chain!TimedOutEvent
<1> DEFINE paid == received * PieceBytes
           paid1 == received' * PieceBytes
<1>6. paid \in Nat /\ paid1 \in Nat /\ paid <= paid1
  BY Product DEF LeecherInv
<1>7. log[TheKey][2].earned <= Cost(paid)
  BY <1>3 DEF PaidInv
<1> HIDE DEF paid, paid1
<1>8. Cost(paid) \in Nat /\ Cost(paid1) \in Nat /\ Cost(paid) <= Cost(paid1)
  BY <1>6, CostMonotone
<1>9. log[TheKey][2].earned <= Cost(paid1)
  BY <1>5, <1>7, <1>8
<1> QED
  BY <1>1, <1>9 DEF paid1, TheKey

LEMMA LeecherStepInv ==
  ASSUME Inv, NEW step, step => LeecherMoves, Leecher(step)
  PROVE  Inv'
<1> USE DEF Inv
<1>1. LeecherKeeps
  BY LeecherMovesKeep DEF Leecher
<1>2. SignedInv' /\ signed \subseteq signed'
  BY <1>1, SignedKeeps
<1>3. UNCHANGED <<seeder, seederRpc, channel, escrow, log>> /\ now' = now
  BY DEF Leecher, seederVars
<1>4. /\ ChannelInv' /\ IsOpen' = IsOpen
      /\ SettledBy("ChannelClosed")' = SettledBy("ChannelClosed")
      /\ SettledBy("ChannelTimedOut")' = SettledBy("ChannelTimedOut")
  BY <1>3, ChainUnchanged
<1>5. SeederInv'
  BY <1>2, <1>3, <1>4, SeederFrame DEF SeederInv, Funded
<1>6. PaidInv'
  BY <1>1, <1>3, PaidFrame DEF LeecherKeeps, LeecherInv
<1> QED
  BY <1>1, <1>2, <1>4, <1>5, <1>6 DEF LeecherKeeps

(* A step that leaves the leecher and the chain alone. *)
LEMMA SeederStepInv ==
  ASSUME Inv, UNCHANGED <<leecherVars, chainVars>>, SeederOK(seeder', seederRpc')
  PROVE  Inv'
<1> USE DEF Inv
<1>1. /\ leecher' = leecher /\ received' = received /\ signed' = signed
      /\ UNCHANGED <<channel, escrow, log>> /\ now' = now
  BY DEF leecherVars, chainVars
<1>2. LeecherInv' /\ SignedInv'
  BY <1>1 DEF LeecherInv, SignedInv
<1>3. /\ ChannelInv' /\ IsOpen' = IsOpen
      /\ SettledBy("ChannelClosed")' = SettledBy("ChannelClosed")
      /\ SettledBy("ChannelTimedOut")' = SettledBy("ChannelTimedOut")
  BY <1>1, ChainUnchanged
<1>4. SeederInv'
  BY <1>1, <1>3, SeederFrame DEF Funded
<1>5. PaidInv'
  BY <1>1, PaidFrame DEF LeecherInv
<1> QED
  BY <1>2, <1>3, <1>4, <1>5

LEMMA ClaimLandsInv ==
  ASSUME Inv, ClaimLands
  PROVE  Inv'
<1> USE DEF Inv
<1> DEFINE check == seederRpc.check
           ch == TheChannel
           refund == ch.deposited - check.amount
           e == [type |-> "ChannelClosed", earned |-> check.amount,
                 refunded |-> refund, nonce |-> check.nonce]
<1>1. /\ ClaimReturns /\ SignedBy(check) \in signed
      /\ UNCHANGED leecherVars
      /\ Open /\ Chain!WithinDeposit(ch, check.amount)
      /\ Chain!CloseAccounts(TheKey)
      /\ Chain!Emit(TheKey, e)
      /\ signed' = signed /\ now' = now
  BY DEF ClaimLands, Claimable, Chain!CloseChannel, Chain!MayClose, Chain!Live, Open,
         TheChannel
<1>2. /\ SeederOK(seeder', seederRpc') /\ seederRpc' = NoRpc
      /\ seeder' = seeder /\ seeder.state \in {"closing", "closed"}
  BY <1>1, ClaimReturnsOK
<1>3. leecher' = leecher /\ received' = received
  BY <1>1 DEF leecherVars
<1>4. LeecherInv' /\ SignedInv'
  BY <1>1, <1>3 DEF LeecherInv, SignedInv
<1>5. /\ SignedBy(check).check.amount = check.amount
      /\ SignedBy(check).check.nonce = check.nonce
  BY DEF SignedBy
<1>6. /\ check.amount \in Nat /\ check.nonce \in Nat
      /\ check.amount <= Cost(leecher.accounting.totalBytes)
  <2>1. /\ SignedBy(check).check.amount \in Nat /\ SignedBy(check).check.nonce \in Nat
        /\ SignedBy(check).check.amount <= Cost(leecher.accounting.totalBytes)
    BY <1>1 DEF SignedInv
  <2> HIDE DEF check
  <2> QED
    BY <1>5, <2>1
<1>7. IsOpen /\ ch.deposited = Deposit
  BY <1>1, OpenIsOpen DEF IsOpen
<1>8. refund \in Nat
  BY <1>1, <1>6, <1>7 DEF Chain!WithinDeposit
<1>9. e \in Chain!Event /\ e.type = "ChannelClosed" /\ e.earned = check.amount
  BY <1>6, <1>8 DEF Chain!Event, Chain!ClosedEvent
<1> HIDE DEF e, check
<1>10. ChannelInv' /\ SettledBy("ChannelClosed")' /\ log'[TheKey][2] = e
  BY <1>1, <1>9, SettlementInv
<1>11. SeederInv'
  BY <1>1, <1>2 DEF SeederInv, SeederOK, CheckOK, RpcOK, StateOK, SignedBy, NoRpc
<1>12. PaidInv'
  <2> DEFINE total == leecher.accounting.totalBytes
             paid == received * PieceBytes
  <2>1. total \in Nat /\ paid \in Nat /\ total <= paid
    BY LeecherTypes, Product DEF LeecherInv
  <2>2. check.amount <= Cost(total)
    BY <1>6
  <2> HIDE DEF total, paid
  <2>3. check.amount <= Cost(paid)
    BY <1>6, <2>1, <2>2, CostMonotone
  <2> QED
    BY <1>3, <1>9, <1>10, <2>3 DEF PaidInv, paid, TheKey
<1> QED
  BY <1>4, <1>10, <1>11, <1>12

(* The leecher's own transactions and the clock. *)
LEMMA ChainStepInv ==
  ASSUME Inv, OpenLands \/ OpenFails \/ Recover \/ Tick
  PROVE  Inv'
<1> USE DEF Inv
<1>1. /\ leecher' = leecher /\ received' = received
      /\ signed' = signed /\ seeder' = seeder /\ seederRpc' = seederRpc
  BY DEF OpenLands, OpenFails, OpenThrows, Recover, Tick,
     Chain!OpenChannel, Chain!MayOpen,
         Chain!TimeoutClose, Chain!Tick, leecherVars, seederVars, chainVars
<1>2. LeecherInv' /\ SignedInv' /\ SeederOK(seeder', seederRpc')
  BY <1>1 DEF LeecherInv, SignedInv, SeederInv
<1>3. CASE OpenLands
  <2>1. ChannelInv' /\ IsOpen' /\ NotOpened
    BY <1>3, OpenLandsInv
  <2>2. ~SettledBy("ChannelClosed")' /\ Funded'
    BY <2>1 DEF IsOpen, SettledBy, Funded
  <2> QED
    BY <1>1, <1>2, <2>1, <2>2, SeederFrame DEF PaidInv
<1>4. CASE Recover
  <2>1. ChannelInv' /\ SettledBy("ChannelTimedOut")'
    BY <1>4, RecoverInv
  <2>2. ~SettledBy("ChannelClosed")' /\ Funded'
    BY <2>1 DEF SettledBy, Funded
  <2> QED
    BY <1>1, <1>2, <2>1, <2>2, SeederFrame DEF PaidInv
<1>5. CASE OpenFails \/ Tick
  <2>1. UNCHANGED <<channel, escrow, log>> /\ (now' = now \/ now' = now + 1)
    BY <1>5 DEF OpenFails, Tick, Chain!Tick, chainVars
  <2>2. /\ ChannelInv' /\ IsOpen' = IsOpen
        /\ SettledBy("ChannelClosed")' = SettledBy("ChannelClosed")
        /\ SettledBy("ChannelTimedOut")' = SettledBy("ChannelTimedOut")
    BY <2>1, ChainUnchanged
  <2>3. SeederInv'
    BY <1>1, <1>2, <2>2, SeederFrame DEF Funded
  <2>4. PaidInv'
    BY <1>1, <2>1, PaidFrame DEF LeecherInv
  <2> QED
    BY <1>2, <2>2, <2>3, <2>4
<1> QED
  BY <1>3, <1>4, <1>5

LEMMA InitInv == Init => Inv
<1> SUFFICES ASSUME Init PROVE Inv
  OBVIOUS
<1> USE DEF Init
<1>1. /\ leecher = NewLeecherSession /\ received = 0
      /\ seeder = NewSeederSession /\ seederRpc = NoRpc
  BY DEF LeecherInit, SeederInit
<1>2. /\ channel = [k \in {TheKey} |-> NoAccount]
      /\ escrow = [k \in {TheKey} |-> NoAccount]
      /\ log = [k \in {TheKey} |-> <<>>]
      /\ now = 0 /\ signed = {}
  BY DEF Chain!Init
<1>3. LeecherInv
  <2>1. /\ leecher \in LeecherSessions /\ leecher.state = "idle"
        /\ leecher.accounting = NewAccounting
    BY <1>1 DEF NewLeecherSession, LeecherSessions, SessionState, NewAccounting,
                PieceAccounting
  <2>2. LeecherOK(leecher)
    BY <2>1, CostOfNothing DEF LeecherOK, NewAccounting
  <2>3. received * PieceBytes = 0
    BY <1>1
  <2> QED
    BY <1>1, <2>1, <2>2, <2>3 DEF LeecherInv, NewAccounting
<1>4. SignedInv
  BY <1>2 DEF SignedInv
<1>5. NotOpened /\ log[TheKey] = <<>>
  BY <1>2 DEF NotOpened, Open, TheChannel
<1>6. ChannelInv
  BY <1>2, <1>5 DEF ChannelInv, NotOpened
<1>7. ~SettledBy("ChannelClosed")
  BY <1>5 DEF SettledBy
<1>8. SeederInv
  BY <1>1, <1>7 DEF SeederInv, SeederOK, CheckOK, RpcOK, StateOK, NewSeederSession,
                    SeederSessions, NewAccounting, PieceAccounting, SessionState,
                    NoCheck, NoRpc, SeederRpcs
<1> QED
  BY <1>3, <1>4, <1>6, <1>7, <1>8 DEF Inv, PaidInv

LEMMA NextInv == Inv /\ [Next]_vars => Inv'
<1> SUFFICES ASSUME Inv, [Next]_vars PROVE Inv'
  OBVIOUS
<1>0. LeecherInv /\ SignedInv /\ ChannelInv /\ SeederInv
  BY DEF Inv
<1>1. CASE LeecherStep
  <2>1. CASE OpenLands
    BY <2>1, ChainStepInv
  <2>2. CASE Leecher(LeecherHandshake)
    BY <2>2, LeecherStepInv DEF LeecherMoves
  <2>3. CASE LeecherMessage
    BY <2>3, LeecherStepInv DEF LeecherMoves, LeecherMessage
  <2>4. CASE Leecher(OpenResolves)
    BY <2>4, LeecherStepInv DEF LeecherMoves
  <2>5. CASE Leecher(LeecherDone)
    BY <2>5, LeecherStepInv DEF LeecherMoves
  <2>6. CASE LeecherWireCloses
    BY <2>6, LeecherStepInv DEF LeecherMoves, LeecherWireCloses
  <2> QED
    BY <1>1, <2>1, <2>2, <2>3, <2>4, <2>5, <2>6 DEF LeecherStep
<1>2. CASE SeederMessage
  <2>1. UNCHANGED <<leecherVars, chainVars>>
    BY <1>2 DEF SeederMessage, Seeder
  <2> QED
    BY <1>0, <1>2, <2>1, ReceivesOK, SeederStepInv
<1>3. CASE VerifyReads \/ VerifyFails
  <2>1. UNCHANGED <<leecherVars, chainVars>>
    BY <1>3 DEF VerifyReads, VerifyFails, Seeder
  <2> QED
    BY <1>0, <1>3, <2>1, VerifyOK, SeederStepInv
<1>4. CASE Seeder(VerifyResolves)
  BY <1>0, <1>4, VerifyResolvesOK, SeederStepInv DEF Seeder
<1>5. CASE Seeder(Upload)
  BY <1>0, <1>5, UploadOK, SeederStepInv DEF Seeder
<1>6. CASE \/ SeederWireCloses \/ Seeder(ShutdownEnds) \/ Seeder(SeederDisconnects)
           \/ Seeder(Shutdown) \/ Seeder(Crash)
  <2>1. /\ UNCHANGED <<leecherVars, chainVars>>
        /\ SeederDisconnects \/ Shutdown \/ ShutdownEnds \/ Crash
    BY <1>6 DEF SeederWireCloses, Seeder
  <2> QED
    BY <1>0, <2>1, EndsOK, SeederStepInv
<1>7. CASE ClaimLands
  BY <1>7, ClaimLandsInv
<1>8. CASE ClaimFails
  <2>1. UNCHANGED <<leecherVars, chainVars>> /\ ClaimReturns
    BY <1>8 DEF ClaimFails
  <2> QED
    BY <1>0, <2>1, ClaimReturnsOK, SeederStepInv
<1>9. CASE OpenFails \/ Recover \/ Tick
  BY <1>9, ChainStepInv
<1>10. CASE Leecher(LeecherDisconnects)
  BY <1>10, LeecherStepInv DEF LeecherMoves
<1>11. CASE UNCHANGED vars
  <2>1. UNCHANGED <<leecherVars, chainVars>> /\ seeder' = seeder /\ seederRpc' = seederRpc
    BY <1>11 DEF vars, seederVars
  <2> QED
    BY <1>0, <2>1, SeederStepInv DEF SeederInv
<1>12. CASE SeederStep
  BY <1>12, <1>2, <1>3, <1>4, <1>5, <1>6, <1>7 DEF SeederStep
<1>13. CASE NetworkBreaks
  BY <1>13, <1>6, <1>10 DEF NetworkBreaks
<1> QED
  BY <1>1, <1>3, <1>6, <1>8, <1>9, <1>11, <1>12, <1>13 DEF Next

(* The inductive invariant holds in every state of every behaviour. *)
THEOREM Invariance == Spec => []Inv
<1> QED
  BY InitInv, NextInv, PTL DEF Spec
-----------------------------------------------------------------------------
(* --- what follows --- *)

(* While a leecher's session is active it owes less than the cost of one     *)
(* check interval, whatever the price, the piece size and the messages that  *)
(* made it active: onPieceReceived and onPaymentCheckRequired pay in time.   *)
THEOREM BoundedDebt == Spec => []DebtIsBounded
<1>1. Inv => DebtIsBounded
  BY DEF Inv, LeecherInv, LeecherOK, Owes, DebtIsBounded, Interval
<1> QED
  BY <1>1, Invariance, PTL

(* From a leecher that follows the protocol, close_channel takes the highest *)
(* check onPaymentCheck accepted as long as the channel is open: its         *)
(* signature is for the id of the session, it is within the deposit on the   *)
(* chain and newer than the channel, and the escrow holds what is paid out.  *)
THEOREM ClaimableChecks == Spec => []AcceptedChecksAreClaimable
<1>1. ASSUME Inv, seeder.highestCheck # NoCheck, Open
      PROVE  Claimable(seeder.highestCheck)
  <2> DEFINE c == seeder.highestCheck
  <2>1. /\ SignedInv /\ SeederOK(seeder, seederRpc) /\ IsOpen
    BY <1>1, OpenIsOpen DEF Inv, SeederInv
  <2>2. SignedBy(c) \in signed /\ c.amount <= seeder.channelDeposit
    BY <1>1, <2>1 DEF SeederOK, CheckOK
  <2>3. c \in PaymentCheck /\ c.channelId = Id
    BY <1>1, <2>1, HighestCheckType
  <2>4. seeder.channelDeposit <= Deposit /\ seeder.channelDeposit \in Nat
    BY <2>1 DEF SeederOK
  <2>5. SignedBy(c).check.nonce \in Nat \ {0} /\ SignedBy(c).check.nonce = c.nonce
    BY <2>1, <2>2 DEF SignedInv, SignedBy
  <2>6. /\ channel[TheKey].deposited = Deposit /\ channel[TheKey].last_nonce = 0
        /\ channel[TheKey].status = "Open" /\ channel[TheKey] # NoAccount
        /\ escrow[TheKey] = Deposit
    BY <2>1 DEF IsOpen, Open, TheChannel
  <2> HIDE DEF c
  <2>7. c.amount <= Deposit /\ c.nonce > 0
    BY <2>2, <2>3, <2>4, <2>5 DEF PaymentCheck
  <2>8. Chain!VerifyEd25519Signature(ClaimProof(c), TheKey.leecher, TheKey.id,
                                     c.amount, c.nonce)
    BY DEF Chain!VerifyEd25519Signature, ClaimProof, TheKey
  <2>9. Chain!IsEmptied(TheKey, channel[TheKey].deposited)
    BY <2>6 DEF Chain!IsEmptied
  <2>10. TheKey.seeder = SeederWallet
    BY DEF TheKey
  <2>11. Chain!MayClose(TheKey, SeederWallet, c.amount, c.nonce, ClaimProof(c))
    BY <2>6, <2>7, <2>8, <2>9, <2>10 DEF Chain!MayClose, Chain!Live, Chain!WithinDeposit
  <2> QED
    BY <2>2, <2>3, <2>11 DEF Claimable, c
<1>2. Inv => AcceptedChecksAreClaimable
  BY <1>1 DEF AcceptedChecksAreClaimable
<1> QED
  BY <1>2, Invariance, PTL

(* A seeder serves only against a deposit that is on the chain, although     *)
(* verifyChannel's answer is used after an await: only a passed timeout can  *)
(* have taken the channel away.                                              *)
THEOREM FundedService == Spec => []ActiveIsFunded
<1>1. Inv => ActiveIsFunded
  BY DEF Inv, SeederInv, SeederOK, StateOK, Funded, IsOpen, SettledBy, ActiveIsFunded
<1> QED
  BY <1>1, Invariance, PTL

(* No settlement takes more from the leecher than the price of the pieces it *)
(* has received, whatever the order in which pieces, demands, checks and the *)
(* claim cross.                                                              *)
THEOREM NoOverpayment == Spec => []LeecherNeverOverpays
<1>1. ASSUME Inv, NEW earned \in Earned
      PROVE  earned <= Cost(received * PieceBytes)
  <2>1. PICK i \in DOMAIN log[TheKey] :
          log[TheKey][i].type = "ChannelClosed" /\ earned = log[TheKey][i].earned
    BY <1>1 DEF Earned
  <2>2. /\ log[TheKey] \in Seq(Chain!Event)
        /\ Len(log[TheKey]) > 0 => log[TheKey][1].type = "ChannelOpened"
        /\ Len(log[TheKey]) \in {0, 1, 2}
    BY <1>1 DEF Inv, ChannelInv, NotOpened, IsOpen, SettledBy
  <2>3. i \in 1 .. Len(log[TheKey])
    BY <2>1, <2>2
  <2>4. i = 2 /\ Len(log[TheKey]) = 2
    BY <2>1, <2>2, <2>3
  <2>5. SettledBy("ChannelClosed")
    BY <1>1, <2>1, <2>4 DEF Inv, ChannelInv, NotOpened, IsOpen, SettledBy
  <2> QED
    BY <1>1, <2>1, <2>4, <2>5 DEF Inv, PaidInv
<1>2. Inv => LeecherNeverOverpays
  BY <1>1 DEF LeecherNeverOverpays
<1> QED
  BY <1>2, Invariance, PTL
=============================================================================
