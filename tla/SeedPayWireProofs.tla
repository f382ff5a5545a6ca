-------------------------- MODULE SeedPayWireProofs --------------------------
(* Theorems about the messages of SeedPaySystem: what may be in flight in    *)
(* which states of the two sessions, that no crossing of messages ends in a  *)
(* protocol error or in a refused check, and that the two counts of one      *)
(* transfer agree.  As in SeedPaySystemProofs the theorems hold for every    *)
(* value of the constants and with every fault.                              *)
EXTENDS SeedPaySystemProofs, FiniteSetTheorems, SequenceTheorems

USE AccountingAssumption, DepositAssumption, MinDepositAssumption, WireAssumption,
    ChainAssumption, IdAssumption
-----------------------------------------------------------------------------
(* --- what a leecher may find in its queue --- *)

(* The messages to a leecher that only one state of its session takes. *)
Control == {"ecdh_init", "channel_confirmed", "payment_check_required"}

Quiet(q) == \A i \in 1 .. Len(q) : q[i].type \notin Control

(* The seeder's half of the key exchange is on its way. *)
Initiating(q) ==
  \E i \in 1 .. Len(q) :
    /\ q[i].type = "ecdh_init"
    /\ \A j \in 1 .. Len(q) \ {i} : q[j].type \notin Control

(* No message to an active leecher starts or confirms a channel. *)
Serving(q) ==
  \A i \in 1 .. Len(q) : q[i].type \notin {"ecdh_init", "channel_confirmed"}

(* The confirmation is on its way, and demands for payment only behind it. *)
Confirming(q) ==
  \E i \in 1 .. Len(q) :
    /\ q[i].type = "channel_confirmed"
    /\ \A j \in 1 .. i - 1 : q[j].type \notin Control
    /\ \A j \in i + 1 .. Len(q) : q[j].type \notin {"ecdh_init", "channel_confirmed"}

Awaits(state, q) ==
  \/ state = "idle" /\ Quiet(q)
  \/ state = "handshake" /\ (Quiet(q) \/ Initiating(q))
  \/ state = "channel_pending" /\ (Quiet(q) \/ Confirming(q))
  \/ state = "active" /\ Serving(q)
  \/ state = "closed"

(* --- what a seeder may find in its queue --- *)
Only(q, type) == Len(q) = 1 /\ q[1].type = type

Expects(state, q) ==
  \/ state = "idle" /\ (q = <<>> \/ Only(q, "ecdh_init"))
  \/ state = "handshake" /\ (q = <<>> \/ Only(q, "channel_opened"))
  \/ state \in {"channel_pending", "closed"} /\ q = <<>>
  \/ state = "active" /\ \A i \in 1 .. Len(q) : q[i].type = "payment_check"

(* --- how far two live sessions can be apart --- *)
(* s, l: the states of seeder and leecher; toS, toL: what is on its way.     *)
Together(l, rpc, toL, s, toS) ==
  \/ l = "idle" /\ rpc = "none" /\ s = "idle" /\ toS = <<>>
  \/ /\ l = "handshake" /\ rpc = "none"
     /\ \/ s = "idle" /\ Only(toS, "ecdh_init") /\ Quiet(toL)
        \/ s = "handshake" /\ toS = <<>>
  \/ l = "channel_pending" /\ rpc # "none" /\ s = "handshake" /\ toS = <<>> /\ Quiet(toL)
  \/ /\ l = "channel_pending" /\ rpc = "none"
     /\ \/ s = "handshake" /\ Only(toS, "channel_opened") /\ Quiet(toL)
        \/ s \in {"channel_pending", "closed"} /\ Quiet(toL)
        \/ s = "active" /\ toS = <<>> /\ Confirming(toL)
  \/ l = "active" /\ rpc = "none" /\ s = "active"

(* A leecher's session is closed when its wire is, or when it is done; a     *)
(* seeder that shuts down has closed its session before its wire.            *)
LeecherLive == leecher.state # "closed"
SeederServes == seederUp /\ (quitting = "no" \/ seeder.state \notin {"closing", "closed"})

PhaseInv ==
  /\ LeecherLive <=> leecherUp /\ ~done
  /\ Awaits(leecher.state, toLeecher)
  /\ SeederServes => Expects(seeder.state, toSeeder)
  /\ (LeecherLive /\ SeederServes) =>
       Together(leecher.state, openRpc, toLeecher, seeder.state, toSeeder)

(* --- payment checks in flight --- *)
Checks(q) == {i \in 1 .. Len(q) : q[i].type = "payment_check"}

(* The checks in flight are newer than the best one that was accepted, in    *)
(* the order of their nonces, and no amount decreases up to the last check   *)
(* the leecher has made.                                                     *)
InOrder(q, best, nonce, amount) ==
  /\ best.nonce <= nonce /\ best.amount <= amount
  /\ \A i \in Checks(q) :
       /\ q[i].nonce \in Nat /\ q[i].amount \in Nat
       /\ best.nonce < q[i].nonce /\ q[i].nonce <= nonce
       /\ best.amount <= q[i].amount /\ q[i].amount <= amount
       /\ \A j \in Checks(q) :
            i < j => q[i].nonce < q[j].nonce /\ q[i].amount <= q[j].amount

CheckInv ==
  /\ InOrder(toSeeder, seeder.highestCheck, leecher.accounting.lastNonce,
             leecher.accounting.lastCheckAmount)
  /\ \A i \in Checks(toSeeder) : SignedBy(toSeeder[i]) \in signed

(* --- types --- *)
QueueInv ==
  /\ toSeeder \in Seq(SeedPayMessage)
  /\ \A i \in 1 .. Len(toSeeder) : toSeeder[i].type # "channel_closed"
  /\ toLeecher \in Seq(SeedPayMessage \cup [type : {"piece"}])
  /\ \A i \in 1 .. Len(toLeecher) :
       /\ toLeecher[i].type # "channel_closed"
       /\ toLeecher[i].type = "payment_check_rejected" =>
            toLeecher[i].reason = "Amount exceeds deposit"
  /\ leecherUp \in BOOLEAN /\ seederUp \in BOOLEAN
  /\ openRpc \in {"none", "sent", "landed", "failed"}
  /\ done \in BOOLEAN /\ seederAlive \in BOOLEAN
  /\ quitting \in {"no", "awaitingClaim", "ending"}

WireInv == QueueInv /\ PhaseInv /\ CheckInv
-----------------------------------------------------------------------------
(* --- queues that lose their head or get a new last element --- *)

Shorter(q, r) ==
  /\ Len(q) \in Nat \ {0} /\ Len(r) = Len(q) - 1
  /\ \A i \in 1 .. Len(r) : r[i] = q[i + 1]

Longer(q, r, m) ==
  /\ Len(q) \in Nat /\ Len(r) = Len(q) + 1
  /\ \A i \in 1 .. Len(q) : r[i] = q[i]
  /\ r[Len(q) + 1] = m

LEMMA TailIsShorter ==
  ASSUME NEW M, NEW q \in Seq(M), q # <<>>
  PROVE  /\ Shorter(q, Tail(q)) /\ Tail(q) \in Seq(M)
         /\ Head(q) = q[1] /\ q[1] \in M
  BY DEF Shorter

LEMMA SnocIsLonger ==
  ASSUME NEW M, NEW q \in Seq(M), NEW m \in M
  PROVE  Longer(q, q \o <<m>>, m) /\ q \o <<m>> \in Seq(M)
  BY DEF Longer

LEMMA LongerElements ==
  ASSUME NEW q, NEW r, NEW m, Longer(q, r, m)
  PROVE  \A i \in 1 .. Len(r) : (i \in 1 .. Len(q) /\ r[i] = q[i]) \/ r[i] = m
  BY DEF Longer

LEMMA TwoAtOnce ==
  ASSUME NEW M, NEW q \in Seq(M), NEW a \in M, NEW b \in M
  PROVE  q \o <<a, b>> = (q \o <<a>>) \o <<b>>
<1> DEFINE two == <<a>> \o <<b>>
<1>1. /\ <<a>> \in Seq(M) /\ <<b>> \in Seq(M) /\ <<a, b>> \in Seq(M) /\ two \in Seq(M)
      /\ Len(two) = 2 /\ two[1] = a /\ two[2] = b
  OBVIOUS
<1> HIDE DEF two
<1>2. \A i \in 1 .. 2 : two[i] = <<a, b>>[i]
  BY <1>1
<1>3. two = <<a, b>>
  BY <1>1, <1>2, SeqEqual
<1>4. (q \o <<a>>) \o <<b>> = q \o two
  BY <1>1, ConcatAssociative DEF two
<1> QED
  BY <1>3, <1>4

(* What the first message of a queue may be, and what is left behind it. *)
LEMMA PopControl ==
  ASSUME NEW q, NEW r, Shorter(q, r)
  PROVE  /\ Quiet(q) => q[1].type \notin Control /\ Quiet(r)
         /\ Serving(q) =>
              q[1].type \notin {"ecdh_init", "channel_confirmed"} /\ Serving(r)
         /\ Initiating(q) =>
              \/ q[1].type = "ecdh_init" /\ Quiet(r)
              \/ q[1].type \notin Control /\ Initiating(r)
         /\ Confirming(q) =>
              \/ q[1].type = "channel_confirmed" /\ Serving(r)
              \/ q[1].type \notin Control /\ Confirming(r)
<1> USE DEF Shorter
<1>1. Quiet(q) => q[1].type \notin Control /\ Quiet(r)
  BY DEF Quiet
<1>2. Serving(q) => q[1].type \notin {"ecdh_init", "channel_confirmed"} /\ Serving(r)
  BY DEF Serving
<1>3. ASSUME Initiating(q)
      PROVE  \/ q[1].type = "ecdh_init" /\ Quiet(r)
             \/ q[1].type \notin Control /\ Initiating(r)
  <2>1. PICK i \in 1 .. Len(q) :
          /\ q[i].type = "ecdh_init"
          /\ \A j \in 1 .. Len(q) \ {i} : q[j].type \notin Control
    BY <1>3 DEF Initiating
  <2>2. CASE i = 1
    BY <2>1, <2>2 DEF Quiet
  <2>3. CASE i # 1
    <3>1. i - 1 \in 1 .. Len(r) /\ r[i - 1].type = "ecdh_init"
      BY <2>1, <2>3
    <3>2. \A j \in 1 .. Len(r) \ {i - 1} : r[j].type \notin Control
      BY <2>1, <2>3
    <3> QED
      BY <2>1, <2>3, <3>1, <3>2 DEF Initiating
  <2> QED
    BY <2>2, <2>3
<1>4. ASSUME Confirming(q)
      PROVE  \/ q[1].type = "channel_confirmed" /\ Serving(r)
             \/ q[1].type \notin Control /\ Confirming(r)
  <2>1. PICK i \in 1 .. Len(q) :
          /\ q[i].type = "channel_confirmed"
          /\ \A j \in 1 .. i - 1 : q[j].type \notin Control
          /\ \A j \in i + 1 .. Len(q) : q[j].type \notin {"ecdh_init", "channel_confirmed"}
    BY <1>4 DEF Confirming
  <2>2. CASE i = 1
    BY <2>1, <2>2 DEF Serving
  <2>3. CASE i # 1
    <3>1. i - 1 \in 1 .. Len(r) /\ r[i - 1].type = "channel_confirmed"
      BY <2>1, <2>3
    <3>2. \A j \in 1 .. (i - 1) - 1 : r[j].type \notin Control
      BY <2>1, <2>3
    <3>3. \A j \in (i - 1) + 1 .. Len(r) : r[j].type \notin {"ecdh_init", "channel_confirmed"}
      BY <2>1, <2>3
    <3>4. Confirming(r)
      BY <3>1, <3>2, <3>3 DEF Confirming
    <3> QED
      BY <2>1, <2>3, <3>4
  <2> QED
    BY <2>2, <2>3
<1> QED
  BY <1>1, <1>2, <1>3, <1>4

(* What a new last message makes of a queue. *)
LEMMA PushControl ==
  ASSUME NEW q, NEW r, NEW m, Longer(q, r, m)
  PROVE  /\ m.type \notin Control =>
              /\ Quiet(q) => Quiet(r)
              /\ Initiating(q) => Initiating(r)
         /\ m.type \notin {"ecdh_init", "channel_confirmed"} =>
              /\ Serving(q) => Serving(r)
              /\ Confirming(q) => Confirming(r)
         /\ Quiet(q) /\ m.type = "ecdh_init" => Initiating(r)
         /\ Quiet(q) /\ m.type = "channel_confirmed" => Confirming(r)
<1> USE DEF Longer
<1>1. m.type \notin Control /\ Quiet(q) => Quiet(r)
  BY DEF Quiet
<1>2. m.type \notin {"ecdh_init", "channel_confirmed"} /\ Serving(q) => Serving(r)
  BY DEF Serving
<1>3. ASSUME m.type \notin Control, Initiating(q) PROVE Initiating(r)
  <2>1. PICK i \in 1 .. Len(q) :
          /\ q[i].type = "ecdh_init"
          /\ \A j \in 1 .. Len(q) \ {i} : q[j].type \notin Control
    BY <1>3 DEF Initiating
  <2>2. i \in 1 .. Len(r) /\ r[i].type = "ecdh_init"
    BY <2>1
  <2>3. \A j \in 1 .. Len(r) \ {i} : r[j].type \notin Control
    BY <1>3, <2>1
  <2> QED
    BY <2>2, <2>3 DEF Initiating
<1>4. ASSUME m.type \notin {"ecdh_init", "channel_confirmed"}, Confirming(q)
      PROVE  Confirming(r)
  <2>1. PICK i \in 1 .. Len(q) :
          /\ q[i].type = "channel_confirmed"
          /\ \A j \in 1 .. i - 1 : q[j].type \notin Control
          /\ \A j \in i + 1 .. Len(q) : q[j].type \notin {"ecdh_init", "channel_confirmed"}
    BY <1>4 DEF Confirming
  <2>2. i \in 1 .. Len(r) /\ r[i].type = "channel_confirmed"
    BY <2>1
  <2>3. \A j \in 1 .. i - 1 : r[j].type \notin Control
    BY <2>1
  <2>4. \A j \in i + 1 .. Len(r) : r[j].type \notin {"ecdh_init", "channel_confirmed"}
    BY <1>4, <2>1
  <2> QED
    BY <2>2, <2>3, <2>4 DEF Confirming
<1>5. Quiet(q) /\ m.type = "ecdh_init" => Initiating(r)
  <2>1. Len(q) + 1 \in 1 .. Len(r)
    OBVIOUS
  <2> QED
    BY <2>1 DEF Quiet, Initiating
<1>6. Quiet(q) /\ m.type = "channel_confirmed" => Confirming(r)
  <2>1. Len(q) + 1 \in 1 .. Len(r)
    OBVIOUS
  <2> QED
    BY <2>1 DEF Quiet, Confirming
<1> QED
  BY <1>1, <1>2, <1>3, <1>4, <1>5, <1>6

(* Pieces and answers that any state takes leave it open what comes next. *)
SameControl(q, r) ==
  /\ Quiet(q) => Quiet(r)
  /\ Initiating(q) => Initiating(r)
  /\ Serving(q) => Serving(r)
  /\ Confirming(q) => Confirming(r)

LEMMA Bystander ==
  ASSUME NEW q, NEW r, NEW m, m.type \notin Control,
         Longer(q, r, m) \/ (Shorter(q, r) /\ q[1] = m)
  PROVE  SameControl(q, r)
<1>1. CASE Longer(q, r, m)
  BY <1>1, PushControl DEF SameControl, Control
<1>2. CASE Shorter(q, r) /\ q[1] = m
  BY <1>2, PopControl DEF SameControl, Control
<1> QED
  BY <1>1, <1>2

LEMMA SameControlPhase ==
  ASSUME NEW q, NEW r, SameControl(q, r), NEW l, NEW rpc, NEW s, NEW toS
  PROVE  /\ Awaits(l, q) => Awaits(l, r)
         /\ Together(l, rpc, q, s, toS) => Together(l, rpc, r, s, toS)
  BY DEF SameControl, Awaits, Together
-----------------------------------------------------------------------------
(* --- what the leecher's callbacks can do --- *)

Takes ==
  /\ toLeecher # <<>> /\ toLeecher' = Tail(toLeecher)
  /\ received' = received + (IF Head(toLeecher).type = "piece" THEN 1 ELSE 0)
  /\ done' = done

Keeps == toLeecher' = toLeecher /\ received' = received

(* The session is closed: with its wire, with the download, or because of a  *)
(* message - and then the download was complete or the channel rejected.     *)
Ends ==
  /\ leecher' = WithState(leecher, "closed")
  /\ UNCHANGED <<toSeeder, openRpc>>
  /\ \/ Keeps /\ leecherUp' = FALSE /\ done' = done
     \/ Keeps /\ leecherUp' = leecherUp /\ done' = TRUE
     \/ Takes /\ leecherUp' = FALSE /\ (done \/ Head(toLeecher).type = "channel_rejected")

Starts ==
  /\ Keeps /\ leecher.state = "idle" /\ leecher' = WithState(leecher, "handshake")
  /\ SendToSeeder(<<[type |-> "ecdh_init"]>>)
  /\ UNCHANGED <<leecherUp, done, openRpc>>

Opens ==
  /\ Takes /\ Head(toLeecher).type = "ecdh_init"
  /\ leecher.state = "handshake" /\ leecher' = WithState(leecher, "channel_pending")
  /\ openRpc' = "sent" /\ UNCHANGED <<leecherUp, toSeeder>>

IsConfirmed ==
  /\ Takes /\ Head(toLeecher).type = "channel_confirmed"
  /\ leecher.state = "channel_pending" /\ leecher' = WithState(leecher, "active")
  /\ UNCHANGED <<leecherUp, toSeeder, openRpc>>

CountsPiece ==
  /\ Takes /\ Head(toLeecher).type = "piece"
  /\ leecher.state = "active" /\ leecher'.state = "active"
  /\ leecher'.accounting = RecordBytes(leecher.accounting, PieceBytes)
  /\ UNCHANGED <<leecherUp, toSeeder, openRpc>>

(* The check made from an accounting. *)
CheckFor(acc) ==
  [type |-> "payment_check", channelId |-> Id, amount |-> NextCheckAmount(acc),
   nonce |-> NextNonce(acc)]

LEMMA CheckForType ==
  ASSUME NEW acc, NextCheckAmount(acc) \in Nat, NextNonce(acc) \in Nat
  PROVE  /\ CheckFor(acc) \in SeedPayMessage
         /\ CheckFor(acc).type = "payment_check" /\ CheckFor(acc).channelId = Id
         /\ CheckFor(acc).amount = NextCheckAmount(acc)
         /\ CheckFor(acc).nonce = NextNonce(acc)
<1> DEFINE C == [type : {"payment_check"}, channelId : ChannelId, amount : Nat, nonce : Nat]
<1>1. CheckFor(acc) \in C
  BY DEF CheckFor
<1>2. C \subseteq SeedPayMessage
  BY DEF SeedPayMessage
<1> QED
  BY <1>1, <1>2 DEF CheckFor

(* acc: the accounting when the check is made. *)
PaysFor(acc) ==
  /\ leecher.state = "active" /\ leecher'.state = "active"
  /\ leecher'.accounting = RecordCheck(acc, NextCheckAmount(acc), NextNonce(acc))
  /\ SendToSeeder(<<CheckFor(acc)>>)
  /\ UNCHANGED <<leecherUp, openRpc>>

Pays ==
  /\ Takes
  /\ \/ /\ Head(toLeecher).type = "piece"
        /\ PaysFor(RecordBytes(leecher.accounting, PieceBytes))
     \/ /\ Head(toLeecher).type = "payment_check_required"
        /\ PaysFor(leecher.accounting)

Ignores ==
  /\ Takes /\ Head(toLeecher).type \notin Control
  /\ leecher.state = "active" => Head(toLeecher).type # "piece"
  /\ UNCHANGED <<leecher, leecherUp, toSeeder, openRpc>>

Resolves ==
  /\ Keeps /\ openRpc = "landed" /\ openRpc' = "none"
  /\ IF leecher.state = "channel_pending"
     THEN SendToSeeder(<<[type |-> "channel_opened", deposited |-> Deposit]>>)
     ELSE UNCHANGED toSeeder
  /\ UNCHANGED <<leecher, leecherUp, done>>

LeecherEffect ==
  \/ Ends \/ Starts \/ Opens \/ IsConfirmed \/ CountsPiece \/ Pays \/ Ignores \/ Resolves

(* The wire's close leaves a closed session whatever the error made of it. *)
LEMMA ErrorCloses ==
  ASSUME NEW r, LeecherExecute(r), r.action.action = "error",
         leecher \in LeecherSessions,
         r.session = leecher \/ r.session = WithState(leecher, "error")
  PROVE  /\ leecher' = WithState(leecher, "closed") /\ leecherUp' = FALSE
         /\ UNCHANGED <<toSeeder, openRpc>>
<1>1. leecher' = [r.session EXCEPT !.state = "closed"]
  BY DEF LeecherExecute, LeecherOnChannelClosed, Returns
<1>2. leecher' = WithState(leecher, "closed")
  BY <1>1 DEF WithState, LeecherSessions
<1> QED
  BY <1>2 DEF LeecherExecute

(* What a message makes of the session, and when it is an error. *)
LEMMA Handled ==
  ASSUME NEW s, NEW m, NEW r, r = LeecherHandle(s, m), m.type # "channel_closed"
  PROVE  \/ r.action.action = "error" /\ r.session = s
            /\ \/ m.type = "ecdh_init" /\ s.state # "handshake"
               \/ m.type = "channel_confirmed" /\ s.state # "channel_pending"
               \/ m.type = "payment_check_required" /\ s.state # "active"
         \/ /\ r.action.action = "error" /\ r.session = WithState(s, "error")
            /\ m.type = "channel_rejected"
         \/ /\ m.type = "ecdh_init" /\ s.state = "handshake"
            /\ r.action.action = "open_channel"
            /\ r.session = WithState(s, "channel_pending")
         \/ /\ m.type = "channel_confirmed" /\ s.state = "channel_pending"
            /\ r.action.action = "none" /\ r.session = WithState(s, "active")
         \/ /\ m.type = "payment_check_required" /\ s.state = "active"
            /\ r = SendCheck(s)
         \/ /\ m.type \notin Control /\ r.action.action = "none" /\ r.session = s
<1>1. CASE m.type = "ecdh_init"
  BY <1>1 DEF LeecherHandle, LeecherOnEcdhInit, InState, Returns, WithState, ErrorAction
<1>2. CASE m.type = "channel_confirmed"
  BY <1>2 DEF LeecherHandle, LeecherOnChannelConfirmed, InState, Returns, WithState,
              ErrorAction, NoAction
<1>3. CASE m.type = "channel_rejected"
  BY <1>3 DEF LeecherHandle, LeecherOnChannelRejected, Returns, WithState, ErrorAction
<1>4. CASE m.type = "payment_check_required"
  BY <1>4 DEF LeecherHandle, LeecherOnPaymentCheckRequired, InState, Returns, ErrorAction
<1>5. CASE m.type \notin {"ecdh_init", "channel_confirmed", "channel_rejected",
                          "payment_check_required"}
  BY <1>5 DEF LeecherHandle, Returns, NoAction, Control
<1> QED
  BY <1>1, <1>2, <1>3, <1>4, <1>5

LEMMA SentCheck ==
  ASSUME NEW s \in LeecherSessions, s.state = "active", NEW r, r = SendCheck(s),
         s.accounting.lastCheckAmount <= Cost(s.accounting.totalBytes),
         LeecherExecute(r), leecher.state = "active", leecherUp \in BOOLEAN
  PROVE  PaysFor(s.accounting)
<1> DEFINE acc == s.accounting
           m == CheckFor(acc)
<1>0. MayRecord(acc, NextCheckAmount(acc), NextNonce(acc))
  BY DEF MayRecord, NextCheckAmount, NextNonce, LeecherSessions, PieceAccounting
<1>1. /\ r.session = [s EXCEPT !.accounting =
                         RecordCheck(acc, NextCheckAmount(acc), NextNonce(acc))]
      /\ r.action = [action |-> "send_message", message |-> m]
  BY <1>0 DEF SendCheck, Returns, SendMessage, CheckFor
<1>2. r.action.action = "send_message" /\ r.action.message = m
  BY <1>1
<1> HIDE DEF m
<1>3. /\ r.session.state = "active"
      /\ r.session.accounting = RecordCheck(acc, NextCheckAmount(acc), NextNonce(acc))
  BY <1>1 DEF LeecherSessions
<1>4. leecher' = r.session /\ openRpc' = openRpc /\ SendToSeeder(<<m>>)
  BY <1>2 DEF LeecherExecute
<1>5. leecherUp' = (leecherUp /\ TRUE)
  BY <1>2 DEF LeecherExecute
<1> QED
  BY <1>3, <1>4, <1>5 DEF PaysFor, m

LEMMA MessageTypes ==
  ASSUME QueueInv, toLeecher # <<>>
  PROVE  /\ Shorter(toLeecher, Tail(toLeecher)) /\ Head(toLeecher) = toLeecher[1]
         /\ Head(toLeecher).type # "channel_closed"
<1> DEFINE M == SeedPayMessage \cup [type : {"piece"}]
<1>1. /\ toLeecher \in Seq(M)
      /\ \A i \in 1 .. Len(toLeecher) : toLeecher[i].type # "channel_closed"
  BY DEF QueueInv
<1> HIDE DEF M
<1>2. Shorter(toLeecher, Tail(toLeecher)) /\ Head(toLeecher) = toLeecher[1]
  BY <1>1, TailIsShorter
<1> QED
  BY <1>1, <1>2 DEF Shorter

LEMMA ReceiveEffect ==
  ASSUME QueueInv, PhaseInv, LeecherInv, LeecherReceives
  PROVE  LeecherEffect
<1> DEFINE m == Head(toLeecher)
<1>1. /\ Takes /\ leecherUp /\ leecherUp \in BOOLEAN /\ done \in BOOLEAN
      /\ Shorter(toLeecher, Tail(toLeecher)) /\ m = toLeecher[1]
      /\ m.type # "channel_closed"
      /\ leecher \in LeecherSessions
      /\ leecher.accounting.lastCheckAmount <= Cost(leecher.accounting.totalBytes)
  BY MessageTypes DEF LeecherReceives, Takes, QueueInv, LeecherInv, LeecherOK
<1>2. CASE m.type = "piece"
  <2>1. LeecherExecute(LeecherPiece)
    BY <1>2 DEF LeecherReceives
  <2>2. CASE leecher.state # "active"
    <3>1. LeecherPiece.session = leecher /\ LeecherPiece.action.action = "none"
      BY <2>2 DEF LeecherPiece, Returns, NoAction
    <3>2. UNCHANGED <<leecher, leecherUp, toSeeder, openRpc>>
      BY <1>1, <2>1, <3>1 DEF LeecherExecute
    <3> QED
      BY <1>1, <1>2, <2>2, <3>2 DEF LeecherEffect, Ignores, Control
  <2>3. CASE leecher.state = "active"
    <3> DEFINE c == [leecher EXCEPT !.accounting = RecordBytes(@, PieceBytes)]
    <3>1. /\ c \in LeecherSessions /\ c.state = "active"
          /\ c.accounting = RecordBytes(leecher.accounting, PieceBytes)
          /\ c.accounting.totalBytes = leecher.accounting.totalBytes + PieceBytes
          /\ c.accounting.lastCheckAmount = leecher.accounting.lastCheckAmount
      BY <1>1, <2>3 DEF LeecherSessions, PieceAccounting, RecordBytes
    <3>5. c.accounting.lastCheckAmount <= Cost(c.accounting.totalBytes)
      <4>1. /\ leecher.accounting.totalBytes \in Nat
            /\ leecher.accounting.lastCheckAmount \in Nat
        BY <1>1 DEF LeecherSessions, PieceAccounting
      <4> DEFINE n == leecher.accounting.totalBytes + PieceBytes
      <4>2. n \in Nat /\ leecher.accounting.totalBytes <= n
        BY <4>1
      <4>3. /\ Cost(leecher.accounting.totalBytes) \in Nat /\ Cost(n) \in Nat
            /\ Cost(leecher.accounting.totalBytes) <= Cost(n)
        BY <4>1, <4>2, CostMonotone
      <4> HIDE DEF c
      <4> QED
        BY <1>1, <3>1, <4>1, <4>3
    <3>2. LeecherPiece = SendCheck(c) \/ LeecherPiece = Returns(c, NoAction)
      BY <2>3 DEF LeecherPiece, LeecherOnPieceReceived, InState
    <3> HIDE DEF c
    <3>3. CASE LeecherPiece = SendCheck(c)
      <4>1. PaysFor(RecordBytes(leecher.accounting, PieceBytes))
        BY <1>1, <2>1, <2>3, <3>1, <3>3, <3>5, SentCheck
      <4> QED
        BY <1>1, <1>2, <4>1 DEF LeecherEffect, Pays
    <3>4. CASE LeecherPiece = Returns(c, NoAction)
      <4>1. LeecherPiece.session = c /\ LeecherPiece.action.action = "none"
        BY <3>4 DEF Returns, NoAction
      <4>2. leecher' = c /\ UNCHANGED <<leecherUp, toSeeder, openRpc>>
        BY <1>1, <2>1, <4>1 DEF LeecherExecute
      <4> QED
        BY <1>1, <1>2, <2>3, <3>1, <4>2 DEF LeecherEffect, CountsPiece
    <3> QED
      BY <3>2, <3>3, <3>4
  <2> QED
    BY <2>2, <2>3
<1>3. CASE m.type # "piece"
  <2> DEFINE r == LeecherHandle(leecher, m)
  <2>1. LeecherExecute(r)
    BY <1>3 DEF LeecherReceives
  <2>2. \/ r.action.action = "error" /\ r.session = leecher
           /\ \/ m.type = "ecdh_init" /\ leecher.state # "handshake"
              \/ m.type = "channel_confirmed" /\ leecher.state # "channel_pending"
              \/ m.type = "payment_check_required" /\ leecher.state # "active"
        \/ /\ r.action.action = "error" /\ r.session = WithState(leecher, "error")
           /\ m.type = "channel_rejected"
        \/ /\ m.type = "ecdh_init" /\ leecher.state = "handshake"
           /\ r.action.action = "open_channel"
           /\ r.session = WithState(leecher, "channel_pending")
        \/ /\ m.type = "channel_confirmed" /\ leecher.state = "channel_pending"
           /\ r.action.action = "none" /\ r.session = WithState(leecher, "active")
        \/ /\ m.type = "payment_check_required" /\ leecher.state = "active"
           /\ r = SendCheck(leecher)
        \/ /\ m.type \notin Control /\ r.action.action = "none" /\ r.session = leecher
    BY <1>1, Handled
  <2> HIDE DEF r, m
  <2>3. CASE r.action.action = "error" /\ r.session \in {leecher, WithState(leecher, "error")}
    <3>1. leecher' = WithState(leecher, "closed") /\ leecherUp' = FALSE
          /\ UNCHANGED <<toSeeder, openRpc>>
      BY <1>1, <2>1, <2>3, ErrorCloses
    <3>2. ASSUME ~done, m.type # "channel_rejected" PROVE FALSE
      <4>1. /\ m.type = "ecdh_init" => leecher.state # "handshake"
            /\ m.type = "channel_confirmed" => leecher.state # "channel_pending"
            /\ m.type = "payment_check_required" => leecher.state # "active"
            /\ m.type \in Control
        BY <2>2, <2>3, <3>2 DEF Control, SendCheck, Returns, SendMessage, NoAction
      <4>2. leecher.state # "closed" /\ Awaits(leecher.state, toLeecher)
        BY <1>1, <3>2 DEF PhaseInv, LeecherLive
      <4> QED
        BY <1>1, <4>1, <4>2, PopControl DEF Awaits, Control
    <3> QED
      BY <1>1, <3>1, <3>2 DEF LeecherEffect, Ends, m
  <2>4. CASE /\ m.type = "ecdh_init" /\ leecher.state = "handshake"
             /\ r.action.action = "open_channel"
             /\ r.session = WithState(leecher, "channel_pending")
    <3>1. leecher' = r.session /\ openRpc' = "sent" /\ UNCHANGED <<leecherUp, toSeeder>>
      BY <1>1, <2>1, <2>4 DEF LeecherExecute
    <3> QED
      BY <1>1, <2>4, <3>1 DEF LeecherEffect, Opens, m
  <2>5. CASE /\ m.type = "channel_confirmed" /\ leecher.state = "channel_pending"
             /\ r.action.action = "none" /\ r.session = WithState(leecher, "active")
    <3>1. leecher' = r.session /\ UNCHANGED <<leecherUp, toSeeder, openRpc>>
      BY <1>1, <2>1, <2>5 DEF LeecherExecute
    <3> QED
      BY <1>1, <2>5, <3>1 DEF LeecherEffect, IsConfirmed, m
  <2>6. CASE /\ m.type = "payment_check_required" /\ leecher.state = "active"
             /\ r = SendCheck(leecher)
    <3>1. PaysFor(leecher.accounting)
      BY <1>1, <2>1, <2>6, SentCheck
    <3> QED
      BY <1>1, <2>6, <3>1 DEF LeecherEffect, Pays, m
  <2>7. CASE m.type \notin Control /\ r.action.action = "none" /\ r.session = leecher
    <3>1. UNCHANGED <<leecher, leecherUp, toSeeder, openRpc>>
      BY <1>1, <2>1, <2>7 DEF LeecherExecute
    <3> QED
      BY <1>1, <1>3, <2>7, <3>1 DEF LeecherEffect, Ignores, m
  <2> QED
    BY <2>2, <2>3, <2>4, <2>5, <2>6, <2>7
<1> QED
  BY <1>2, <1>3

LEMMA LeecherEffects ==
  ASSUME QueueInv, PhaseInv, LeecherInv, LeecherMoves
  PROVE  LeecherEffect /\ seederUp' = seederUp
<1>0. leecherUp \in BOOLEAN /\ leecher \in LeecherSessions
  BY DEF QueueInv, LeecherInv, LeecherOK
<1>1. CASE LeecherHandshake
  <2>1. /\ leecher.state = "idle" /\ Keeps /\ done' = done /\ seederUp' = seederUp
        /\ LeecherExecute(IF PricePerMb > MaxPricePerMb
                          THEN Returns(leecher, ErrorAction) ELSE LeecherStart(leecher))
    BY <1>1 DEF LeecherHandshake, Keeps
  <2>2. CASE PricePerMb > MaxPricePerMb
    <3> DEFINE r == Returns(leecher, ErrorAction)
    <3>1. LeecherExecute(r) /\ r.action.action = "error" /\ r.session = leecher
      BY <2>1, <2>2 DEF Returns, ErrorAction
    <3> QED
      BY <1>0, <2>1, <3>1, ErrorCloses DEF LeecherEffect, Ends
  <2>3. CASE ~(PricePerMb > MaxPricePerMb)
    <3> DEFINE r == LeecherStart(leecher)
    <3>1. LeecherExecute(r)
      BY <2>1, <2>3
    <3>2. /\ r.action.action = "send_message" /\ r.action.message = [type |-> "ecdh_init"]
          /\ r.session = WithState(leecher, "handshake")
      BY <2>1 DEF LeecherStart, InState, Returns, SendMessage, WithState
    <3> HIDE DEF r
    <3>3. /\ leecher' = r.session /\ UNCHANGED <<leecherUp, openRpc>>
          /\ SendToSeeder(<<r.action.message>>)
      BY <1>0, <3>1, <3>2 DEF LeecherExecute
    <3> QED
      BY <2>1, <3>2, <3>3 DEF LeecherEffect, Starts
  <2> QED
    BY <1>1, <2>2, <2>3 DEF LeecherHandshake
<1>2. CASE LeecherReceives
  BY <1>2, ReceiveEffect DEF LeecherReceives
<1>3. CASE OpenResolves
  <2> DEFINE r == LeecherOnChannelOpened(leecher)
             m == [type |-> "channel_opened", deposited |-> Deposit]
  <2>1. \/ /\ leecher.state = "channel_pending" /\ r.action.action = "send_message"
           /\ r.action.message = m
        \/ leecher.state # "channel_pending" /\ r.action.action = "error"
    BY DEF LeecherOnChannelOpened, InState, Returns, SendMessage, ErrorAction
  <2>2. r.session = leecher
    BY DEF LeecherOnChannelOpened, InState, Returns
  <2> HIDE DEF r, m
  <2>3. /\ openRpc = "landed" /\ openRpc' = "none" /\ leecher' = leecher
        /\ UNCHANGED <<toLeecher, received, leecherUp, done, seederUp>>
        /\ IF r.action.action = "send_message" THEN SendToSeeder(<<r.action.message>>)
                                               ELSE UNCHANGED toSeeder
    BY <1>3, <2>2 DEF OpenResolves, r
  <2>4. IF leecher.state = "channel_pending" THEN SendToSeeder(<<m>>)
                                             ELSE UNCHANGED toSeeder
    BY <2>1, <2>3
  <2> QED
    BY <2>3, <2>4 DEF LeecherEffect, Resolves, Keeps, m
<1>4. CASE LeecherDone \/ LeecherDisconnects
  <2>1. leecher' = WithState(leecher, "closed")
    BY <1>4 DEF LeecherDone, LeecherDisconnects, LeecherOnChannelClosed, Returns, WithState
  <2> QED
    BY <1>4, <2>1 DEF LeecherDone, LeecherDisconnects, wireVars, LeecherEffect, Ends, Keeps
<1> QED
  BY <1>1, <1>2, <1>3, <1>4 DEF LeecherMoves
-----------------------------------------------------------------------------
(* --- what the seeder's callbacks can do --- *)

Pops == toSeeder # <<>> /\ toSeeder' = Tail(toSeeder)

GoesOn == UNCHANGED <<seederUp, seederAlive, quitting>>

(* The books of a session: what it counted and the best check it holds. *)
SameBooks ==
  /\ seeder'.accounting = seeder.accounting
  /\ seeder'.highestCheck = seeder.highestCheck

(* The wire goes down; because of a message only in a seeder that quits. *)
Closes ==
  /\ seederUp' = FALSE /\ SameBooks /\ seederAlive' \in {seederAlive, FALSE}
  /\ UNCHANGED <<toLeecher, sent, quitting>>
  /\ toSeeder' = toSeeder \/ (Pops /\ quitting # "no")

Crashes ==
  /\ seederUp' = FALSE /\ seederAlive' = FALSE
  /\ seeder'.highestCheck = NoCheck
  /\ UNCHANGED <<toLeecher, toSeeder, sent, quitting>>

Initiates ==
  /\ Pops /\ Head(toSeeder).type = "ecdh_init" /\ GoesOn
  /\ seeder.state = "idle" /\ seeder' = WithState(seeder, "handshake")
  /\ SendToLeecher(<<[type |-> "ecdh_init"]>>) /\ UNCHANGED sent

Verifies ==
  /\ Pops /\ Head(toSeeder).type = "channel_opened" /\ GoesOn
  /\ seeder.state = "handshake" /\ seeder' = WithState(seeder, "channel_pending")
  /\ UNCHANGED <<toLeecher, sent>>

Accepts ==
  /\ Pops /\ Head(toSeeder).type = "payment_check" /\ GoesOn
  /\ seeder.state = "active"
  /\ seeder' = [seeder EXCEPT !.highestCheck = CheckOf(Head(toSeeder))]
  /\ UNCHANGED <<toLeecher, sent>>

Refuses ==
  /\ Pops /\ Head(toSeeder).type = "payment_check" /\ GoesOn
  /\ seeder.state = "active"
  /\ SendToLeecher(<<[type |-> "payment_check_rejected",
                      reason |-> "Amount exceeds deposit"]>>)
  /\ UNCHANGED <<seeder, sent>>

(* A message no handler of the seeder takes. *)
Passes ==
  /\ Pops /\ GoesOn
  /\ Head(toSeeder).type \notin {"ecdh_init", "channel_opened", "payment_check"}
  /\ UNCHANGED <<seeder, toLeecher, sent>>

Confirms ==
  /\ seeder.state = "channel_pending" /\ seeder'.state = "active" /\ SameBooks
  /\ SendToLeecher(<<[type |-> "channel_confirmed"]>>)
  /\ GoesOn /\ UNCHANGED <<toSeeder, sent>>

Rejects ==
  /\ seeder.state \in {"channel_pending", "closed"} /\ seeder'.state = "closed" /\ SameBooks
  /\ SendToLeecher(<<[type |-> "channel_rejected"]>>)
  /\ GoesOn /\ UNCHANGED <<toSeeder, sent>>

ThePiece == [type |-> "piece"]

Uploads ==
  /\ sent < FilePieces /\ sent' = sent + 1 /\ seederUp /\ GoesOn /\ UNCHANGED toSeeder
  /\ seeder'.state = seeder.state /\ seeder'.highestCheck = seeder.highestCheck
  /\ \/ /\ seeder.state = "active"
        /\ seeder'.accounting = RecordBytes(seeder.accounting, PieceBytes)
        /\ \/ SendToLeecher(<<ThePiece>>)
           \/ \E owed \in Nat :
                SendToLeecher(<<ThePiece, [type |-> "payment_check_required",
                                           amountOwed |-> owed]>>)
     \/ /\ seeder.state # "active" /\ seeder'.accounting = seeder.accounting
        /\ SendToLeecher(<<ThePiece>>)

ShutsDown ==
  /\ quitting = "no" /\ quitting' \in {"awaitingClaim", "ending"} /\ SameBooks
  /\ IF seeder.state = "active" THEN seeder'.state \in {"closing", "closed"}
                                ELSE seeder'.state = seeder.state
  /\ UNCHANGED <<toLeecher, toSeeder, sent, seederUp, seederAlive>>

(* Nothing but the awaited call and, at most, the stage of a shutdown. *)
Rests ==
  /\ quitting' = quitting \/ (quitting = "awaitingClaim" /\ quitting' = "ending")
  /\ UNCHANGED <<seeder, toLeecher, toSeeder, sent, seederUp, seederAlive>>

SeederEffect ==
  \/ Closes \/ Crashes \/ Initiates \/ Verifies \/ Accepts \/ Refuses \/ Passes
  \/ Confirms \/ Rejects \/ Uploads \/ ShutsDown \/ Rests

(* What a message makes of the session, and when it is an error. *)
LEMMA SeederHandled ==
  ASSUME NEW s, NEW m, NEW valid, NEW r, r = SeederHandle(s, m, valid),
         m.type # "channel_closed",
         NEW c, c = CheckOf(m)
  PROVE  \/ /\ r.action.action = "error" /\ r.session = s
            /\ \/ m.type = "ecdh_init" /\ s.state # "idle"
               \/ m.type = "channel_opened" /\ s.state # "handshake"
               \/ m.type = "payment_check" /\ s.state # "active"
         \/ /\ m.type = "ecdh_init" /\ s.state = "idle"
            /\ r.session = WithState(s, "handshake")
            /\ r.action = SendMessage([type |-> "ecdh_init"])
         \/ /\ m.type = "channel_opened" /\ s.state = "handshake"
            /\ r.session = WithState(s, "channel_pending")
            /\ r.action.action = "verify_channel"
         \/ /\ m.type = "payment_check" /\ s.state = "active"
            /\ CheckRefusal(s, c, valid) = "none"
            /\ r.session = [s EXCEPT !.highestCheck = c]
            /\ r.action.action = "none"
         \/ /\ m.type = "payment_check" /\ s.state = "active" /\ r.session = s
            /\ CheckRefusal(s, c, valid) # "none"
            /\ r.action = SendMessage([type |-> "payment_check_rejected",
                                       reason |-> CheckRefusal(s, c, valid)])
         \/ /\ m.type \notin {"ecdh_init", "channel_opened", "payment_check"}
            /\ r.session = s /\ r.action.action = "none"
<1>1. CASE m.type = "ecdh_init"
  BY <1>1 DEF SeederHandle, SeederOnEcdhInit, InState, Returns, WithState, ErrorAction
<1>2. CASE m.type = "channel_opened"
  BY <1>2 DEF SeederHandle, SeederOnChannelOpened, InState, Returns, WithState,
              ErrorAction
<1>3. CASE m.type = "payment_check"
  <2>1. r = SeederOnPaymentCheck(s, c, valid)
    BY <1>3 DEF SeederHandle, CheckOf
  <2> QED
    BY <1>3, <2>1 DEF SeederOnPaymentCheck, InState, Returns, ErrorAction, NoAction
<1>4. CASE m.type \notin {"ecdh_init", "channel_opened", "payment_check"}
  BY <1>4 DEF SeederHandle, Returns, NoAction
<1> QED
  BY <1>1, <1>2, <1>3, <1>4

(* A signed check that is newer than the highest one can only be too large. *)
LEMMA OnlyTooLarge ==
  ASSUME NEW s \in SeederSessions, NEW c, c.amount \in Nat, c.nonce \in Nat,
         s.highestCheck.nonce < c.nonce, s.highestCheck.amount <= c.amount
  PROVE  CheckRefusal(s, c, TRUE) \in {"none", "Amount exceeds deposit"}
  BY DEF CheckRefusal, SeederSessions, PaymentCheck, NoCheck

LEMMA SeederMessageTypes ==
  ASSUME QueueInv, toSeeder # <<>>
  PROVE  /\ Shorter(toSeeder, Tail(toSeeder)) /\ Head(toSeeder) = toSeeder[1]
         /\ Tail(toSeeder) \in Seq(SeedPayMessage)
         /\ Head(toSeeder) \in SeedPayMessage
         /\ Head(toSeeder).type # "channel_closed"
<1>1. /\ toSeeder \in Seq(SeedPayMessage)
      /\ \A i \in 1 .. Len(toSeeder) : toSeeder[i].type # "channel_closed"
  BY DEF QueueInv
<1>2. /\ Shorter(toSeeder, Tail(toSeeder)) /\ Head(toSeeder) = toSeeder[1]
      /\ Tail(toSeeder) \in Seq(SeedPayMessage) /\ toSeeder[1] \in SeedPayMessage
  BY <1>1, TailIsShorter
<1> QED
  BY <1>1, <1>2 DEF Shorter

(* The check at the head of the queue is signed and better than the highest. *)
LEMMA HeadCheck ==
  ASSUME QueueInv, CheckInv, toSeeder # <<>>, Head(toSeeder).type = "payment_check"
  PROVE  /\ SignedBy(Head(toSeeder)) \in signed
         /\ Head(toSeeder).amount \in Nat /\ Head(toSeeder).nonce \in Nat
         /\ seeder.highestCheck.nonce < Head(toSeeder).nonce
         /\ seeder.highestCheck.amount <= Head(toSeeder).amount
<1>1. /\ Shorter(toSeeder, Tail(toSeeder)) /\ Head(toSeeder) = toSeeder[1]
      /\ Head(toSeeder) \in SeedPayMessage
  BY SeederMessageTypes
<1>2. 1 \in Checks(toSeeder)
  BY <1>1 DEF Checks, Shorter
<1> QED
  BY <1>1, <1>2 DEF CheckInv, InOrder

LEMMA ClosingBooks ==
  ASSUME NEW s \in SeederSessions, NEW r, r = SeederOnDisconnect(s)
  PROVE  /\ r.session.accounting = s.accounting
         /\ r.session.highestCheck = s.highestCheck
         /\ r.session.state \in {"closing", "closed"}
  BY DEF SeederOnDisconnect, Returns, SeederSessions

LEMMA SeederReceiveEffect ==
  ASSUME QueueInv, PhaseInv, CheckInv, SeederInv, SeederMessage
  PROVE  SeederEffect
<1> DEFINE m == Head(toSeeder)
           c == CheckOf(m)
<1>1. PICK valid \in BOOLEAN :
        /\ valid <=> (m.type = "payment_check" => SignedBy(m) \in signed)
        /\ SeederReceives(valid)
  BY DEF SeederMessage, Seeder
<1> DEFINE r == SeederHandle(seeder, m, valid)
<1>2. /\ SeederExecute(r) /\ Pops /\ seederUp
      /\ UNCHANGED <<leecherUp, sent, seederAlive, quitting>>
  BY <1>1 DEF SeederReceives, Pops
<1>3. /\ Shorter(toSeeder, Tail(toSeeder)) /\ m = toSeeder[1]
      /\ m.type # "channel_closed" /\ seeder \in SeederSessions
  BY <1>2, SeederMessageTypes DEF Pops, SeederInv, SeederOK
<1>4. \/ /\ r.action.action = "error" /\ r.session = seeder
         /\ \/ m.type = "ecdh_init" /\ seeder.state # "idle"
            \/ m.type = "channel_opened" /\ seeder.state # "handshake"
            \/ m.type = "payment_check" /\ seeder.state # "active"
      \/ /\ m.type = "ecdh_init" /\ seeder.state = "idle"
         /\ r.session = WithState(seeder, "handshake")
         /\ r.action = SendMessage([type |-> "ecdh_init"])
      \/ /\ m.type = "channel_opened" /\ seeder.state = "handshake"
         /\ r.session = WithState(seeder, "channel_pending")
         /\ r.action.action = "verify_channel"
      \/ /\ m.type = "payment_check" /\ seeder.state = "active"
         /\ CheckRefusal(seeder, c, valid) = "none"
         /\ r.session = [seeder EXCEPT !.highestCheck = c]
         /\ r.action.action = "none"
      \/ /\ m.type = "payment_check" /\ seeder.state = "active" /\ r.session = seeder
         /\ CheckRefusal(seeder, c, valid) # "none"
         /\ r.action = SendMessage([type |-> "payment_check_rejected",
                                    reason |-> CheckRefusal(seeder, c, valid)])
      \/ /\ m.type \notin {"ecdh_init", "channel_opened", "payment_check"}
         /\ r.session = seeder /\ r.action.action = "none"
  BY <1>3, SeederHandled
<1> HIDE DEF r
<1>5. ASSUME r.action.action # "error"
      PROVE  /\ seeder' = r.session /\ GoesOn
             /\ IF r.action.action = "send_message" THEN SendToLeecher(<<r.action.message>>)
                                                    ELSE toLeecher' = toLeecher
  BY <1>2, <1>5 DEF SeederExecute, GoesOn
<1>6. CASE r.action.action = "error"
  <2>1. SeederCloses(seeder)
    BY <1>2, <1>4, <1>6 DEF SeederExecute, SendMessage
  <2>2. SameBooks /\ seederUp' = FALSE /\ toLeecher' = toLeecher
    BY <1>3, <2>1, ClosingBooks DEF SeederCloses, SameBooks
  <2>3. quitting # "no"
    <3>1. SUFFICES ASSUME quitting = "no" PROVE FALSE
      OBVIOUS
    <3>2. Expects(seeder.state, toSeeder) /\ toSeeder # <<>>
      BY <1>2, <3>1 DEF PhaseInv, SeederServes, Pops
    <3>3. \/ m.type = "ecdh_init" /\ seeder.state # "idle"
          \/ m.type = "channel_opened" /\ seeder.state # "handshake"
          \/ m.type = "payment_check" /\ seeder.state # "active"
      BY <1>4, <1>6 DEF SendMessage
    <3> HIDE DEF m
    <3> QED
      BY <1>3, <3>2, <3>3 DEF Expects, Only, Shorter
  <2> QED
    BY <1>2, <2>2, <2>3 DEF SeederEffect, Closes
<1>7. CASE /\ m.type = "ecdh_init" /\ seeder.state = "idle"
           /\ r.session = WithState(seeder, "handshake")
           /\ r.action = SendMessage([type |-> "ecdh_init"])
  BY <1>2, <1>5, <1>7 DEF SeederEffect, Initiates, SendMessage
<1>8. CASE /\ m.type = "channel_opened" /\ seeder.state = "handshake"
           /\ r.session = WithState(seeder, "channel_pending")
           /\ r.action.action = "verify_channel"
  BY <1>2, <1>5, <1>8 DEF SeederEffect, Verifies
<1>9. CASE /\ m.type = "payment_check" /\ seeder.state = "active"
           /\ CheckRefusal(seeder, c, valid) = "none"
           /\ r.session = [seeder EXCEPT !.highestCheck = c]
           /\ r.action.action = "none"
  BY <1>2, <1>5, <1>9 DEF SeederEffect, Accepts
<1>10. CASE /\ m.type = "payment_check" /\ seeder.state = "active" /\ r.session = seeder
            /\ CheckRefusal(seeder, c, valid) # "none"
            /\ r.action = SendMessage([type |-> "payment_check_rejected",
                                       reason |-> CheckRefusal(seeder, c, valid)])
  <2>1. /\ SignedBy(m) \in signed /\ m.amount \in Nat /\ m.nonce \in Nat
        /\ seeder.highestCheck.nonce < m.nonce /\ seeder.highestCheck.amount <= m.amount
    BY <1>2, <1>10, HeadCheck DEF Pops
  <2>2. valid = TRUE
    BY <1>1, <2>1
  <2>3. /\ c.amount \in Nat /\ c.nonce \in Nat
        /\ c.amount = m.amount /\ c.nonce = m.nonce
    BY <2>1 DEF CheckOf
  <2>4. CheckRefusal(seeder, c, TRUE) \in {"none", "Amount exceeds deposit"}
    BY <1>3, <2>1, <2>3, OnlyTooLarge
  <2> DEFINE answer == [type |-> "payment_check_rejected", reason |-> "Amount exceeds deposit"]
  <2>5. r.action = SendMessage(answer)
    BY <1>10, <2>2, <2>4
  <2> HIDE DEF c, answer
  <2>6. r.action.action = "send_message" /\ r.action.message = answer
    BY <2>5 DEF SendMessage
  <2>7. r.action.action # "error"
    BY <2>6
  <2>8. /\ seeder' = r.session /\ GoesOn
        /\ IF r.action.action = "send_message" THEN SendToLeecher(<<r.action.message>>)
                                               ELSE toLeecher' = toLeecher
    BY <1>5, <2>7
  <2>9. seeder' = seeder /\ GoesOn /\ SendToLeecher(<<answer>>)
    BY <1>10, <2>6, <2>8
  <2>10. m.type = "payment_check" /\ seeder.state = "active" /\ sent' = sent
    BY <1>2, <1>10
  <2> QED
    BY <1>2, <2>9, <2>10 DEF SeederEffect, Refuses, answer
<1>11. CASE /\ m.type \notin {"ecdh_init", "channel_opened", "payment_check"}
            /\ r.session = seeder /\ r.action.action = "none"
  BY <1>2, <1>5, <1>11 DEF SeederEffect, Passes
<1> QED
  BY <1>4, <1>6, <1>7, <1>8, <1>9, <1>10, <1>11

(* The steps that may change the seeder's session, its wire or its process.  *)
SeederMoves ==
  \/ SeederMessage \/ VerifyReads \/ VerifyFails \/ VerifyResolves \/ Upload
  \/ SeederDisconnects \/ Shutdown \/ ShutdownEnds \/ Crash \/ ClaimReturns

LEMMA UploadEffect ==
  ASSUME SeederInv, Upload
  PROVE  Uploads
<1> DEFINE r == SeederOnPieceRequested(seeder, PieceBytes)
           counted == [seeder EXCEPT !.accounting = RecordBytes(@, PieceBytes)]
           owed == Cost(counted.accounting.totalBytes)
           demand == [type |-> "payment_check_required", amountOwed |-> owed]
<1>1. /\ seederUp /\ sent < FilePieces /\ sent' = sent + 1 /\ GoesOn /\ UNCHANGED toSeeder
      /\ seeder' = IF seeder.state = "active" THEN r.session ELSE seeder
      /\ SendToLeecher(IF seeder.state = "active" /\ r.action.action = "send_message"
                       THEN <<ThePiece, r.action.message>> ELSE <<ThePiece>>)
  BY DEF Upload, GoesOn, ThePiece
<1>2. seeder \in SeederSessions
  BY DEF SeederInv, SeederOK
<1>3. CASE seeder.state # "active"
  BY <1>1, <1>3 DEF Uploads
<1>4. CASE seeder.state = "active"
  <2>1. /\ r.session = counted
        /\ \/ r.action.action = "send_message" /\ r.action.message = demand
           \/ r.action.action = "none"
    BY <1>4 DEF SeederOnPieceRequested, InState, Returns, SendMessage, NoAction
  <2>2. /\ counted.accounting = RecordBytes(seeder.accounting, PieceBytes)
        /\ counted.highestCheck = seeder.highestCheck /\ counted.state = "active"
        /\ counted.accounting.totalBytes \in Nat
    BY <1>2, <1>4 DEF SeederSessions, RecordBytes, PieceAccounting
  <2>3. owed \in Nat
    BY <2>2, CostMonotone
  <2> HIDE DEF r, counted, owed
  <2>4. \/ SendToLeecher(<<ThePiece>>)
        \/ SendToLeecher(<<ThePiece, [type |-> "payment_check_required",
                                      amountOwed |-> owed]>>)
    BY <1>1, <1>4, <2>1
  <2> QED
    BY <1>1, <1>4, <2>1, <2>2, <2>3, <2>4 DEF Uploads
<1> QED
  BY <1>3, <1>4

LEMMA ResolveEffect ==
  ASSUME SeederInv, VerifyResolves
  PROVE  Confirms \/ Rejects \/ Rests
<1> DEFINE r == IF seederRpc.valid THEN ConfirmChannel(seeder, seederRpc.deposited)
                                   ELSE RejectChannel(seeder)
<1>1. /\ seeder' = r.session
      /\ IF r.action.action = "send_message" THEN SendToLeecher(<<r.action.message>>)
                                             ELSE toLeecher' = toLeecher
      /\ GoesOn /\ UNCHANGED <<toSeeder, sent>>
  BY DEF VerifyResolves, GoesOn
<1>2. seeder \in SeederSessions /\ seeder.state \in {"channel_pending", "closed"}
  BY DEF VerifyResolves, SeederInv, SeederOK, RpcOK
<1>3. \/ /\ seeder.state = "channel_pending" /\ r.session.state = "active"
         /\ r.session.accounting = seeder.accounting
         /\ r.session.highestCheck = seeder.highestCheck
         /\ r.action = SendMessage([type |-> "channel_confirmed"])
      \/ /\ r.session.state = "closed"
         /\ r.session.accounting = seeder.accounting
         /\ r.session.highestCheck = seeder.highestCheck
         /\ r.action = SendMessage([type |-> "channel_rejected"])
      \/ r.session = seeder /\ r.action.action = "error"
  BY <1>2 DEF ConfirmChannel, RejectChannel, InState, Returns, ErrorAction, SeederSessions
<1> HIDE DEF r
<1>4. CASE /\ seeder.state = "channel_pending" /\ r.session.state = "active"
           /\ r.session.accounting = seeder.accounting
           /\ r.session.highestCheck = seeder.highestCheck
           /\ r.action = SendMessage([type |-> "channel_confirmed"])
  BY <1>1, <1>4 DEF Confirms, SameBooks, SendMessage
<1>5. CASE /\ r.session.state = "closed"
           /\ r.session.accounting = seeder.accounting
           /\ r.session.highestCheck = seeder.highestCheck
           /\ r.action = SendMessage([type |-> "channel_rejected"])
  BY <1>1, <1>2, <1>5 DEF Rejects, SameBooks, SendMessage
<1>6. CASE r.session = seeder /\ r.action.action = "error"
  BY <1>1, <1>6 DEF Rests, GoesOn
<1> QED
  BY <1>3, <1>4, <1>5, <1>6

LEMMA SeederEffects ==
  ASSUME QueueInv, PhaseInv, CheckInv, SeederInv, SeederMoves
  PROVE  SeederEffect
<1>0. seeder \in SeederSessions
  BY DEF SeederInv, SeederOK
<1>1. CASE SeederMessage
  BY <1>1, SeederReceiveEffect
<1>2. CASE VerifyReads \/ VerifyFails \/ ClaimReturns
  BY <1>2 DEF VerifyReads, VerifyFails, Seeder, VerifyReturns, ClaimReturns, wireVars,
              SeederEffect, Rests
<1>3. CASE VerifyResolves
  BY <1>3, ResolveEffect DEF SeederEffect
<1>4. CASE Upload
  BY <1>4, UploadEffect DEF SeederEffect
<1>5. CASE SeederDisconnects \/ ShutdownEnds
  <2>1. CASE SeederCloses(seeder)
    <3>1. SameBooks /\ seederUp' = FALSE /\ toLeecher' = toLeecher
      BY <1>0, <2>1, ClosingBooks DEF SeederCloses, SameBooks
    <3> QED
      BY <1>5, <3>1 DEF SeederDisconnects, ShutdownEnds, SeederEffect, Closes
  <2>2. CASE ~SeederCloses(seeder)
    <3>1. /\ ~seederUp /\ UNCHANGED <<seederUp, seeder, toLeecher, toSeeder, sent, quitting>>
          /\ seederAlive' = FALSE
      BY <1>5, <2>2 DEF SeederDisconnects, ShutdownEnds
    <3>2. seederUp' = FALSE
      BY <3>1 DEF QueueInv
    <3> QED
      BY <3>1, <3>2 DEF SeederEffect, Closes, SameBooks
  <2> QED
    BY <2>1, <2>2
<1>6. CASE Shutdown
  <2> DEFINE r == SeederOnDisconnect(seeder)
  <2>1. /\ r.session.accounting = seeder.accounting
        /\ r.session.highestCheck = seeder.highestCheck
        /\ r.session.state \in {"closing", "closed"}
    BY <1>0, ClosingBooks
  <2>2. IF seeder.state = "active" THEN seeder' = r.session ELSE seeder' = seeder
    BY <1>6 DEF Shutdown
  <2> HIDE DEF r
  <2>3. /\ SameBooks
        /\ IF seeder.state = "active" THEN seeder'.state \in {"closing", "closed"}
                                      ELSE seeder'.state = seeder.state
    BY <2>1, <2>2 DEF SameBooks
  <2> QED
    BY <1>6, <2>3 DEF Shutdown, wireVars, SeederEffect, ShutsDown
<1>7. CASE Crash
  BY <1>7 DEF Crash, SeederEffect, Crashes, NewSeederSession
<1> QED
  BY <1>1, <1>2, <1>3, <1>4, <1>5, <1>6, <1>7 DEF SeederMoves
-----------------------------------------------------------------------------
(* --- the leecher keeps the phases in step --- *)

LEMMA FirstMessage ==
  ASSUME NEW q, q = <<>>, NEW m
  PROVE  Only(q \o <<m>>, m.type)
  BY DEF Only

(* One more check for an active seeder. *)
LEMMA MoreChecks ==
  ASSUME NEW q, NEW r, NEW m, Longer(q, r, m), m.type = "payment_check",
         Expects("active", q)
  PROVE  Expects("active", r)
  BY DEF Expects, Longer, Only

LEMMA LeecherState ==
  ASSUME LeecherInv, NEW st \in SessionState
  PROVE  /\ WithState(leecher, st).state = st
         /\ WithState(leecher, st).accounting = leecher.accounting
  BY DEF LeecherInv, LeecherOK, LeecherSessions, WithState

(* The leecher is alive, the seeder serves: what is sent arrives. *)
LEMMA Delivered ==
  ASSUME QueueInv, SeederServes, leecherUp, NEW m \in SeedPayMessage,
         SendToSeeder(<<m>>)
  PROVE  Longer(toSeeder, toSeeder', m) /\ toSeeder' = toSeeder \o <<m>>
<1>1. toSeeder' = toSeeder \o <<m>> /\ toSeeder \in Seq(SeedPayMessage)
  BY DEF SendToSeeder, SeederServes, QueueInv
<1> QED
  BY <1>1, SnocIsLonger

LEMMA EndsPhase ==
  ASSUME QueueInv, PhaseInv, LeecherInv, Ends, UNCHANGED <<seederUp, seeder, quitting>>
  PROVE  PhaseInv'
<1>1. leecher'.state = "closed" /\ toSeeder' = toSeeder
  BY LeecherState DEF Ends, SessionState
<1>2. ~(leecherUp' /\ ~done')
  BY DEF Ends
<1>3. SeederServes' = SeederServes
  BY DEF SeederServes
<1>4. ~LeecherLive'
  BY <1>1 DEF LeecherLive
<1>5. Awaits(leecher'.state, toLeecher')
  BY <1>1 DEF Awaits
<1>6. SeederServes' => Expects(seeder'.state, toSeeder')
  BY <1>1, <1>3 DEF PhaseInv
<1> QED
  BY <1>2, <1>4, <1>5, <1>6 DEF PhaseInv

LEMMA LeecherPhase ==
  ASSUME QueueInv, PhaseInv, LeecherInv, LeecherEffect,
         UNCHANGED <<seederUp, seeder, quitting>>
  PROVE  PhaseInv'
<1> DEFINE l == leecher.state
           s == seeder.state
<1>1. SeederServes' = SeederServes
  BY DEF SeederServes
<1>2. CASE Ends
  BY <1>2, EndsPhase
<1>3. ASSUME leecherUp' = leecherUp, done' = done,
             l # "closed" <=> leecher'.state # "closed",
             Awaits(leecher'.state, toLeecher'),
             SeederServes => Expects(s, toSeeder'),
             (l # "closed" /\ SeederServes) =>
               Together(leecher'.state, openRpc', toLeecher', s, toSeeder')
      PROVE  PhaseInv'
  BY <1>1, <1>3 DEF PhaseInv, LeecherLive
<1>4. /\ l # "closed" => leecherUp
      /\ Awaits(l, toLeecher)
      /\ SeederServes => Expects(s, toSeeder)
      /\ (l # "closed" /\ SeederServes) => Together(l, openRpc, toLeecher, s, toSeeder)
  BY DEF PhaseInv, LeecherLive
<1> HIDE DEF l, s
<1>5. CASE Starts
  <2> DEFINE m == [type |-> "ecdh_init"]
  <2>1. /\ l = "idle" /\ leecher'.state = "handshake" /\ toLeecher' = toLeecher
        /\ SendToSeeder(<<m>>) /\ UNCHANGED <<leecherUp, done, openRpc>>
    BY <1>5, LeecherState DEF Starts, Keeps, SessionState, l
  <2>2. m \in SeedPayMessage /\ m.type = "ecdh_init"
    BY DEF SeedPayMessage
  <2>3. Awaits("handshake", toLeecher) /\ Quiet(toLeecher)
    BY <1>4, <2>1 DEF Awaits
  <2>4. ASSUME SeederServes
        PROVE  /\ Expects(s, toSeeder')
               /\ Together("handshake", openRpc', toLeecher', s, toSeeder')
    <3>1. s = "idle" /\ toSeeder = <<>> /\ openRpc = "none"
      BY <1>4, <2>1, <2>4 DEF Together
    <3>2. toSeeder' = toSeeder \o <<m>>
      BY <1>4, <2>1, <2>2, <2>4, Delivered
    <3> HIDE DEF m
    <3>3. Only(toSeeder', "ecdh_init")
      BY <2>2, <3>1, <3>2, FirstMessage
    <3> QED
      BY <2>1, <2>3, <3>1, <3>3 DEF Expects, Together
  <2> QED
    BY <1>3, <2>1, <2>3, <2>4
<1>6. CASE Resolves
  <2> DEFINE m == [type |-> "channel_opened", deposited |-> Deposit]
  <2>1. /\ leecher'.state = l /\ toLeecher' = toLeecher
        /\ openRpc = "landed" /\ openRpc' = "none" /\ UNCHANGED <<leecherUp, done>>
        /\ IF l = "channel_pending" THEN SendToSeeder(<<m>>) ELSE UNCHANGED toSeeder
    BY <1>6 DEF Resolves, Keeps, l
  <2>2. m \in SeedPayMessage /\ m.type = "channel_opened"
    BY DEF SeedPayMessage
  <2> HIDE DEF m
  <2>3. ASSUME SeederServes, l # "closed"
        PROVE  /\ Expects(s, toSeeder')
               /\ Together(l, openRpc', toLeecher', s, toSeeder')
    <3>1. /\ l = "channel_pending" /\ s = "handshake" /\ toSeeder = <<>> /\ Quiet(toLeecher)
      BY <1>4, <2>1, <2>3 DEF Together
    <3>2. toSeeder' = toSeeder \o <<m>>
      BY <1>4, <2>1, <2>2, <2>3, <3>1, Delivered
    <3>3. Only(toSeeder', "channel_opened")
      BY <2>2, <3>1, <3>2, FirstMessage
    <3> QED
      BY <2>1, <3>1, <3>3 DEF Expects, Together
  <2>4. l = "closed" => toSeeder' = toSeeder
    BY <2>1
  <2> QED
    BY <1>3, <1>4, <2>1, <2>3, <2>4
<1>7. CASE Takes
  <2> DEFINE m == Head(toLeecher)
             q == Tail(toLeecher)
  <2>1. toLeecher' = q /\ done' = done /\ Shorter(toLeecher, q) /\ m = toLeecher[1]
    BY <1>7, MessageTypes DEF Takes
  <2> HIDE DEF m, q
  <2>2. CASE Opens
    <3>1. /\ m.type = "ecdh_init" /\ l = "handshake" /\ leecher'.state = "channel_pending"
          /\ openRpc' = "sent" /\ UNCHANGED <<leecherUp, toSeeder>>
      BY <2>2, LeecherState DEF Opens, SessionState, l, m
    <3>2. Quiet(q)
      BY <1>4, <2>1, <3>1, PopControl DEF Awaits, Control
    <3>3. ~Quiet(toLeecher)
      BY <2>1, <3>1, PopControl DEF Control
    <3> QED
      BY <1>3, <1>4, <2>1, <3>1, <3>2, <3>3 DEF Awaits, Together
  <2>3. CASE IsConfirmed
    <3>1. /\ m.type = "channel_confirmed" /\ l = "channel_pending"
          /\ leecher'.state = "active" /\ UNCHANGED <<leecherUp, toSeeder, openRpc>>
      BY <2>3, LeecherState DEF IsConfirmed, SessionState, l, m
    <3>2. Serving(q)
      BY <1>4, <2>1, <3>1, PopControl DEF Awaits, Control
    <3>3. ~Quiet(toLeecher)
      BY <2>1, <3>1, PopControl DEF Control
    <3> QED
      BY <1>3, <1>4, <2>1, <3>1, <3>2, <3>3 DEF Awaits, Together
  <2>4. ASSUME l = "active", leecher'.state = "active", UNCHANGED <<leecherUp, openRpc>>,
               SeederServes /\ s = "active" => Expects("active", toSeeder')
        PROVE  PhaseInv'
    <3>1. Serving(q)
      BY <1>4, <2>1, <2>4, PopControl DEF Awaits
    <3>2. SeederServes => s = "active" /\ openRpc = "none"
      BY <1>4, <2>4 DEF Together
    <3> QED
      BY <1>3, <2>1, <2>4, <3>1, <3>2 DEF Awaits, Together
  <2>5. CASE CountsPiece
    <3>1. /\ l = "active" /\ leecher'.state = "active"
          /\ UNCHANGED <<leecherUp, toSeeder, openRpc>>
      BY <2>5 DEF CountsPiece, l
    <3> QED
      BY <1>4, <2>4, <3>1
  <2>6. ASSUME NEW acc, PaysFor(acc), acc \in PieceAccounting
        PROVE  PhaseInv'
    <3> DEFINE check == CheckFor(acc)
    <3>1. /\ l = "active" /\ leecher'.state = "active" /\ SendToSeeder(<<check>>)
          /\ UNCHANGED <<leecherUp, openRpc>>
      BY <2>6 DEF PaysFor, l
    <3>2. NextCheckAmount(acc) \in Nat /\ NextNonce(acc) \in Nat
      BY <2>6, CostMonotone DEF NextCheckAmount, NextNonce, PieceAccounting
    <3>3. check \in SeedPayMessage /\ check.type = "payment_check"
      BY <3>2, CheckForType
    <3> HIDE DEF check
    <3>4. ASSUME SeederServes, s = "active" PROVE Expects("active", toSeeder')
      <4>1. Longer(toSeeder, toSeeder', check)
        BY <1>4, <3>1, <3>3, <3>4, Delivered
      <4> QED
        BY <1>4, <3>3, <3>4, <4>1, MoreChecks
    <3> QED
      BY <2>4, <3>1, <3>4
  <2>7. CASE Pays
    <3>1. /\ leecher.accounting \in PieceAccounting
          /\ RecordBytes(leecher.accounting, PieceBytes) \in PieceAccounting
      BY DEF LeecherInv, LeecherOK, LeecherSessions, PieceAccounting, RecordBytes
    <3> QED
      BY <2>6, <2>7, <3>1 DEF Pays
  <2>8. CASE Ignores
    <3>1. /\ m.type \notin Control /\ leecher'.state = l
          /\ UNCHANGED <<leecherUp, toSeeder, openRpc>>
      BY <2>8 DEF Ignores, l, m
    <3>2. SameControl(toLeecher, q)
      BY <2>1, <3>1, Bystander
    <3>3. /\ Awaits(l, q)
          /\ Together(l, openRpc, toLeecher, s, toSeeder) =>
               Together(l, openRpc, q, s, toSeeder)
      BY <1>4, <3>2, SameControlPhase
    <3> QED
      BY <1>3, <1>4, <2>1, <3>1, <3>3
  <2> QED
    BY <1>2, <1>5, <1>6, <2>2, <2>3, <2>5, <2>7, <2>8 DEF LeecherEffect
<1> QED
  BY <1>2, <1>5, <1>6, <1>7 DEF LeecherEffect, Opens, IsConfirmed, CountsPiece, Pays, Ignores
-----------------------------------------------------------------------------
(* --- the seeder keeps the phases in step --- *)

ToLeecherMessage == SeedPayMessage \cup [type : {"piece"}]

LEMMA SentToLeecher ==
  ASSUME QueueInv, NEW m \in ToLeecherMessage, SendToLeecher(<<m>>)
  PROVE  /\ leecherUp /\ seederUp => Longer(toLeecher, toLeecher', m)
         /\ ~(leecherUp /\ seederUp) => toLeecher' = toLeecher
         /\ toLeecher' \in Seq(ToLeecherMessage)
<1>1. toLeecher \in Seq(ToLeecherMessage)
  BY DEF QueueInv, ToLeecherMessage
<1> QED
  BY <1>1, SnocIsLonger DEF SendToLeecher

(* What is sent without effect on control leaves both sides in step. *)
LEMMA BystanderSent ==
  ASSUME QueueInv, NEW m \in ToLeecherMessage, m.type \notin Control,
         SendToLeecher(<<m>>)
  PROVE  SameControl(toLeecher, toLeecher')
<1>1. CASE leecherUp /\ seederUp
  BY <1>1, SentToLeecher, Bystander
<1>2. CASE ~(leecherUp /\ seederUp)
  BY <1>2, SentToLeecher DEF SameControl
<1> QED
  BY <1>1, <1>2

LEMMA OnlyMessage ==
  ASSUME QueueInv, NEW t, Only(toSeeder, t)
  PROVE  toSeeder # <<>> /\ Head(toSeeder).type = t /\ Tail(toSeeder) = <<>>
<1>1. toSeeder \in Seq(SeedPayMessage) /\ Len(toSeeder) = 1 /\ toSeeder[1].type = t
  BY DEF QueueInv, Only
<1>2. toSeeder # <<>> /\ Head(toSeeder) = toSeeder[1]
  BY <1>1
<1>3. Tail(toSeeder) \in Seq(SeedPayMessage) /\ Len(Tail(toSeeder)) = 0
  BY <1>1, <1>2, TailIsShorter DEF Shorter
<1> QED
  BY <1>1, <1>2, <1>3, EmptySeq

LEMMA NotOnly ==
  ASSUME NEW t
  PROVE  ~Only(<<>>, t)
  BY DEF Only

LEMMA TooLargeType ==
  [type |-> "payment_check_rejected", reason |-> "Amount exceeds deposit"] \in SeedPayMessage
<1> DEFINE reason == "Amount exceeds deposit"
<1>1. reason \in RefusalReason
  BY DEF RefusalReason
<1> HIDE DEF reason
<1>2. [type |-> "payment_check_rejected", reason |-> reason] \in SeedPayMessage
  BY <1>1 DEF SeedPayMessage
<1> QED
  BY <1>2 DEF reason

(* The pieces of an upload, and the demand behind the piece. *)
LEMMA UploadedQueue ==
  ASSUME QueueInv, Uploads
  PROVE  \/ toLeecher' = toLeecher /\ ~(leecherUp /\ seederUp)
         \/ Longer(toLeecher, toLeecher', ThePiece)
         \/ /\ seeder.state = "active"
            /\ \E q \in Seq(ToLeecherMessage), m \in ToLeecherMessage :
                 /\ m.type = "payment_check_required"
                 /\ Longer(toLeecher, q, ThePiece) /\ Longer(q, toLeecher', m)
                 /\ toLeecher' \in Seq(ToLeecherMessage)
<1>1. toLeecher \in Seq(ToLeecherMessage) /\ ThePiece \in ToLeecherMessage
  BY DEF QueueInv, ToLeecherMessage, ThePiece
<1>2. CASE SendToLeecher(<<ThePiece>>)
  BY <1>1, <1>2, SentToLeecher
<1>3. ASSUME NEW owed \in Nat, seeder.state = "active",
             SendToLeecher(<<ThePiece, [type |-> "payment_check_required",
                                        amountOwed |-> owed]>>)
      PROVE  \/ toLeecher' = toLeecher /\ ~(leecherUp /\ seederUp)
             \/ \E q \in Seq(ToLeecherMessage), m \in ToLeecherMessage :
                 /\ m.type = "payment_check_required"
                 /\ Longer(toLeecher, q, ThePiece) /\ Longer(q, toLeecher', m)
                 /\ toLeecher' \in Seq(ToLeecherMessage)
  <2> DEFINE m == [type |-> "payment_check_required", amountOwed |-> owed]
             q == toLeecher \o <<ThePiece>>
  <2>1. m \in ToLeecherMessage /\ m.type = "payment_check_required"
    BY DEF ToLeecherMessage, SeedPayMessage
  <2>2. /\ leecherUp /\ seederUp => toLeecher' = toLeecher \o <<ThePiece, m>>
        /\ ~(leecherUp /\ seederUp) => toLeecher' = toLeecher
    BY <1>3 DEF SendToLeecher
  <2> HIDE DEF m
  <2>3. toLeecher \o <<ThePiece, m>> = q \o <<m>>
    BY <1>1, <2>1, TwoAtOnce
  <2>4. Longer(toLeecher, q, ThePiece) /\ q \in Seq(ToLeecherMessage)
    BY <1>1, SnocIsLonger
  <2> HIDE DEF q
  <2>5. Longer(q, q \o <<m>>, m) /\ q \o <<m>> \in Seq(ToLeecherMessage)
    BY <2>1, <2>4, SnocIsLonger
  <2> QED
    BY <2>1, <2>2, <2>3, <2>4, <2>5
<1> QED
  BY <1>2, <1>3 DEF Uploads

LEMMA SeederPhase ==
  ASSUME QueueInv, PhaseInv, SeederInv, SeederEffect,
         UNCHANGED <<leecher, leecherUp, done, openRpc>>
  PROVE  PhaseInv'
<1> DEFINE l == leecher.state
           s == seeder.state
           s1 == seeder'.state
<1>1. ASSUME Awaits(l, toLeecher'), SeederServes' => Expects(s1, toSeeder'),
             (l # "closed" /\ SeederServes') =>
               Together(l, openRpc, toLeecher', s1, toSeeder')
      PROVE  PhaseInv'
  BY <1>1 DEF PhaseInv, LeecherLive
<1>2. /\ l # "closed" => leecherUp
      /\ Awaits(l, toLeecher)
      /\ SeederServes => Expects(s, toSeeder)
      /\ (l # "closed" /\ SeederServes) => Together(l, openRpc, toLeecher, s, toSeeder)
      /\ l = "closed" => Awaits(l, toLeecher')
  BY DEF PhaseInv, LeecherLive, Awaits
<1>3. /\ SeederServes <=> seederUp /\ (quitting = "no" \/ s \notin {"closing", "closed"})
      /\ SeederServes' <=> seederUp' /\ (quitting' = "no" \/ s1 \notin {"closing", "closed"})
  BY DEF SeederServes
<1>4. seeder \in SeederSessions
  BY DEF SeederInv, SeederOK
<1>5. \A st \in SessionState : WithState(seeder, st).state = st
  BY <1>4 DEF SeederSessions, WithState
<1> HIDE DEF l, s, s1
<1>6. CASE Closes \/ Crashes
  <2>1. ~SeederServes' /\ toLeecher' = toLeecher
    BY <1>3, <1>6 DEF Closes, Crashes
  <2> QED
    BY <1>1, <1>2, <2>1
<1>7. CASE Initiates
  <2> DEFINE m == [type |-> "ecdh_init"]
  <2>1. /\ Pops /\ Head(toSeeder).type = "ecdh_init" /\ seederUp' = seederUp
        /\ s = "idle" /\ s1 = "handshake" /\ SendToLeecher(<<m>>)
    BY <1>5, <1>7 DEF Initiates, GoesOn, SessionState, s, s1
  <2>2. m \in ToLeecherMessage /\ m.type = "ecdh_init"
    BY DEF ToLeecherMessage, SeedPayMessage
  <2> HIDE DEF m
  <2>3. CASE ~seederUp
    <3>1. toLeecher' = toLeecher /\ ~SeederServes'
      BY <1>3, <2>1, <2>2, <2>3, SentToLeecher
    <3> QED
      BY <1>1, <1>2, <3>1
  <2>4. CASE seederUp
    <3>1. Only(toSeeder, "ecdh_init")
      BY <1>2, <1>3, <2>1, <2>4 DEF Expects, Pops
    <3>2. toSeeder' = <<>>
      BY <2>1, <3>1, OnlyMessage DEF Pops
    <3>3. l # "closed" => l = "handshake" /\ openRpc = "none" /\ Quiet(toLeecher)
      BY <1>2, <1>3, <2>1, <2>4, <3>1, NotOnly DEF Together
    <3>4. l # "closed" => Initiating(toLeecher')
      BY <1>2, <2>1, <2>2, <2>4, <3>3, SentToLeecher, PushControl
    <3> QED
      BY <1>1, <1>2, <2>1, <3>2, <3>3, <3>4 DEF Awaits, Expects, Together
  <2> QED
    BY <2>3, <2>4
<1>8. CASE Verifies
  <2>1. /\ Pops /\ Head(toSeeder).type = "channel_opened" /\ GoesOn
        /\ s = "handshake" /\ s1 = "channel_pending" /\ toLeecher' = toLeecher
    BY <1>5, <1>8 DEF Verifies, SessionState, s, s1
  <2>2. CASE ~seederUp
    BY <1>1, <1>2, <1>3, <2>1, <2>2 DEF GoesOn
  <2>3. CASE seederUp
    <3>1. Only(toSeeder, "channel_opened")
      BY <1>2, <1>3, <2>1, <2>3 DEF Expects, Pops
    <3>2. toSeeder' = <<>>
      BY <2>1, <3>1, OnlyMessage DEF Pops
    <3>3. l # "closed" => l = "channel_pending" /\ openRpc = "none" /\ Quiet(toLeecher)
      BY <1>2, <1>3, <2>1, <2>3, <3>1, NotOnly DEF Together, Pops
    <3> QED
      BY <1>1, <1>2, <2>1, <3>2, <3>3 DEF Expects, Together
  <2> QED
    BY <2>2, <2>3
<1>9. ASSUME Pops, GoesOn, s = "active", s1 = "active",
             SameControl(toLeecher, toLeecher')
      PROVE  PhaseInv'
  <2>1. SeederServes' <=> SeederServes
    BY <1>3, <1>9 DEF GoesOn
  <2>2. SeederServes => Expects("active", toSeeder')
    <3>1. Shorter(toSeeder, toSeeder')
      BY <1>9, SeederMessageTypes DEF Pops
    <3> QED
      BY <1>2, <1>9, <3>1 DEF Expects, Shorter
  <2>3. (l # "closed" /\ SeederServes) =>
          /\ Together(l, openRpc, toLeecher', s, toSeeder)
          /\ Together(l, openRpc, toLeecher', s, toSeeder')
    BY <1>2, <1>9, SameControlPhase DEF Together, Pops
  <2>4. Awaits(l, toLeecher')
    BY <1>2, <1>9, SameControlPhase
  <2> QED
    BY <1>1, <1>9, <2>1, <2>2, <2>3, <2>4
<1>10. CASE Accepts
  <2>1. Pops /\ GoesOn /\ s = "active" /\ toLeecher' = toLeecher
    BY <1>10 DEF Accepts, s
  <2>2. s1 = "active"
    BY <1>4, <1>10 DEF Accepts, SeederSessions, s1
  <2>3. SameControl(toLeecher, toLeecher')
    BY <2>1 DEF SameControl
  <2> QED
    BY <1>9, <2>1, <2>2, <2>3
<1>11. CASE Refuses
  <2> DEFINE m == [type |-> "payment_check_rejected", reason |-> "Amount exceeds deposit"]
  <2>1. Pops /\ GoesOn /\ s = "active" /\ s1 = "active" /\ SendToLeecher(<<m>>)
    BY <1>11 DEF Refuses, s, s1
  <2>2. m \in ToLeecherMessage /\ m.type \notin Control
    BY TooLargeType DEF ToLeecherMessage, Control
  <2> HIDE DEF m
  <2> QED
    BY <1>9, <2>1, <2>2, BystanderSent
<1>12. CASE Passes
  <2>1. /\ Pops /\ GoesOn /\ s1 = s /\ toLeecher' = toLeecher
        /\ Head(toSeeder).type \notin {"ecdh_init", "channel_opened", "payment_check"}
    BY <1>12 DEF Passes, s, s1
  <2>2. Shorter(toSeeder, Tail(toSeeder)) /\ Head(toSeeder) = toSeeder[1]
    BY <2>1, SeederMessageTypes DEF Pops
  <2>3. ~Expects(s, toSeeder)
    BY <2>1, <2>2 DEF Expects, Only, Shorter, Pops
  <2> QED
    BY <1>1, <1>2, <1>3, <2>1, <2>3 DEF GoesOn
<1>13. CASE Confirms
  <2> DEFINE m == [type |-> "channel_confirmed"]
  <2>1. /\ s = "channel_pending" /\ s1 = "active" /\ SendToLeecher(<<m>>)
        /\ GoesOn /\ toSeeder' = toSeeder
    BY <1>13 DEF Confirms, s, s1
  <2>2. m \in ToLeecherMessage /\ m.type = "channel_confirmed"
    BY DEF ToLeecherMessage, SeedPayMessage
  <2> HIDE DEF m
  <2>3. CASE ~seederUp
    <3>1. toLeecher' = toLeecher /\ ~SeederServes'
      BY <1>3, <2>1, <2>2, <2>3, SentToLeecher DEF GoesOn
    <3> QED
      BY <1>1, <1>2, <3>1
  <2>4. CASE seederUp
    <3>1. toSeeder = <<>>
      BY <1>2, <1>3, <2>1, <2>4 DEF Expects
    <3>2. l # "closed" => l = "channel_pending" /\ openRpc = "none" /\ Quiet(toLeecher)
      BY <1>2, <1>3, <2>1, <2>4 DEF Together
    <3>3. l # "closed" => Confirming(toLeecher')
      BY <1>2, <2>1, <2>2, <2>4, <3>2, SentToLeecher, PushControl
    <3>4. Expects(s1, toSeeder')
      BY <2>1, <3>1 DEF Expects
    <3> QED
      BY <1>1, <1>2, <2>1, <3>1, <3>2, <3>3, <3>4 DEF Awaits, Together
  <2> QED
    BY <2>3, <2>4
<1>14. CASE Rejects
  <2> DEFINE m == [type |-> "channel_rejected"]
  <2>1. /\ s \in {"channel_pending", "closed"} /\ s1 = "closed" /\ SendToLeecher(<<m>>)
        /\ GoesOn /\ toSeeder' = toSeeder
    BY <1>14 DEF Rejects, s, s1
  <2>2. m \in ToLeecherMessage /\ m.type \notin Control
    BY DEF ToLeecherMessage, SeedPayMessage, Control
  <2> HIDE DEF m
  <2>3. SameControl(toLeecher, toLeecher')
    BY <2>1, <2>2, BystanderSent
  <2>4. Awaits(l, toLeecher')
    BY <1>2, <2>3, SameControlPhase
  <2>5. SeederServes' => SeederServes
    BY <1>3, <2>1 DEF GoesOn
  <2>6. SeederServes => toSeeder = <<>>
    BY <1>2, <2>1 DEF Expects
  <2>7. (l # "closed" /\ SeederServes) =>
          l = "channel_pending" /\ openRpc = "none" /\ Quiet(toLeecher')
    BY <1>2, <2>1, <2>3 DEF Together, SameControl
  <2> QED
    BY <1>1, <2>1, <2>4, <2>5, <2>6, <2>7 DEF Expects, Together
<1>15. CASE Uploads
  <2>1. s1 = s /\ GoesOn /\ toSeeder' = toSeeder /\ seederUp
    BY <1>15 DEF Uploads, s, s1
  <2>2. SeederServes' <=> SeederServes
    BY <1>3, <2>1 DEF GoesOn
  <2>3. ASSUME SameControl(toLeecher, toLeecher') PROVE PhaseInv'
    <3>1. /\ Awaits(l, toLeecher')
          /\ (l # "closed" /\ SeederServes) =>
               Together(l, openRpc, toLeecher', s, toSeeder)
      BY <1>2, <2>3, SameControlPhase
    <3> QED
      BY <1>1, <1>2, <2>1, <2>2, <3>1
  <2>4. ThePiece.type \notin Control
    BY DEF ThePiece, Control
  <2>5. CASE toLeecher' = toLeecher \/ Longer(toLeecher, toLeecher', ThePiece)
    <3>1. SameControl(toLeecher, toLeecher')
      BY <2>4, <2>5, Bystander DEF SameControl
    <3> QED
      BY <2>3, <3>1
  <2>6. ASSUME s = "active", NEW q, NEW m, m.type = "payment_check_required",
               Longer(toLeecher, q, ThePiece), Longer(q, toLeecher', m)
        PROVE  PhaseInv'
    <3>1. SameControl(toLeecher, q)
      BY <2>4, <2>6, Bystander
    <3>2. /\ Serving(toLeecher) => Serving(toLeecher')
          /\ Confirming(toLeecher) => Confirming(toLeecher')
      BY <2>6, <3>1, PushControl DEF SameControl
    <3>3. SeederServes
      BY <1>3, <2>1, <2>6
    <3>4. /\ l # "closed" => Together(l, openRpc, toLeecher', s, toSeeder)
          /\ l # "closed" => l \in {"active", "channel_pending"}
          /\ l = "active" => Serving(toLeecher')
          /\ l = "channel_pending" => Confirming(toLeecher')
      BY <1>2, <2>6, <3>2, <3>3 DEF Together, Awaits
    <3> QED
      BY <1>1, <1>2, <2>1, <2>2, <3>4 DEF Awaits
  <2> QED
    BY <1>15, <2>5, <2>6, UploadedQueue DEF s
<1>16. CASE ShutsDown
  <2>1. /\ quitting' # "no" /\ quitting = "no" /\ seederUp' = seederUp
        /\ toLeecher' = toLeecher /\ toSeeder' = toSeeder
        /\ IF s = "active" THEN s1 \in {"closing", "closed"} ELSE s1 = s
    BY <1>16 DEF ShutsDown, s, s1
  <2>2. SeederServes' => SeederServes /\ s1 = s
    BY <1>3, <2>1
  <2> QED
    BY <1>1, <1>2, <2>1, <2>2
<1>17. CASE Rests
  <2>1. s1 = s /\ toLeecher' = toLeecher /\ toSeeder' = toSeeder /\ seederUp' = seederUp
        /\ (quitting' = "no" <=> quitting = "no")
    BY <1>17 DEF Rests, s, s1
  <2> QED
    BY <1>1, <1>2, <1>3, <2>1
<1> QED
  BY <1>6, <1>7, <1>8, <1>10, <1>11, <1>12, <1>13, <1>14, <1>15, <1>16, <1>17
     DEF SeederEffect
-----------------------------------------------------------------------------
(* --- checks stay in order --- *)

LEMMA OrderPop ==
  ASSUME NEW q, NEW r, NEW best, NEW n, NEW a, InOrder(q, best, n, a), Shorter(q, r)
  PROVE  InOrder(r, best, n, a)
<1>1. \A i \in Checks(r) : i + 1 \in Checks(q) /\ r[i] = q[i + 1] /\ i \in Nat
  BY DEF Checks, Shorter
<1> QED
  BY <1>1 DEF InOrder

(* The check at the head becomes the best one. *)
LEMMA OrderAccept ==
  ASSUME NEW q, NEW r, NEW best, NEW n, NEW a, InOrder(q, best, n, a), Shorter(q, r),
         q[1].type = "payment_check", NEW c, c.nonce = q[1].nonce, c.amount = q[1].amount
  PROVE  InOrder(r, c, n, a)
<1>1. \A i \in Checks(r) : i + 1 \in Checks(q) /\ r[i] = q[i + 1] /\ i \in Nat /\ 1 < i + 1
  BY DEF Checks, Shorter
<1>2. 1 \in Checks(q)
  BY DEF Checks, Shorter
<1> QED
  BY <1>1, <1>2 DEF InOrder

(* A check that never arrives. *)
LEMMA OrderRaise ==
  ASSUME NEW q, NEW best, best.nonce \in Int, best.amount \in Int,
         NEW n \in Nat, NEW a \in Nat, NEW n2 \in Nat, NEW a2 \in Nat,
         InOrder(q, best, n, a), n <= n2, a <= a2
  PROVE  InOrder(q, best, n2, a2)
  BY DEF InOrder

LEMMA OrderPush ==
  ASSUME NEW q, NEW r, NEW m, NEW best, NEW n, NEW a, InOrder(q, best, n, a),
         Longer(q, r, m), m.type # "payment_check"
  PROVE  InOrder(r, best, n, a)
<1>1. \A i \in Checks(r) : i \in Checks(q) /\ r[i] = q[i]
  BY DEF Checks, Longer
<1> QED
  BY <1>1 DEF InOrder

(* The next check of the leecher is the best one. *)
LEMMA OrderPay ==
  ASSUME NEW q, NEW r, NEW m, NEW best, best.nonce \in Int, best.amount \in Int,
         NEW n \in Nat, NEW a \in Nat, InOrder(q, best, n, a), Longer(q, r, m),
         m.nonce \in Nat, m.amount \in Nat, n < m.nonce, a <= m.amount
  PROVE  InOrder(r, best, m.nonce, m.amount)
<1>1. \A i \in Checks(r) : \/ i \in Checks(q) /\ r[i] = q[i] /\ i <= Len(q) /\ i \in Nat
                           \/ i = Len(q) + 1 /\ r[i] = m
  BY DEF Checks, Longer
<1>2. Len(q) \in Nat
  BY DEF Longer
<1>3. /\ best.nonce <= m.nonce /\ best.amount <= m.amount
      /\ best.nonce < m.nonce
  BY DEF InOrder
<1>4. ASSUME NEW i \in Checks(r)
      PROVE  /\ r[i].nonce \in Nat /\ r[i].amount \in Nat
             /\ best.nonce < r[i].nonce /\ r[i].nonce <= m.nonce
             /\ best.amount <= r[i].amount /\ r[i].amount <= m.amount
  BY <1>1, <1>3, <1>4 DEF InOrder
<1>5. ASSUME NEW i \in Checks(r), NEW j \in Checks(r), i < j
      PROVE  r[i].nonce < r[j].nonce /\ r[i].amount <= r[j].amount
  <2>1. i \in Nat /\ j \in Nat
    BY <1>2 DEF Checks, Longer
  <2>2. i # Len(q) + 1
    BY <1>1, <1>2, <1>5, <2>1
  <2>3. i \in Checks(q) /\ r[i] = q[i]
    BY <1>1, <2>2
  <2>4. CASE j \in Checks(q) /\ r[j] = q[j]
    BY <1>5, <2>3, <2>4 DEF InOrder
  <2>5. CASE r[j] = m
    <3>1. /\ q[i].nonce \in Nat /\ q[i].amount \in Nat
          /\ q[i].nonce <= n /\ q[i].amount <= a
      BY <2>3 DEF InOrder
    <3> QED
      BY <2>3, <2>5, <3>1
  <2> QED
    BY <1>1, <2>4, <2>5
<1> QED
  BY <1>3, <1>4, <1>5 DEF InOrder

LEMMA SentToSeeder ==
  ASSUME QueueInv, NEW m \in SeedPayMessage, m.type # "channel_closed",
         SendToSeeder(<<m>>)
  PROVE  /\ toSeeder' = toSeeder \/ Longer(toSeeder, toSeeder', m)
         /\ toSeeder' \in Seq(SeedPayMessage)
         /\ \A i \in 1 .. Len(toSeeder') : toSeeder'[i].type # "channel_closed"
<1>1. /\ toSeeder \in Seq(SeedPayMessage)
      /\ \A i \in 1 .. Len(toSeeder) : toSeeder[i].type # "channel_closed"
  BY DEF QueueInv
<1>2. /\ toSeeder' = toSeeder \/ Longer(toSeeder, toSeeder', m)
      /\ toSeeder' \in Seq(SeedPayMessage)
  BY <1>1, SnocIsLonger DEF SendToSeeder
<1>3. Len(toSeeder) \in Nat /\ Len(toSeeder') \in Nat
  BY <1>1, <1>2
<1> QED
  BY <1>1, <1>2, <1>3 DEF Longer

(* The messages a leecher sends that are not checks. *)
LEMMA OtherMessages ==
  /\ [type |-> "ecdh_init"] \in SeedPayMessage
  /\ [type |-> "channel_opened", deposited |-> Deposit] \in SeedPayMessage
  BY DEF SeedPayMessage

(* The check a leecher sends next is worth what all bytes so far cost. *)
LEMMA NextCheck ==
  ASSUME NEW acc \in PieceAccounting
  PROVE  /\ NextCheckAmount(acc) = Cost(acc.totalBytes) /\ NextCheckAmount(acc) \in Nat
         /\ NextNonce(acc) \in Nat /\ acc.lastNonce < NextNonce(acc)
         /\ CheckFor(acc) \in SeedPayMessage
         /\ CheckFor(acc).type = "payment_check" /\ CheckFor(acc).channelId = Id
         /\ CheckFor(acc).amount = NextCheckAmount(acc)
         /\ CheckFor(acc).nonce = NextNonce(acc)
         /\ RecordCheck(acc, NextCheckAmount(acc), NextNonce(acc)).lastNonce = NextNonce(acc)
         /\ RecordCheck(acc, NextCheckAmount(acc), NextNonce(acc)).lastCheckAmount
              = NextCheckAmount(acc)
<1>1. acc.totalBytes \in Nat /\ acc.lastNonce \in Nat
  BY DEF PieceAccounting
<1>2. NextCheckAmount(acc) = Cost(acc.totalBytes) /\ NextCheckAmount(acc) \in Nat
  BY <1>1, CostMonotone DEF NextCheckAmount
<1>3. NextNonce(acc) \in Nat /\ acc.lastNonce < NextNonce(acc)
  BY <1>1 DEF NextNonce
<1>4. /\ CheckFor(acc) \in SeedPayMessage
      /\ CheckFor(acc).type = "payment_check" /\ CheckFor(acc).channelId = Id
      /\ CheckFor(acc).amount = NextCheckAmount(acc)
      /\ CheckFor(acc).nonce = NextNonce(acc)
  BY <1>2, <1>3, CheckForType
<1> QED
  BY <1>2, <1>3, <1>4 DEF RecordCheck, PieceAccounting

(* A piece is counted before it is paid for. *)
LEMMA CountedAccounting ==
  ASSUME NEW acc \in PieceAccounting
  PROVE  LET counted == RecordBytes(acc, PieceBytes)
         IN  /\ counted \in PieceAccounting
             /\ counted.totalBytes = acc.totalBytes + PieceBytes
             /\ counted.lastNonce = acc.lastNonce
             /\ counted.lastCheckAmount = acc.lastCheckAmount
  BY DEF PieceAccounting, RecordBytes

LEMMA LeecherCheck ==
  ASSUME QueueInv, CheckInv, LeecherInv, SeederInv, LeecherEffect, seeder' = seeder,
         NEW step, Leecher(step)
  PROVE  CheckInv'
<1> DEFINE acc == leecher.accounting
           acc1 == leecher'.accounting
           best == seeder.highestCheck
           Ordered(q, a) == InOrder(q, best, a.lastNonce, a.lastCheckAmount)
<1>1. /\ acc \in PieceAccounting /\ acc.lastNonce \in Nat /\ acc.lastCheckAmount \in Nat
      /\ acc.totalBytes \in Nat /\ acc.lastCheckAmount <= Cost(acc.totalBytes)
      /\ best.nonce \in Int /\ best.amount \in Int
      /\ leecher \in LeecherSessions
  BY DEF LeecherInv, LeecherOK, LeecherSessions, PieceAccounting, SeederInv, SeederOK,
         SeederSessions, PaymentCheck, NoCheck
<1>2. Ordered(toSeeder, acc) /\ \A i \in Checks(toSeeder) : SignedBy(toSeeder[i]) \in signed
  BY DEF CheckInv
<1>3. /\ signed \subseteq signed'
      /\ acc1.lastNonce # acc.lastNonce =>
           SignedBy([channelId |-> Id, amount |-> acc1.lastCheckAmount,
                     nonce |-> acc1.lastNonce]) \in signed'
  BY DEF Leecher
<1>4. ASSUME Ordered(toSeeder', acc1),
             \A i \in Checks(toSeeder') : SignedBy(toSeeder'[i]) \in signed'
      PROVE  CheckInv'
  BY <1>4 DEF CheckInv
(* A step that makes no check. *)
<1>5. ASSUME NEW m \in SeedPayMessage, m.type \notin {"payment_check", "channel_closed"},
             acc1 = acc, toSeeder' = toSeeder \/ SendToSeeder(<<m>>)
      PROVE  CheckInv'
  <2>1. toSeeder' = toSeeder \/ Longer(toSeeder, toSeeder', m)
    BY <1>5, SentToSeeder
  <2>2. Ordered(toSeeder', acc1)
    BY <1>2, <1>5, <2>1, OrderPush
  <2>3. \A i \in Checks(toSeeder') : i \in Checks(toSeeder) /\ toSeeder'[i] = toSeeder[i]
    BY <1>5, <2>1 DEF Checks, Longer
  <2>4. \A i \in Checks(toSeeder') : SignedBy(toSeeder'[i]) \in signed'
    BY <1>2, <1>3, <2>3
  <2> QED
    BY <1>4, <2>2, <2>4
<1>6. ASSUME NEW a \in PieceAccounting, PaysFor(a), a.lastNonce = acc.lastNonce,
             acc.lastCheckAmount <= Cost(a.totalBytes)
      PROVE  CheckInv'
  <2> DEFINE m == CheckFor(a)
  <2>1. /\ m \in SeedPayMessage /\ m.type = "payment_check"
        /\ m.channelId = Id /\ m.amount \in Nat /\ m.nonce \in Nat
        /\ acc.lastNonce < m.nonce /\ acc.lastCheckAmount <= m.amount
        /\ acc1.lastNonce = m.nonce /\ acc1.lastCheckAmount = m.amount
        /\ SendToSeeder(<<m>>)
    BY <1>6, NextCheck DEF PaysFor
  <2> HIDE DEF m, acc, acc1, best
  <2>2. toSeeder' = toSeeder \/ Longer(toSeeder, toSeeder', m)
    BY <2>1, SentToSeeder
  <2>3. Ordered(toSeeder', acc1)
    <3>1. CASE toSeeder' = toSeeder
      BY <1>1, <1>2, <2>1, <3>1, OrderRaise
    <3>2. CASE Longer(toSeeder, toSeeder', m)
      BY <1>1, <1>2, <2>1, <3>2, OrderPay
    <3> QED
      BY <2>2, <3>1, <3>2
  <2>4. SignedBy(m) \in signed'
    <3>1. acc1.lastNonce # acc.lastNonce
      BY <1>1, <2>1
    <3>2. SignedBy([channelId |-> Id, amount |-> acc1.lastCheckAmount,
                    nonce |-> acc1.lastNonce]) = SignedBy(m)
      BY <2>1 DEF SignedBy
    <3> QED
      BY <1>3, <3>1, <3>2
  <2>5. \A i \in Checks(toSeeder') :
          \/ i \in Checks(toSeeder) /\ toSeeder'[i] = toSeeder[i]
          \/ toSeeder'[i] = m
    BY <2>2 DEF Checks, Longer
  <2>6. \A i \in Checks(toSeeder') : SignedBy(toSeeder'[i]) \in signed'
    BY <1>2, <1>3, <2>4, <2>5
  <2> QED
    BY <1>4, <2>3, <2>6
<1>7. CASE Ends \/ Starts \/ Opens \/ IsConfirmed \/ Ignores \/ Resolves
  <2>1. acc1 = acc
    BY <1>1, <1>7 DEF Ends, Starts, Opens, IsConfirmed, Ignores, Resolves, WithState,
                      LeecherSessions
  <2>2. \/ toSeeder' = toSeeder \/ SendToSeeder(<<[type |-> "ecdh_init"]>>)
        \/ SendToSeeder(<<[type |-> "channel_opened", deposited |-> Deposit]>>)
    BY <1>7 DEF Ends, Starts, Opens, IsConfirmed, Ignores, Resolves
  <2> QED
    BY <1>5, <2>1, <2>2, OtherMessages
<1>8. CASE CountsPiece
  <2>1. acc1.lastNonce = acc.lastNonce /\ acc1.lastCheckAmount = acc.lastCheckAmount
        /\ toSeeder' = toSeeder
    BY <1>1, <1>8, CountedAccounting DEF CountsPiece
  <2> QED
    BY <1>2, <1>3, <1>4, <2>1
<1>9. CASE Pays
  <2> DEFINE counted == RecordBytes(acc, PieceBytes)
  <2>1. /\ counted \in PieceAccounting /\ counted.lastNonce = acc.lastNonce
        /\ counted.totalBytes \in Nat /\ acc.totalBytes <= counted.totalBytes
    BY <1>1, CountedAccounting DEF PieceAccounting
  <2> HIDE DEF counted
  <2>2. acc.lastCheckAmount <= Cost(counted.totalBytes)
    BY <1>1, <2>1, CostMonotone
  <2> QED
    BY <1>1, <1>6, <1>9, <2>1, <2>2 DEF Pays, counted
<1> QED
  BY <1>7, <1>8, <1>9 DEF LeecherEffect

(* A seeder takes checks from the head of the queue, and adds none. *)
LEMMA SeederCheck ==
  ASSUME QueueInv, CheckInv, LeecherInv, SeederInv, SeederEffect,
         UNCHANGED <<leecher, signed>>
  PROVE  CheckInv'
<1> DEFINE n == leecher.accounting.lastNonce
           a == leecher.accounting.lastCheckAmount
           best == seeder.highestCheck
           best1 == seeder'.highestCheck
<1>1. /\ n \in Nat /\ a \in Nat /\ best.nonce \in Int /\ best.amount \in Int
      /\ seeder \in SeederSessions
  BY DEF LeecherInv, LeecherOK, LeecherSessions, PieceAccounting, SeederInv, SeederOK,
         SeederSessions, PaymentCheck, NoCheck
<1>2. /\ InOrder(toSeeder, best, n, a)
      /\ \A i \in Checks(toSeeder) : SignedBy(toSeeder[i]) \in signed
  BY DEF CheckInv
<1>3. ASSUME toSeeder' = toSeeder \/ Pops, InOrder(toSeeder', best1, n, a)
      PROVE  CheckInv'
  <2>1. CASE toSeeder' = toSeeder
    BY <1>2, <1>3, <2>1 DEF CheckInv
  <2>2. CASE Pops
    <3>1. Shorter(toSeeder, toSeeder')
      BY <2>2, SeederMessageTypes DEF Pops
    <3>2. \A i \in Checks(toSeeder') : i + 1 \in Checks(toSeeder) /\ toSeeder'[i] = toSeeder[i + 1]
      BY <3>1 DEF Checks, Shorter
    <3>3. \A i \in Checks(toSeeder') : SignedBy(toSeeder'[i]) \in signed'
      BY <1>2, <3>2
    <3> QED
      BY <1>3, <3>3 DEF CheckInv
  <2> QED
    BY <1>3, <2>1, <2>2
<1>4. ASSUME toSeeder' = toSeeder \/ Pops, best1 = best
      PROVE  CheckInv'
  <2>1. Pops => Shorter(toSeeder, toSeeder')
    BY SeederMessageTypes DEF Pops
  <2> QED
    BY <1>2, <1>3, <1>4, <2>1, OrderPop
<1>5. CASE Accepts
  <2>1. /\ Shorter(toSeeder, toSeeder') /\ toSeeder[1].type = "payment_check"
        /\ best1 = CheckOf(toSeeder[1])
    BY <1>1, <1>5, SeederMessageTypes DEF Accepts, Pops, SeederSessions
  <2>2. best1.nonce = toSeeder[1].nonce /\ best1.amount = toSeeder[1].amount
    BY <2>1 DEF CheckOf
  <2>3. InOrder(toSeeder', best1, n, a)
    BY <1>2, <2>1, <2>2, OrderAccept
  <2> QED
    BY <1>3, <1>5, <2>3 DEF Accepts
<1>6. CASE Crashes
  <2>1. toSeeder' = toSeeder /\ best1.nonce = -1 /\ best1.amount = 0
    BY <1>6 DEF Crashes, NoCheck
  <2> HIDE DEF best, best1, n, a
  <2>2. InOrder(toSeeder, best1, n, a)
    BY <1>1, <1>2, <2>1 DEF InOrder
  <2> QED
    BY <1>3, <2>1, <2>2
<1>7. CASE Initiates \/ Verifies \/ Refuses \/ Passes \/ Rests
  <2>1. best1 = best /\ (toSeeder' = toSeeder \/ Pops)
    BY <1>1, <1>7 DEF Initiates, Verifies, Refuses, Passes, Rests, WithState,
                      SeederSessions
  <2> QED
    BY <1>4, <2>1
<1>8. CASE Closes \/ Confirms \/ Rejects \/ Uploads \/ ShutsDown
  <2>1. best1 = best /\ (toSeeder' = toSeeder \/ Pops)
    BY <1>8 DEF Closes, Confirms, Rejects, Uploads, ShutsDown, SameBooks
  <2> QED
    BY <1>4, <2>1
<1> QED
  BY <1>5, <1>6, <1>7, <1>8 DEF SeederEffect
-----------------------------------------------------------------------------
(* --- messages keep their types --- *)

LEMMA LeecherQueue ==
  ASSUME QueueInv, LeecherInv, LeecherEffect, UNCHANGED <<seederUp, seederAlive, quitting>>
  PROVE  QueueInv'
<1> DEFINE Fair(m) == /\ m.type # "channel_closed"
                      /\ m.type = "payment_check_rejected" =>
                           m.reason = "Amount exceeds deposit"
           Good(q) == q \in Seq(ToLeecherMessage) /\ \A i \in 1 .. Len(q) : Fair(q[i])
<1>1. Good(toLeecher)
  BY DEF QueueInv, ToLeecherMessage
<1>0. ASSUME Good(toLeecher'), leecherUp' \in BOOLEAN, done' \in BOOLEAN,
             openRpc' \in {"none", "sent", "landed", "failed"},
             toSeeder' \in Seq(SeedPayMessage),
             \A i \in 1 .. Len(toSeeder') : toSeeder'[i].type # "channel_closed"
      PROVE  QueueInv'
  BY <1>0 DEF QueueInv, ToLeecherMessage
<1> HIDE DEF Fair
<1>2. ASSUME NEW r, Shorter(toLeecher, r), r \in Seq(ToLeecherMessage) PROVE Good(r)
  <2>1. \A i \in 1 .. Len(r) : i + 1 \in 1 .. Len(toLeecher) /\ r[i] = toLeecher[i + 1]
    BY <1>2 DEF Shorter
  <2> QED
    BY <1>1, <1>2, <2>1
<1>3. toLeecher # <<>> =>
        Shorter(toLeecher, Tail(toLeecher)) /\ Tail(toLeecher) \in Seq(ToLeecherMessage)
  BY <1>1, TailIsShorter
<1>4. toLeecher' = toLeecher \/ (toLeecher # <<>> /\ toLeecher' = Tail(toLeecher))
  BY DEF LeecherEffect, Ends, Starts, Opens, IsConfirmed, CountsPiece, Pays, Ignores,
         Resolves, Keeps, Takes
<1>5. Good(toLeecher')
  BY <1>1, <1>2, <1>3, <1>4
<1> DEFINE Sent(q) == /\ q \in Seq(SeedPayMessage)
                      /\ \A i \in 1 .. Len(q) : q[i].type # "channel_closed"
<1>6. ASSUME NEW m \in SeedPayMessage, m.type # "channel_closed", SendToSeeder(<<m>>)
      PROVE  Sent(toSeeder')
  BY <1>6, SentToSeeder
<1>7. Sent(toSeeder)
  BY DEF QueueInv
<1>8. /\ leecherUp \in BOOLEAN /\ openRpc \in {"none", "sent", "landed", "failed"}
      /\ done \in BOOLEAN
  BY DEF QueueInv
<1>9. /\ leecherUp' \in BOOLEAN /\ openRpc' \in {"none", "sent", "landed", "failed"}
      /\ done' \in BOOLEAN
  BY <1>8 DEF LeecherEffect, Ends, Starts, Opens, IsConfirmed, CountsPiece, Pays, PaysFor,
              Ignores, Resolves, Keeps, Takes
<1> HIDE DEF Good, Sent
<1>10. CASE Ends \/ Starts \/ Opens \/ IsConfirmed \/ Ignores \/ Resolves \/ CountsPiece
  <2>1. \/ toSeeder' = toSeeder \/ SendToSeeder(<<[type |-> "ecdh_init"]>>)
        \/ SendToSeeder(<<[type |-> "channel_opened", deposited |-> Deposit]>>)
    BY <1>10 DEF Ends, Starts, Opens, IsConfirmed, Ignores, Resolves, CountsPiece
  <2>2. Sent(toSeeder')
    BY <1>6, <1>7, <2>1, OtherMessages
  <2> QED
    BY <1>0, <1>5, <1>9, <2>2 DEF Sent
<1>11. CASE Pays
  <2>1. ASSUME NEW a \in PieceAccounting, PaysFor(a) PROVE Sent(toSeeder')
    <3> DEFINE m == CheckFor(a)
    <3>1. m \in SeedPayMessage /\ m.type = "payment_check" /\ SendToSeeder(<<m>>)
      BY <2>1, NextCheck DEF PaysFor
    <3> HIDE DEF m
    <3> QED
      BY <1>6, <3>1
  <2>2. /\ leecher.accounting \in PieceAccounting
        /\ RecordBytes(leecher.accounting, PieceBytes) \in PieceAccounting
    BY CountedAccounting DEF LeecherInv, LeecherOK, LeecherSessions
  <2>3. Sent(toSeeder')
    BY <1>11, <2>1, <2>2 DEF Pays
  <2> QED
    BY <1>0, <1>5, <1>9, <2>3 DEF Sent
<1> QED
  BY <1>10, <1>11 DEF LeecherEffect

LEMMA SeederQueue ==
  ASSUME QueueInv, SeederEffect, UNCHANGED <<leecherUp, openRpc, done>>
  PROVE  QueueInv'
<1> DEFINE Fair(m) == /\ m.type # "channel_closed"
                      /\ m.type = "payment_check_rejected" =>
                           m.reason = "Amount exceeds deposit"
           Fine(m) == m \in ToLeecherMessage /\ Fair(m)
           Good(q) == q \in Seq(ToLeecherMessage) /\ \A i \in 1 .. Len(q) : Fair(q[i])
<1>1. Good(toLeecher)
  BY DEF QueueInv, ToLeecherMessage
<1>2. ASSUME NEW q, NEW r, NEW m, Good(q), Fine(m), Longer(q, r, m),
             r \in Seq(ToLeecherMessage)
      PROVE  Good(r)
  <2>1. \A i \in 1 .. Len(r) : (i \in 1 .. Len(q) /\ r[i] = q[i]) \/ r[i] = m
    BY <1>2, LongerElements
  <2> HIDE DEF Fair
  <2> QED
    BY <1>2, <2>1
<1>3. ASSUME NEW m, Fine(m), SendToLeecher(<<m>>) PROVE Good(toLeecher')
  <2>1. /\ toLeecher' = toLeecher \/ Longer(toLeecher, toLeecher', m)
        /\ toLeecher' \in Seq(ToLeecherMessage)
    BY <1>3, SentToLeecher
  <2> QED
    BY <1>1, <1>2, <1>3, <2>1
<1>4. /\ Fine([type |-> "ecdh_init"]) /\ Fine([type |-> "channel_confirmed"])
      /\ Fine([type |-> "channel_rejected"]) /\ Fine(ThePiece)
  BY DEF ToLeecherMessage, SeedPayMessage, ThePiece
<1>5. Fine([type |-> "payment_check_rejected", reason |-> "Amount exceeds deposit"])
  BY TooLargeType DEF ToLeecherMessage
<1>6. \A owed \in Nat : Fine([type |-> "payment_check_required", amountOwed |-> owed])
  BY DEF ToLeecherMessage, SeedPayMessage
<1> HIDE DEF Fine
<1>7. Good(toLeecher')
  <2>1. CASE Closes \/ Crashes \/ Verifies \/ Accepts \/ Passes \/ ShutsDown \/ Rests
    BY <1>1, <2>1 DEF Closes, Crashes, Verifies, Accepts, Passes, ShutsDown, Rests
  <2>2. CASE Initiates \/ Confirms \/ Rejects
    BY <1>3, <1>4, <2>2 DEF Initiates, Confirms, Rejects
  <2>3. CASE Refuses
    BY <1>3, <1>5, <2>3 DEF Refuses
  <2>4. CASE Uploads
    <3>1. CASE SendToLeecher(<<ThePiece>>)
      BY <1>3, <1>4, <3>1
    <3>2. ASSUME NEW owed \in Nat,
                 SendToLeecher(<<ThePiece, [type |-> "payment_check_required",
                                            amountOwed |-> owed]>>)
          PROVE  Good(toLeecher')
      <4> DEFINE m == [type |-> "payment_check_required", amountOwed |-> owed]
                 q == toLeecher \o <<ThePiece>>
      <4>1. Fine(m) /\ Fine(ThePiece) /\ m \in ToLeecherMessage /\ ThePiece \in ToLeecherMessage
        BY <1>4, <1>6 DEF Fine
      <4>2. toLeecher' = toLeecher \/ toLeecher' = toLeecher \o <<ThePiece, m>>
        BY <3>2 DEF SendToLeecher
      <4> HIDE DEF m
      <4>3. toLeecher \o <<ThePiece, m>> = q \o <<m>>
        <5>1. toLeecher \in Seq(ToLeecherMessage)
          BY <1>1
        <5> HIDE DEF Good
        <5> QED
          BY <4>1, <5>1, TwoAtOnce
      <4>4. Longer(toLeecher, q, ThePiece) /\ q \in Seq(ToLeecherMessage)
        BY <1>1, <4>1, SnocIsLonger
      <4> HIDE DEF q
      <4>5. Longer(q, q \o <<m>>, m) /\ q \o <<m>> \in Seq(ToLeecherMessage)
        BY <4>1, <4>4, SnocIsLonger
      <4> HIDE DEF Good
      <4>6. Good(q)
        BY <1>1, <1>2, <4>1, <4>4
      <4>7. Good(q \o <<m>>)
        BY <1>2, <4>1, <4>5, <4>6
      <4> QED
        BY <1>1, <4>2, <4>3, <4>7
    <3> QED
      BY <2>4, <3>1, <3>2 DEF Uploads
  <2> QED
    BY <2>1, <2>2, <2>3, <2>4 DEF SeederEffect
<1>8. toSeeder' = toSeeder \/ Pops
  BY DEF SeederEffect, Closes, Crashes, Initiates, Verifies, Accepts, Refuses, Passes,
         Confirms, Rejects, Uploads, ShutsDown, Rests
<1>9. /\ toSeeder' \in Seq(SeedPayMessage)
      /\ \A i \in 1 .. Len(toSeeder') : toSeeder'[i].type # "channel_closed"
  <2>1. CASE toSeeder' = toSeeder
    BY <2>1 DEF QueueInv
  <2>2. CASE Pops
    <3>1. /\ Shorter(toSeeder, toSeeder') /\ toSeeder' \in Seq(SeedPayMessage)
          /\ \A i \in 1 .. Len(toSeeder) : toSeeder[i].type # "channel_closed"
      BY <2>2, SeederMessageTypes DEF Pops, QueueInv
    <3> QED
      BY <3>1 DEF Shorter
  <2> QED
    BY <1>8, <2>1, <2>2
<1>10. /\ seederUp \in BOOLEAN /\ seederAlive \in BOOLEAN
       /\ quitting \in {"no", "awaitingClaim", "ending"}
       /\ leecherUp \in BOOLEAN /\ done \in BOOLEAN
       /\ openRpc \in {"none", "sent", "landed", "failed"}
  BY DEF QueueInv
<1>11. /\ seederUp' \in BOOLEAN /\ seederAlive' \in BOOLEAN
       /\ quitting' \in {"no", "awaitingClaim", "ending"}
  BY <1>10 DEF SeederEffect, Closes, Crashes, Initiates, Verifies, Accepts, Refuses,
               Passes, Confirms, Rejects, Uploads, ShutsDown, Rests, GoesOn
<1> QED
  BY <1>7, <1>9, <1>10, <1>11 DEF QueueInv, ToLeecherMessage
-----------------------------------------------------------------------------
(* --- every step keeps the messages in step with the sessions --- *)

LEMMA LeecherStepWire ==
  ASSUME Inv, WireInv, NEW step, step => LeecherMoves, Leecher(step)
  PROVE  WireInv'
<1> USE DEF WireInv, Inv
<1>1. LeecherMoves /\ UNCHANGED <<seeder, seederAlive, quitting>>
  BY DEF Leecher, seederVars
<1>2. LeecherEffect /\ seederUp' = seederUp
  BY <1>1, LeecherEffects
<1>3. PhaseInv'
  BY <1>1, <1>2, LeecherPhase
<1>4. CheckInv'
  BY <1>1, <1>2, LeecherCheck
<1>5. QueueInv'
  BY <1>1, <1>2, LeecherQueue
<1> QED
  BY <1>3, <1>4, <1>5

LEMMA SeederStepWire ==
  ASSUME Inv, WireInv, SeederMoves, UNCHANGED <<leecherVars, signed>>
  PROVE  WireInv'
<1> USE DEF WireInv, Inv
<1>1. UNCHANGED <<leecher, openRpc, done, leecherUp, signed>>
  BY DEF SeederMoves, SeederMessage, VerifyReads, VerifyFails, Seeder, SeederReceives,
         VerifyReturns, VerifyResolves, Upload, SeederDisconnects, Shutdown, ShutdownEnds,
         Crash, ClaimReturns, wireVars, leecherVars
<1>2. SeederEffect
  BY SeederEffects
<1>3. PhaseInv'
  BY <1>1, <1>2, SeederPhase
<1>4. CheckInv'
  BY <1>1, <1>2, SeederCheck
<1>5. QueueInv'
  BY <1>1, <1>2, SeederQueue
<1> QED
  BY <1>3, <1>4, <1>5

(* The leecher's transaction is processed or fails, the clock advances.      *)
LEMMA OtherStepWire ==
  ASSUME WireInv,
         UNCHANGED <<wireVars, leecher, done, seeder, seederAlive, quitting, signed>>,
         \/ openRpc' = openRpc
         \/ openRpc \in {"sent", "landed"} /\ openRpc' \in {"landed", "failed"}
  PROVE  WireInv'
<1> USE DEF wireVars
<1>1. QueueInv' /\ CheckInv'
  BY DEF WireInv, QueueInv, CheckInv
<1>2. LeecherLive' = LeecherLive /\ SeederServes' = SeederServes
  BY DEF LeecherLive, SeederServes
<1>3. Together(leecher.state, openRpc, toLeecher, seeder.state, toSeeder) =>
        Together(leecher'.state, openRpc', toLeecher', seeder'.state, toSeeder')
  BY DEF Together
<1>4. PhaseInv'
  BY <1>2, <1>3 DEF WireInv, PhaseInv
<1> QED
  BY <1>1, <1>4 DEF WireInv

LEMMA InitWire == Init => WireInv
<1> SUFFICES ASSUME Init PROVE WireInv
  OBVIOUS
<1>1. /\ toLeecher = <<>> /\ toSeeder = <<>> /\ leecherUp = TRUE /\ seederUp = TRUE
      /\ leecher = NewLeecherSession /\ openRpc = "none" /\ done = FALSE
      /\ seeder = NewSeederSession /\ seederAlive = TRUE /\ quitting = "no"
  BY DEF Init, WireInit, LeecherInit, SeederInit
<1>2. /\ leecher.state = "idle" /\ leecher.accounting = NewAccounting
      /\ seeder.state = "idle" /\ seeder.highestCheck = NoCheck
  BY <1>1 DEF NewLeecherSession, NewSeederSession
<1>3. /\ toLeecher \in Seq(ToLeecherMessage) /\ toSeeder \in Seq(SeedPayMessage)
      /\ Len(toLeecher) = 0 /\ Len(toSeeder) = 0
  BY <1>1
<1>4. QueueInv
  <2>1. /\ \A i \in 1 .. Len(toSeeder) : toSeeder[i].type # "channel_closed"
        /\ \A i \in 1 .. Len(toLeecher) :
             /\ toLeecher[i].type # "channel_closed"
             /\ toLeecher[i].type = "payment_check_rejected" =>
                  toLeecher[i].reason = "Amount exceeds deposit"
    BY <1>3
  <2>2. leecherUp \in BOOLEAN /\ seederUp \in BOOLEAN /\ done \in BOOLEAN /\ seederAlive \in BOOLEAN
    BY <1>1
  <2> QED
    BY <1>1, <1>3, <2>1, <2>2 DEF QueueInv, ToLeecherMessage
<1>5. Quiet(toLeecher)
  BY <1>3 DEF Quiet
<1>6. PhaseInv
  BY <1>1, <1>2, <1>5 DEF PhaseInv, LeecherLive, SeederServes, Awaits, Expects, Together
<1>7. CheckInv
  BY <1>2, <1>3 DEF CheckInv, InOrder, Checks, NoCheck, NewAccounting
<1> QED
  BY <1>4, <1>6, <1>7 DEF WireInv

LEMMA NextWire == Inv /\ WireInv /\ [Next]_vars => WireInv'
<1> SUFFICES ASSUME Inv, WireInv, [Next]_vars PROVE WireInv'
  OBVIOUS
<1>1. CASE Leecher(LeecherHandshake) \/ Leecher(OpenResolves) \/ Leecher(LeecherDone)
  BY <1>1, LeecherStepWire DEF LeecherMoves
<1>2. CASE LeecherMessage
  BY <1>2, LeecherStepWire DEF LeecherMoves, LeecherMessage
<1>3. CASE LeecherWireCloses \/ Leecher(LeecherDisconnects)
  BY <1>3, LeecherStepWire DEF LeecherMoves, LeecherWireCloses
<1>4. CASE SeederMessage \/ VerifyReads \/ VerifyFails
  BY <1>4, SeederStepWire DEF SeederMoves, SeederMessage, VerifyReads, VerifyFails, Seeder,
                              chainVars
<1>5. CASE \/ Seeder(VerifyResolves) \/ Seeder(Upload) \/ SeederWireCloses
           \/ Seeder(SeederDisconnects) \/ Seeder(ShutdownEnds) \/ Seeder(Shutdown)
           \/ Seeder(Crash)
  BY <1>5, SeederStepWire DEF SeederMoves, Seeder, SeederWireCloses, chainVars
<1>6. CASE ClaimLands \/ ClaimFails
  BY <1>6, SeederStepWire DEF SeederMoves, ClaimLands, ClaimFails,
     Chain!CloseChannel, Chain!MayClose,
                              chainVars
<1>7. CASE OpenLands
  BY <1>7, OtherStepWire DEF OpenLands, Chain!OpenChannel, Chain!MayOpen, seederVars
<1>8. CASE OpenFails
  BY <1>8, OtherStepWire DEF OpenFails, OpenThrows, seederVars, chainVars
<1>9. CASE Recover \/ Tick
  BY <1>9, OtherStepWire DEF Recover, Tick, Chain!TimeoutClose, Chain!Tick, leecherVars,
                             seederVars
<1>10. CASE UNCHANGED vars
  BY <1>10, OtherStepWire DEF vars, leecherVars, seederVars, chainVars
<1> QED
  BY <1>1, <1>2, <1>3, <1>4, <1>5, <1>6, <1>7, <1>8, <1>9, <1>10
     DEF Next, LeecherStep, SeederStep, NetworkBreaks

(* In every state of every behaviour the messages in flight fit the states   *)
(* of the two sessions.                                                      *)
THEOREM WireInvariance == Spec => [](Inv /\ WireInv)
<1>1. Init => Inv /\ WireInv
  BY InitInv, InitWire
<1>2. (Inv /\ WireInv) /\ [Next]_vars => (Inv /\ WireInv)'
  BY NextInv, NextWire
<1> QED
  BY <1>1, <1>2, PTL DEF Spec
-----------------------------------------------------------------------------
(* --- what follows --- *)

(* A check of an honest leecher is refused for one reason only, that the     *)
(* deposit is used up: onPaymentCheck finds none of them forged, stale or    *)
(* smaller than an earlier one, in whatever order pieces, demands, checks    *)
(* and the ends of the two wires cross.                                      *)
THEOREM HonestChecksAreGood == Spec => []RefusedOnlyOverDeposit
<1>1. ASSUME QueueInv, NEW reason \in Refusals PROVE reason = "Amount exceeds deposit"
  <2>1. PICK i \in DOMAIN toLeecher :
          toLeecher[i].type = "payment_check_rejected" /\ reason = toLeecher[i].reason
    BY DEF Refusals
  <2>2. toLeecher \in Seq(ToLeecherMessage)
    BY <1>1 DEF QueueInv, ToLeecherMessage
  <2>3. i \in 1 .. Len(toLeecher)
    BY <2>1, <2>2
  <2> QED
    BY <1>1, <2>1, <2>3 DEF QueueInv
<1>2. WireInv => RefusedOnlyOverDeposit
  BY <1>1 DEF WireInv, RefusedOnlyOverDeposit
<1> QED
  BY <1>2, WireInvariance, PTL

(* Handling a message never ends in an error between two honest peers: the   *)
(* leecher's wire is closed by a message only when the channel was rejected  *)
(* or the torrent is done, the seeder's only while it shuts down.            *)
THEOREM NoUnexpectedMessage == Spec => NoProtocolErrors
<1> DEFINE Fine ==
      /\ (leecherUp /\ ~leecherUp' /\ toLeecher' # toLeecher) =>
           done \/ Head(toLeecher).type = "channel_rejected"
      /\ (seederUp /\ ~seederUp' /\ toSeeder' # toSeeder) => quitting # "no"
<1>1. ASSUME Inv, WireInv, NEW step, step => LeecherMoves, Leecher(step) PROVE Fine
  <2>1. LeecherEffect /\ seederUp' = seederUp
    BY <1>1, LeecherEffects DEF Inv, WireInv, Leecher
  <2>2. CASE Ends
    BY <2>1, <2>2 DEF Ends, Keeps
  <2>3. CASE ~Ends
    BY <2>1, <2>3 DEF LeecherEffect, Starts, Opens, IsConfirmed, CountsPiece, Pays, PaysFor,
                      Ignores, Resolves
  <2> QED
    BY <2>2, <2>3
<1>2. ASSUME Inv, WireInv, SeederMoves, leecherUp' = leecherUp PROVE Fine
  <2>1. SeederEffect
    BY <1>2, SeederEffects DEF Inv, WireInv
  <2>2. CASE Closes
    BY <1>2, <2>2 DEF Closes
  <2>3. CASE ~Closes
    <3>1. seederUp' = seederUp \/ toSeeder' = toSeeder
      BY <2>1, <2>3 DEF SeederEffect, Crashes, Initiates, Verifies, Accepts, Refuses,
                        Passes, Confirms, Rejects, Uploads, ShutsDown, Rests, GoesOn
    <3> QED
      BY <1>2, <3>1
  <2> QED
    BY <2>2, <2>3
<1>3. ASSUME Inv, WireInv, Next PROVE Fine
  <2>1. CASE Leecher(LeecherHandshake) \/ Leecher(OpenResolves) \/ Leecher(LeecherDone)
    BY <1>1, <1>3, <2>1 DEF LeecherMoves
  <2>2. CASE LeecherMessage
    BY <1>1, <1>3, <2>2 DEF LeecherMoves, LeecherMessage
  <2>3. CASE LeecherWireCloses \/ Leecher(LeecherDisconnects)
    BY <1>1, <1>3, <2>3 DEF LeecherMoves, LeecherWireCloses
  <2>4. CASE SeederMessage \/ VerifyReads \/ VerifyFails \/ ClaimLands \/ ClaimFails
    <3>1. SeederMoves /\ leecherUp' = leecherUp
      BY <2>4 DEF SeederMoves, SeederMessage, VerifyReads, VerifyFails, Seeder, SeederReceives,
                  VerifyReturns, ClaimLands, ClaimFails, ClaimReturns, wireVars
    <3> QED
      BY <1>2, <1>3, <3>1
  <2>5. CASE \/ Seeder(VerifyResolves) \/ Seeder(Upload) \/ SeederWireCloses
             \/ Seeder(SeederDisconnects) \/ Seeder(ShutdownEnds) \/ Seeder(Shutdown)
             \/ Seeder(Crash)
    <3>1. SeederMoves /\ leecherUp' = leecherUp
      BY <2>5 DEF SeederMoves, Seeder, SeederWireCloses, VerifyResolves, Upload,
                  SeederDisconnects, Shutdown, ShutdownEnds, Crash, wireVars
    <3> QED
      BY <1>2, <1>3, <3>1
  <2>6. CASE OpenLands \/ OpenFails \/ Recover \/ Tick
    BY <2>6 DEF OpenLands, OpenFails, OpenThrows, Recover, Tick, wireVars
  <2> QED
    BY <1>3, <2>1, <2>2, <2>3, <2>4, <2>5, <2>6 DEF Next, LeecherStep, SeederStep, NetworkBreaks
<1>4. Inv /\ WireInv /\ [Next]_vars => [Fine]_vars
  BY <1>3
<1>5. Spec => [][Fine]_vars
  BY <1>4, WireInvariance, PTL DEF Spec
<1> QED
  BY <1>5 DEF NoProtocolErrors
=============================================================================
