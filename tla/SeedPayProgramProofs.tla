------------------------ MODULE SeedPayProgramProofs ------------------------
(* Theorems about SeedPayProgram for every set of wallets, ids, keys, inputs *)
(* and for every bound.  Inv is the inductive invariant: the checked         *)
(* invariants plus LogMatchesChannel, which ties an open channel to the last *)
(* event of its log.                                                         *)
EXTENDS SeedPayProgram, TLAPS

USE KeyAssumption, InputAssumption, TimeoutAssumption, BalanceAssumption,
    NoAccountAssumption
    DEF ChannelPDA

(* The event that opened a live channel is the last one in its log. *)
LogMatchesChannel ==
  \A k \in Key :
    Live(k) => /\ Len(log[k]) > 0
               /\ log[k][Len(log[k])].type = "ChannelOpened"
               /\ log[k][Len(log[k])].deposited = channel[k].deposited

Inv == /\ TypeOK
       /\ EscrowBacksChannel
       /\ OneSettlementPerOpening
       /\ ClaimsAreSigned
       /\ RefundsAreFull
       /\ LogMatchesChannel
-----------------------------------------------------------------------------
(* Of two successive numbers one is odd. *)
LEMMA Parity ==
  ASSUME NEW n \in Nat
  PROVE  /\ n % 2 = 0 \/ n % 2 = 1
         /\ (n + 1) % 2 = 1 <=> n % 2 = 0
  OBVIOUS

(* What Append does to a log of events. *)
LEMMA AppendEvent ==
  ASSUME NEW s \in Seq(Event), NEW e \in Event
  PROVE  /\ Append(s, e) \in Seq(Event)
         /\ Len(Append(s, e)) = Len(s) + 1
         /\ \A i \in 1 .. Len(s) : Append(s, e)[i] = s[i]
         /\ Append(s, e)[Len(s) + 1] = e
  OBVIOUS

(* Type correctness is kept by each action. *)

(* A deposit is at most the balance it is taken from. *)
LEMMA OpenType ==
  ASSUME TypeOK, NEW k \in Key, NEW w \in Wallet, NEW a \in Amount,
         NEW d \in Duration, OpenChannel(k, w, a, d)
  PROVE  TypeOK'
<1>1. k.leecher \in Wallet
  OBVIOUS
<1>2. a \in Nat /\ d \in Int /\ now \in Nat
  BY DEF TypeOK
<1>3. channel' \in [Key -> ChannelState \cup {NoAccount}]
  BY <1>2 DEF TypeOK, OpenChannel, MayOpen, ChannelState
<1>4. balance' \in [Wallet -> Nat]
  BY <1>1, <1>2 DEF TypeOK, OpenChannel, MayOpen, FundEscrow, Credit
<1>5. escrow' \in [Key -> Nat \cup {NoAccount}]
  BY <1>2 DEF TypeOK, OpenChannel, MayOpen, FundEscrow
<1>6. log' \in [Key -> Seq(Event)]
  <2> DEFINE e == [type |-> "ChannelOpened", deposited |-> a, timeout |-> now + d]
  <2>1. e \in Event
    BY <1>2 DEF Event, OpenedEvent
  <2>2. log' = [log EXCEPT ![k] = Append(@, e)]
    BY DEF OpenChannel, MayOpen, Emit
  <2> QED BY <2>1, <2>2, AppendEvent DEF TypeOK
<1> QED BY <1>3, <1>4, <1>5, <1>6 DEF TypeOK, OpenChannel, MayOpen

(* A claim within the deposit leaves a refund that is no less than 0. *)
LEMMA CloseType ==
  ASSUME TypeOK, NEW k \in Key, NEW w \in Wallet, NEW a \in Amount,
         NEW n \in Nonce, NEW pre, CloseChannel(k, w, a, n, pre)
  PROVE  TypeOK'
<1>1. k.leecher \in Wallet /\ k.seeder \in Wallet
  OBVIOUS
<1>2. channel[k] \in ChannelState
  BY DEF TypeOK, CloseChannel, MayClose, Live
<1>3. a \in Nat /\ n \in Nat /\ channel[k].deposited - a \in Nat
  BY <1>2 DEF CloseChannel, MayClose, WithinDeposit, ChannelState
<1>4. balance' \in [Wallet -> Nat]
  BY <1>1, <1>3 DEF TypeOK, CloseChannel, MayClose, Credit
<1>5. log' \in [Key -> Seq(Event)]
  <2> DEFINE e == [type |-> "ChannelClosed", earned |-> a,
                   refunded |-> channel[k].deposited - a, nonce |-> n]
  <2>1. e \in Event
    BY <1>3 DEF Event, ClosedEvent
  <2>2. log' = [log EXCEPT ![k] = Append(@, e)]
    BY DEF CloseChannel, MayClose, Emit
  <2> QED BY <2>1, <2>2, AppendEvent DEF TypeOK
<1> QED BY <1>4, <1>5 DEF TypeOK, CloseChannel, MayClose, CloseAccounts

(* A refund is a balance of a token account, hence no less than 0. *)
LEMMA ExpireType ==
  ASSUME TypeOK, EscrowBacksChannel,
         NEW k \in Key, NEW w \in Wallet, TimeoutClose(k, w)
  PROVE  TypeOK'
<1>1. k.leecher \in Wallet
  OBVIOUS
<1>2. escrow[k] \in Nat
  BY DEF TypeOK, EscrowBacksChannel, TimeoutClose, Live
<1>3. balance' \in [Wallet -> Nat]
  BY <1>1, <1>2 DEF TypeOK, TimeoutClose, TimeoutRefund, Credit
<1>4. log' \in [Key -> Seq(Event)]
  <2> DEFINE e == [type |-> "ChannelTimedOut", refunded |-> escrow[k]]
  <2>1. e \in Event
    BY <1>2 DEF Event, TimedOutEvent
  <2>2. log' = [log EXCEPT ![k] = Append(@, e)]
    BY DEF TimeoutClose, TimeoutRefund, Emit
  <2> QED BY <2>1, <2>2, AppendEvent DEF TypeOK
<1> QED BY <1>3, <1>4 DEF TypeOK, TimeoutClose, CloseAccounts

(* A top-up is at most the balance it is taken from. *)
LEMMA TopUpType ==
  ASSUME TypeOK, NEW k \in Key, NEW w \in Wallet, NEW a \in Amount,
         TopUp(k, w, a)
  PROVE  TypeOK'
<1>1. a \in Nat /\ escrow[k] \in Nat
  BY DEF TypeOK, TopUp
<1> QED BY <1>1 DEF TypeOK, TopUp, Credit

(* A signed check is one. *)
LEMMA SignType ==
  ASSUME TypeOK, NEW w \in Wallet, NEW id \in ChannelId, NEW a \in Amount,
         NEW n \in Nonce, Sign(w, [id |-> id, amount |-> a, nonce |-> n])
  PROVE  TypeOK'
  BY DEF TypeOK, Sign, SignedCheck, Check
-----------------------------------------------------------------------------
(* The rest of Inv is about a log and what it says of one key: written for   *)
(* one key, so that an action has to be considered for the key it touches.   *)
Backed(k) ==
  /\ (escrow[k] = NoAccount) <=> (channel[k] = NoAccount)
  /\ Live(k) => /\ channel[k].status = "Open"
                /\ channel[k].deposited > 0
                /\ escrow[k] >= channel[k].deposited

Alternates(k) ==
  /\ \A i \in 1 .. Len(log[k]) :
       (log[k][i].type = "ChannelOpened") <=> (i % 2 = 1)
  /\ Live(k) <=> (Len(log[k]) % 2 = 1)

(* Entry i of the log of k is a settlement only if it settles entry i - 1,   *)
(* and then within what was signed and deposited.                            *)
ClaimOK(k, i) ==
  log[k][i].type = "ChannelClosed" =>
    /\ [signer |-> k.leecher,
        check |-> [id |-> k.id, amount |-> log[k][i].earned,
                   nonce |-> log[k][i].nonce]] \in signed
    /\ i > 1 /\ log[k][i - 1].type = "ChannelOpened"
    /\ log[k][i].earned + log[k][i].refunded = log[k][i - 1].deposited

RefundOK(k, i) ==
  log[k][i].type = "ChannelTimedOut" =>
    /\ i > 1 /\ log[k][i - 1].type = "ChannelOpened"
    /\ log[k][i].refunded >= log[k][i - 1].deposited

Matches(k) ==
  Live(k) => /\ Len(log[k]) > 0
             /\ log[k][Len(log[k])].type = "ChannelOpened"
             /\ log[k][Len(log[k])].deposited = channel[k].deposited

KeyInv(k) ==
  /\ Backed(k) /\ Alternates(k) /\ Matches(k)
  /\ \A i \in 1 .. Len(log[k]) : ClaimOK(k, i) /\ RefundOK(k, i)

(* Inv is type correctness and KeyInv of every key. *)
LEMMA InvByKey == Inv <=> TypeOK /\ \A k \in Key : KeyInv(k)
  BY DEF Inv, EscrowBacksChannel, OneSettlementPerOpening, ClaimsAreSigned,
         RefundsAreFull, LogMatchesChannel, KeyInv, Backed, Alternates,
         ClaimOK, RefundOK, Matches

(* The same after a step. *)
LEMMA InvByKeyNext == Inv' <=> TypeOK' /\ \A k \in Key : KeyInv(k)'
  BY DEF Inv, EscrowBacksChannel, OneSettlementPerOpening, ClaimsAreSigned,
         RefundsAreFull, LogMatchesChannel, KeyInv, Backed, Alternates,
         ClaimOK, RefundOK, Matches

(* A step that leaves a key's accounts and log alone, and forgets no signed  *)
(* check, keeps its KeyInv.                                                  *)
LEMMA UntouchedKey ==
  ASSUME NEW k \in Key, KeyInv(k), signed \subseteq signed',
         channel'[k] = channel[k], log'[k] = log[k],
         \/ escrow'[k] = escrow[k]
         \/ /\ escrow[k] \in Nat /\ escrow'[k] \in Nat
            /\ escrow'[k] >= escrow[k]
            /\ Live(k) => channel[k].deposited \in Nat
  PROVE  KeyInv(k)'
<1>1. Live(k)' <=> Live(k)
  BY DEF Live
<1>2. Alternates(k)' /\ Matches(k)'
  BY <1>1 DEF KeyInv, Alternates, Matches
<1>3. Backed(k)'
  BY <1>1 DEF KeyInv, Backed
<1>4. ASSUME NEW i \in 1 .. Len(log[k]) PROVE ClaimOK(k, i)' /\ RefundOK(k, i)'
  BY DEF KeyInv, ClaimOK, RefundOK
<1> QED BY <1>2, <1>3, <1>4 DEF KeyInv

(* An opening: the log of k gets an event at an odd position.                *)
LEMMA OpenKey ==
  ASSUME TypeOK, NEW k \in Key, KeyInv(k), NEW w \in Wallet,
         NEW a \in Amount, NEW d \in Duration, OpenChannel(k, w, a, d)
  PROVE  KeyInv(k)'
<1> DEFINE e == [type |-> "ChannelOpened", deposited |-> a, timeout |-> now + d]
           s == log[k]
<1>1. a \in Nat /\ now + d \in Int /\ s \in Seq(Event) /\ e \in Event
  BY DEF TypeOK, Event, OpenedEvent
<1>2. log'[k] = Append(s, e)
  BY DEF OpenChannel, MayOpen, Emit, TypeOK
<1> HIDE DEF e, s
<1>3. /\ Len(log'[k]) = Len(s) + 1 /\ Len(s) \in Nat
      /\ \A i \in 1 .. Len(s) : log'[k][i] = s[i]
      /\ log'[k][Len(s) + 1] = e
  BY <1>1, <1>2, AppendEvent
<1>4. Live(k)' /\ ~Live(k) /\ channel'[k].deposited = a
      /\ channel'[k].status = "Open" /\ escrow'[k] = a /\ a > 0
  BY <1>1 DEF OpenChannel, MayOpen, FundEscrow, Live, TypeOK, ChannelState
<1>5. Backed(k)'
  BY <1>1, <1>4 DEF Backed, Live
<1>6. e.type = "ChannelOpened" /\ e.deposited = a
  BY DEF e
<1>7. Alternates(k)'
  <2>1. Len(s) % 2 = 0 /\ Len(log'[k]) % 2 = 1
    <3>1. Len(s) % 2 # 1
      BY <1>4 DEF KeyInv, Alternates, s
    <3> QED BY <1>3, <3>1, Parity
  <2>2. ASSUME NEW i \in 1 .. Len(log'[k])
        PROVE  (log'[k][i].type = "ChannelOpened") <=> (i % 2 = 1)
    <3>1. CASE i \in 1 .. Len(s)
      BY <3>1, <1>3 DEF KeyInv, Alternates, s
    <3>2. CASE i = Len(s) + 1
      BY <3>2, <1>3, <1>6, <2>1
    <3> QED BY <3>1, <3>2, <1>3
  <2> QED BY <2>1, <2>2, <1>4 DEF Alternates
<1>8. Matches(k)'
  BY <1>3, <1>4, <1>6 DEF Matches
<1>9. ASSUME NEW i \in 1 .. Len(log'[k]) PROVE ClaimOK(k, i)' /\ RefundOK(k, i)'
  <2>1. CASE i = Len(s) + 1
    BY <2>1, <1>3, <1>6 DEF ClaimOK, RefundOK
  <2>2. CASE i \in 1 .. Len(s)
    <3>1. ClaimOK(k, i) /\ RefundOK(k, i)
      BY <2>2 DEF KeyInv, s
    <3>2. log'[k][i] = log[k][i] /\ (i > 1 => log'[k][i - 1] = log[k][i - 1])
      <4>1. i > 1 => i - 1 \in 1 .. Len(s)
        BY <2>2, <1>3
      <4> QED BY <2>2, <4>1, <1>3 DEF s
    <3> QED BY <3>1, <3>2 DEF ClaimOK, RefundOK, OpenChannel, MayOpen
  <2> QED BY <2>1, <2>2, <1>3
<1> QED BY <1>5, <1>7, <1>8, <1>9 DEF KeyInv

(* A settlement: the log of k gets an event at an even position, right after *)
(* the opening it settles, and both accounts are gone.                       *)
LEMMA SettleKey ==
  ASSUME TypeOK, NEW k \in Key, KeyInv(k), Live(k), NEW e \in Event,
         log'[k] = Append(log[k], e), channel'[k] = NoAccount,
         escrow'[k] = NoAccount, signed' = signed,
         \/ /\ e.type = "ChannelClosed"
            /\ [signer |-> k.leecher,
                check |-> [id |-> k.id, amount |-> e.earned, nonce |-> e.nonce]]
                  \in signed
            /\ e.earned + e.refunded = channel[k].deposited
         \/ /\ e.type = "ChannelTimedOut"
            /\ e.refunded >= channel[k].deposited
  PROVE  KeyInv(k)'
<1> DEFINE s == log[k]
<1>1. s \in Seq(Event)
  BY DEF TypeOK
<1>2. log'[k] = Append(s, e)
  OBVIOUS
<1> HIDE DEF s
<1>3. /\ Len(log'[k]) = Len(s) + 1 /\ Len(s) \in Nat
      /\ \A i \in 1 .. Len(s) : log'[k][i] = s[i]
      /\ log'[k][Len(s) + 1] = e
  BY <1>1, <1>2, AppendEvent
<1>4. ~Live(k)'
  BY DEF Live
<1>5. Backed(k)' /\ Matches(k)'
  BY <1>4 DEF Backed, Matches
<1>6. /\ Len(s) > 0 /\ Len(s) % 2 = 1
      /\ s[Len(s)].type = "ChannelOpened"
      /\ s[Len(s)].deposited = channel[k].deposited
  BY DEF KeyInv, Matches, Alternates, s
<1>7. Alternates(k)'
  <2>1. ASSUME NEW i \in 1 .. Len(log'[k])
        PROVE  (log'[k][i].type = "ChannelOpened") <=> (i % 2 = 1)
    <3>1. CASE i \in 1 .. Len(s)
      BY <3>1, <1>3 DEF KeyInv, Alternates, s
    <3>2. CASE i = Len(s) + 1
      <4>1. i % 2 = 0
        <5>1. (Len(s) + 1) % 2 # 1 /\ Len(s) + 1 \in Nat
          BY <1>3, <1>6, Parity
        <5>2. (Len(s) + 1) % 2 = 0
          BY <5>1, Parity
        <5> QED BY <3>2, <5>2
      <4>2. e.type # "ChannelOpened"
        OBVIOUS
      <4>3. log'[k][i] = e /\ i % 2 # 1
        BY <3>2, <4>1, <1>3
      <4> QED BY <4>2, <4>3
    <3> QED BY <3>1, <3>2, <1>3
  <2>2. Len(log'[k]) % 2 # 1
    <3>1. (Len(s) + 1) % 2 # 1 /\ Len(s) + 1 \in Nat
      BY <1>3, <1>6, Parity
    <3> QED BY <1>3, <3>1
  <2> QED BY <2>1, <2>2, <1>4, Zenon DEF Alternates
<1>8. ASSUME NEW i \in 1 .. Len(log'[k]) PROVE ClaimOK(k, i)' /\ RefundOK(k, i)'
  <2>1. CASE i = Len(s) + 1
    BY <2>1, <1>3, <1>6 DEF ClaimOK, RefundOK
  <2>2. CASE i \in 1 .. Len(s)
    <3>1. ClaimOK(k, i) /\ RefundOK(k, i)
      BY <2>2 DEF KeyInv, s
    <3>2. log'[k][i] = log[k][i] /\ (i > 1 => log'[k][i - 1] = log[k][i - 1])
      <4>1. i > 1 => i - 1 \in 1 .. Len(s)
        BY <2>2, <1>3
      <4> QED BY <2>2, <4>1, <1>3 DEF s
    <3> QED BY <3>1, <3>2 DEF ClaimOK, RefundOK
  <2> QED BY <2>1, <2>2, <1>3
<1> QED BY <1>5, <1>7, <1>8 DEF KeyInv
-----------------------------------------------------------------------------
(* The invariant holds of empty logs. *)
LEMMA InitInv == Init => Inv
<1> SUFFICES ASSUME Init PROVE Inv
  OBVIOUS
<1>1. TypeOK
  BY DEF Init, TypeOK
<1>2. ASSUME NEW k \in Key PROVE KeyInv(k)
  <2>1. log[k] = <<>> /\ channel[k] = NoAccount /\ escrow[k] = NoAccount
    BY DEF Init
  <2> QED BY <2>1 DEF KeyInv, Backed, Alternates, Matches, Live
<1> QED BY <1>1, <1>2, InvByKey

(* Each instruction keeps Inv: the key it is about by the lemma above, every *)
(* other key because it is left alone.                                       *)
LEMMA OpenInv ==
  ASSUME Inv, NEW k \in Key, Open(k)
  PROVE  Inv'
<1>1. PICK w \in Wallet, a \in Amount, d \in Duration : OpenChannel(k, w, a, d)
  BY DEF Open
<1>2. TypeOK /\ \A j \in Key : KeyInv(j)
  BY InvByKey
<1>3. TypeOK'
  BY <1>1, <1>2, OpenType
<1>4. ASSUME NEW j \in Key, j # k PROVE KeyInv(j)'
  <2>1. channel'[j] = channel[j] /\ escrow'[j] = escrow[j] /\ log'[j] = log[j]
        /\ signed' = signed
    BY <1>1, <1>2, <1>4 DEF OpenChannel, MayOpen, FundEscrow, Emit, TypeOK
  <2> QED BY <1>2, <2>1, UntouchedKey
<1>5. KeyInv(k)'
  BY <1>1, <1>2, OpenKey
<1> QED BY <1>3, <1>4, <1>5, InvByKeyNext

(* close_channel settles the opening at the end of the log. *)
LEMMA CloseInv ==
  ASSUME Inv, NEW k \in Key, Close(k)
  PROVE  Inv'
<1>1. PICK w \in Wallet, a \in Amount, n \in Nonce, pre \in Preceding :
        CloseChannel(k, w, a, n, pre)
  BY DEF Close
<1>2. TypeOK /\ \A j \in Key : KeyInv(j)
  BY InvByKey
<1>3. TypeOK'
  BY <1>1, <1>2, CloseType
<1>4. ASSUME NEW j \in Key, j # k PROVE KeyInv(j)'
  <2>1. channel'[j] = channel[j] /\ escrow'[j] = escrow[j] /\ log'[j] = log[j]
        /\ signed' = signed
    BY <1>1, <1>2, <1>4 DEF CloseChannel, MayClose, CloseAccounts, Emit, TypeOK
  <2> QED BY <1>2, <2>1, UntouchedKey
<1>5. KeyInv(k)'
  <2> DEFINE r == channel[k].deposited - a
             e == [type |-> "ChannelClosed", earned |-> a, refunded |-> r,
                   nonce |-> n]
  <2>1. a \in Nat /\ n \in Nat /\ r \in Nat /\ a + r = channel[k].deposited
    BY <1>1, <1>2 DEF CloseChannel, MayClose, WithinDeposit, TypeOK, ChannelState, Live
  <2>2. e \in Event
    BY <2>1 DEF Event, ClosedEvent
  <2>3. log'[k] = Append(log[k], e) /\ channel'[k] = NoAccount
        /\ escrow'[k] = NoAccount /\ signed' = signed /\ Live(k)
    BY <1>1, <1>2 DEF CloseChannel, MayClose, CloseAccounts, Emit, TypeOK
  <2>4. [signer |-> k.leecher,
         check |-> [id |-> k.id, amount |-> a, nonce |-> n]] \in signed
    BY <1>1, <1>2 DEF CloseChannel, MayClose, VerifyEd25519Signature, Preceding, TypeOK,
                     SignedCheck
  <2> HIDE DEF r
  <2> QED BY <1>2, <2>1, <2>2, <2>3, <2>4, SettleKey
<1> QED BY <1>3, <1>4, <1>5, InvByKeyNext

(* So does timeout_close, with the whole escrow. *)
LEMMA ExpireInv ==
  ASSUME Inv, NEW k \in Key, Expire(k)
  PROVE  Inv'
<1>1. PICK w \in Wallet : TimeoutClose(k, w)
  BY DEF Expire
<1>2. TypeOK /\ EscrowBacksChannel /\ \A j \in Key : KeyInv(j)
  BY InvByKey DEF Inv
<1>3. TypeOK'
  BY <1>1, <1>2, ExpireType
<1>4. ASSUME NEW j \in Key, j # k PROVE KeyInv(j)'
  <2>1. channel'[j] = channel[j] /\ escrow'[j] = escrow[j] /\ log'[j] = log[j]
        /\ signed' = signed
    BY <1>1, <1>2, <1>4 DEF TimeoutClose, CloseAccounts, Emit, TypeOK
  <2> QED BY <1>2, <2>1, UntouchedKey
<1>5. KeyInv(k)'
  <2> DEFINE e == [type |-> "ChannelTimedOut", refunded |-> escrow[k]]
  <2>1. escrow[k] \in Nat /\ escrow[k] >= channel[k].deposited /\ Live(k)
    BY <1>1, <1>2 DEF TimeoutClose, EscrowBacksChannel, TypeOK, Live
  <2>2. e \in Event
    BY <2>1 DEF Event, TimedOutEvent
  <2>3. log'[k] = Append(log[k], e) /\ channel'[k] = NoAccount
        /\ escrow'[k] = NoAccount /\ signed' = signed
    BY <1>1, <1>2 DEF TimeoutClose, CloseAccounts, TimeoutRefund, Emit, TypeOK
  <2> QED BY <1>2, <2>1, <2>2, <2>3, SettleKey
<1> QED BY <1>3, <1>4, <1>5, InvByKeyNext

(* A top-up only raises what is held for one key. *)
LEMMA TopUpInv ==
  ASSUME Inv, NEW k \in Key, NEW w \in Wallet, NEW a \in Amount, TopUp(k, w, a)
  PROVE  Inv'
<1>1. TypeOK /\ \A j \in Key : KeyInv(j)
  BY InvByKey
<1>2. TypeOK'
  BY <1>1, TopUpType
<1>3. ASSUME NEW j \in Key PROVE KeyInv(j)'
  <2>1. channel'[j] = channel[j] /\ log'[j] = log[j] /\ signed' = signed
    BY DEF TopUp
  <2>2. CASE j = k
    <3>1. escrow[k] \in Nat /\ a \in Nat /\ escrow'[k] = escrow[k] + a
      BY <1>1 DEF TopUp, TypeOK
    <3>2. Live(k) => channel[k].deposited \in Nat
      BY <1>1 DEF Live, TypeOK, ChannelState
    <3> QED BY <1>1, <2>1, <2>2, <3>1, <3>2, UntouchedKey
  <2>3. CASE j # k
    <3>1. escrow'[j] = escrow[j]
      BY <1>1, <2>3 DEF TopUp, TypeOK
    <3> QED BY <1>1, <2>1, <3>1, UntouchedKey
  <2> QED BY <2>2, <2>3
<1> QED BY <1>2, <1>3, InvByKeyNext

(* A signature is only added to those that claims refer to. *)
LEMMA SignInv ==
  ASSUME Inv, NEW w \in Wallet, NEW id \in ChannelId, NEW a \in Amount,
         NEW n \in Nonce, Sign(w, [id |-> id, amount |-> a, nonce |-> n])
  PROVE  Inv'
<1>1. TypeOK /\ \A j \in Key : KeyInv(j)
  BY InvByKey
<1>2. TypeOK'
  BY <1>1, SignType
<1>3. ASSUME NEW j \in Key PROVE KeyInv(j)'
  BY <1>1, UntouchedKey DEF Sign
<1> QED BY <1>2, <1>3, InvByKeyNext

(* Every step keeps the invariant. *)
LEMMA NextInv == Inv /\ [Next]_vars => Inv'
<1> SUFFICES ASSUME Inv, [Next]_vars PROVE Inv'
  OBVIOUS
<1>1. CASE \E k \in Key : Open(k) \/ Close(k) \/ Expire(k)
  BY <1>1, OpenInv, CloseInv, ExpireInv
<1>2. CASE \E w \in Wallet, id \in ChannelId, a \in Amount, n \in Nonce :
             Sign(w, [id |-> id, amount |-> a, nonce |-> n])
  BY <1>2, SignInv
<1>3. CASE \E k \in Key, w \in Wallet, a \in Amount : TopUp(k, w, a)
  BY <1>3, TopUpInv
<1>4. CASE Tick
  <2>1. TypeOK /\ \A j \in Key : KeyInv(j)
    BY InvByKey
  <2>2. TypeOK'
    BY <1>4, <2>1 DEF Tick, TypeOK
  <2>3. ASSUME NEW j \in Key PROVE KeyInv(j)'
    BY <1>4, <2>1, UntouchedKey DEF Tick
  <2> QED BY <2>2, <2>3, InvByKeyNext
<1>5. CASE UNCHANGED vars
  <2>1. TypeOK /\ \A j \in Key : KeyInv(j)
    BY InvByKey
  <2>2. TypeOK'
    BY <1>5, <2>1 DEF vars, TypeOK
  <2>3. ASSUME NEW j \in Key PROVE KeyInv(j)'
    BY <1>5, <2>1, UntouchedKey DEF vars
  <2> QED BY <2>2, <2>3, InvByKeyNext
<1> QED BY <1>1, <1>2, <1>3, <1>4, <1>5 DEF Next

(* The inductive invariant holds in every reachable state of the program.    *)
THEOREM Invariance == Spec => []Inv
<1> QED BY InitInv, NextInv, PTL DEF Spec

(* Every variable keeps its type: in particular no balance goes negative.    *)
THEOREM TypeCorrect == Spec => []TypeOK
<1>1. Inv => TypeOK
  BY DEF Inv
<1> QED BY <1>1, Invariance, PTL

(* An open channel always has its whole deposit in escrow.                   *)
THEOREM ChannelsAreBacked == Spec => []EscrowBacksChannel
<1>1. Inv => EscrowBacksChannel
  BY DEF Inv
<1> QED BY <1>1, Invariance, PTL

(* No opening of a channel is ever settled twice.                            *)
THEOREM SettledOnce == Spec => []OneSettlementPerOpening
<1>1. Inv => OneSettlementPerOpening
  BY DEF Inv
<1> QED BY <1>1, Invariance, PTL

(* A seeder never gets a token the leecher has not signed for, and the       *)
(* leecher gets the rest of the deposit.                                     *)
THEOREM OnlySignedClaims == Spec => []ClaimsAreSigned
<1>1. Inv => ClaimsAreSigned
  BY DEF Inv
<1> QED BY <1>1, Invariance, PTL

(* A refund after the timeout is never short of the deposit.                 *)
THEOREM FullRefunds == Spec => []RefundsAreFull
<1>1. Inv => RefundsAreFull
  BY DEF Inv
<1> QED BY <1>1, Invariance, PTL
-----------------------------------------------------------------------------
(* The payment that a claim of k makes, in terms of the balances.            *)
LEMMA ClaimPays ==
  ASSUME Inv, NEW k \in Key, NEW w \in Wallet, NEW a \in Amount,
         NEW n \in Nonce, NEW pre \in Preceding, CloseChannel(k, w, a, n, pre)
  PROVE  /\ a \in Nat /\ escrow[k] \in Nat /\ a <= escrow[k]
         /\ escrow[k] = channel[k].deposited
         /\ [signer |-> k.leecher,
             check |-> [id |-> k.id, amount |-> a, nonce |-> n]] \in signed
         /\ balance' = [[balance EXCEPT ![k.seeder] = @ + a]
                          EXCEPT ![k.leecher] = @ + (escrow[k] - a)]
<1>1. TypeOK /\ EscrowBacksChannel
  BY DEF Inv
<1>2. channel[k] \in ChannelState /\ escrow[k] \in Nat /\ a \in Nat
  BY <1>1 DEF TypeOK, EscrowBacksChannel, CloseChannel, MayClose, Live
<1>3. escrow[k] = channel[k].deposited /\ a <= escrow[k]
  BY <1>2 DEF CloseChannel, MayClose, IsEmptied, WithinDeposit, ChannelState
<1>4. [signer |-> k.leecher,
       check |-> [id |-> k.id, amount |-> a, nonce |-> n]] \in signed
  BY <1>1 DEF CloseChannel, MayClose, VerifyEd25519Signature, Preceding, TypeOK, SignedCheck
<1>5. balance' = [[balance EXCEPT ![k.seeder] = @ + a]
                    EXCEPT ![k.leecher] = @ + (escrow[k] - a)]
  BY <1>3 DEF CloseChannel, MayClose, Credit
<1> QED BY <1>2, <1>3, <1>4, <1>5

(* Before the timeout has passed an escrow is emptied only by a claim, and   *)
(* the claim pays the seeder an amount the leecher has signed.               *)
THEOREM RefundsWait == Spec => NoEarlyRefund
<1> DEFINE Early(k) == Live(k) /\ channel'[k] = NoAccount /\ now <= channel[k].timeout
           Paid(k) == \E s \in signed :
                        /\ s.signer = k.leecher /\ s.check.id = k.id
                        /\ balance'[k.seeder] - balance[k.seeder] =
                             IF k.seeder = k.leecher THEN escrow[k]
                             ELSE s.check.amount
<1>1. ASSUME Inv, [Next]_vars, NEW k \in Key, Early(k) PROVE Paid(k)
  <2>1. TypeOK /\ channel[k] # NoAccount /\ channel[k] \in ChannelState
    BY <1>1 DEF Inv, Live, TypeOK
  <2>2. CASE \E j \in Key : Open(j)
    BY <2>1, <2>2, <1>1 DEF Open, OpenChannel, MayOpen, Live, TypeOK
  <2>3. CASE \E j \in Key : Expire(j)
    <3>1. PICK j \in Key, w \in Wallet : TimeoutClose(j, w)
      BY <2>3 DEF Expire
    <3>2. j = k
      BY <2>1, <3>1, <1>1 DEF TimeoutClose, CloseAccounts, TypeOK
    <3> QED BY <2>1, <3>1, <3>2, <1>1 DEF TimeoutClose, TimeoutReached, ChannelState, TypeOK
  <2>4. CASE \E j \in Key : Close(j)
    <3>1. PICK j \in Key, w \in Wallet, a \in Amount, n \in Nonce,
               pre \in Preceding : CloseChannel(j, w, a, n, pre)
      BY <2>4 DEF Close
    <3>2. j = k
      BY <2>1, <3>1, <1>1 DEF CloseChannel, MayClose, CloseAccounts, TypeOK
    <3> DEFINE s == [signer |-> k.leecher,
                     check |-> [id |-> k.id, amount |-> a, nonce |-> n]]
    <3>3. /\ a \in Nat /\ escrow[k] \in Nat /\ s \in signed
          /\ balance' = [[balance EXCEPT ![k.seeder] = @ + a]
                           EXCEPT ![k.leecher] = @ + (escrow[k] - a)]
      BY <3>1, <3>2, <1>1, ClaimPays
    <3>4. s.signer = k.leecher /\ s.check.id = k.id /\ s.check.amount = a
      OBVIOUS
    <3>5. balance \in [Wallet -> Nat] /\ k.leecher \in Wallet /\ k.seeder \in Wallet
      BY <2>1 DEF TypeOK
    <3>6. balance'[k.seeder] - balance[k.seeder] =
            IF k.seeder = k.leecher THEN escrow[k] ELSE a
      BY <3>3, <3>5
    <3> HIDE DEF s
    <3> QED BY <3>3, <3>4, <3>6
  <2>5. CASE UNCHANGED channel
    BY <2>1, <2>5, <1>1
  <2> QED BY <1>1, <2>2, <2>3, <2>4, <2>5 DEF Next, Sign, TopUp, Tick, vars
<1>2. Inv /\ [Next]_vars => [\A k \in Key : Early(k) => Paid(k)]_vars
  BY <1>1
<1> QED BY <1>2, Invariance, PTL DEF Spec, NoEarlyRefund
-----------------------------------------------------------------------------
(* The refinement: what Locked, Lapsed and Promised are after each action.   *)
LEMMA LedgerInit == Init => Ledger!Init
<1> SUFFICES ASSUME Init PROVE Ledger!Init
  OBVIOUS
<1>1. \A k \in Key : ~Live(k)
  BY DEF Init, Live
<1>2. Locked = [k \in Key |-> 0]
  BY <1>1 DEF Locked
<1>3. Lapsed = {} /\ Promised = {}
  BY <1>1 DEF Init, Lapsed, Promised
<1> QED BY <1>2, <1>3 DEF Init, Ledger!Init

(* A lock is positive exactly when the channel is open. *)
LEMMA LockedValue ==
  ASSUME Inv
  PROVE  /\ Locked \in [Key -> Nat]
         /\ \A k \in Key : /\ Live(k) => Locked[k] = escrow[k] /\ Locked[k] > 0
                           /\ ~Live(k) => Locked[k] = 0 /\ escrow[k] = NoAccount
         /\ Lapsed \subseteq {k \in Key : Locked[k] > 0}
<1>1. TypeOK /\ EscrowBacksChannel
  BY DEF Inv
<1>2. ASSUME NEW k \in Key, Live(k)
      PROVE  escrow[k] \in Nat /\ escrow[k] > 0
  BY <1>1, <1>2 DEF TypeOK, EscrowBacksChannel, Live, ChannelState
<1>3. ASSUME NEW k \in Key, ~Live(k) PROVE escrow[k] = NoAccount
  BY <1>1, <1>3 DEF EscrowBacksChannel, Live
<1> QED BY <1>2, <1>3 DEF Locked, Lapsed

(* Locked is a function, so it is enough to compare its values. *)
LEMMA SameLocks ==
  ASSUME NEW k \in Key, NEW a,
         \A j \in Key : Locked'[j] = IF j = k THEN Locked[k] + a ELSE Locked[j]
  PROVE  Locked' = [Locked EXCEPT ![k] = @ + a]
  BY DEF Locked

(* open_channel is a Lock of the ledger. *)
LEMMA OpenLocks ==
  ASSUME Inv, NEW k \in Key, Open(k)
  PROVE  Ledger!Next
<1>1. PICK w \in Wallet, a \in Amount, d \in Duration : OpenChannel(k, w, a, d)
  BY DEF Open
<1>2. TypeOK /\ a \in Nat /\ a > 0 /\ ~Live(k) /\ w = k.leecher
  BY <1>1 DEF Inv, OpenChannel, MayOpen
<1>3. channel' = [channel EXCEPT ![k] = channel'[k]] /\ channel'[k] \in ChannelState
      /\ channel'[k].timeout >= now /\ escrow' = [escrow EXCEPT ![k] = a]
  BY <1>1, <1>2 DEF OpenChannel, MayOpen, FundEscrow, TypeOK, ChannelState
<1>4. Locked' = [Locked EXCEPT ![k] = @ + a]
  <2>1. \A j \in Key : j # k => (Live(j)' <=> Live(j)) /\ escrow'[j] = escrow[j]
    BY <1>2, <1>3 DEF Live, TypeOK
  <2>2. Live(k)' /\ escrow'[k] = a /\ Locked[k] = 0
    BY <1>2, <1>3, LockedValue DEF Live, TypeOK
  <2>3. \A j \in Key : Locked'[j] = IF j = k THEN Locked[k] + a ELSE Locked[j]
    BY <1>2, <2>1, <2>2 DEF Locked
  <2> QED BY <2>3, SameLocks
<1>5. Lapsed' = Lapsed
  <2>1. now' = now /\ now \in Nat
    BY <1>1, <1>2 DEF OpenChannel, MayOpen, TypeOK
  <2>2. ~(now > channel'[k].timeout)
    BY <1>3, <2>1 DEF ChannelState
  <2>3. \A j \in Key : j # k => channel'[j] = channel[j]
    BY <1>2, <1>3 DEF TypeOK
  <2> QED BY <1>2, <2>1, <2>2, <2>3 DEF Lapsed, Live
<1>6. Promised' = Promised
  BY <1>1 DEF OpenChannel, MayOpen, Promised
<1>7. balance' = [balance EXCEPT ![w] = @ + (-a)] /\ a <= balance[w]
  BY <1>1, <1>2 DEF OpenChannel, MayOpen, FundEscrow, Credit, TypeOK
<1>8. Ledger!Lock(k, w, a)
  BY <1>2, <1>4, <1>5, <1>6, <1>7 DEF Ledger!Lock, Ledger!Moved
<1> QED BY <1>8 DEF Ledger!Next

(* After a settlement of k its lock and its lapse are gone. *)
LEMMA SettledLock ==
  ASSUME Inv, NEW k \in Key, channel' = [channel EXCEPT ![k] = NoAccount],
         escrow' = [escrow EXCEPT ![k] = NoAccount], now' = now
  PROVE  Locked' = [Locked EXCEPT ![k] = 0] /\ Lapsed' = Lapsed \ {k}
<1>1. TypeOK
  BY DEF Inv
<1>2. ~Live(k)' /\ \A j \in Key : j # k => /\ Live(j)' <=> Live(j)
                                          /\ channel'[j] = channel[j]
                                          /\ escrow'[j] = escrow[j]
  BY <1>1 DEF TypeOK, Live
<1> QED BY <1>2 DEF Locked, Lapsed

(* close_channel is a Split, of a lock that holds the deposit and no more. *)
LEMMA CloseSplits ==
  ASSUME Inv, NEW k \in Key, Close(k)
  PROVE  Ledger!Next
<1>1. PICK w \in Wallet, a \in Amount, n \in Nonce, pre \in Preceding :
        CloseChannel(k, w, a, n, pre)
  BY DEF Close
<1> DEFINE s == [signer |-> k.leecher,
                 check |-> [id |-> k.id, amount |-> a, nonce |-> n]]
<1>2. /\ a <= escrow[k] /\ s \in signed
      /\ balance' = [[balance EXCEPT ![k.seeder] = @ + a]
                       EXCEPT ![k.leecher] = @ + (escrow[k] - a)]
  BY <1>1, ClaimPays
<1>3. Locked[k] = escrow[k] /\ Locked[k] > 0
  BY <1>1, LockedValue DEF CloseChannel, MayClose
<1>4. Locked' = [Locked EXCEPT ![k] = 0] /\ Lapsed' = Lapsed \ {k}
  BY <1>1, SettledLock DEF CloseChannel, MayClose, CloseAccounts
<1>5. Promised' = Promised
  BY <1>1 DEF CloseChannel, MayClose, Promised
<1>6. [by |-> k.leecher, id |-> k.id, amount |-> a] \in Promised
  BY <1>2 DEF Promised
<1>7. Ledger!Split(k, a)
  BY <1>2, <1>3, <1>4, <1>5, <1>6 DEF Ledger!Split, Ledger!Moved
<1> QED BY <1>7 DEF Ledger!Next

(* timeout_close is a Reclaim of a lapsed lock. *)
LEMMA ExpireReclaims ==
  ASSUME Inv, NEW k \in Key, Expire(k)
  PROVE  Ledger!Next
<1>1. PICK w \in Wallet : TimeoutClose(k, w)
  BY DEF Expire
<1>2. Locked[k] = escrow[k] /\ Locked[k] > 0
  BY <1>1, LockedValue DEF TimeoutClose
<1>3. k \in Lapsed
  BY <1>1 DEF TimeoutClose, TimeoutReached, Lapsed
<1>4. Locked' = [Locked EXCEPT ![k] = 0] /\ Lapsed' = Lapsed \ {k}
  BY <1>1, SettledLock DEF TimeoutClose, CloseAccounts
<1>5. Promised' = Promised
  BY <1>1 DEF TimeoutClose, Promised
<1>6. Ledger!Reclaim(k)
  BY <1>1, <1>2, <1>3, <1>4, <1>5 DEF Ledger!Reclaim, Ledger!Moved, TimeoutClose, TimeoutRefund,
                                     Credit
<1> QED BY <1>6 DEF Ledger!Next

(* A top-up is a Lock of tokens that somebody adds. *)
LEMMA TopUpLocks ==
  ASSUME Inv, NEW k \in Key, NEW w \in Wallet, NEW a \in Amount, TopUp(k, w, a)
  PROVE  Ledger!Next
<1>1. TypeOK /\ Live(k)
  BY LockedValue DEF Inv, TopUp
<1>2. Locked[k] = escrow[k] /\ Locked[k] > 0
  BY <1>1, LockedValue
<1>3. \A j \in Key : /\ Live(j)' <=> Live(j)
                    /\ j # k => escrow'[j] = escrow[j]
  BY <1>1 DEF TopUp, Live, TypeOK
<1>4. escrow'[k] = escrow[k] + a
  BY <1>1 DEF TopUp, TypeOK
<1>5. Locked' = [Locked EXCEPT ![k] = @ + a]
  <2>1. \A j \in Key : Locked'[j] = IF j = k THEN Locked[k] + a ELSE Locked[j]
    <3>1. Locked'[k] = Locked[k] + a
      BY <1>1, <1>2, <1>4 DEF Locked, Live, TopUp
    <3>2. ASSUME NEW j \in Key, j # k PROVE Locked'[j] = Locked[j]
      BY <1>3, <3>2 DEF Locked, Live, TopUp
    <3> QED BY <3>1, <3>2
  <2> QED BY <2>1, SameLocks
<1>6. Lapsed' = Lapsed /\ Promised' = Promised
  <2>1. channel' = channel /\ now' = now /\ signed' = signed
    BY DEF TopUp
  <2> QED BY <2>1 DEF Lapsed, Promised, Live
<1>7. a > 0 /\ a <= balance[w] /\ balance' = [balance EXCEPT ![w] = @ + (-a)]
  BY <1>1 DEF TopUp, Credit, TypeOK
<1>8. Ledger!Lock(k, w, a)
  BY <1>2, <1>5, <1>6, <1>7 DEF Ledger!Lock, Ledger!Moved
<1> QED BY <1>8 DEF Ledger!Next

(* Signing a check is a Promise of its amount. *)
LEMMA SignPromises ==
  ASSUME NEW w \in Wallet, NEW id \in ChannelId, NEW a \in Amount, NEW n \in Nonce,
         Sign(w, [id |-> id, amount |-> a, nonce |-> n])
  PROVE  Ledger!Next
<1>1. Locked' = Locked /\ Lapsed' = Lapsed
  BY DEF Sign, Locked, Lapsed, Live
<1>2. Promised' = Promised \cup {[by |-> w, id |-> id, amount |-> a]}
  <2> DEFINE new == [signer |-> w, check |-> [id |-> id, amount |-> a, nonce |-> n]]
             old(s) == [by |-> s.signer, id |-> s.check.id, amount |-> s.check.amount]
  <2>1. signed' = signed \cup {new}
    BY DEF Sign
  <2>2. old(new) = [by |-> w, id |-> id, amount |-> a]
    OBVIOUS
  <2>3. Promised = {old(s) : s \in signed} /\ Promised' = {old(s) : s \in signed'}
    BY DEF Promised
  <2> HIDE DEF new, old
  <2> QED BY <2>1, <2>2, <2>3
<1>3. Ledger!Promise(w, id, a)
  BY <1>1, <1>2 DEF Ledger!Promise, Sign
<1> QED BY <1>3 DEF Ledger!Next

(* The clock only lets more locks lapse. *)
LEMMA TickLapses ==
  ASSUME Inv, Tick
  PROVE  Ledger!Next
<1>1. Locked' = Locked /\ Promised' = Promised /\ balance' = balance
  BY DEF Tick, Locked, Promised, Live
<1>2. Lapsed \subseteq Lapsed'
  BY DEF Inv, TypeOK, Tick, Lapsed, Live, ChannelState
<1>3. Lapsed' \subseteq {k \in Key : Locked[k] > 0}
  BY LockedValue DEF Tick, Lapsed, Live
<1>4. Ledger!Lapse
  BY <1>1, <1>2, <1>3 DEF Ledger!Lapse
<1> QED BY <1>4 DEF Ledger!Next

(* The program implements the abstract ledger: for any wallets, ids, inputs  *)
(* and bounds, escrowed tokens leave only at a promised split or after a     *)
(* lapse, and every token is accounted for in every step.                    *)
THEOREM Refinement == Spec => ImplementsLedger
<1>1. ASSUME Inv, [Next]_vars PROVE [Ledger!Next]_(Ledger!vars)
  <2>1. CASE \E k \in Key : Open(k) \/ Close(k) \/ Expire(k)
    BY <2>1, <1>1, OpenLocks, CloseSplits, ExpireReclaims
  <2>2. CASE \E w \in Wallet, id \in ChannelId, a \in Amount, n \in Nonce :
               Sign(w, [id |-> id, amount |-> a, nonce |-> n])
    BY <2>2, SignPromises
  <2>3. CASE \E k \in Key, w \in Wallet, a \in Amount : TopUp(k, w, a)
    BY <2>3, <1>1, TopUpLocks
  <2>4. CASE Tick
    BY <2>4, <1>1, TickLapses
  <2>5. CASE UNCHANGED vars
    BY <2>5 DEF vars, Ledger!vars, Locked, Lapsed, Promised, Live
  <2> QED BY <1>1, <2>1, <2>2, <2>3, <2>4, <2>5 DEF Next
<1> QED BY <1>1, LedgerInit, Invariance, PTL DEF Spec, ImplementsLedger, Ledger!Spec
=============================================================================
