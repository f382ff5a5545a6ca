--------------------------- MODULE LeecherSession ---------------------------
(* packages/sdk/src/session.ts, class LeecherSession.  A method takes the    *)
(* session and returns the session after the call with the action it hands   *)
(* to its caller (every method returns at most one).                         *)
EXTENDS Accounting

CONSTANTS Deposit,     \* config.deposit
          ChannelId,   \* the ids a message can carry
          Id           \* sessionKeys.channelId, derived alike at both ends

ASSUME DepositAssumption == Deposit \in Nat
ASSUME IdAssumption == Id \in ChannelId

(* The states of both sessions. *)
SessionState == {"idle", "handshake", "key_exchange", "channel_pending",
                 "active", "closing", "closed", "error"}

(* Why SeederSession.onPaymentCheck refuses a check. *)
RefusalReason == {"Invalid signature", "Stale nonce", "Amount decreased",
                  "Amount exceeds deposit"}

(* What the extension carries: keys and signatures are left out, and so is   *)
(* every channel id that no handler reads.  Nothing in the code sends        *)
(* channel_timeout_warning.                                                  *)
SeedPayMessage ==
  [type : {"ecdh_init", "channel_confirmed", "channel_rejected", "channel_closed"}]
    \cup [type : {"channel_opened"}, deposited : Nat]
    \cup [type : {"payment_check"}, channelId : ChannelId, amount : Nat, nonce : Nat]
    \cup [type : {"payment_check_required"}, amountOwed : Nat]
    \cup [type : {"payment_check_rejected"}, reason : RefusalReason]

LeecherSessions == [state : SessionState, accounting : PieceAccounting]

NewLeecherSession == [state |-> "idle", accounting |-> NewAccounting]

Returns(session, action) == [session |-> session, action |-> action]

NoAction == [action |-> "none"]
ErrorAction == [action |-> "error"]
SendMessage(message) == [action |-> "send_message", message |-> message]

(* A method called in any other state than the one it needs only reports an  *)
(* error.                                                                    *)
InState(session, state, result) ==
  IF session.state = state THEN result ELSE Returns(session, ErrorAction)

LeecherStart(s) ==
  InState(s, "idle",
    Returns([s EXCEPT !.state = "handshake"], SendMessage([type |-> "ecdh_init"])))

(* Variant with a mistake: a channel is opened whatever the state. *)
OpenOnEveryEcdhInit(s) ==
  Returns([s EXCEPT !.state = "channel_pending"], [action |-> "open_channel"])

LeecherOnEcdhInit(s) ==
  InState(s, "handshake",
    Returns([s EXCEPT !.state = "channel_pending"], [action |-> "open_channel"]))

LeecherOnChannelOpened(s) ==
  InState(s, "channel_pending",
    Returns(s, SendMessage([type |-> "channel_opened", deposited |-> Deposit])))

(* Variant with a mistake: the wrong state is tested. *)
ConfirmedInHandshake(s) ==
  InState(s, "handshake", Returns([s EXCEPT !.state = "active"], NoAction))

LeecherOnChannelConfirmed(s) ==
  InState(s, "channel_pending", Returns([s EXCEPT !.state = "active"], NoAction))

LeecherOnChannelRejected(s) == Returns([s EXCEPT !.state = "error"], ErrorAction)

(* The check both callers below send: the cost of all bytes so far, signed   *)
(* under the next nonce.  When recordCheck throws, the exception is logged.  *)
SendCheck(s) ==
  LET amount == NextCheckAmount(s.accounting)
      nonce == NextNonce(s.accounting)
  IN  IF MayRecord(s.accounting, amount, nonce)
      THEN Returns([s EXCEPT !.accounting = RecordCheck(@, amount, nonce)],
                   SendMessage([type |-> "payment_check", channelId |-> Id,
                                amount |-> amount, nonce |-> nonce]))
      ELSE Returns(s, NoAction)

LeecherOnPieceReceived(s, bytes) ==
  LET counted == [s EXCEPT !.accounting = RecordBytes(@, bytes)]
  IN  InState(s, "active",
        IF NeedsCheck(counted.accounting) THEN SendCheck(counted)
                                          ELSE Returns(counted, NoAction))

(* Variant with a mistake: a demand is paid whatever the state. *)
PayInAnyState(s) == SendCheck(s)

LeecherOnPaymentCheckRequired(s) == InState(s, "active", SendCheck(s))

(* Variant with a mistake: only an active session is closed. *)
ClosedIfActive(s) ==
  Returns(IF s.state = "active" THEN [s EXCEPT !.state = "closed"] ELSE s, NoAction)

LeecherOnChannelClosed(s) == Returns([s EXCEPT !.state = "closed"], NoAction)

(* LeecherController.onExtensionMessage: what a message makes the session    *)
(* do; a rejected check is ignored.                                          *)
LeecherHandle(s, message) ==
  CASE message.type = "ecdh_init" -> LeecherOnEcdhInit(s)
    [] message.type = "channel_confirmed" -> LeecherOnChannelConfirmed(s)
    [] message.type = "channel_rejected" -> LeecherOnChannelRejected(s)
    [] message.type = "payment_check_required" -> LeecherOnPaymentCheckRequired(s)
    [] message.type = "channel_closed" -> LeecherOnChannelClosed(s)
    [] OTHER -> Returns(s, NoAction)
=============================================================================
