---------------------------- MODULE SeederSession ---------------------------
(* packages/sdk/src/session.ts, class SeederSession, in the style of         *)
(* LeecherSession.  leecherPublicKey is set together with channelDeposit.    *)
EXTENDS LeecherSession

CONSTANT MinDeposit   \* config.minDeposit, 0 when it is not set

ASSUME MinDepositAssumption == MinDeposit \in Nat

(* Both numbers are read from a decimal without a look at their sign or size.*)
PaymentCheck == [channelId : ChannelId, amount : Int, nonce : Int]

(* highestCheck = null: it counts as a payment of 0 under no nonce at all.   *)
NoCheck == [amount |-> 0, nonce |-> -1]

SeederSessions ==
  [state : SessionState, accounting : PieceAccounting,
   highestCheck : PaymentCheck \cup {NoCheck}, channelDeposit : Nat]

NewSeederSession ==
  [state |-> "idle", accounting |-> NewAccounting, highestCheck |-> NoCheck,
   channelDeposit |-> 0]

SeederOnEcdhInit(s) ==
  InState(s, "idle",
    Returns([s EXCEPT !.state = "handshake"], SendMessage([type |-> "ecdh_init"])))

SeederOnChannelOpened(s) ==
  InState(s, "handshake",
    Returns([s EXCEPT !.state = "channel_pending"], [action |-> "verify_channel"]))

RejectChannel(s) ==
  Returns([s EXCEPT !.state = "closed"], SendMessage([type |-> "channel_rejected"]))

(* Variant with a mistake: the deposit is not remembered. *)
ConfirmWithoutDeposit(s, deposited) ==
  InState(s, "channel_pending",
    Returns([s EXCEPT !.state = "active"], SendMessage([type |-> "channel_confirmed"])))

ConfirmChannel(s, deposited) ==
  LET known == [s EXCEPT !.channelDeposit = deposited]
  IN  InState(s, "channel_pending",
        IF deposited < MinDeposit
        THEN RejectChannel(known)
        ELSE Returns([known EXCEPT !.state = "active"],
                     SendMessage([type |-> "channel_confirmed"])))

(* Variants with a mistake: the deposit is not tested; a check that pays no  *)
(* more than the last is refused.                                            *)
RefusalBeyondDeposit(s, check, validSignature) ==
  LET best == s.highestCheck
  IN  IF ~validSignature THEN "Invalid signature"
      ELSE IF best # NoCheck /\ check.nonce <= best.nonce THEN "Stale nonce"
      ELSE IF best # NoCheck /\ check.amount < best.amount THEN "Amount decreased"
      ELSE "none"

RefusalOfEqual(s, check, validSignature) ==
  LET best == s.highestCheck
  IN  IF ~validSignature THEN "Invalid signature"
      ELSE IF best # NoCheck /\ check.nonce <= best.nonce THEN "Stale nonce"
      ELSE IF best # NoCheck /\ check.amount <= best.amount THEN "Amount decreased"
      ELSE IF check.amount > s.channelDeposit THEN "Amount exceeds deposit"
      ELSE "none"

(* Why a check is refused, in the order of the tests; "none": accepted.  The *)
(* id of the check is not compared with the session's own.                   *)
CheckRefusal(s, check, validSignature) ==
  LET best == s.highestCheck
  IN  IF ~validSignature THEN "Invalid signature"
      ELSE IF best # NoCheck /\ check.nonce <= best.nonce THEN "Stale nonce"
      ELSE IF best # NoCheck /\ check.amount < best.amount THEN "Amount decreased"
      ELSE IF check.amount > s.channelDeposit THEN "Amount exceeds deposit"
      ELSE "none"

SeederOnPaymentCheck(s, check, validSignature) ==
  LET reason == CheckRefusal(s, check, validSignature)
  IN  InState(s, "active",
        IF reason = "none"
        THEN Returns([s EXCEPT !.highestCheck = check], NoAction)
        ELSE Returns(s, SendMessage([type |-> "payment_check_rejected",
                                     reason |-> reason])))

(* Variant with a mistake: bytes a check does not cover yet are not counted. *)
CountPaidPieces(s, bytes) ==
  LET counted == [s EXCEPT !.accounting = RecordBytes(@, bytes)]
      owed == Cost(counted.accounting.totalBytes)
  IN  InState(s, "active",
        IF owed > s.highestCheck.amount
        THEN Returns(s, SendMessage([type |-> "payment_check_required",
                                     amountOwed |-> owed]))
        ELSE Returns(counted, NoAction))

(* Bytes are recorded whether or not the check covers them. *)
SeederOnPieceRequested(s, bytes) ==
  LET counted == [s EXCEPT !.accounting = RecordBytes(@, bytes)]
      owed == Cost(counted.accounting.totalBytes)
  IN  InState(s, "active",
        IF owed > s.highestCheck.amount
        THEN Returns(counted, SendMessage([type |-> "payment_check_required",
                                           amountOwed |-> owed]))
        ELSE Returns(counted, NoAction))

(* Variants with a mistake: claiming without a check, never claiming, and    *)
(* claiming without leaving the active state.                                *)
ClaimWithoutCheck(s) ==
  IF s.state = "active"
  THEN Returns([s EXCEPT !.state = "closing"], [action |-> "close_channel"])
  ELSE Returns([s EXCEPT !.state = "closed"], NoAction)
NeverClaim(s) == Returns([s EXCEPT !.state = "closed"], NoAction)
ClaimAgain(s) ==
  IF s.state = "active" /\ s.highestCheck # NoCheck
  THEN Returns(s, [action |-> "close_channel"])
  ELSE Returns([s EXCEPT !.state = "closed"], NoAction)

SeederOnDisconnect(s) ==
  IF s.state = "active" /\ s.highestCheck # NoCheck
  THEN Returns([s EXCEPT !.state = "closing"], [action |-> "close_channel"])
  ELSE Returns([s EXCEPT !.state = "closed"], NoAction)

SeederOnChannelClosed(s) == Returns([s EXCEPT !.state = "closed"], NoAction)

(* SeederController.onExtensionMessage; validSignature is the answer of      *)
(* verifyPaymentCheck for the id, amount and nonce the message carries.      *)
SeederHandle(s, message, validSignature) ==
  CASE message.type = "ecdh_init" -> SeederOnEcdhInit(s)
    [] message.type = "channel_opened" -> SeederOnChannelOpened(s)
    [] message.type = "payment_check" ->
         SeederOnPaymentCheck(s, [channelId |-> message.channelId,
                                  amount |-> message.amount, nonce |-> message.nonce],
                              validSignature)
    [] message.type = "channel_closed" -> SeederOnChannelClosed(s)
    [] OTHER -> Returns(s, NoAction)
=============================================================================
