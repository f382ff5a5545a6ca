-------------------------- MODULE SeederController --------------------------
(* The serving peer: packages/bittorrent/src/seeder.ts around a              *)
(* SeederSession, driven by the callbacks of packages/cli/src/seed.ts for    *)
(* one wire.  Its awaits are verifyChannel (a read of the chain) and         *)
(* closeChannel (a transaction); each is split at the await.                 *)
EXTENDS SeederSession, PeerWire

VARIABLES seeder,      \* the SeederSession
          seederRpc,   \* the awaited call, with its result once it is known
          sent,        \* pieces webtorrent has uploaded
          seederAlive, \* the process runs
          quitting     \* shutdown(): "no", "awaitingClaim" or "ending"

seederVars == <<seeder, seederRpc, sent, seederAlive, quitting>>

NoRpc == [call |-> "none"]

SeederTypeOK ==
  /\ seeder \in SeederSessions
  /\ seederRpc \in [call : {"none", "verify"}]
                     \cup [call : {"verified"}, valid : BOOLEAN, deposited : Nat]
                     \cup [call : {"claim"}, check : PaymentCheck]
  /\ sent \in 0 .. FilePieces
  /\ seederAlive \in BOOLEAN
  /\ quitting \in {"no", "awaitingClaim", "ending"}

SeederInit ==
  /\ seeder = NewSeederSession
  /\ seederRpc = NoRpc
  /\ sent = 0
  /\ seederAlive = TRUE /\ quitting = "no"

(* What an action other than send_message and error starts. *)
StartRpc(r) ==
  seederRpc' = CASE r.action.action = "verify_channel" -> [call |-> "verify"]
                 [] r.action.action = "close_channel" ->
                      [call |-> "claim", check |-> r.session.highestCheck]
                 [] OTHER -> seederRpc

(* wire.on("close"): onDisconnect, which claims when there is a check. *)
SeederCloses(session) ==
  LET r == SeederOnDisconnect(session)
  IN  /\ seederUp' = FALSE
      /\ seeder' = r.session
      /\ StartRpc(r)
      /\ UNCHANGED toLeecher

SeederExecute(r) ==
  \/ /\ r.action.action = "error"
     /\ SeederCloses(r.session)
  \/ /\ r.action.action # "error"
     /\ seeder' = r.session
     /\ StartRpc(r)
     /\ IF r.action.action = "send_message" THEN SendToLeecher(<<r.action.message>>)
                                            ELSE UNCHANGED toLeecher
     /\ UNCHANGED seederUp

(* onExtensionMessage; validSignature: what verifyPaymentCheck answers.      *)
SeederReceives(validSignature) ==
  /\ seederUp /\ toSeeder # <<>>
  /\ SeederExecute(SeederHandle(seeder, Head(toSeeder), validSignature))
  /\ toSeeder' = Tail(toSeeder)
  /\ UNCHANGED <<leecherUp, sent, seederAlive, quitting>>

(* verifyChannel reads the channel account: valid and deposited are what the *)
(* read returned; it answers "invalid" when the account cannot be fetched.   *)
VerifyReturns(valid, deposited) ==
  /\ seederAlive /\ seederRpc.call = "verify"
  /\ seederRpc' = [call |-> "verified", valid |-> valid, deposited |-> deposited]
  /\ UNCHANGED <<wireVars, seeder, sent, seederAlive, quitting>>

(* The continuation: confirm or reject; only messages are acted upon, and    *)
(* rejectChannel closes the session in whatever state it is by now.          *)
VerifyResolves ==
  LET r == IF seederRpc.valid THEN ConfirmChannel(seeder, seederRpc.deposited)
                              ELSE RejectChannel(seeder)
  IN  /\ seederAlive /\ seederRpc.call = "verified"
      /\ seederRpc' = NoRpc
      /\ seeder' = r.session
      /\ IF r.action.action = "send_message" THEN SendToLeecher(<<r.action.message>>)
                                             ELSE UNCHANGED toLeecher
      /\ UNCHANGED <<toSeeder, leecherUp, seederUp, sent, seederAlive, quitting>>

(* The claim transaction is over, landed or not: nothing looks at the result *)
(* but the log, and the session stays in "closing".                          *)
ClaimReturns ==
  /\ seederRpc.call = "claim"
  /\ seederRpc' = NoRpc
  /\ quitting' = IF quitting = "awaitingClaim" THEN "ending" ELSE quitting
  /\ UNCHANGED <<wireVars, seeder, sent, seederAlive>>

(* The answer of onPieceRequest. *)
Serve(s, bytes) ==
  SeederOnPieceRequested(s, bytes).action = NoAction

(* webtorrent uploads a piece whatever the session's state is; its "upload"  *)
(* event follows, and counts the piece and asks for a check when active.     *)
Upload ==
  LET piece == [type |-> "piece"]
      r == SeederOnPieceRequested(seeder, PieceBytes)
      active == seeder.state = "active"
  IN  /\ seederUp /\ sent < FilePieces
      /\ sent' = sent + 1
      /\ seeder' = IF active THEN r.session ELSE seeder
      /\ SendToLeecher(IF active /\ r.action.action = "send_message"
                       THEN <<piece, r.action.message>> ELSE <<piece>>)
      /\ UNCHANGED <<toSeeder, leecherUp, seederUp, seederRpc, seederAlive, quitting>>

SeederDisconnects ==
  /\ seederUp
  /\ SeederCloses(seeder)
  /\ UNCHANGED <<toSeeder, leecherUp, sent, seederAlive, quitting>>

(* shutdown(): an active channel is claimed and the claim is awaited ...     *)
Shutdown ==
  LET r == SeederOnDisconnect(seeder)
      claims == seeder.state = "active" /\ r.action # NoAction
  IN  /\ seederAlive /\ quitting = "no"
      /\ quitting' = IF claims THEN "awaitingClaim" ELSE "ending"
      /\ IF seeder.state = "active" THEN seeder' = r.session /\ StartRpc(r)
                                    ELSE UNCHANGED <<seeder, seederRpc>>
      /\ UNCHANGED <<wireVars, sent, seederAlive>>

(* ... then the torrent client is destroyed, which closes the wire, and the  *)
(* process exits.  A claim that the closing of the wire started, now or      *)
(* before, is not awaited.                                                   *)
ShutdownEnds ==
  /\ seederAlive /\ quitting = "ending"
  /\ seederAlive' = FALSE
  /\ IF seederUp THEN SeederCloses(seeder)
                 ELSE UNCHANGED <<seederUp, seeder, seederRpc, toLeecher>>
  /\ UNCHANGED <<toSeeder, leecherUp, sent, quitting>>

(* The process dies: the session and its highest check are gone. *)
Crash ==
  /\ seederAlive
  /\ seederAlive' = FALSE
  /\ seederUp' = FALSE
  /\ seeder' = [NewSeederSession EXCEPT !.state = "closed"]
  /\ UNCHANGED <<toLeecher, toSeeder, leecherUp, seederRpc, sent, quitting>>
=============================================================================
