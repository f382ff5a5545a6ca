------------------------- MODULE LeecherController --------------------------
(* The downloading peer: packages/bittorrent/src/leecher.ts around a         *)
(* LeecherSession, driven by the wire and torrent callbacks of               *)
(* packages/cli/src/download.ts.  JavaScript runs a callback to its end or   *)
(* to an await; the one await is the open_channel transaction, so that call  *)
(* is split and everything else may happen before its continuation runs.     *)
EXTENDS LeecherSession, PeerWire

CONSTANT MaxPricePerMb   \* maxPricePerMb of the command line

VARIABLES leecher,        \* the LeecherSession
          openRpc,        \* openChannel: "none", "sent", "landed", "failed"
          received,       \* pieces that have arrived (webtorrent)
          done            \* torrent.on("done") has run

leecherVars == <<leecher, openRpc, received, done>>

LeecherTypeOK ==
  /\ leecher \in LeecherSessions
  /\ openRpc \in {"none", "sent", "landed", "failed"}
  /\ received \in 0 .. FilePieces
  /\ done \in BOOLEAN

LeecherInit ==
  /\ leecher = NewLeecherSession
  /\ openRpc = "none"
  /\ received = 0
  /\ done = FALSE

(* executeActions, for what a session method returned: an error destroys the *)
(* wire, whose close event closes the session before destroy returns.        *)
LeecherExecute(r) ==
  LET action == r.action.action
  IN  /\ leecher' = IF action = "error"
                    THEN LeecherOnChannelClosed(r.session).session ELSE r.session
      /\ leecherUp' = (leecherUp /\ action # "error")
      /\ openRpc' = IF action = "open_channel" THEN "sent" ELSE openRpc
      /\ IF action = "send_message" THEN SendToSeeder(<<r.action.message>>)
                                    ELSE UNCHANGED toSeeder

(* onHandshake: the extended handshake of the seeder has arrived; a price    *)
(* above the limit makes the leecher disconnect.                             *)
LeecherHandshake ==
  /\ leecherUp /\ leecher.state = "idle"
  /\ LeecherExecute(IF PricePerMb > MaxPricePerMb
                    THEN Returns(leecher, ErrorAction) ELSE LeecherStart(leecher))
  /\ UNCHANGED <<toLeecher, seederUp, received, done>>

(* The "download" event of a piece: it counts only when the session is       *)
(* active.                                                                   *)
LeecherPiece ==
  IF leecher.state = "active" THEN LeecherOnPieceReceived(leecher, PieceBytes)
                              ELSE Returns(leecher, NoAction)

(* onExtensionMessage, and the "download" event of a piece. *)
LeecherReceives ==
  /\ leecherUp /\ toLeecher # <<>>
  /\ LeecherExecute(IF Head(toLeecher).type = "piece" THEN LeecherPiece
                    ELSE LeecherHandle(leecher, Head(toLeecher)))
  /\ toLeecher' = Tail(toLeecher)
  /\ received' = received + (IF Head(toLeecher).type = "piece" THEN 1 ELSE 0)
  /\ UNCHANGED <<seederUp, done>>

(* The continuation after await opener.openChannel: only a message that      *)
(* onChannelOpened returns is acted upon.                                    *)
OpenResolves ==
  LET r == LeecherOnChannelOpened(leecher)
  IN  /\ openRpc = "landed"
      /\ openRpc' = "none"
      /\ leecher' = r.session
      /\ IF r.action.action = "send_message" THEN SendToSeeder(<<r.action.message>>)
                                             ELSE UNCHANGED toSeeder
      /\ UNCHANGED <<toLeecher, leecherUp, seederUp, received, done>>

(* openChannel throws: the error is logged and nothing else happens. *)
OpenThrows ==
  /\ openRpc \in {"sent", "landed"}
  /\ openRpc' = "failed"
  /\ UNCHANGED <<wireVars, leecher, received, done>>

(* torrent.on("done"): onComplete closes the session, the wire stays for 3 s. *)
LeecherDone ==
  /\ received = FilePieces /\ ~done
  /\ done' = TRUE
  /\ leecher' = LeecherOnChannelClosed(leecher).session
  /\ UNCHANGED <<wireVars, openRpc, received>>

(* The wire closes: onDisconnect. *)
LeecherDisconnects ==
  /\ leecherUp
  /\ leecherUp' = FALSE
  /\ leecher' = LeecherOnChannelClosed(leecher).session
  /\ UNCHANGED <<toLeecher, toSeeder, seederUp, openRpc, received, done>>
=============================================================================
