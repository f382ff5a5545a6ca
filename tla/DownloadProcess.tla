--------------------------- MODULE DownloadProcess --------------------------
(* The process of `seedpay download` (packages/cli/src/download.ts) with     *)
(* several wires: the controllers of bittorrent/src/leecher.ts, one wallet   *)
(* whose balance was compared with one deposit before the torrent started,   *)
(* a channel of the full deposit for every wire, and the two places that     *)
(* loop over activeControllers: a completed torrent and shutdown.            *)
EXTENDS PeerProcess

CONSTANTS PieceBytes,      \* bytes of a piece
          FilePieces,      \* pieces of the torrent (bound)
          Balances,        \* token balances of the wallet at the start
          MaxNonce         \* bound on the checks a session signs

ASSUME BalanceAssumption ==
  PieceBytes \in Nat /\ FilePieces \in Nat /\ Balances \subseteq Nat

VARIABLES balance,      \* tokens of the wallet
          opened,       \* wire: channels its controller has opened on the chain
          received,     \* pieces that have arrived
          done,         \* torrent.on("done") has run
          registering,  \* the wire whose handshake awaits its .then, or None
          overtaken     \* history: wires that closed before their .then ran

downloadVars == <<balance, opened, received, done, registering, overtaken>>

DownloadTypeOK ==
  /\ balance \in Nat
  /\ opened \in [Wire -> Nat]
  /\ received \in 0 .. FilePieces
  /\ done \in BOOLEAN
  /\ registering \in Wire \cup {None}
  /\ overtaken \subseteq Wire

(* The command gives up when the balance is below one deposit. *)
DownloadInit ==
  /\ balance \in {b \in Balances : b >= Deposit}
  /\ opened = [w \in Wire |-> 0]
  /\ received = 0
  /\ done = FALSE
  /\ registering = None /\ overtaken = {}

Closed(session) == LeecherOnChannelClosed(session).session

(* wire.on("close"), for a session that may just have been changed. *)
DownloadWireCloses(w, session) ==
  /\ link' = [link EXCEPT ![w] = "closed"]
  /\ controller' = [controller EXCEPT ![w] =
                      IF session = None THEN None ELSE Closed(session)]
  /\ Unregister(w)
  /\ UNCHANGED rpc

DownloadDisconnects(w) ==
  /\ alive /\ link[w] = "open" /\ registering = None
  /\ DownloadWireCloses(w, controller[w])
  /\ UNCHANGED <<peerId, negotiated, alive, downloadVars>>

(* The extended handshake, once per wire.  Without metadata or with a bad    *)
(* wallet there is no controller; without the extension an unregistered one; *)
(* a price above the limit disconnects; otherwise the session starts, and is *)
(* registered by the .then of the async onHandshake.                         *)
DownloadHandshake(w, kind) ==
  LET started == LeecherStart(NewLeecherSession).session
  IN  /\ alive /\ link[w] = "open" /\ controller[w] = None /\ registering = None
      /\ \/ /\ kind = "accepted"
            /\ controller' = [controller EXCEPT ![w] = started]
            /\ negotiated' = negotiated \cup {w}
            /\ registering' = w
            /\ UNCHANGED <<link, activeControllers, cursors, rpc>>
         \/ /\ kind = "noExtension"
            /\ controller' = [controller EXCEPT ![w] = NewLeecherSession]
            /\ UNCHANGED <<link, negotiated, activeControllers, cursors, rpc, registering>>
         \/ /\ kind = "tooExpensive"
            /\ DownloadWireCloses(w, NewLeecherSession)
            /\ UNCHANGED <<negotiated, registering>>
      /\ UNCHANGED <<peerId, alive, balance, opened, received, done, overtaken>>

(* The continuation runs as soon as no other callback does, but the messages *)
(* that came in one chunk with the handshake are handled before it, in one   *)
(* callback: the wire may be closed by now, and its delete have run.         *)
DownloadRegisters(w) ==
  /\ alive /\ registering = w
  /\ registering' = None
  /\ activeControllers' = MapSet(activeControllers, peerId[w], w)
  /\ overtaken' = IF link[w] = "open" THEN overtaken ELSE overtaken \cup {w}
  /\ UNCHANGED <<link, peerId, controller, negotiated, cursors, rpc, alive,
                 balance, opened, received, done>>

(* What the callback that handles a chunk of this wire may do. *)
InChunk(w) == alive /\ link[w] = "open" /\ registering \in {None, w}

(* executeActions, up to the await of openChannel. *)
DownloadExecute(w, r) ==
  IF r.action = ErrorAction
  THEN DownloadWireCloses(w, r.session)
  ELSE /\ controller' = [controller EXCEPT ![w] = r.session]
       /\ rpc' = [rpc EXCEPT ![w] = IF r.action.action = "open_channel"
                                    THEN [call |-> "open"] ELSE @]
       /\ UNCHANGED <<link, activeControllers, cursors>>

(* onExtensionMessage, whatever the peer sends and in whatever order. *)
DownloadReceives(w, message) ==
  /\ InChunk(w) /\ controller[w] # None
  /\ controller[w].accounting.lastNonce < MaxNonce      \* bound
  /\ DownloadExecute(w, LeecherHandle(controller[w], message))
  /\ UNCHANGED <<peerId, negotiated, alive, downloadVars>>

(* The "download" event of a piece. *)
DownloadPiece(w) ==
  /\ InChunk(w) /\ received < FilePieces
  /\ received' = received + 1
  /\ IF Active(w)
     THEN DownloadExecute(w, LeecherOnPieceReceived(controller[w], PieceBytes))
     ELSE UNCHANGED <<link, controller, activeControllers, cursors, rpc>>
  /\ UNCHANGED <<peerId, negotiated, alive, balance, opened, done, registering,
                 overtaken>>

(* The awaited open_channel transaction: it lands if the wallet still has    *)
(* the deposit, or it does not; and the call throws or goes on with          *)
(* onChannelOpened, which changes no state.  A transaction that is on its    *)
(* way when the process exits may still land.                                *)
OpenReturns(w, landed) ==
  /\ rpc[w].call = "open" /\ registering = None
  /\ landed => balance >= Deposit
  /\ balance' = IF landed THEN balance - Deposit ELSE balance
  /\ opened' = [opened EXCEPT ![w] = IF landed THEN @ + 1 ELSE @]
  /\ rpc' = [rpc EXCEPT ![w] = NoCall]
  /\ UNCHANGED <<link, peerId, controller, negotiated, activeControllers, cursors,
                 alive, received, done, registering, overtaken>>

(* torrent.on("done"): onComplete for every registered controller. *)
DownloadDone ==
  /\ alive /\ received = FilePieces /\ ~done /\ registering = None
  /\ done' = TRUE
  /\ controller' = [w \in Wire |-> IF w \in Registered THEN Closed(controller[w])
                                                       ELSE controller[w]]
  /\ UNCHANGED <<link, peerId, negotiated, activeControllers, cursors, rpc, alive,
                 balance, opened, received, registering, overtaken>>

(* Three seconds after the torrent is done, or at a signal (which tells the  *)
(* registered controllers first), the client is destroyed with its wires,    *)
(* and the process exits.                                                    *)
DownloadEnds ==
  /\ alive /\ registering = None
  /\ controller' = [w \in Wire |-> IF controller[w] # None /\ link[w] = "open"
                                   THEN Closed(controller[w]) ELSE controller[w]]
  /\ ExitProcess
  /\ UNCHANGED <<link, peerId, negotiated, activeControllers, cursors, rpc,
                 downloadVars>>
=============================================================================
