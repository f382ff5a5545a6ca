----------------------------- MODULE SeedProcess ----------------------------
(* The process of `seedpay seed` (packages/cli/src/seed.ts) with several     *)
(* wires: the controllers of bittorrent/src/seeder.ts, the claims that       *)
(* closing wires start and nobody awaits, and shutdown(), an async loop over *)
(* activeControllers that awaits one claim at a time while callbacks go on.  *)
(* A signal that arrives again starts a second loop.  Uploads are left out   *)
(* here: they change no session's state (see SeederController).              *)
EXTENDS PeerProcess

CONSTANTS MaxSignals,   \* bound on SIGINT and SIGTERM
          Checks        \* ids, amounts and nonces of the checks peers send

ASSUME ChecksAssumption == Checks \subseteq PaymentCheck

VARIABLES awaited,   \* shutdown loop: the wire whose claim it awaits, or None
          claims,    \* wire: number of claims its controller has started
          due,       \* history: sessions with a check at the first signal
          givenUp    \* history: those with a check when channel_closed came

seedVars == <<awaited, claims, due, givenUp>>

SeedTypeOK ==
  /\ awaited \in Seq(Wire \cup {None})
  /\ Len(awaited) = Len(cursors)
  /\ claims \in [Wire -> Nat]
  /\ due \subseteq Wire
  /\ givenUp \subseteq Wire

SeedInit ==
  /\ awaited = <<>>
  /\ claims = [w \in Wire |-> 0]
  /\ due = {} /\ givenUp = {}

(* A session that onDisconnect would claim for. *)
Due(w) == Active(w) /\ controller[w].highestCheck # NoCheck

(* What a session method starts on the chain. *)
CallOf(r, before) ==
  CASE r.action.action = "verify_channel" -> [call |-> "verify"]
    [] r.action.action = "close_channel" ->
         [call |-> "claim", check |-> r.session.highestCheck]
    [] OTHER -> before

CountClaims(started) ==
  claims' = [w \in Wire |-> claims[w] + IF w \in started THEN 1 ELSE 0]

(* The extended handshake of the peer, which webtorrent sends once per wire: *)
(* a second one would replace the controller.  A wallet that is no public key*)
(* leaves the wire without controller; a peer that does not advertise        *)
(* seedpay gets one that is not registered and that it never hears from, but *)
(* that handles what it sends all the same.                                  *)
SeedHandshake(w, advertised) ==
  /\ alive /\ link[w] = "open" /\ controller[w] = None
  /\ controller' = [controller EXCEPT ![w] = NewSeederSession]
  /\ IF advertised
     THEN /\ negotiated' = negotiated \cup {w}
          /\ activeControllers' = MapSet(activeControllers, peerId[w], w)
     ELSE UNCHANGED <<negotiated, activeControllers>>
  /\ UNCHANGED <<link, peerId, cursors, rpc, alive, seedVars>>

(* Variant with a mistake: only the registered controller is told. *)
CloseRegistered(w, session) ==
  LET r == IF w \in Registered THEN SeederOnDisconnect(session)
                               ELSE Returns(session, NoAction)
  IN  /\ link' = [link EXCEPT ![w] = "closed"]
      /\ controller' = [controller EXCEPT ![w] = r.session]
      /\ rpc' = [rpc EXCEPT ![w] = CallOf(r, @)]
      /\ CountClaims(IF r.action = NoAction THEN {} ELSE {w})
      /\ Unregister(w)

(* wire.on("close"): the wire's own controller is told, and its claim is not *)
(* awaited.                                                                  *)
SeedWireCloses(w, session) ==
  LET r == SeederOnDisconnect(session)
  IN  /\ link' = [link EXCEPT ![w] = "closed"]
      /\ controller' = [controller EXCEPT ![w] = r.session]
      /\ rpc' = [rpc EXCEPT ![w] = CallOf(r, @)]
      /\ CountClaims(IF r.action = NoAction THEN {} ELSE {w})
      /\ Unregister(w)

SeedDisconnects(w) ==
  /\ alive /\ link[w] = "open"
  /\ IF controller[w] = None
     THEN /\ link' = [link EXCEPT ![w] = "closed"]
          /\ Unregister(w)
          /\ UNCHANGED <<controller, rpc, claims>>
     ELSE SeedWireCloses(w, controller[w])
  /\ UNCHANGED <<peerId, negotiated, alive, awaited, due, givenUp>>

(* onExtensionMessage, whatever the peer sends and in whatever order; an     *)
(* error destroys the wire.  A channel_closed closes the session without a   *)
(* claim for the check it may hold.                                          *)
SeedReceives(w, message, validSignature) ==
  LET r == SeederHandle(controller[w], message, validSignature)
  IN  /\ alive /\ link[w] = "open" /\ controller[w] # None
      /\ givenUp' = IF message.type = "channel_closed" /\ Due(w)
                    THEN givenUp \cup {w} ELSE givenUp
      /\ IF r.action = ErrorAction
         THEN SeedWireCloses(w, r.session)
         ELSE /\ controller' = [controller EXCEPT ![w] = r.session]
              /\ rpc' = [rpc EXCEPT ![w] = CallOf(r, @)]
              /\ UNCHANGED <<link, activeControllers, cursors, claims>>
      /\ UNCHANGED <<peerId, negotiated, alive, awaited, due>>

(* await verifyChannel and its continuation. *)
SeedVerified(w, valid, deposited) ==
  LET r == IF valid THEN ConfirmChannel(controller[w], deposited)
                    ELSE RejectChannel(controller[w])
  IN  /\ alive /\ rpc[w].call = "verify"
      /\ rpc' = [rpc EXCEPT ![w] = NoCall]
      /\ controller' = [controller EXCEPT ![w] = r.session]
      /\ UNCHANGED <<link, peerId, negotiated, activeControllers, cursors, alive,
                     seedVars>>

(* Variant with a mistake: the loop stops after the first claim. *)
DueOnce(cursor) ==
  {i \in DOMAIN activeControllers : cursor = 0 /\ Due(activeControllers[i][2])}

(* The entries a shutdown loop still has to claim for. *)
DueAfter(cursor) ==
  {i \in DOMAIN activeControllers : i > cursor /\ Due(activeControllers[i][2])}

(* Loop n goes on from where it stood, synchronously up to its next await: a *)
(* session without a check is closed on the way; the next one with a check   *)
(* is claimed for and awaited.  After the last, client.destroy closes every  *)
(* wire, so that each open one is disconnected, and the process exits.       *)
LoopGoesOn(n, calls, cursor) ==
  LET ahead == DueAfter(cursor)
      stop == IF ahead = {} THEN Len(activeControllers) ELSE Min(ahead)
      visited == {activeControllers[i][2] : i \in cursor + 1 .. stop}
      told == IF ahead = {} THEN {w \in Wire : link[w] = "open" /\ controller[w] # None}
                            ELSE {w \in visited : Active(w)}
      r == [w \in told |-> SeederOnDisconnect(controller[w])]
      started == {w \in told : r[w].action # NoAction}
  IN  /\ controller' = [w \in Wire |-> IF w \in told THEN r[w].session
                                                     ELSE controller[w]]
      /\ rpc' = [w \in Wire |-> IF w \in told THEN CallOf(r[w], calls[w]) ELSE calls[w]]
      /\ CountClaims(started)
      /\ cursors' = [i \in DOMAIN cursors \cup {n} |->
                       IF i = n THEN stop ELSE cursors[i]]
      /\ awaited' = [i \in DOMAIN awaited \cup {n} |->
                       IF i # n THEN awaited[i]
                       ELSE IF ahead = {} THEN None
                       ELSE activeControllers[stop][2]]
      /\ IF ahead = {} THEN ExitProcess ELSE UNCHANGED alive

(* A claim lands or fails; the loop that awaits it logs either and goes on.  *)
SeedClaimReturns(w) ==
  LET calls == [rpc EXCEPT ![w] = NoCall]
  IN  /\ alive /\ rpc[w].call = "claim"
      /\ \/ \E n \in DOMAIN awaited :
              awaited[n] = w /\ LoopGoesOn(n, calls, cursors[n])
         \/ /\ \A n \in DOMAIN awaited : awaited[n] # w
            /\ rpc' = calls
            /\ UNCHANGED <<controller, cursors, awaited, claims, alive>>
      /\ UNCHANGED <<link, peerId, negotiated, activeControllers, due, givenUp>>

(* SIGINT or SIGTERM. *)
SeedSignal ==
  /\ Len(awaited) < MaxSignals              \* bound
  /\ alive
  /\ due' = IF awaited = <<>> THEN {w \in Wire : Due(w)} ELSE due
  /\ LoopGoesOn(Len(awaited) + 1, rpc, 0)
  /\ UNCHANGED <<link, peerId, negotiated, activeControllers, givenUp>>
=============================================================================
