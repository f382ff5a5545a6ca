----------------------------- MODULE CliProcess -----------------------------
(* One process of the command line tool (packages/cli/src/cli.ts): it runs   *)
(* one command, against peers that connect, send any SeedPay message at any  *)
(* time and disconnect.                                                      *)
EXTENDS SeedProcess, DownloadProcess

VARIABLE command

vars == <<command, processVars, seedVars, downloadVars>>

Init ==
  /\ command \in {"seed", "download"}
  /\ ProcessInit /\ SeedInit /\ DownloadInit

(* What a peer may send that has a handler at the other side.                *)
LeecherMessages ==
  [type : {"ecdh_init", "channel_opened", "channel_closed"}]
    \cup {[type |-> "payment_check", channelId |-> c.channelId, amount |-> c.amount,
           nonce |-> c.nonce] : c \in Checks}
SeederMessages ==
  [type : {"ecdh_init", "channel_confirmed", "channel_rejected",
           "payment_check_required", "payment_check_rejected", "channel_closed"}]

SeedStep ==
  /\ command = "seed"
  /\ \/ \E w \in Wire, advertised \in BOOLEAN : SeedHandshake(w, advertised)
     \/ \E w \in Wire, m \in LeecherMessages, valid \in BOOLEAN : SeedReceives(w, m, valid)
     \/ \E w \in Wire, valid \in BOOLEAN : SeedVerified(w, valid, Deposit)
     \/ \E w \in Wire : SeedClaimReturns(w) \/ SeedDisconnects(w)
     \/ SeedSignal
  /\ UNCHANGED <<command, downloadVars>>

DownloadStep ==
  /\ command = "download"
  /\ \/ \E w \in Wire, kind \in {"accepted", "noExtension", "tooExpensive"} :
          DownloadHandshake(w, kind)
     \/ \E w \in Wire : DownloadRegisters(w)
     \/ \E w \in Wire, m \in SeederMessages : DownloadReceives(w, m)
     \/ \E w \in Wire, landed \in BOOLEAN : OpenReturns(w, landed)
     \/ \E w \in Wire : DownloadPiece(w) \/ DownloadDisconnects(w)
     \/ DownloadDone \/ DownloadEnds
  /\ UNCHANGED <<command, seedVars>>

NewWire ==
  /\ registering = None
  /\ \E w \in Wire : Connect(w)
  /\ UNCHANGED <<command, seedVars, downloadVars>>

Next == NewWire \/ SeedStep \/ DownloadStep

Spec == Init /\ [][Next]_vars

(* Calls to the chain return or throw, a continuation that is due runs, and  *)
(* the timer of a completed download runs out.                               *)
ClaimReturns == command = "seed" /\ (\E w \in Wire : SeedClaimReturns(w))
                  /\ UNCHANGED <<command, downloadVars>>
Continues == command = "download" /\ (\E w \in Wire : DownloadRegisters(w))
               /\ UNCHANGED <<command, seedVars>>
TimerRunsOut == command = "download" /\ done /\ DownloadEnds
                  /\ UNCHANGED <<command, seedVars>>
FairSpec == Spec /\ WF_vars(ClaimReturns) /\ WF_vars(Continues) /\ WF_vars(TimerRunsOut)
-----------------------------------------------------------------------------
TypeOK == /\ command \in {"seed", "download"}
          /\ ProcessTypeOK /\ SeedTypeOK /\ DownloadTypeOK

(* activeControllers never outgrows the connections: no peer id has two      *)
(* entries, and an entry is for a wire with that peer id that is open.  The  *)
(* one exception is a wire that closed before its handshake's continuation   *)
(* made the entry (download.ts:138): it stays, but for a session that is     *)
(* closed, to which a shutdown or the end of the torrent changes nothing.    *)
Stale(w) == w \in overtaken /\ controller[w].state = "closed"
NoStaleControllers ==
  alive => \A i \in DOMAIN activeControllers :
    LET w == activeControllers[i][2]
    IN  /\ link[w] = "open" \/ Stale(w)
        /\ peerId[w] = activeControllers[i][1]
        /\ \A j \in DOMAIN activeControllers :
             activeControllers[i][1] = activeControllers[j][1] => i = j

(* The close event, a shutdown loop, a second loop and client.destroy may    *)
(* all tell one session to disconnect: it is claimed for at most once.       *)
OneClaimPerSession == \A w \in Wire : claims[w] <= 1

(* A check that was accepted is claimed, at the latest when the process      *)
(* ends: also when another wire of the same peer id has taken the session's  *)
(* place in activeControllers, or deleted it from there.  The one way to     *)
(* lose it is the peer's word that the channel is closed, which closes the   *)
(* session unless it is being claimed for.                                   *)
NoClaimForgotten ==
  \A w \in Wire :
    (controller[w] # None /\ command = "seed" /\ (link[w] = "closed" \/ ~alive)) =>
      (controller[w].highestCheck # NoCheck => (claims[w] = 1 <=> w \notin givenUp))

(* What a shutdown settles before the process exits: of the sessions with a  *)
(* check at the first signal, all whose wire stays open, whose peer          *)
(* advertised the extension and says no channel_closed meanwhile, whose peer *)
(* id no other wire has, unless a second signal cuts the first short.  The   *)
(* claims of the others are started and not awaited.                         *)
SharesPeerId(w) == \E v \in Wire \ {w} : peerId[v] = peerId[w]
ShutdownSettles ==
  (~alive /\ Len(awaited) = 1) =>
    \A w \in (due \cap negotiated) \ givenUp :
      (link[w] = "open" /\ ~SharesPeerId(w)) => claims[w] = 1 /\ rpc[w] = NoCall

(* A closed session stays closed: no late message, answer from the chain,    *)
(* piece or second close makes it active, sign a check or call the chain.    *)
ClosedForGood ==
  [][\A w \in Wire :
       (controller[w] # None /\ controller[w].state = "closed") =>
         /\ controller'[w].state = "closed"
         /\ controller'[w].accounting = controller[w].accounting
         /\ rpc'[w] \in {rpc[w], NoCall}]_vars

(* The wallet never loses more than one deposit to a wire, whatever the peer *)
(* repeats and whether or not the answer of the opening arrived; the wires   *)
(* together may lock all it has, which was compared with one deposit only.   *)
OneOpeningPerWire ==
  /\ \A w \in Wire : opened[w] <= 1
  /\ \E b \in Balances : b = balance + Deposit * Cardinality({w \in Wire : opened[w] = 1})

(* A signalled or completed process ends, however many claims it awaits. *)
ProcessEnds == (awaited # <<>> \/ done) ~> ~alive
=============================================================================
