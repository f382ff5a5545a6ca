----------------------------- MODULE PeerProcess ----------------------------
(* What one process of the command line tool keeps for all its wires, for    *)
(* both commands (packages/cli/src/seed.ts and download.ts): a controller    *)
(* per wire, and the Map activeControllers from peer ids to controllers,     *)
(* which is what a shutdown and a completed download look at.  Two wires may *)
(* have one peer id: a peer that reconnects before its old wire closes, or   *)
(* peers without id and address, which are all "unknown".                    *)
EXTENDS SeederSession, Sequences, FiniteSetsExt

CONSTANTS Wire,           \* connections over the life of the process (bound)
          PeerId,         \* wire.peerId || wire.remoteAddress || "unknown"
          None

VARIABLES link,               \* wire: "new", "open" or "closed"
          peerId,             \* wire: its peer id
          controller,         \* wire: the session of its controller, or None
          negotiated,         \* wires whose peer advertised the extension
          activeControllers,  \* the Map: <<peer id, wire>> in insertion order
          cursors,            \* loops over the Map: the entries they have passed
          rpc,                \* wire: the call to the chain its controller awaits
          alive               \* the process runs

processVars == <<link, peerId, controller, negotiated, activeControllers,
                 cursors, rpc, alive>>

ASSUME ConnectionAssumption ==
  IsFiniteSet(Wire) /\ None \notin Wire \cup LeecherSessions \cup SeederSessions

NoCall == [call |-> "none"]

ProcessTypeOK ==
  /\ link \in [Wire -> {"new", "open", "closed"}]
  /\ peerId \in [Wire -> PeerId \cup {None}]
  /\ controller \in [Wire -> LeecherSessions \cup SeederSessions \cup {None}]
  /\ negotiated \subseteq Wire
  /\ activeControllers \in Seq(PeerId \X Wire)
  /\ cursors \in Seq(0 .. Len(activeControllers))
  /\ rpc \in [Wire -> [call : {"none", "verify", "open"}]
                        \cup [call : {"claim"}, check : PaymentCheck]]
  /\ alive \in BOOLEAN

ProcessInit ==
  /\ link = [w \in Wire |-> "new"]
  /\ peerId = [w \in Wire |-> None]
  /\ controller = [w \in Wire |-> None]
  /\ negotiated = {}
  /\ activeControllers = <<>>
  /\ cursors = <<>>
  /\ rpc = [w \in Wire |-> NoCall]
  /\ alive = TRUE

(* The event "wire" of the torrent. *)
Connect(w) ==
  /\ alive /\ link[w] = "new"
  /\ link' = [link EXCEPT ![w] = "open"]
  /\ \E id \in PeerId : peerId' = [peerId EXCEPT ![w] = id]
  /\ UNCHANGED <<controller, negotiated, activeControllers, cursors, rpc, alive>>

(* A callback of the wire finds a controller, and its session active. *)
Active(w) == controller[w] # None /\ controller[w].state = "active"

(* Map.set: an existing key keeps its place. *)
MapSet(map, key, w) ==
  IF \E i \in DOMAIN map : map[i][1] = key
  THEN [i \in DOMAIN map |-> IF map[i][1] = key THEN <<key, w>> ELSE map[i]]
  ELSE Append(map, <<key, w>>)

(* Map.delete: a key has one entry, or none. *)
MapDelete(map, key) ==
  IF \E i \in DOMAIN map : map[i][1] = key
  THEN LET k == CHOOSE i \in DOMAIN map : map[i][1] = key
       IN  [i \in 1 .. Len(map) - 1 |-> IF i < k THEN map[i] ELSE map[i + 1]]
  ELSE map

Registered == {activeControllers[i][2] : i \in DOMAIN activeControllers}

(* Variant with a mistake: a closed wire leaves its entry behind. *)
UnregisterNothing(w) == UNCHANGED <<activeControllers, cursors>>

(* activeControllers.delete(peerId) when the wire closes, whichever wire the *)
(* entry is for.  A loop over the Map goes on with the entries it has not    *)
(* passed.                                                                   *)
Unregister(w) ==
  /\ activeControllers' = MapDelete(activeControllers, peerId[w])
  /\ cursors' = [i \in DOMAIN cursors |->
                   Cardinality({j \in 1 .. cursors[i] :
                                  activeControllers[j][1] # peerId[w]})]

(* Variant with a mistake: the client is destroyed, the process stays. *)
DestroyWithoutExit == UNCHANGED alive

(* client.destroy(() => process.exit(0)) *)
ExitProcess == alive' = FALSE
=============================================================================
