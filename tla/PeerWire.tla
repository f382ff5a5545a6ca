------------------------------ MODULE PeerWire ------------------------------
(* The BitTorrent connection of a leecher and a seeder (external: webtorrent *)
(* on TCP).  Extension messages and piece messages of one direction arrive   *)
(* in the order they were sent.  Each side has its own view of whether the   *)
(* connection is up: what a side sent before it closed can still arrive,     *)
(* what is sent to a side that has closed is lost, and a side that has       *)
(* closed receives nothing.                                                  *)
EXTENDS Naturals, Sequences

CONSTANTS PieceBytes,   \* bytes of a piece
          FilePieces    \* pieces of the torrent (bound)

ASSUME WireAssumption == PieceBytes \in Nat /\ FilePieces \in Nat

VARIABLES toLeecher, toSeeder,     \* messages in flight, oldest first
          leecherUp, seederUp      \* the two ends of the connection

wireVars == <<toLeecher, toSeeder, leecherUp, seederUp>>

WireInit ==
  /\ toLeecher = <<>> /\ toSeeder = <<>>
  /\ leecherUp = TRUE /\ seederUp = TRUE

(* sendExtensionMessage does nothing on a destroyed wire. *)
SendToSeeder(messages) ==
  toSeeder' = IF leecherUp /\ seederUp THEN toSeeder \o messages ELSE toSeeder

SendToLeecher(messages) ==
  toLeecher' = IF leecherUp /\ seederUp THEN toLeecher \o messages ELSE toLeecher
=============================================================================
