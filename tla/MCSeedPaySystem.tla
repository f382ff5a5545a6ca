--------------------------- MODULE MCSeedPaySystem --------------------------
(* Small instances of SeedPaySystem for TLC.  A megabyte is three bytes and  *)
(* costs two tokens, a piece is one byte: costs are rounded up, every piece  *)
(* but the third raises what is owed, and the fifth takes it beyond the      *)
(* deposit.                                                                  *)
EXTENDS SeedPaySystem

CONSTANTS L, S

MCBalance == [w \in {L, S} |-> IF w = L THEN 4 ELSE 0]

(* --- what the documents say of the system and the code does otherwise --- *)

(* transport.ts: "piece serving is gated via SeederController.onPieceRequest" *)
(* - a piece leaves only when the session is active and the call says serve; *)
(* seed.ts asks after the upload.                                            *)
ServingIsGated ==
  [][sent' # sent => seeder.state = "active" /\ Serve(seeder, PieceBytes)]_vars

(* PROTOCOL.md 6.5.5, "Channel Closing Failure: Seeder (cooperative close):  *)
(* Retry with same payment check" - a seeder that runs and whose claim       *)
(* failed claims again; nothing in the code does.                            *)
ClaimIsRetried ==
  (seeder.state = "closing" /\ seederRpc.call # "claim" /\ Open) ~>
    (seederRpc.call = "claim" \/ ~Open \/ ~seederAlive)
=============================================================================
