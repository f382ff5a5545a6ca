-------------------------- MODULE MCSeedPayProgram --------------------------
(* Small instances of SeedPayProgram for TLC.                                *)
EXTENDS SeedPayProgram

CONSTANTS L, S, c1

(* A leecher's channel with a seeder, and the same two wallets with their    *)
(* roles exchanged under the same id.                                        *)
MCKey == {[leecher |-> L, seeder |-> S, id |-> c1],
          [leecher |-> S, seeder |-> L, id |-> c1]}
(* One wallet on both sides of a channel, beside an ordinary channel. *)
MCSelfKey == {[leecher |-> L, seeder |-> L, id |-> c1],
              [leecher |-> L, seeder |-> S, id |-> c1]}

MCBalance == [w \in Wallet |-> IF w = L THEN 2 ELSE 1]
=============================================================================
