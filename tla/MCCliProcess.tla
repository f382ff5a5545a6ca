---------------------------- MODULE MCCliProcess ----------------------------
(* A small instance of CliProcess for TLC: a piece is a megabyte, a megabyte *)
(* costs one token and is the interval of payment checks.                    *)
EXTENDS CliProcess

MCChecks == {[channelId |-> Id, amount |-> 1, nonce |-> 1]}
=============================================================================
