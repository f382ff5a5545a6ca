------------------------------- MODULE MCDemo -------------------------------
(* A small instance of Demo for TLC: a megabyte is four bytes; files of a    *)
(* part of a piece up to several, with and without a partial last piece.     *)
EXTENDS Demo

CONSTANTS L, S

MCBalance == [w \in {L, S} |-> 0]
=============================================================================
