---------------------------- MODULE MCAnyLeecher ----------------------------
(* A small instance of AnyLeecher for TLC: two ids, numbers of two bits,     *)
(* amounts on both sides of a deposit, a nonce that the program and the      *)
(* seeder see differently, and numbers that are no u64: -3 and 5 are encoded *)
(* as 1, and -2 as 2, its magnitude.                                         *)
EXTENDS AnyLeecher

CONSTANTS L, S

Payment(id, amount, nonce) == [channelId |-> id, amount |-> amount, nonce |-> nonce]
MCChecks ==
  {Payment(Id, 1, 0), Payment(Id, 1, 1), Payment(Id, 2, 2), Payment(Id, -3, 1),
   Payment(Id, -2, 2), Payment(Id, 1, 5)}
    \cup {Payment(id, 2, 1) : id \in ChannelId}

MCBalance == [w \in {L, S} |-> IF w = L THEN 2 ELSE 0]

(* --- what the documents say of a seeder and the code does otherwise ---    *)

(* PROTOCOL.md 5.4.5: "Check is only valid for specific channel; Cannot      *)
(* replay across channels" - a check the seeder accepts is for its channel.  *)
AcceptedForThisChannel ==
  seeder.highestCheck # NoCheck => seeder.highestCheck.channelId = Id

(* PROTOCOL.md 3.4.4: "When a session ends (either normally or due to        *)
(* expiry), the Seeder SHOULD: 1. Submit the highest valid payment check" -  *)
(* a session that leaves the active state with a check the chain would take  *)
(* claims for it, unless the process dies; a channel_closed of the peer ends *)
(* it without a claim.                                                       *)
EndedSessionClaims ==
  [][(/\ seeder.state = "active" /\ seeder'.state # "active" /\ seederAlive'
      /\ seeder.highestCheck # NoCheck /\ Claimable(seeder.highestCheck)) =>
        seederRpc'.call = "claim"]_vars
=============================================================================
