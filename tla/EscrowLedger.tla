---------------------------- MODULE EscrowLedger ----------------------------
(* What the on-chain program promises, without accounts, instructions,       *)
(* nonces or a clock: tokens are locked for a (leecher, seeder, id), and     *)
(* leave the lock all at once, either split at an amount the leecher has     *)
(* promised for that id, or, after the lock has lapsed, to the leecher.      *)
EXTENDS Integers

CONSTANTS Wallet, ChannelId, Key, Amount, InitialBalance

VARIABLES balance,   \* tokens in each wallet
          locked,    \* tokens locked under each key, 0 when there is no lock
          lapsed,    \* the locks that have lapsed
          promised   \* amounts promised: [by, id, amount]

vars == <<balance, locked, lapsed, promised>>

Moved(b, w, amount) == [b EXCEPT ![w] = @ + amount]

Init ==
  /\ balance = InitialBalance
  /\ locked = [k \in Key |-> 0]
  /\ lapsed = {}
  /\ promised = {}

Promise(w, id, amount) ==
  /\ promised' = promised \cup {[by |-> w, id |-> id, amount |-> amount]}
  /\ UNCHANGED <<balance, locked, lapsed>>

(* Only the leecher creates a lock; anybody may add to one. *)
Lock(k, w, amount) ==
  /\ locked[k] = 0 => w = k.leecher
  /\ amount > 0 /\ amount <= balance[w]
  /\ balance' = Moved(balance, w, -amount)
  /\ locked' = [locked EXCEPT ![k] = @ + amount]
  /\ UNCHANGED <<lapsed, promised>>

Split(k, paid) ==
  /\ locked[k] > 0 /\ paid <= locked[k]
  /\ [by |-> k.leecher, id |-> k.id, amount |-> paid] \in promised
  /\ balance' = Moved(Moved(balance, k.seeder, paid), k.leecher, locked[k] - paid)
  /\ locked' = [locked EXCEPT ![k] = 0]
  /\ lapsed' = lapsed \ {k}
  /\ UNCHANGED promised

Reclaim(k) ==
  /\ locked[k] > 0 /\ k \in lapsed
  /\ balance' = Moved(balance, k.leecher, locked[k])
  /\ locked' = [locked EXCEPT ![k] = 0]
  /\ lapsed' = lapsed \ {k}
  /\ UNCHANGED promised

(* Some of the locks lapse; a lapsed one stays so until it is settled. *)
Lapse ==
  /\ lapsed \subseteq lapsed'
  /\ lapsed' \subseteq {k \in Key : locked[k] > 0}
  /\ UNCHANGED <<balance, locked, promised>>

Next ==
  \/ \E w \in Wallet, id \in ChannelId, a \in Amount : Promise(w, id, a)
  \/ \E k \in Key, w \in Wallet, a \in Amount : Lock(k, w, a)
  \/ \E k \in Key : (\E a \in Amount : Split(k, a)) \/ Reclaim(k)
  \/ Lapse

Spec == Init /\ [][Next]_vars
=============================================================================
