-------------------------- MODULE SeedPayCountProofs --------------------------
(* Theorems about the counts of SeedPaySystem: the pieces, the bytes, the    *)
(* nonces and the signed checks of one transfer, on both sides of the wire   *)
(* and on it.                                                                *)
EXTENDS SeedPayWireProofs

USE AccountingAssumption, DepositAssumption, MinDepositAssumption, WireAssumption,
    ChainAssumption, IdAssumption
-----------------------------------------------------------------------------
(* --- the invariant --- *)

Sorted(q, types) == {i \in 1 .. Len(q) : q[i].type \in types}
Count(q, types) == Cardinality(Sorted(q, types))

Pieces(q) == Count(q, {"piece"})
Demands(q) == Count(q, {"payment_check_required"})

(* The pieces in flight that the leecher will count: those that arrive when  *)
(* it is active.                                                             *)
Coming(state, q) ==
  {i \in Sorted(q, {"piece"}) :
     \/ state = "active"
     \/ state = "channel_pending" /\ \E j \in 1 .. i - 1 : q[j].type = "channel_confirmed"}

(* No piece arrives that was not sent. *)
PieceInv ==
  /\ sent \in 0 .. FilePieces
  /\ received + Pieces(toLeecher) <= sent

(* A piece and its demand make the leecher sign at most two checks. *)
NonceInv ==
  /\ leecher.accounting.lastNonce + Pieces(toLeecher) + Demands(toLeecher) <= 2 * sent
  /\ IsFiniteSet(signed)
  /\ Cardinality(signed) <= leecher.accounting.lastNonce

(* The seeder has counted what the leecher has counted and will count. *)
ByteInv ==
  (seederAlive /\ quitting = "no") =>
    leecher.accounting.totalBytes + Cardinality(Coming(leecher.state, toLeecher)) * PieceBytes
      <= seeder.accounting.totalBytes

CountInv == PieceInv /\ NonceInv /\ ByteInv
-----------------------------------------------------------------------------
(* --- counting places of a queue --- *)

(* Moved by one place, a set of numbers has as many elements. *)
LEMMA ShiftedCount ==
  ASSUME NEW S, S \subseteq Int, IsFiniteSet(S), NEW T, T = {i + 1 : i \in S}
  PROVE  IsFiniteSet(T) /\ Cardinality(T) = Cardinality(S)
<1> DEFINE f == [i \in S |-> i + 1]
<1>0. /\ f \in [S -> T] /\ \A i \in S : f[i] = i + 1 /\ i \in Int
  OBVIOUS
<1>1. f \in Injection(S, T)
  <2>1. \A i, j \in S : f[i] = f[j] => i = j
    BY <1>0
  <2> HIDE DEF f
  <2> QED
    BY <1>0, <2>1 DEF Injection, IsInjective
<1>2. f \in Surjection(S, T)
  BY DEF Surjection
<1>3. ExistsBijection(S, T)
  BY <1>1, <1>2 DEF ExistsBijection, Bijection
<1> QED
  BY <1>3, FS_Bijection

LEMMA PlacesFinite ==
  ASSUME NEW q, Len(q) \in Nat, NEW S, S \subseteq 1 .. Len(q)
  PROVE  IsFiniteSet(S) /\ Cardinality(S) \in Nat /\ S \subseteq Int
<1> DEFINE places == 1 .. Len(q)
<1>1. IsFiniteSet(places)
  BY FS_Interval
<1>2. S \in SUBSET places /\ S \subseteq Int
  OBVIOUS
<1> HIDE DEF places
<1>3. IsFiniteSet(S)
  BY <1>1, <1>2, FS_Subset
<1> QED
  BY <1>2, <1>3, FS_CardinalityType

LEMMA CountType ==
  ASSUME NEW q, Len(q) \in Nat, NEW types
  PROVE  /\ IsFiniteSet(Sorted(q, types)) /\ Count(q, types) \in Nat
         /\ Sorted(q, types) \subseteq Int
<1>1. Sorted(q, types) \subseteq 1 .. Len(q)
  BY DEF Sorted
<1> QED
  BY <1>1, PlacesFinite DEF Count

LEMMA CountPop ==
  ASSUME NEW q, NEW r, Shorter(q, r), NEW types
  PROVE  Count(q, types) = Count(r, types) + (IF q[1].type \in types THEN 1 ELSE 0)
<1> DEFINE S == Sorted(r, types)
           T == {i + 1 : i \in S}
<1>1. Len(q) \in Nat /\ Len(r) \in Nat /\ Len(q) = Len(r) + 1
  BY DEF Shorter
<1>2. IsFiniteSet(S) /\ S \subseteq Int /\ Cardinality(S) \in Nat
  BY <1>1, CountType DEF Count
<1>3. IsFiniteSet(T) /\ Cardinality(T) = Cardinality(S)
  BY <1>2, ShiftedCount
<1>4. T = {i \in 2 .. Len(q) : q[i].type \in types}
  <2>1. ASSUME NEW i \in 2 .. Len(q), q[i].type \in types PROVE i \in T
    <3>1. i - 1 \in S /\ i = (i - 1) + 1
      BY <1>1, <2>1 DEF Sorted, Shorter
    <3> QED
      BY <3>1
  <2>2. ASSUME NEW i \in S PROVE i + 1 \in 2 .. Len(q) /\ q[i + 1].type \in types
    BY <1>1, <2>2 DEF Sorted, Shorter
  <2> QED
    BY <2>1, <2>2
<1> HIDE DEF S, T
<1>5. CASE q[1].type \in types
  <2>1. Sorted(q, types) = T \cup {1} /\ 1 \notin T
    BY <1>1, <1>4, <1>5 DEF Sorted
  <2> QED
    BY <1>2, <1>3, <1>5, <2>1, FS_AddElement DEF Count, S
<1>6. CASE q[1].type \notin types
  <2>1. Sorted(q, types) = T
    BY <1>1, <1>4, <1>6 DEF Sorted
  <2> QED
    BY <1>2, <1>3, <1>6, <2>1 DEF Count, S
<1> QED
  BY <1>5, <1>6

LEMMA CountPush ==
  ASSUME NEW q, NEW r, NEW m, Longer(q, r, m), NEW types
  PROVE  Count(r, types) = Count(q, types) + (IF m.type \in types THEN 1 ELSE 0)
<1> DEFINE S == Sorted(q, types)
           last == Len(q) + 1
<1>1. Len(q) \in Nat /\ Len(r) = last /\ r[last] = m /\ \A i \in 1 .. Len(q) : r[i] = q[i]
  BY DEF Longer
<1>2. IsFiniteSet(S) /\ Cardinality(S) \in Nat
  BY <1>1, CountType DEF Count
<1>3. CASE m.type \in types
  <2>1. Sorted(r, types) = S \cup {last} /\ last \notin S
    BY <1>1, <1>3 DEF Sorted
  <2> QED
    BY <1>2, <1>3, <2>1, FS_AddElement DEF Count
<1>4. CASE m.type \notin types
  <2>1. Sorted(r, types) = S
    BY <1>1, <1>4 DEF Sorted
  <2> QED
    BY <1>2, <1>4, <2>1 DEF Count
<1> QED
  BY <1>3, <1>4

LEMMA ComingType ==
  ASSUME NEW q, Len(q) \in Nat, NEW state
  PROVE  /\ IsFiniteSet(Coming(state, q)) /\ Cardinality(Coming(state, q)) \in Nat
         /\ Coming(state, q) \subseteq Sorted(q, {"piece"})
  BY PlacesFinite DEF Coming, Sorted

(* An active leecher counts every piece. *)
LEMMA AllComing ==
  ASSUME NEW q
  PROVE  Cardinality(Coming("active", q)) = Pieces(q)
<1>1. Coming("active", q) = Sorted(q, {"piece"})
  BY DEF Coming
<1> QED
  BY <1>1 DEF Pieces, Count

LEMMA NoneComing ==
  ASSUME NEW q, NEW state, state \notin {"channel_pending", "active"} \/
                           (state = "channel_pending" /\ Quiet(q))
  PROVE  Coming(state, q) = {} /\ Cardinality(Coming(state, q)) = 0
<1>1. Coming(state, q) = {}
  BY DEF Coming, Quiet, Control, Sorted
<1> QED
  BY <1>1, FS_EmptySet

LEMMA ShiftedInto ==
  ASSUME NEW S, S \subseteq Int, IsFiniteSet(S), NEW T, IsFiniteSet(T),
         \A i \in S : i + 1 \in T
  PROVE  Cardinality(S) <= Cardinality(T)
<1> DEFINE U == {i + 1 : i \in S}
<1>1. IsFiniteSet(U) /\ Cardinality(U) = Cardinality(S)
  BY ShiftedCount
<1>2. U \in SUBSET T
  OBVIOUS
<1> HIDE DEF U
<1>3. Cardinality(U) <= Cardinality(T)
  BY <1>2, FS_Subset
<1> QED
  BY <1>1, <1>3

(* Nothing but an arriving piece, or the confirmation, changes how many      *)
(* pieces are coming when the head of the queue is taken.                    *)
LEMMA ComingPop ==
  ASSUME NEW q, NEW r, Shorter(q, r)
  PROVE  /\ Cardinality(Coming("active", q)) =
              Cardinality(Coming("active", r)) + (IF q[1].type = "piece" THEN 1 ELSE 0)
         /\ q[1].type = "channel_confirmed" =>
              Cardinality(Coming("active", r)) <= Cardinality(Coming("channel_pending", q))
         /\ Cardinality(Coming("channel_pending", r)) <=
              Cardinality(Coming("channel_pending", q))
<1>1. /\ Len(q) \in Nat /\ Len(r) \in Nat /\ Len(q) = Len(r) + 1
      /\ \A i \in 1 .. Len(r) : i + 1 \in 1 .. Len(q) /\ r[i] = q[i + 1]
  BY DEF Shorter
<1>2. \A state : /\ IsFiniteSet(Coming(state, q)) /\ IsFiniteSet(Coming(state, r))
                 /\ Coming(state, r) \subseteq 1 .. Len(r)
  BY <1>1, ComingType DEF Sorted
<1>3. Cardinality(Coming("active", q)) =
        Cardinality(Coming("active", r)) + (IF q[1].type = "piece" THEN 1 ELSE 0)
  BY AllComing, CountPop DEF Pieces
<1>4. ASSUME q[1].type = "channel_confirmed"
      PROVE  \A i \in Coming("active", r) : i + 1 \in Coming("channel_pending", q)
  <2>1. ASSUME NEW i \in Coming("active", r) PROVE i + 1 \in Coming("channel_pending", q)
    <3>1. /\ i \in 1 .. Len(r) /\ r[i].type = "piece" /\ 1 \in 1 .. (i + 1) - 1
      BY <2>1 DEF Coming, Sorted
    <3> QED
      BY <1>1, <1>4, <3>1 DEF Coming, Sorted
  <2> QED
    BY <2>1
<1>5. ASSUME NEW i \in Coming("channel_pending", r)
      PROVE  i + 1 \in Coming("channel_pending", q)
  <2>1. /\ i \in 1 .. Len(r) /\ r[i].type = "piece"
        /\ \E j \in 1 .. i - 1 : r[j].type = "channel_confirmed"
    BY <1>5 DEF Coming, Sorted
  <2>2. PICK j \in 1 .. i - 1 : r[j].type = "channel_confirmed"
    BY <2>1
  <2>3. j + 1 \in 1 .. (i + 1) - 1 /\ q[j + 1].type = "channel_confirmed"
    BY <1>1, <2>1, <2>2
  <2> QED
    BY <1>1, <2>1, <2>3 DEF Coming, Sorted
<1>6. \A state : Coming(state, r) \subseteq Int
  BY <1>2
<1> QED
  BY <1>2, <1>3, <1>4, <1>5, <1>6, ShiftedInto

LEMMA ComingPush ==
  ASSUME NEW q, NEW r, NEW m, Longer(q, r, m), NEW state
  PROVE  /\ m.type # "piece" => Coming(state, r) = Coming(state, q)
         /\ Cardinality(Coming(state, r)) <= Cardinality(Coming(state, q)) + 1
<1> DEFINE last == Len(q) + 1
           S == Coming(state, q)
           T == Coming(state, r)
<1>1. /\ Len(q) \in Nat /\ Len(r) \in Nat /\ Len(r) = last /\ r[last] = m
      /\ \A i \in 1 .. Len(q) : r[i] = q[i]
  BY DEF Longer
<1>2. IsFiniteSet(S) /\ Cardinality(S) \in Nat
  BY <1>1, ComingType
<1>3. ASSUME NEW i, i # last
      PROVE  i \in T <=> i \in S
  <2>1. ASSUME i \in 1 .. Len(q)
        PROVE  /\ r[i] = q[i] /\ i \in 1 .. Len(r)
               /\ \A j \in 1 .. i - 1 : r[j] = q[j]
    BY <1>1, <2>1
  <2>2. i \in 1 .. Len(r) => i \in 1 .. Len(q)
    BY <1>1, <1>3
  <2>3. CASE i \in 1 .. Len(q)
    BY <2>1, <2>3 DEF Coming, Sorted
  <2>4. CASE i \notin 1 .. Len(q)
    BY <2>2, <2>4 DEF Coming, Sorted
  <2> QED
    BY <2>3, <2>4
<1>4. last \notin S
  BY <1>1 DEF Coming, Sorted
<1>5. last \in T => m.type = "piece"
  BY <1>1 DEF Coming, Sorted
<1> HIDE DEF S, T
<1> HIDE DEF last
<1>6. T = S \/ T = S \cup {last}
  <2>1. CASE last \in T
    <3>1. \A i : i \in T <=> i \in S \cup {last}
      BY <1>3, <2>1
    <3> QED
      BY <3>1
  <2>2. CASE last \notin T
    <3>1. \A i : i \in T <=> i \in S
      BY <1>3, <1>4, <2>2
    <3> QED
      BY <3>1
  <2> QED
    BY <2>1, <2>2
<1>7. m.type # "piece" => T = S
  BY <1>3, <1>4, <1>5
<1>8. Cardinality(T) <= Cardinality(S) + 1
  <2>1. Cardinality(S \cup {last}) \in {Cardinality(S), Cardinality(S) + 1}
    BY <1>2, FS_AddElement
  <2> QED
    BY <1>2, <1>6, <2>1
<1> QED
  BY <1>7, <1>8 DEF S, T

(* Bytes of a number of pieces. *)
LEMMA Worth ==
  ASSUME NEW c \in Nat, NEW d \in Nat, c <= d
  PROVE  /\ c * PieceBytes \in Nat /\ d * PieceBytes \in Nat
         /\ c * PieceBytes <= d * PieceBytes
         /\ (c + 1) * PieceBytes = c * PieceBytes + PieceBytes
<1>1. (c + 1) * PieceBytes = c * PieceBytes + PieceBytes
  BY SMT
<1> QED
  BY <1>1, Product
-----------------------------------------------------------------------------
(* --- the leecher keeps the counts --- *)

LEMMA QueueLength == QueueInv => Len(toLeecher) \in Nat /\ Len(toSeeder) \in Nat
<1> SUFFICES ASSUME QueueInv PROVE Len(toLeecher) \in Nat /\ Len(toSeeder) \in Nat
  OBVIOUS
<1>1. toLeecher \in Seq(ToLeecherMessage) /\ toSeeder \in Seq(SeedPayMessage)
  BY DEF QueueInv, ToLeecherMessage
<1> QED
  BY <1>1

LEMMA TakenCounts ==
  ASSUME QueueInv, Takes
  PROVE  /\ Shorter(toLeecher, toLeecher') /\ Head(toLeecher) = toLeecher[1]
         /\ Pieces(toLeecher) =
              Pieces(toLeecher') + (IF Head(toLeecher).type = "piece" THEN 1 ELSE 0)
         /\ Demands(toLeecher) =
              Demands(toLeecher')
                + (IF Head(toLeecher).type = "payment_check_required" THEN 1 ELSE 0)
         /\ Pieces(toLeecher') \in Nat /\ Demands(toLeecher') \in Nat
<1>1. Shorter(toLeecher, toLeecher') /\ Head(toLeecher) = toLeecher[1]
  BY MessageTypes DEF Takes
<1>2. Len(toLeecher') \in Nat
  BY <1>1 DEF Shorter
<1>3. /\ Count(toLeecher, {"piece"}) =
           Count(toLeecher', {"piece"}) + (IF toLeecher[1].type \in {"piece"} THEN 1 ELSE 0)
      /\ Count(toLeecher, {"payment_check_required"}) =
           Count(toLeecher', {"payment_check_required"})
             + (IF toLeecher[1].type \in {"payment_check_required"} THEN 1 ELSE 0)
  BY <1>1, CountPop
<1> QED
  BY <1>1, <1>2, <1>3, CountType DEF Pieces, Demands

(* A leecher receives what was sent. *)
LEMMA LeecherPieces ==
  ASSUME QueueInv, LeecherInv, PieceInv, LeecherEffect, sent' = sent
  PROVE  PieceInv'
<1>1. received \in Nat /\ sent \in Nat
  BY DEF LeecherInv, PieceInv
<1>2. CASE Keeps
  BY <1>2 DEF Keeps, PieceInv, Pieces, Count, Sorted
<1>3. CASE Takes
  <2>1. /\ Pieces(toLeecher) =
             Pieces(toLeecher') + (IF Head(toLeecher).type = "piece" THEN 1 ELSE 0)
        /\ Pieces(toLeecher') \in Nat
        /\ received' = received + (IF Head(toLeecher).type = "piece" THEN 1 ELSE 0)
    BY <1>3, TakenCounts DEF Takes
  <2>2. received' + Pieces(toLeecher') = received + Pieces(toLeecher)
    BY <1>1, <2>1
  <2> QED
    BY <2>2 DEF PieceInv
<1> QED
  BY <1>2, <1>3 DEF LeecherEffect, Ends, Starts, Opens, IsConfirmed, CountsPiece, Pays,
                    Ignores, Resolves

(* Every check answers a piece or a demand. *)
LEMMA LeecherNonces ==
  ASSUME QueueInv, LeecherInv, NonceInv, sent \in Nat, sent' = sent, LeecherEffect,
         NEW step, Leecher(step)
  PROVE  NonceInv'
<1> DEFINE acc == leecher.accounting
           acc1 == leecher'.accounting
           p == Pieces(toLeecher)
           p1 == Pieces(toLeecher')
           d == Demands(toLeecher)
           d1 == Demands(toLeecher')
<1>1. /\ acc \in PieceAccounting /\ acc.lastNonce \in Nat /\ leecher \in LeecherSessions
      /\ p \in Nat /\ d \in Nat
      /\ acc.lastNonce + p + d <= 2 * sent
      /\ IsFiniteSet(signed) /\ Cardinality(signed) <= acc.lastNonce
      /\ Cardinality(signed) \in Nat
  BY QueueLength, CountType, FS_CardinalityType
     DEF LeecherInv, LeecherOK, LeecherSessions, PieceAccounting, NonceInv, Pieces, Demands
<1>2. ASSUME Keeps \/ Takes
      PROVE  p1 \in Nat /\ d1 \in Nat /\ p1 <= p /\ d1 <= d
  <2>1. CASE Keeps
    BY <1>1, <2>1 DEF Keeps
  <2>2. CASE Takes
    BY <2>2, TakenCounts
  <2> QED
    BY <1>2, <2>1, <2>2
<1>3. ASSUME Keeps \/ Takes, acc1.lastNonce = acc.lastNonce
      PROVE  NonceInv'
  <2>1. signed' = signed
    BY <1>3 DEF Leecher
  <2>2. p1 \in Nat /\ d1 \in Nat /\ p1 <= p /\ d1 <= d
    BY <1>2, <1>3
  <2> HIDE DEF p, p1, d, d1, acc, acc1
  <2>3. acc1.lastNonce + p1 + d1 <= 2 * sent
    BY <1>1, <1>3, <2>2
  <2> QED
    BY <1>1, <1>3, <2>1, <2>3 DEF NonceInv, p1, d1, acc, acc1
<1>4. CASE Pays
  <2>1. /\ Takes /\ acc1.lastNonce = acc.lastNonce + 1
        /\ Head(toLeecher).type \in {"piece", "payment_check_required"}
    BY <1>1, <1>4, NextCheck, CountedAccounting DEF Pays, PaysFor, NextNonce
  <2>2. p1 \in Nat /\ d1 \in Nat /\ p1 + d1 + 1 = p + d
    BY <2>1, TakenCounts
  <2>3. signed' = signed \cup {SignedBy([channelId |-> Id, amount |-> acc1.lastCheckAmount,
                                         nonce |-> acc1.lastNonce])}
    BY <1>1, <2>1 DEF Leecher
  <2> HIDE DEF p, p1, d, d1, acc, acc1
  <2>4. IsFiniteSet(signed') /\ Cardinality(signed') <= Cardinality(signed) + 1
        /\ Cardinality(signed') \in Nat
    <3> DEFINE new == SignedBy([channelId |-> Id, amount |-> acc1.lastCheckAmount,
                              nonce |-> acc1.lastNonce])
    <3> HIDE DEF new
    <3>1. IsFiniteSet(signed \cup {new})
      BY <1>1, FS_AddElement
    <3>2. Cardinality(signed \cup {new}) \in {Cardinality(signed), Cardinality(signed) + 1}
      BY <1>1, FS_AddElement
    <3>3. signed' = signed \cup {new}
      BY <2>3 DEF new
    <3> QED
      BY <1>1, <3>1, <3>2, <3>3
  <2>5. acc1.lastNonce + p1 + d1 <= 2 * sent /\ Cardinality(signed') <= acc1.lastNonce
    BY <1>1, <2>1, <2>2, <2>4
  <2> QED
    BY <2>4, <2>5 DEF NonceInv, p1, d1, acc, acc1
<1>5. CASE Ends \/ Starts \/ Opens \/ IsConfirmed \/ Ignores \/ Resolves \/ CountsPiece
  <2>1. acc1.lastNonce = acc.lastNonce /\ (Keeps \/ Takes)
    BY <1>1, <1>5, CountedAccounting
       DEF Ends, Starts, Opens, IsConfirmed, Ignores, Resolves, CountsPiece, WithState,
           LeecherSessions
  <2> QED
    BY <1>3, <2>1
<1> QED
  BY <1>4, <1>5 DEF LeecherEffect

(* What a leecher has counted, or will: a piece that arrives only moves from *)
(* the second to the first.                                                  *)
Promised(l, q) == l.accounting.totalBytes + Cardinality(Coming(l.state, q)) * PieceBytes

LEMMA LeecherBytes ==
  ASSUME QueueInv, PhaseInv, LeecherInv, LeecherEffect
  PROVE  Promised(leecher', toLeecher') <= Promised(leecher, toLeecher)
<1> DEFINE total == leecher.accounting.totalBytes
           total1 == leecher'.accounting.totalBytes
           q == toLeecher
           r == toLeecher'
           c == Cardinality(Coming(leecher.state, q))
           c1 == Cardinality(Coming(leecher'.state, r))
<1>1. /\ total \in Nat /\ leecher \in LeecherSessions /\ leecher.accounting \in PieceAccounting
      /\ c \in Nat /\ Len(q) \in Nat
  BY QueueLength, ComingType DEF LeecherInv, LeecherOK, LeecherSessions, PieceAccounting
<1>2. Awaits(leecher.state, q)
  BY DEF PhaseInv
<1>3. /\ Takes => Shorter(q, r) /\ Head(q) = q[1]
      /\ Keeps => r = q
  BY TakenCounts DEF Keeps
<1>4. ASSUME c1 <= c, c1 \in Nat, total1 = total
      PROVE  Promised(leecher', toLeecher') <= Promised(leecher, toLeecher)
  <2> HIDE DEF c, c1, total, total1
  <2>1. total1 + c1 * PieceBytes <= total + c * PieceBytes
    BY <1>1, <1>4, Worth
  <2> QED
    BY <2>1 DEF Promised, c, c1, total, total1
<1>5. ASSUME c1 + 1 <= c, c1 \in Nat, total1 = total + PieceBytes
      PROVE  Promised(leecher', toLeecher') <= Promised(leecher, toLeecher)
  <2> HIDE DEF c, c1, total, total1
  <2>1. /\ (c1 + 1) * PieceBytes <= c * PieceBytes
        /\ (c1 + 1) * PieceBytes = c1 * PieceBytes + PieceBytes
        /\ c1 * PieceBytes \in Nat /\ c * PieceBytes \in Nat
    BY <1>1, <1>5, Worth
  <2>2. total1 + c1 * PieceBytes <= total + c * PieceBytes
    BY <1>1, <1>5, <2>1
  <2> QED
    BY <2>2 DEF Promised, c, c1, total, total1
<1>6. Takes => /\ Len(r) \in Nat /\ c1 \in Nat
               /\ Cardinality(Coming("active", q)) =
                    Cardinality(Coming("active", r)) + (IF Head(q).type = "piece" THEN 1 ELSE 0)
               /\ Head(q).type = "channel_confirmed" =>
                    Cardinality(Coming("active", r)) <= Cardinality(Coming("channel_pending", q))
               /\ Cardinality(Coming("channel_pending", r)) <=
                    Cardinality(Coming("channel_pending", q))
  BY <1>3, ComingPop, ComingType, SMTT(30) DEF Shorter
<1> HIDE DEF q, r
<1>7. CASE Ends \/ Starts
  <2>1. total1 = total /\ leecher'.state \in {"closed", "handshake"}
    BY <1>1, <1>7, LeecherState DEF Ends, Starts, SessionState
  <2>2. c1 = 0
    BY <2>1, NoneComing
  <2> QED
    BY <1>1, <1>4, <2>1, <2>2
<1>8. CASE Opens
  <2>1. total1 = total /\ leecher'.state = "channel_pending" /\ leecher.state = "handshake"
        /\ Shorter(q, r) /\ q[1].type = "ecdh_init"
    BY <1>1, <1>3, <1>8, LeecherState DEF Opens, SessionState, q
  <2>2. Quiet(r)
    BY <1>2, <2>1, PopControl DEF Awaits, Control
  <2>3. c1 = 0
    BY <2>1, <2>2, NoneComing
  <2> QED
    BY <1>1, <1>4, <2>1, <2>3
<1>9. CASE IsConfirmed
  <2>1. /\ total1 = total /\ leecher'.state = "active" /\ leecher.state = "channel_pending"
        /\ Takes /\ Head(q).type = "channel_confirmed"
    BY <1>1, <1>9, LeecherState DEF IsConfirmed, SessionState, q
  <2> QED
    BY <1>4, <1>6, <2>1
<1>10. CASE Resolves
  <2>1. leecher' = leecher /\ r = q
    BY <1>3, <1>10 DEF Resolves
  <2> QED
    BY <1>1, <1>4, <2>1
<1>11. CASE Ignores
  <2>1. /\ leecher' = leecher /\ Takes /\ (leecher.state = "active" => Head(q).type # "piece")
    BY <1>11 DEF Ignores, q
  <2>2. CASE leecher.state \in {"active", "channel_pending"}
    BY <1>1, <1>4, <1>6, <2>1, <2>2
  <2>3. CASE leecher.state \notin {"active", "channel_pending"}
    <3>1. c1 = 0
      BY <2>1, <2>3, NoneComing
    <3> QED
      BY <1>1, <1>4, <2>1, <3>1
  <2> QED
    BY <2>2, <2>3
<1>12. ASSUME Takes, Head(q).type = "piece", leecher.state = "active",
              leecher'.state = "active", total1 = total + PieceBytes
       PROVE  Promised(leecher', toLeecher') <= Promised(leecher, toLeecher)
  BY <1>5, <1>6, <1>12
<1>13. CASE CountsPiece
  BY <1>1, <1>12, <1>13, CountedAccounting DEF CountsPiece, q
<1>14. CASE Pays
  <2>1. /\ leecher.state = "active" /\ leecher'.state = "active" /\ Takes
        /\ \/ Head(q).type = "piece" /\ total1 = total + PieceBytes
           \/ Head(q).type = "payment_check_required" /\ total1 = total
    BY <1>1, <1>14, CountedAccounting DEF Pays, PaysFor, RecordCheck, PieceAccounting, q
  <2> QED
    BY <1>4, <1>6, <1>12, <2>1
<1> QED
  BY <1>7, <1>8, <1>9, <1>10, <1>11, <1>13, <1>14 DEF LeecherEffect
-----------------------------------------------------------------------------
(* --- the seeder keeps the counts --- *)

LEMMA Appended ==
  ASSUME NEW q, NEW r, NEW m, Longer(q, r, m)
  PROVE  /\ Pieces(q) \in Nat /\ Demands(q) \in Nat /\ Pieces(r) \in Nat /\ Demands(r) \in Nat
         /\ Pieces(r) = Pieces(q) + (IF m.type = "piece" THEN 1 ELSE 0)
         /\ Demands(r) = Demands(q) + (IF m.type = "payment_check_required" THEN 1 ELSE 0)
         /\ Len(r) \in Nat
<1>1. Len(q) \in Nat /\ Len(r) \in Nat
  BY DEF Longer
<1>2. /\ Count(r, {"piece"}) =
           Count(q, {"piece"}) + (IF m.type \in {"piece"} THEN 1 ELSE 0)
      /\ Count(r, {"payment_check_required"}) =
           Count(q, {"payment_check_required"})
             + (IF m.type \in {"payment_check_required"} THEN 1 ELSE 0)
  BY CountPush
<1> QED
  BY <1>1, <1>2, CountType DEF Pieces, Demands

(* What the seeder's steps add to the queue, as far as it is counted.        *)
Adds(pieces, demands) ==
  /\ Pieces(toLeecher') = Pieces(toLeecher) + pieces
  /\ Demands(toLeecher') = Demands(toLeecher) + demands
  /\ \A state :
       /\ pieces = 0 => Coming(state, toLeecher') = Coming(state, toLeecher)
       /\ Cardinality(Coming(state, toLeecher')) <=
            Cardinality(Coming(state, toLeecher)) + pieces
       /\ Cardinality(Coming(state, toLeecher')) \in Nat

LEMMA AddsNothing ==
  ASSUME QueueInv, toLeecher' = toLeecher
  PROVE  Adds(0, 0)
<1>1. Pieces(toLeecher) \in Nat /\ Demands(toLeecher) \in Nat
  BY QueueLength, CountType DEF Pieces, Demands
<1>2. \A state : Cardinality(Coming(state, toLeecher)) \in Nat
  BY QueueLength, ComingType
<1> QED
  BY <1>1, <1>2 DEF Adds

LEMMA AddsMessage ==
  ASSUME QueueInv, NEW m \in ToLeecherMessage, SendToLeecher(<<m>>),
         m.type \notin {"piece", "payment_check_required"}
  PROVE  Adds(0, 0)
<1>1. CASE ~(leecherUp /\ seederUp)
  BY <1>1, SentToLeecher, AddsNothing
<1>2. CASE leecherUp /\ seederUp
  <2>1. Longer(toLeecher, toLeecher', m)
    BY <1>2, SentToLeecher
  <2>2. /\ Pieces(toLeecher') = Pieces(toLeecher) + 0
        /\ Demands(toLeecher') = Demands(toLeecher) + 0
    BY <2>1, Appended
  <2>3. \A state : /\ Coming(state, toLeecher') = Coming(state, toLeecher)
                   /\ Cardinality(Coming(state, toLeecher)) \in Nat
    BY <2>1, ComingPush, QueueLength, ComingType
  <2> QED
    BY <2>2, <2>3 DEF Adds
<1> QED
  BY <1>1, <1>2

LEMMA AddsUpload ==
  ASSUME QueueInv, Uploads
  PROVE  \/ Adds(0, 0)
         \/ Adds(1, 0) /\ Longer(toLeecher, toLeecher', ThePiece)
         \/ Adds(1, 1) /\ seeder.state = "active"
<1>0. /\ ThePiece.type = "piece"
      /\ \A state : Cardinality(Coming(state, toLeecher)) \in Nat
  BY QueueLength, ComingType DEF ThePiece
<1>1. CASE toLeecher' = toLeecher
  BY <1>1, AddsNothing
<1>2. CASE Longer(toLeecher, toLeecher', ThePiece)
  <2>1. /\ Pieces(toLeecher') = Pieces(toLeecher) + 1
        /\ Demands(toLeecher') = Demands(toLeecher) + 0
    BY <1>0, <1>2, Appended
  <2>2. \A state : /\ Cardinality(Coming(state, toLeecher')) <=
                        Cardinality(Coming(state, toLeecher)) + 1
                   /\ Cardinality(Coming(state, toLeecher')) \in Nat
    BY <1>2, ComingPush, Appended, ComingType
  <2> QED
    BY <1>2, <2>1, <2>2 DEF Adds
<1>3. ASSUME NEW q, NEW m, m.type = "payment_check_required",
             Longer(toLeecher, q, ThePiece), Longer(q, toLeecher', m)
      PROVE  Adds(1, 1)
  <2>1. /\ Pieces(q) = Pieces(toLeecher) + 1 /\ Demands(q) = Demands(toLeecher) + 0
        /\ Demands(toLeecher) \in Nat /\ Demands(q) \in Nat /\ Pieces(q) \in Nat
    BY <1>0, <1>3, Appended
  <2>2. /\ Pieces(toLeecher') = Pieces(q) + 0 /\ Demands(toLeecher') = Demands(q) + 1
    BY <1>3, Appended
  <2>3. \A state : /\ Cardinality(Coming(state, q)) <= Cardinality(Coming(state, toLeecher)) + 1
                   /\ Cardinality(Coming(state, q)) \in Nat
                   /\ Coming(state, toLeecher') = Coming(state, q)
    BY <1>3, ComingPush, Appended, ComingType
  <2>4. /\ Pieces(toLeecher') = Pieces(toLeecher) + 1
        /\ Demands(toLeecher') = Demands(toLeecher) + 1
    BY <2>1, <2>2
  <2> QED
    BY <2>3, <2>4 DEF Adds
<1> QED
  BY <1>1, <1>2, <1>3, UploadedQueue

(* A seeder that is not active uploads nothing that the leecher will count.  *)
LEMMA NothingUnpaid ==
  ASSUME QueueInv, PhaseInv, LeecherInv, seederUp, quitting = "no",
         seeder.state # "active", Longer(toLeecher, toLeecher', ThePiece)
  PROVE  Cardinality(Coming(leecher.state, toLeecher')) = 0
<1>1. SeederServes
  BY DEF SeederServes
<1>2. CASE ~LeecherLive
  BY <1>2, NoneComing DEF LeecherLive
<1>3. CASE LeecherLive
  <2>1. Together(leecher.state, openRpc, toLeecher, seeder.state, toSeeder)
    BY <1>1, <1>3 DEF PhaseInv
  <2>2. \/ leecher.state \in {"idle", "handshake"}
        \/ leecher.state = "channel_pending" /\ Quiet(toLeecher)
    BY <2>1 DEF Together
  <2>3. Quiet(toLeecher) => Quiet(toLeecher')
    BY PushControl DEF ThePiece, Control
  <2> QED
    BY <2>2, <2>3, NoneComing
<1> QED
  BY <1>2, <1>3

LEMMA SeederCounts ==
  ASSUME QueueInv, PhaseInv, LeecherInv, SeederInv, CountInv, SeederEffect,
         UNCHANGED <<leecher, received, signed>>
  PROVE  CountInv'
<1> DEFINE acc == leecher.accounting
           total == seeder.accounting.totalBytes
           total1 == seeder'.accounting.totalBytes
           c == Cardinality(Coming(leecher.state, toLeecher))
           c1 == Cardinality(Coming(leecher.state, toLeecher'))
           p == Pieces(toLeecher)
           d == Demands(toLeecher)
<1>1. /\ seeder \in SeederSessions /\ seeder.accounting \in PieceAccounting /\ total \in Nat
      /\ acc.lastNonce \in Nat /\ acc.totalBytes \in Nat /\ received \in Nat
      /\ sent \in Nat /\ p \in Nat /\ d \in Nat /\ c \in Nat
  BY QueueLength, CountType, ComingType
     DEF SeederInv, SeederOK, SeederSessions, PieceAccounting, LeecherInv, LeecherOK,
         LeecherSessions, CountInv, PieceInv, Pieces, Demands
<1>2. /\ received + p <= sent /\ sent <= FilePieces
      /\ acc.lastNonce + p + d <= 2 * sent
      /\ IsFiniteSet(signed) /\ Cardinality(signed) <= acc.lastNonce
      /\ (seederAlive /\ quitting = "no") => acc.totalBytes + c * PieceBytes <= total
  BY DEF CountInv, PieceInv, NonceInv, ByteInv
<1>3. ASSUME NEW pieces \in {0, 1}, NEW demands \in {0, 1}, Adds(pieces, demands),
             \/ sent' = sent /\ pieces = 0 /\ demands = 0
             \/ sent' = sent + 1 /\ sent < FilePieces
      PROVE  PieceInv' /\ NonceInv'
  <2>1. /\ Pieces(toLeecher') = p + pieces /\ Demands(toLeecher') = d + demands
        /\ leecher' = leecher /\ received' = received /\ signed' = signed
    BY <1>3 DEF Adds
  <2> HIDE DEF p, d
  <2>2. /\ sent' \in Nat /\ sent' <= FilePieces
        /\ received + (p + pieces) <= sent'
        /\ acc.lastNonce + (p + pieces) + (d + demands) <= 2 * sent'
    BY <1>1, <1>2, <1>3
  <2> QED
    BY <1>2, <2>1, <2>2 DEF PieceInv, NonceInv
<1>4. ASSUME (seederAlive' /\ quitting' = "no") =>
               /\ seederAlive /\ quitting = "no" /\ c1 \in Nat
               /\ \/ c1 <= c /\ total1 = total
                  \/ c1 <= c + 1 /\ total1 = total + PieceBytes
      PROVE  ByteInv'
  <2> SUFFICES ASSUME seederAlive' /\ quitting' = "no"
               PROVE  acc.totalBytes + c1 * PieceBytes <= total1
    BY DEF ByteInv
  <2>1. acc.totalBytes + c * PieceBytes <= total
    BY <1>2, <1>4
  <2> HIDE DEF acc, total, total1, c, c1
  <2>2. /\ c1 <= c => c1 * PieceBytes <= c * PieceBytes
        /\ c1 <= c + 1 => c1 * PieceBytes <= (c + 1) * PieceBytes
        /\ (c + 1) * PieceBytes = c * PieceBytes + PieceBytes
        /\ c1 * PieceBytes \in Nat /\ c * PieceBytes \in Nat
    BY <1>1, <1>4, Worth
  <2> QED
    BY <1>1, <1>4, <2>1, <2>2
<1>5. ASSUME Adds(0, 0), sent' = sent,
             (seederAlive' /\ quitting' = "no") =>
               seederAlive /\ quitting = "no" /\ total1 = total
      PROVE  CountInv'
  <2>1. c1 = c
    BY <1>5 DEF Adds
  <2> HIDE DEF c, c1
  <2> QED
    BY <1>1, <1>3, <1>4, <1>5, <2>1 DEF CountInv
<1>6. CASE Closes \/ Crashes \/ ShutsDown \/ Rests
  <2>1. toLeecher' = toLeecher /\ sent' = sent
    BY <1>6 DEF Closes, Crashes, ShutsDown, Rests
  <2>2. (seederAlive' /\ quitting' = "no") =>
          seederAlive /\ quitting = "no" /\ total1 = total
    BY <1>6 DEF Closes, Crashes, ShutsDown, Rests, SameBooks
  <2> QED
    BY <1>5, <2>1, <2>2, AddsNothing
<1>7. CASE Verifies \/ Accepts \/ Passes
  <2>1. toLeecher' = toLeecher /\ sent' = sent /\ GoesOn
    BY <1>7 DEF Verifies, Accepts, Passes
  <2>2. total1 = total
    BY <1>1, <1>7 DEF Verifies, Accepts, Passes, WithState, SeederSessions
  <2> QED
    BY <1>5, <2>1, <2>2, AddsNothing DEF GoesOn
<1>8. CASE Initiates \/ Confirms \/ Rejects \/ Refuses
  <2>1. sent' = sent /\ GoesOn /\ total1 = total
    BY <1>1, <1>8 DEF Initiates, Confirms, Rejects, Refuses, SameBooks, WithState,
                      SeederSessions
  <2>2. Adds(0, 0)
    <3>1. /\ [type |-> "ecdh_init"] \in ToLeecherMessage
          /\ [type |-> "channel_confirmed"] \in ToLeecherMessage
          /\ [type |-> "channel_rejected"] \in ToLeecherMessage
      BY DEF ToLeecherMessage, SeedPayMessage
    <3>2. CASE Initiates \/ Confirms \/ Rejects
      BY <3>1, <3>2, AddsMessage DEF Initiates, Confirms, Rejects
    <3>3. CASE Refuses
      BY <3>3, TooLargeType, AddsMessage DEF Refuses, ToLeecherMessage
    <3> QED
      BY <1>8, <3>2, <3>3
  <2> QED
    BY <1>5, <2>1, <2>2 DEF GoesOn
<1>9. CASE Uploads
  <2>1. sent' = sent + 1 /\ sent < FilePieces /\ seederUp /\ GoesOn
    BY <1>9 DEF Uploads
  <2>2. \/ Adds(0, 0)
        \/ Adds(1, 0) /\ Longer(toLeecher, toLeecher', ThePiece)
        \/ Adds(1, 1) /\ seeder.state = "active"
    BY <1>9, AddsUpload
  <2>3. PieceInv' /\ NonceInv'
    BY <1>3, <2>1, <2>2
  <2>4. c1 \in Nat /\ c1 <= c + 1 /\ (Adds(0, 0) => c1 = c)
    <3>1. /\ \A state : Adds(0, 0) => Coming(state, toLeecher') = Coming(state, toLeecher)
          /\ c1 \in Nat /\ c1 <= c + 1
      BY <1>1, <2>2 DEF Adds
    <3> QED
      BY <3>1
  <2>5. CASE seeder.state = "active"
    <3>1. total1 = total + PieceBytes
      BY <1>1, <1>9, <2>5, CountedAccounting DEF Uploads
    <3> HIDE DEF c, c1, total, total1
    <3>2. ByteInv'
      BY <1>4, <2>1, <2>4, <3>1 DEF GoesOn
    <3> QED
      BY <2>3, <3>2 DEF CountInv
  <2>6. CASE seeder.state # "active"
    <3>1. total1 = total
      BY <1>9, <2>6 DEF Uploads
    <3>2. quitting = "no" => c1 <= c
      <4>1. CASE Adds(0, 0)
        BY <1>1, <2>4, <4>1
      <4>2. CASE Longer(toLeecher, toLeecher', ThePiece)
        BY <1>1, <2>1, <2>6, <4>2, NothingUnpaid
      <4> QED
        BY <2>2, <2>6, <4>1, <4>2
    <3> HIDE DEF c, c1, total, total1
    <3>3. ByteInv'
      BY <1>4, <2>1, <2>4, <3>1, <3>2 DEF GoesOn
    <3> QED
      BY <2>3, <3>3 DEF CountInv
  <2> QED
    BY <2>5, <2>6
<1> QED
  BY <1>6, <1>7, <1>8, <1>9 DEF SeederEffect
-----------------------------------------------------------------------------
(* --- every step keeps the counts --- *)

LEMMA LeecherStepCount ==
  ASSUME Inv, WireInv, CountInv, NEW step, step => LeecherMoves, Leecher(step)
  PROVE  CountInv'
<1> USE DEF Inv, WireInv, CountInv
<1>1. LeecherMoves /\ UNCHANGED <<seeder, seederAlive, quitting, sent>>
  BY DEF Leecher, seederVars
<1>2. LeecherEffect
  BY <1>1, LeecherEffects
<1>3. PieceInv'
  BY <1>1, <1>2, LeecherPieces
<1>4. NonceInv'
  BY <1>1, <1>2, LeecherNonces DEF PieceInv
<1>5. ByteInv'
  <2>1. Promised(leecher', toLeecher') <= Promised(leecher, toLeecher)
    BY <1>2, LeecherBytes
  <2>2. Promised(leecher, toLeecher) \in Int /\ Promised(leecher', toLeecher') \in Int
    <3>1. /\ leecher.accounting.totalBytes \in Nat /\ leecher'.accounting.totalBytes \in Nat
      BY <1>1, LeecherMovesKeep, LeecherTypes DEF LeecherKeeps, LeecherInv
    <3>2. /\ Cardinality(Coming(leecher.state, toLeecher)) \in Nat
          /\ Cardinality(Coming(leecher'.state, toLeecher')) \in Nat
      <4>1. Len(toLeecher) \in Nat /\ Len(toLeecher') \in Nat
        <5>1. (toLeecher \in Seq(ToLeecherMessage))'
          BY LeecherStepWire DEF QueueInv, ToLeecherMessage
        <5> QED
          BY <5>1, QueueLength
      <4> QED
        BY <4>1, ComingType
    <3> QED
      BY <3>1, <3>2, Worth DEF Promised
  <2>3. seeder.accounting.totalBytes \in Int
    BY DEF SeederInv, SeederOK, SeederSessions, PieceAccounting
  <2> QED
    BY <1>1, <2>1, <2>2, <2>3 DEF ByteInv, Promised
<1> QED
  BY <1>3, <1>4, <1>5

LEMMA SeederStepCount ==
  ASSUME Inv, WireInv, CountInv, SeederMoves, UNCHANGED <<leecherVars, signed>>
  PROVE  CountInv'
<1>1. UNCHANGED <<leecher, received, signed>>
  BY DEF leecherVars
<1>2. SeederEffect
  BY SeederEffects DEF Inv, WireInv
<1> QED
  BY <1>1, <1>2, SeederCounts DEF Inv, WireInv

LEMMA OtherStepCount ==
  ASSUME CountInv, UNCHANGED <<toLeecher, leecher, received, signed, seederVars>>
  PROVE  CountInv'
  BY DEF CountInv, PieceInv, NonceInv, ByteInv, seederVars

LEMMA InitCount == Init => CountInv
<1> SUFFICES ASSUME Init PROVE CountInv
  OBVIOUS
<1>1. /\ toLeecher = <<>> /\ leecher = NewLeecherSession /\ received = 0
      /\ seeder = NewSeederSession /\ sent = 0 /\ signed = {}
  BY DEF Init, WireInit, LeecherInit, SeederInit, Chain!Init
<1>2. Sorted(toLeecher, {"piece"}) = {} /\ Sorted(toLeecher, {"payment_check_required"}) = {}
  BY <1>1 DEF Sorted
<1>3. Pieces(toLeecher) = 0 /\ Demands(toLeecher) = 0
  BY <1>2, FS_EmptySet DEF Pieces, Demands, Count
<1>4. Cardinality(Coming(leecher.state, toLeecher)) = 0
  BY <1>1, NoneComing DEF NewLeecherSession
<1>5. /\ leecher.accounting.lastNonce = 0 /\ leecher.accounting.totalBytes = 0
      /\ seeder.accounting.totalBytes = 0
  BY <1>1 DEF NewLeecherSession, NewSeederSession, NewAccounting
<1>6. 0 * PieceBytes = 0
  OBVIOUS
<1> QED
  BY <1>1, <1>3, <1>4, <1>5, <1>6, FS_EmptySet DEF CountInv, PieceInv, NonceInv, ByteInv

LEMMA NextCount == Inv /\ WireInv /\ CountInv /\ [Next]_vars => CountInv'
<1> SUFFICES ASSUME Inv, WireInv, CountInv, [Next]_vars PROVE CountInv'
  OBVIOUS
<1>1. CASE Leecher(LeecherHandshake) \/ Leecher(OpenResolves) \/ Leecher(LeecherDone)
  BY <1>1, LeecherStepCount DEF LeecherMoves
<1>2. CASE LeecherMessage
  BY <1>2, LeecherStepCount DEF LeecherMoves, LeecherMessage
<1>3. CASE LeecherWireCloses \/ Leecher(LeecherDisconnects)
  BY <1>3, LeecherStepCount DEF LeecherMoves, LeecherWireCloses
<1>4. CASE SeederMessage \/ VerifyReads \/ VerifyFails
  BY <1>4, SeederStepCount DEF SeederMoves, SeederMessage, VerifyReads, VerifyFails, Seeder,
                               chainVars
<1>5. CASE \/ Seeder(VerifyResolves) \/ Seeder(Upload) \/ SeederWireCloses
           \/ Seeder(SeederDisconnects) \/ Seeder(ShutdownEnds) \/ Seeder(Shutdown)
           \/ Seeder(Crash)
  BY <1>5, SeederStepCount DEF SeederMoves, Seeder, SeederWireCloses, chainVars
<1>6. CASE ClaimLands \/ ClaimFails
  BY <1>6, SeederStepCount DEF SeederMoves, ClaimLands, ClaimFails,
     Chain!CloseChannel, Chain!MayClose,
                               chainVars
<1>7. CASE OpenLands \/ OpenFails \/ Recover \/ Tick
  BY <1>7, OtherStepCount DEF OpenLands, OpenFails, OpenThrows, Recover, Tick,
     Chain!OpenChannel, Chain!MayOpen, Chain!TimeoutClose, Chain!Tick, wireVars, leecherVars,
     chainVars
<1>8. CASE UNCHANGED vars
  BY <1>8, OtherStepCount DEF vars, wireVars, leecherVars, chainVars
<1> QED
  BY <1>1, <1>2, <1>3, <1>4, <1>5, <1>6, <1>7, <1>8
     DEF Next, LeecherStep, SeederStep, NetworkBreaks

(* In every state of every behaviour the counts of both sides fit what is in *)
(* flight between them.                                                      *)
THEOREM CountInvariance == Spec => [](Inv /\ WireInv /\ CountInv)
<1>1. Init => Inv /\ WireInv /\ CountInv
  BY InitInv, InitWire, InitCount
<1>2. (Inv /\ WireInv /\ CountInv) /\ [Next]_vars => (Inv /\ WireInv /\ CountInv)'
  BY NextInv, NextWire, NextCount
<1> QED
  BY <1>1, <1>2, PTL DEF Spec
-----------------------------------------------------------------------------
(* --- what follows --- *)

(* While the seeder runs, the leecher has counted no more bytes than the     *)
(* seeder, and no check it accepted pays for more than it has counted: the   *)
(* leecher counts from the confirmation on, which the seeder sends after it  *)
(* has begun to count.                                                       *)
THEOREM AgreedCounts == Spec => []CountsAgree
<1>1. ASSUME Inv, WireInv, CountInv, seederAlive, quitting = "no"
      PROVE  /\ leecher.accounting.totalBytes <= seeder.accounting.totalBytes
             /\ seeder.highestCheck.amount <= Cost(seeder.accounting.totalBytes)
  <2> DEFINE mine == leecher.accounting.totalBytes
             yours == seeder.accounting.totalBytes
             c == Cardinality(Coming(leecher.state, toLeecher))
             best == seeder.highestCheck
  <2>1. /\ mine \in Nat /\ yours \in Nat /\ SeederOK(seeder, seederRpc) /\ SignedInv
    BY <1>1, LeecherTypes
       DEF Inv, LeecherInv, SeederInv, SeederOK, SeederSessions, PieceAccounting
  <2>2. c \in Nat /\ c * PieceBytes \in Nat
    BY <1>1, QueueLength, ComingType, Worth DEF WireInv
  <2>3. mine + c * PieceBytes <= yours
    BY <1>1 DEF CountInv, ByteInv
  <2> HIDE DEF c, mine, yours
  <2>4. mine <= yours
    BY <2>1, <2>2, <2>3
  <2>5. Cost(mine) \in Nat /\ Cost(yours) \in Nat /\ Cost(mine) <= Cost(yours)
    BY <2>1, <2>4, CostMonotone
  <2>6. CASE best = NoCheck
    BY <2>4, <2>5, <2>6 DEF NoCheck, mine, yours
  <2>7. CASE best # NoCheck
    <3>1. SignedBy(best) \in signed /\ best \in PaymentCheck
      BY <2>1, <2>7, HighestCheckType DEF SeederOK, CheckOK
    <3>2. SignedBy(best).check.amount = best.amount
      BY DEF SignedBy
    <3>3. best.amount <= Cost(mine) /\ best.amount \in Nat
      BY <2>1, <3>1, <3>2 DEF SignedInv, PaymentCheck, mine
    <3> QED
      BY <2>4, <2>5, <3>3 DEF mine, yours
  <2> QED
    BY <2>6, <2>7
<1>2. Inv /\ WireInv /\ CountInv => CountsAgree
  BY <1>1 DEF CountsAgree
<1> QED
  BY <1>2, CountInvariance, PTL
-----------------------------------------------------------------------------
(* --- the chain's types --- *)

Wallets == {LeecherWallet, SeederWallet}

MoneyInv ==
  /\ balance \in [Wallets -> Nat]
  /\ signed \subseteq Chain!SignedCheck

LEMMA Credited ==
  ASSUME NEW b \in [Wallets -> Nat], NEW w \in Wallets, NEW amount \in Int,
         b[w] + amount \in Nat
  PROVE  Chain!Credit(b, w, amount) \in [Wallets -> Nat]
  BY DEF Chain!Credit

LEMMA KeyWallets ==
  /\ TheKey.leecher = LeecherWallet /\ TheKey.seeder = SeederWallet /\ TheKey.id = Id
  /\ LeecherWallet \in Wallets /\ SeederWallet \in Wallets
  BY DEF TheKey, Wallets

(* What the leecher signs is a check on this channel. *)
LEMMA SignedType ==
  ASSUME NEW check, check.channelId = Id, check.amount \in Nat, check.nonce \in Nat
  PROVE  /\ SignedBy(check) \in Chain!SignedCheck
         /\ SignedBy(check).signer = LeecherWallet
         /\ SignedBy(check).check =
              [id |-> Id, amount |-> check.amount, nonce |-> check.nonce]
  BY DEF SignedBy, Chain!SignedCheck, Chain!Check

LEMMA LeecherMoney ==
  ASSUME Inv, MoneyInv, NEW step, step => LeecherMoves, Leecher(step)
  PROVE  MoneyInv'
<1> DEFINE check == [channelId |-> Id, amount |-> leecher'.accounting.lastCheckAmount,
                     nonce |-> leecher'.accounting.lastNonce]
<1>1. LeecherOK(leecher')
  BY LeecherMovesKeep DEF Leecher, LeecherKeeps, LeecherInv, Inv
<1>2. check.channelId = Id /\ check.amount \in Nat /\ check.nonce \in Nat
  BY <1>1, LeecherTypes
<1> HIDE DEF check
<1>3. SignedBy(check) \in Chain!SignedCheck
  BY <1>2, SignedType
<1>4. signed' \subseteq signed \cup {SignedBy(check)} /\ balance' = balance
  BY DEF Leecher, check
<1> QED
  BY <1>3, <1>4 DEF MoneyInv, Chain!SignedCheck, Chain!Check

(* The leecher has the deposit when it locks it. *)
LEMMA OpenLandsMoney ==
  ASSUME MoneyInv, OpenLands
  PROVE  MoneyInv'
<1>1. /\ balance[LeecherWallet] >= Deposit
      /\ balance' = Chain!Credit(balance, LeecherWallet, -Deposit)
      /\ signed' = signed
  BY KeyWallets DEF OpenLands, Chain!OpenChannel, Chain!MayOpen, Chain!FundEscrow
<1>2. balance \in [Wallets -> Nat] /\ balance[LeecherWallet] + (-Deposit) \in Nat
  BY <1>1, KeyWallets DEF MoneyInv
<1>3. balance' \in [Wallets -> Nat]
  BY <1>1, <1>2, KeyWallets, Credited
<1> QED
  BY <1>1, <1>3 DEF MoneyInv

(* A claim divides the deposit. *)
LEMMA ClaimedCheck ==
  ASSUME Inv, ClaimLands
  PROVE  /\ seederRpc.check.channelId = Id
         /\ seederRpc.check.amount \in Nat /\ seederRpc.check.nonce \in Nat
         /\ TheChannel.deposited - seederRpc.check.amount \in Nat
<1> DEFINE c == seederRpc.check
<1>1. SignedBy(c) \in signed /\ Open /\ Chain!WithinDeposit(TheChannel, c.amount)
  BY DEF ClaimLands, Claimable, Chain!CloseChannel, Chain!MayClose, Chain!Live, Open,
         TheChannel
<1>2. SignedBy(c).check.amount = c.amount /\ SignedBy(c).check.nonce = c.nonce
  BY DEF SignedBy
<1>3. SignedBy(c).check.amount \in Nat /\ SignedBy(c).check.nonce \in Nat
  BY <1>1 DEF Inv, SignedInv
<1> HIDE DEF c
<1>4. TheChannel.deposited = Deposit
  BY <1>1, OpenIsOpen DEF Inv, IsOpen
<1>6. c.channelId = Id
  BY DEF ClaimLands, Claimable, c
<1>5. c.amount \in Nat /\ c.nonce \in Nat /\ TheChannel.deposited - c.amount \in Nat
  BY <1>1, <1>2, <1>3, <1>4 DEF Chain!WithinDeposit
<1> QED
  BY <1>5, <1>6 DEF c

LEMMA ClaimLandsMoney ==
  ASSUME Inv, MoneyInv, ClaimLands
  PROVE  MoneyInv'
<1> DEFINE amount == seederRpc.check.amount
           refund == TheChannel.deposited - amount
           first == Chain!Credit(balance, SeederWallet, amount)
<1>1. amount \in Nat /\ refund \in Nat
  BY ClaimedCheck
<1>2. balance' = Chain!Credit(first, LeecherWallet, refund) /\ signed' = signed
  BY KeyWallets DEF ClaimLands, Chain!CloseChannel, Chain!MayClose, TheChannel
<1> HIDE DEF amount, refund
<1>3. first \in [Wallets -> Nat]
  <2>1. balance \in [Wallets -> Nat] /\ balance[SeederWallet] + amount \in Nat
    BY <1>1, KeyWallets DEF MoneyInv
  <2> QED
    BY <1>1, <2>1, KeyWallets, Credited
<1> HIDE DEF first
<1>4. balance' \in [Wallets -> Nat]
  <2>1. first[LeecherWallet] + refund \in Nat
    BY <1>1, <1>3, KeyWallets
  <2> QED
    BY <1>1, <1>2, <1>3, <2>1, KeyWallets, Credited
<1> QED
  BY <1>2, <1>4 DEF MoneyInv

LEMMA RecoverMoney ==
  ASSUME Inv, MoneyInv, Recover
  PROVE  MoneyInv'
<1>1. /\ balance' = Chain!Credit(balance, LeecherWallet, escrow[TheKey]) /\ signed' = signed
      /\ Open
  BY KeyWallets DEF Recover, Chain!TimeoutClose, Chain!TimeoutRefund, Chain!Live, Open,
                    TheChannel
<1>2. escrow[TheKey] \in Nat
  BY <1>1, OpenIsOpen DEF Inv, IsOpen
<1>3. balance \in [Wallets -> Nat] /\ balance[LeecherWallet] + escrow[TheKey] \in Nat
  BY <1>2, KeyWallets DEF MoneyInv
<1>4. balance' \in [Wallets -> Nat]
  BY <1>1, <1>2, <1>3, KeyWallets, Credited
<1> QED
  BY <1>1, <1>4 DEF MoneyInv

LEMMA NextMoney == Inv /\ MoneyInv /\ [Next]_vars => MoneyInv'
<1> SUFFICES ASSUME Inv, MoneyInv, [Next]_vars PROVE MoneyInv'
  OBVIOUS
<1>1. CASE Leecher(LeecherHandshake) \/ Leecher(OpenResolves) \/ Leecher(LeecherDone)
  BY <1>1, LeecherMoney DEF LeecherMoves
<1>2. CASE LeecherMessage
  BY <1>2, LeecherMoney DEF LeecherMoves, LeecherMessage
<1>3. CASE LeecherWireCloses \/ Leecher(LeecherDisconnects)
  BY <1>3, LeecherMoney DEF LeecherMoves, LeecherWireCloses
<1>4. ASSUME UNCHANGED <<balance, signed>> PROVE MoneyInv'
  BY <1>4 DEF MoneyInv
<1>5. CASE \/ SeederMessage \/ VerifyReads \/ VerifyFails \/ Seeder(VerifyResolves)
           \/ Seeder(Upload) \/ SeederWireCloses \/ Seeder(SeederDisconnects)
           \/ Seeder(ShutdownEnds) \/ Seeder(Shutdown) \/ Seeder(Crash)
           \/ ClaimFails \/ OpenFails \/ Tick
  BY <1>4, <1>5 DEF SeederMessage, VerifyReads, VerifyFails, SeederWireCloses, Seeder,
                    ClaimFails, OpenFails, Tick, Chain!Tick, chainVars
<1>6. CASE UNCHANGED vars
  BY <1>4, <1>6 DEF vars, chainVars
<1> QED
  BY <1>1, <1>2, <1>3, <1>5, <1>6, OpenLandsMoney, ClaimLandsMoney, RecoverMoney
     DEF Next, LeecherStep, SeederStep, NetworkBreaks

(* Every variable of the system keeps its type; in particular no more pieces *)
(* are received or sent than the file has, no wallet pays what it does not   *)
(* have, and a settlement never divides more than the deposit.               *)
THEOREM TypeCorrect == Spec => []TypeOK
<1>1. Init => MoneyInv
  <2>1. Init => balance = InitialBalance /\ signed = {}
    BY DEF Init, Chain!Init
  <2> QED
    BY <2>1, BalanceAssumption DEF MoneyInv, Wallets
<1>2. (Inv /\ WireInv /\ CountInv /\ MoneyInv) /\ [Next]_vars => MoneyInv'
  BY NextMoney
<1>3. ASSUME Inv, WireInv, CountInv, MoneyInv PROVE TypeOK
  <2> USE <1>3 DEF Inv
  <2>1. LeecherTypeOK
    <3>1. received \in Nat /\ leecher \in LeecherSessions
      BY DEF LeecherInv, LeecherOK
    <3>2. received <= FilePieces
      <4>1. Pieces(toLeecher) \in Nat
        BY QueueLength, CountType DEF WireInv, Pieces
      <4> QED
        BY <3>1, <4>1 DEF CountInv, PieceInv
    <3>3. received \in 0 .. FilePieces
      BY <3>1, <3>2, WireAssumption
    <3>4. openRpc \in {"none", "sent", "landed", "failed"} /\ done \in BOOLEAN
      BY DEF WireInv, QueueInv
    <3> QED
      BY <3>1, <3>3, <3>4 DEF LeecherTypeOK
  <2>2. SeederTypeOK
    BY DEF SeederTypeOK, SeederInv, SeederOK, RpcOK, SeederRpcs, WireInv, QueueInv,
           CountInv, PieceInv
  <2>3. Chain!TypeOK
    BY DEF Chain!TypeOK, ChannelInv, MoneyInv, Wallets
  <2> QED
    BY <2>1, <2>2, <2>3 DEF TypeOK, WireInv, QueueInv
<1> QED
  BY <1>1, <1>2, <1>3, CountInvariance, PTL DEF Spec
-----------------------------------------------------------------------------
(* --- the system uses the program as it is --- *)

(* A leecher that signs has a piece or a demand to answer, so it never       *)
(* signs more than two checks a piece.                                       *)
LEMMA SignIsBounded ==
  ASSUME Inv, WireInv, CountInv, NEW step, step => LeecherMoves, Leecher(step),
         signed' # signed
  PROVE  Cardinality(signed) < 2 * FilePieces
<1>1. LeecherEffect
  BY LeecherEffects DEF Inv, WireInv, Leecher
<1>2. leecher'.accounting.lastNonce # leecher.accounting.lastNonce
  BY DEF Leecher
<1>3. leecher \in LeecherSessions /\ leecher.accounting \in PieceAccounting
  BY DEF Inv, LeecherInv, LeecherOK, LeecherSessions
<1>4. Pays
  BY <1>1, <1>2, <1>3, CountedAccounting
     DEF LeecherEffect, Ends, Starts, Opens, IsConfirmed, CountsPiece, Ignores, Resolves,
         WithState, LeecherSessions
<1> DEFINE n == leecher.accounting.lastNonce
           p == Pieces(toLeecher)
           d == Demands(toLeecher)
<1>5. Takes /\ Head(toLeecher).type \in {"piece", "payment_check_required"}
  BY <1>4 DEF Pays
<1>6. p \in Nat /\ d \in Nat /\ p + d >= 1
  BY <1>5, TakenCounts DEF WireInv
<1>7. /\ n \in Nat /\ sent \in Nat /\ sent <= FilePieces /\ n + p + d <= 2 * sent
      /\ Cardinality(signed) \in Nat /\ Cardinality(signed) <= n
  BY <1>3, FS_CardinalityType DEF PieceAccounting, CountInv, PieceInv, NonceInv
<1> HIDE DEF n, p, d
<1> QED
  BY <1>6, <1>7

(* The program counts the signed checks as the system does. *)
LEMMA SameCount == ASSUME NEW S PROVE Chain!Cardinality(S) = Cardinality(S)
  BY DEF Chain!Cardinality, Cardinality

LEMMA LeecherSigns ==
  ASSUME Inv, WireInv, CountInv, NEW step, step => LeecherMoves, Leecher(step)
  PROVE  [Chain!Next]_chainVars
<1> DEFINE acc1 == leecher'.accounting
           check == [channelId |-> Id, amount |-> acc1.lastCheckAmount,
                     nonce |-> acc1.lastNonce]
<1>1. UNCHANGED <<channel, escrow, balance, now, log>>
  BY DEF Leecher
<1>2. CASE signed' = signed
  BY <1>1, <1>2 DEF chainVars
<1>3. CASE signed' # signed
  <2>1. signed' = signed \cup {SignedBy(check)}
    BY <1>3 DEF Leecher
  <2>2. check.channelId = Id /\ check.amount \in Nat /\ check.nonce \in Nat
    <3>1. LeecherOK(leecher')
      BY LeecherMovesKeep DEF Leecher, LeecherKeeps, LeecherInv, Inv
    <3> QED
      BY <3>1, LeecherTypes
  <2> HIDE DEF check
  <2>3. Cardinality(signed) < 2 * FilePieces
    BY <1>3, SignIsBounded
  <2>4. Chain!Sign(LeecherWallet, [id |-> Id, amount |-> check.amount, nonce |-> check.nonce])
    BY <1>1, <2>1, <2>2, <2>3, SameCount DEF Chain!Sign, SignedBy
  <2>5. Chain!Next
    BY <2>2, <2>4 DEF Chain!Next
  <2> QED
    BY <2>5
<1> QED
  BY <1>2, <1>3

(* The seeder's transaction passes the check it holds and the signature the  *)
(* leecher made for it.                                                      *)
LEMMA ClaimIsClose ==
  ASSUME Inv, MoneyInv, ClaimLands
  PROVE  Chain!Close(TheKey)
<1> DEFINE c == seederRpc.check
           pre == ClaimProof(c)
<1>1. /\ c.amount \in Nat /\ c.nonce \in Nat /\ SignedBy(c) \in signed
      /\ c.channelId = Id
  BY ClaimedCheck DEF ClaimLands, Claimable
<1>2. /\ SignedBy(c).signer = LeecherWallet
      /\ SignedBy(c).check = [id |-> Id, amount |-> c.amount, nonce |-> c.nonce]
  BY <1>1 DEF SignedBy
<1>3. pre \in Chain!Preceding
  <2>1. pre = [form |-> "sigVerify", signer |-> SignedBy(c).signer,
               check |-> SignedBy(c).check]
    BY <1>2 DEF ClaimProof
  <2> HIDE DEF pre, c
  <2> QED
    BY <1>1, <2>1 DEF Chain!Preceding
<1>4. Chain!CloseChannel(TheKey, SeederWallet, c.amount, c.nonce, pre)
  BY DEF ClaimLands
<1> HIDE DEF pre, c
<1> QED
  BY <1>1, <1>3, <1>4, KeyWallets DEF Chain!Close, Wallets

LEMMA NextIsChain ==
  Inv /\ WireInv /\ CountInv /\ MoneyInv /\ [Next]_vars => [Chain!Next]_chainVars
<1> SUFFICES ASSUME Inv, WireInv, CountInv, MoneyInv, [Next]_vars
             PROVE  [Chain!Next]_chainVars
  OBVIOUS
<1> USE DEF Wallets
<1>1. CASE \/ Leecher(LeecherHandshake) \/ LeecherMessage \/ Leecher(OpenResolves)
           \/ Leecher(LeecherDone) \/ LeecherWireCloses \/ Leecher(LeecherDisconnects)
  BY <1>1, LeecherSigns DEF LeecherMoves, LeecherMessage, LeecherWireCloses
<1>2. CASE OpenLands
  <2>1. Chain!OpenChannel(TheKey, LeecherWallet, Deposit, Timeout)
    BY <1>2 DEF OpenLands
  <2>2. Deposit \in Nat /\ Timeout \in Nat
    BY DepositAssumption, ChainAssumption
  <2>3. Chain!Open(TheKey)
    BY <2>1, <2>2, KeyWallets DEF Chain!Open
  <2> QED
    BY <2>3 DEF Chain!Next
<1>3. CASE ClaimLands
  <2>1. Chain!Close(TheKey)
    BY <1>3, ClaimIsClose
  <2> QED
    BY <2>1 DEF Chain!Next
<1>4. CASE Recover
  <2>1. Chain!Expire(TheKey)
    BY <1>4, KeyWallets DEF Recover, Chain!Expire
  <2> QED
    BY <2>1 DEF Chain!Next
<1>5. CASE Tick
  BY <1>5 DEF Tick, Chain!Next
<1>6. CASE \/ SeederMessage \/ VerifyReads \/ VerifyFails \/ Seeder(VerifyResolves)
           \/ Seeder(Upload) \/ SeederWireCloses \/ Seeder(SeederDisconnects)
           \/ Seeder(ShutdownEnds) \/ Seeder(Shutdown) \/ Seeder(Crash)
           \/ ClaimFails \/ OpenFails \/ UNCHANGED vars
  BY <1>6 DEF SeederMessage, VerifyReads, VerifyFails, SeederWireCloses, Seeder,
              ClaimFails, OpenFails, vars
<1> QED
  BY <1>1, <1>2, <1>3, <1>4, <1>5, <1>6 DEF Next, LeecherStep, SeederStep, NetworkBreaks

(* Two peers that follow the protocol only ever do what the program allows:  *)
(* every step of the system is an instruction of SeedPayProgram with inputs  *)
(* it is specified for, a wallet's signature, a tick of the clock, or leaves *)
(* the chain alone.                                                          *)
THEOREM SystemRunsProgram == Spec => Chain!Spec
<1>1. Init => Chain!Init /\ MoneyInv
  <2>1. Init => Chain!Init /\ balance = InitialBalance /\ signed = {}
    BY DEF Init, Chain!Init
  <2> QED
    BY <2>1, BalanceAssumption DEF MoneyInv, Wallets
<1>2. (Inv /\ WireInv /\ CountInv /\ MoneyInv) /\ [Next]_vars => MoneyInv'
  BY NextMoney
<1>3. (Inv /\ WireInv /\ CountInv /\ MoneyInv) /\ [Next]_vars => [Chain!Next]_chainVars
  BY NextIsChain
<1>4. [Chain!Next]_chainVars => [Chain!Next]_Chain!vars
  BY DEF chainVars, Chain!vars
<1> QED
  BY <1>1, <1>2, <1>3, <1>4, CountInvariance, PTL DEF Spec, Chain!Spec
=============================================================================
