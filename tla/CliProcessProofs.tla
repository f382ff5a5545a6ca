-------------------------- MODULE CliProcessProofs --------------------------
(* Theorems about CliProcess for any number of wires and signals, any peer   *)
(* ids, and peers that send any messages at any time.                        *)
EXTENDS CliProcess, FiniteSetTheorems, WellFoundedInduction, TLAPS

USE AccountingAssumption, DepositAssumption, MinDepositAssumption,
    ConnectionAssumption, ChecksAssumption, BalanceAssumption, IdAssumption
-----------------------------------------------------------------------------
(* --- the inductive invariant --- *)

Link == {"new", "open", "closed"}
Ended == {"closing", "closed"}

(* What a session has done about its checks: the claims it has started, and  *)
(* one for giving them up at a channel_closed.                               *)
Spent(w) == claims[w] + IF w \in givenUp THEN 1 ELSE 0

(* A seeder's session s that awaits the call c, has spent n, and whose wire  *)
(* is l: a check it holds can still be claimed, or it was claimed or given   *)
(* up; after that nothing makes it active again.                             *)
SeederOK(s, c, n, l) ==
  /\ s \in SeederSessions
  /\ n \in {0, 1}
  /\ n = 1 => s.state \in Ended
  /\ s.highestCheck # NoCheck => s.state = "active" \/ n = 1
  /\ c.call = "verify" => s.state \in {"channel_pending", "closed"}
  /\ l # "new"
  /\ l = "closed" => s.state \in Ended

(* A leecher's session s that has opened n channels: the call to open one    *)
(* follows the handshake, which is over for good.                            *)
LeecherOK(s, c, n) ==
  /\ s \in LeecherSessions
  /\ n \in {0, 1}
  /\ s.state \in {"idle", "handshake"} => n = 0 /\ c.call # "open"
  /\ c.call = "open" => n = 0

(* A wire without controller, one of a seeding and one of a downloading      *)
(* process; a seeding process that has ended has ended its sessions, and a   *)
(* closed wire has closed its leecher's session.                             *)
Unused(w) ==
  /\ controller[w] = None /\ w \notin negotiated
  /\ rpc[w] = NoCall /\ opened[w] = 0
  /\ claims[w] = 0 /\ w \notin givenUp
Seeding(w) ==
  /\ command = "seed"
  /\ SeederOK(controller[w], rpc[w], Spent(w), link[w])
  /\ ~alive => controller[w].state \in Ended
  /\ opened[w] = 0
Leeching(w) ==
  /\ command = "download"
  /\ LeecherOK(controller[w], rpc[w], opened[w])
  /\ link[w] # "new"
  /\ link[w] = "closed" => controller[w].state = "closed"
  /\ claims[w] = 0

WireOK(w) == Unused(w) \/ Seeding(w) \/ Leeching(w)

(* The maps from wires have the wires as their domain. *)
Shape ==
  /\ command \in {"seed", "download"}
  /\ link \in [Wire -> Link]
  /\ DOMAIN controller = Wire /\ DOMAIN rpc = Wire
  /\ claims \in [Wire -> Nat]
  /\ opened \in [Wire -> Nat]
  /\ controller = [w \in Wire |-> controller[w]] /\ rpc = [w \in Wire |-> rpc[w]]

(* What the wallet has lost is in the channels of its wires. *)
Locked == {w \in Wire : opened[w] = 1}
BalanceInv ==
  /\ balance \in Nat
  /\ \E b \in Balances : b = balance + Deposit * Cardinality(Locked)

CliInv == Shape /\ BalanceInv /\ \A w \in Wire : WireOK(w)
-----------------------------------------------------------------------------
(* --- the Map --- *)

UniqueKeys(map) == \A i, j \in DOMAIN map : map[i][1] = map[j][1] => i = j

LEMMA EntriesAfterSet ==
  ASSUME NEW map \in Seq(PeerId \X Wire), UniqueKeys(map),
         NEW key \in PeerId, NEW w \in Wire
  PROVE  LET after == MapSet(map, key, w)
         IN  /\ after \in Seq(PeerId \X Wire) /\ UniqueKeys(after)
             /\ \A i \in DOMAIN after :
                  \/ after[i] = <<key, w>>
                  \/ \E j \in DOMAIN map : after[i] = map[j]
<1>1. DOMAIN map = 1 .. Len(map) /\ Len(map) \in Nat
  OBVIOUS
<1>2. CASE \E i \in DOMAIN map : map[i][1] = key
  <2> DEFINE after == [i \in DOMAIN map |-> IF map[i][1] = key THEN <<key, w>> ELSE map[i]]
  <2>1. after \in Seq(PeerId \X Wire)
    BY <1>1
  <2>2. \A i \in DOMAIN map : after[i][1] = map[i][1]
    OBVIOUS
  <2>3. UniqueKeys(after)
    BY <2>2 DEF UniqueKeys
  <2> QED
    BY <1>2, <2>1, <2>3 DEF MapSet
<1>3. CASE ~\E i \in DOMAIN map : map[i][1] = key
  <2> DEFINE after == Append(map, <<key, w>>)
  <2>1. after \in Seq(PeerId \X Wire) /\ Len(after) = Len(map) + 1
    OBVIOUS
  <2>2. /\ \A i \in 1 .. Len(map) : after[i] = map[i]
        /\ after[Len(map) + 1] = <<key, w>>
    OBVIOUS
  <2>3. DOMAIN after = 1 .. Len(map) + 1
    BY <2>1
  <2> HIDE DEF after
  <2>4. \A i \in DOMAIN after : i \in DOMAIN map \/ i = Len(map) + 1
    BY <1>1, <2>3
  <2>5. UniqueKeys(after)
    BY <1>1, <1>3, <2>2, <2>4 DEF UniqueKeys
  <2>6. \A i \in DOMAIN after : after[i] = <<key, w>> \/ \E j \in DOMAIN map : after[i] = map[j]
    BY <1>1, <2>2, <2>4
  <2>7. MapSet(map, key, w) = after
    BY <1>3 DEF MapSet, after
  <2> QED
    BY <2>1, <2>5, <2>6, <2>7
<1> QED
  BY <1>2, <1>3

LEMMA EntriesAfterDelete ==
  ASSUME NEW map \in Seq(PeerId \X Wire), UniqueKeys(map), NEW key
  PROVE  LET after == MapDelete(map, key)
         IN  /\ after \in Seq(PeerId \X Wire) /\ UniqueKeys(after)
             /\ \A i \in DOMAIN after :
                  \E j \in DOMAIN map : after[i] = map[j] /\ map[j][1] # key
<1>1. DOMAIN map = 1 .. Len(map) /\ Len(map) \in Nat
  OBVIOUS
<1>2. CASE \E i \in DOMAIN map : map[i][1] = key
  <2> DEFINE k == CHOOSE i \in DOMAIN map : map[i][1] = key
             old(i) == IF i < k THEN i ELSE i + 1
             after == [i \in 1 .. Len(map) - 1 |-> IF i < k THEN map[i] ELSE map[i + 1]]
  <2>1. k \in DOMAIN map /\ map[k][1] = key
    BY <1>2
  <2>2. MapDelete(map, key) = after
    BY <1>2 DEF MapDelete
  <2> HIDE DEF k
  <2>3. \A i \in 1 .. Len(map) - 1 :
          after[i] = map[old(i)] /\ old(i) \in DOMAIN map /\ old(i) # k
    BY <1>1, <2>1
  <2>4. \A i, j \in 1 .. Len(map) - 1 : old(i) = old(j) => i = j
    BY <1>1, <2>1
  <2>5. \A i \in 1 .. Len(map) - 1 : after[i] \in PeerId \X Wire
    BY <2>3
  <2>6. Len(map) - 1 \in Nat
    BY <1>1, <2>1
  <2>7. after \in Seq(PeerId \X Wire) /\ DOMAIN after = 1 .. Len(map) - 1
    BY <2>5, <2>6
  <2> HIDE DEF after, old
  <2>8. UniqueKeys(after)
    <3>1. SUFFICES ASSUME NEW i \in DOMAIN after, NEW j \in DOMAIN after,
                          after[i][1] = after[j][1]
                   PROVE  i = j
      BY DEF UniqueKeys
    <3>2. /\ i \in 1 .. Len(map) - 1 /\ j \in 1 .. Len(map) - 1
          /\ after[i] = map[old(i)] /\ after[j] = map[old(j)]
          /\ old(i) \in DOMAIN map /\ old(j) \in DOMAIN map
      BY <2>3, <2>7
    <3>3. old(i) = old(j)
      BY <3>1, <3>2, Zenon DEF UniqueKeys
    <3> QED
      BY <2>4, <3>2, <3>3
  <2>9. \A i \in DOMAIN after : after[i] = map[old(i)] /\ old(i) \in DOMAIN map
                                /\ map[old(i)][1] # key
    BY <2>1, <2>3, <2>7 DEF UniqueKeys
  <2> QED
    BY <2>2, <2>7, <2>8, <2>9
<1>3. CASE ~\E i \in DOMAIN map : map[i][1] = key
  BY <1>3 DEF MapDelete
<1> QED
  BY <1>2, <1>3

(* Each entry is for a wire that has negotiated, under its peer id, and that *)
(* is open, or was closed before its handshake's continuation ran.           *)
MapInv ==
  /\ link \in [Wire -> Link]
  /\ peerId \in [Wire -> PeerId \cup {None}]
  /\ \A w \in Wire : link[w] # "new" => peerId[w] \in PeerId
  /\ activeControllers \in Seq(PeerId \X Wire)
  /\ UniqueKeys(activeControllers)
  /\ \A i \in DOMAIN activeControllers :
       LET w == activeControllers[i][2]
       IN  /\ link[w] = "open" \/ (link[w] = "closed" /\ w \in overtaken)
           /\ peerId[w] = activeControllers[i][1] /\ w \in negotiated

(* Only a downloading process registers late, a wire that has negotiated.    *)
LateInv ==
  /\ command = "seed" => registering = None /\ overtaken = {}
  /\ registering # None =>
       registering \in Wire /\ registering \in negotiated /\ link[registering] # "new"

LEMMA MapKept ==
  ASSUME MapInv, UNCHANGED <<link, peerId, activeControllers, overtaken>>,
         negotiated \subseteq negotiated'
  PROVE  MapInv'
BY DEF MapInv, UniqueKeys

LEMMA MapAdded ==
  ASSUME MapInv, NEW w \in Wire, link[w] # "new", UNCHANGED <<link, peerId>>,
         overtaken' = IF link[w] = "open" THEN overtaken ELSE overtaken \cup {w},
         negotiated' = negotiated \cup {w},
         activeControllers' = MapSet(activeControllers, peerId[w], w)
  PROVE  MapInv'
<1>1. /\ activeControllers \in Seq(PeerId \X Wire) /\ UniqueKeys(activeControllers)
      /\ peerId[w] \in PeerId
  BY DEF MapInv
<1>2. /\ activeControllers' \in Seq(PeerId \X Wire) /\ UniqueKeys(activeControllers')
      /\ \A i \in DOMAIN activeControllers' :
           \/ activeControllers'[i] = <<peerId[w], w>>
           \/ \E j \in DOMAIN activeControllers : activeControllers'[i] = activeControllers[j]
  BY <1>1, EntriesAfterSet
<1>3. ASSUME NEW i \in DOMAIN activeControllers'
      PROVE  LET v == activeControllers'[i][2]
             IN  /\ link[v] = "open" \/ (link[v] = "closed" /\ v \in overtaken')
                 /\ peerId[v] = activeControllers'[i][1]
                 /\ v \in negotiated'
  <2>1. CASE activeControllers'[i] = <<peerId[w], w>>
    BY <2>1 DEF MapInv, Link
  <2>2. CASE \E j \in DOMAIN activeControllers : activeControllers'[i] = activeControllers[j]
    BY <2>2 DEF MapInv
  <2> QED
    BY <1>2, <2>1, <2>2
<1> QED
  BY <1>2, <1>3 DEF MapInv, UniqueKeys

(* The entry that is deleted may be another wire's; those that stay are not  *)
(* the closed wire's.                                                        *)
LEMMA MapRemoved ==
  ASSUME MapInv, NEW w \in Wire, Unregister(w), UNCHANGED <<peerId, overtaken>>,
         link[w] = "open",
         link' = [link EXCEPT ![w] = "closed"], negotiated \subseteq negotiated'
  PROVE  MapInv'
<1>1. /\ activeControllers \in Seq(PeerId \X Wire) /\ UniqueKeys(activeControllers)
      /\ activeControllers' = MapDelete(activeControllers, peerId[w])
  BY DEF MapInv, Unregister
<1>2. /\ activeControllers' \in Seq(PeerId \X Wire) /\ UniqueKeys(activeControllers')
      /\ \A i \in DOMAIN activeControllers' :
           \E j \in DOMAIN activeControllers :
             activeControllers'[i] = activeControllers[j] /\ activeControllers[j][1] # peerId[w]
  BY <1>1, EntriesAfterDelete
<1>3. /\ link' \in [Wire -> Link]
      /\ \A v \in Wire : link'[v] # "new" => peerId[v] \in PeerId
      /\ \A v \in Wire : v # w => link'[v] = link[v]
  BY DEF MapInv, Link
<1>4. ASSUME NEW i \in DOMAIN activeControllers'
      PROVE  LET v == activeControllers'[i][2]
             IN  /\ link'[v] = "open" \/ (link'[v] = "closed" /\ v \in overtaken)
                 /\ peerId[v] = activeControllers'[i][1]
                 /\ v \in negotiated'
  <2>1. PICK j \in DOMAIN activeControllers :
          activeControllers'[i] = activeControllers[j] /\ activeControllers[j][1] # peerId[w]
    BY <1>2
  <2> DEFINE v == activeControllers[j][2]
  <2>2. /\ link[v] = "open" \/ (link[v] = "closed" /\ v \in overtaken)
        /\ peerId[v] = activeControllers[j][1] /\ v \in negotiated
    BY DEF MapInv
  <2>3. v \in Wire /\ v # w
    BY <1>1, <2>1, <2>2
  <2> QED
    BY <1>3, <2>1, <2>2, <2>3
<1> QED
  BY <1>2, <1>3, <1>4 DEF MapInv, UniqueKeys

LEMMA MapConnected ==
  ASSUME MapInv, NEW w \in Wire, Connect(w), UNCHANGED overtaken PROVE MapInv'
<1>1. PICK id \in PeerId : peerId' = [peerId EXCEPT ![w] = id]
  BY DEF Connect
<1>2. /\ link[w] = "new" /\ link' = [link EXCEPT ![w] = "open"]
      /\ UNCHANGED <<activeControllers, negotiated>>
  BY DEF Connect
<1>3. \A i \in DOMAIN activeControllers : activeControllers[i][2] \in Wire \ {w}
  BY <1>2 DEF MapInv
<1>4. /\ link' \in [Wire -> Link] /\ peerId' \in [Wire -> PeerId \cup {None}]
      /\ \A v \in Wire : link'[v] # "new" => peerId'[v] \in PeerId
      /\ \A v \in Wire \ {w} : link'[v] = link[v] /\ peerId'[v] = peerId[v]
  BY <1>1, <1>2 DEF MapInv, Link
<1> QED
  BY <1>2, <1>3, <1>4 DEF MapInv, UniqueKeys

LEMMA SeedMap == MapInv /\ SeedStep => MapInv'
<1> SUFFICES ASSUME MapInv, SeedStep PROVE MapInv'
  OBVIOUS
<1>0. UNCHANGED overtaken
  BY DEF SeedStep, downloadVars
<1>1. ASSUME NEW w \in Wire, NEW s, link[w] = "open", SeedWireCloses(w, s),
             UNCHANGED <<peerId, negotiated>>
      PROVE  MapInv'
  BY <1>0, <1>1, MapRemoved DEF SeedWireCloses
<1>2. ASSUME NEW w \in Wire, NEW advertised \in BOOLEAN, SeedHandshake(w, advertised)
      PROVE  MapInv'
  BY <1>0, <1>2, MapAdded, MapKept DEF SeedHandshake
<1>3. ASSUME NEW w \in Wire, NEW m \in LeecherMessages, NEW valid \in BOOLEAN,
             SeedReceives(w, m, valid)
      PROVE  MapInv'
  BY <1>0, <1>1, <1>3, MapKept DEF SeedReceives
<1>4. ASSUME NEW w \in Wire, SeedDisconnects(w)
      PROVE  MapInv'
  BY <1>0, <1>1, <1>4, MapRemoved DEF SeedDisconnects
<1>5. ASSUME NEW w \in Wire, NEW valid \in BOOLEAN, SeedVerified(w, valid, Deposit)
      PROVE  MapInv'
  BY <1>0, <1>5, MapKept DEF SeedVerified
<1>6. ASSUME NEW w \in Wire, SeedClaimReturns(w)
      PROVE  MapInv'
  BY <1>0, <1>6, MapKept DEF SeedClaimReturns
<1>7. CASE SeedSignal
  BY <1>0, <1>7, MapKept DEF SeedSignal
<1> QED
  BY <1>2, <1>3, <1>4, <1>5, <1>6, <1>7 DEF SeedStep

LEMMA DownloadMap == MapInv /\ LateInv /\ DownloadStep => MapInv'
<1> SUFFICES ASSUME MapInv, LateInv, DownloadStep PROVE MapInv'
  OBVIOUS
<1>1. ASSUME NEW w \in Wire, NEW s, link[w] = "open", DownloadWireCloses(w, s),
             UNCHANGED <<peerId, negotiated, overtaken>>
      PROVE  MapInv'
  BY <1>1, MapRemoved DEF DownloadWireCloses
<1>2. ASSUME NEW w \in Wire, NEW r, link[w] = "open", DownloadExecute(w, r),
             UNCHANGED <<peerId, negotiated, overtaken>>
      PROVE  MapInv'
  BY <1>1, <1>2, MapKept DEF DownloadExecute
<1>3. ASSUME NEW w \in Wire, NEW kind, DownloadHandshake(w, kind) PROVE MapInv'
  BY <1>1, <1>3, MapKept DEF DownloadHandshake
<1>4. ASSUME NEW w \in Wire, DownloadRegisters(w) PROVE MapInv'
  <2>1. /\ registering = w /\ UNCHANGED <<link, peerId, negotiated>>
        /\ activeControllers' = MapSet(activeControllers, peerId[w], w)
        /\ overtaken' = IF link[w] = "open" THEN overtaken ELSE overtaken \cup {w}
    BY <1>4 DEF DownloadRegisters
  <2>2. link[w] # "new" /\ w \in negotiated
    BY <2>1 DEF LateInv, ConnectionAssumption
  <2>3. negotiated' = negotiated \cup {w}
    BY <2>1, <2>2
  <2> QED
    BY <2>1, <2>2, <2>3, MapAdded
<1>5. ASSUME NEW w \in Wire, NEW m \in SeederMessages, DownloadReceives(w, m)
      PROVE  MapInv'
  BY <1>2, <1>5 DEF DownloadReceives, InChunk, downloadVars
<1>6. ASSUME NEW w \in Wire, NEW landed \in BOOLEAN, OpenReturns(w, landed)
      PROVE  MapInv'
  BY <1>6, MapKept DEF OpenReturns
<1>7. ASSUME NEW w \in Wire, DownloadPiece(w) PROVE MapInv'
  BY <1>2, <1>7, MapKept DEF DownloadPiece, InChunk
<1>8. ASSUME NEW w \in Wire, DownloadDisconnects(w) PROVE MapInv'
  BY <1>1, <1>8 DEF DownloadDisconnects, downloadVars
<1>9. CASE DownloadDone
  BY <1>9, MapKept DEF DownloadDone
<1>10. CASE DownloadEnds
  BY <1>10, MapKept DEF DownloadEnds, downloadVars
<1> QED
  BY <1>3, <1>4, <1>5, <1>6, <1>7, <1>8, <1>9, <1>10 DEF DownloadStep

(* A wire never goes back to "new", and one that negotiated has done so. *)
LEMMA LateKept ==
  ASSUME LateInv, Shape, [Next]_vars
  PROVE  LateInv'
<1> DEFINE Grows == /\ negotiated \subseteq negotiated'
                    /\ \A w \in Wire : link[w] # "new" => link'[w] # "new"
<1>1. CASE Grows /\ command' = command /\ UNCHANGED <<registering, overtaken>>
  BY <1>1 DEF LateInv
<1>2. ASSUME NEW w \in Wire, link' \in {link, [link EXCEPT ![w] = "closed"],
                                       [link EXCEPT ![w] = "open"]}
      PROVE  \A v \in Wire : link[v] # "new" => link'[v] # "new"
  BY <1>2 DEF Shape, Link
<1>3. CASE NewWire
  BY <1>1, <1>2, <1>3 DEF NewWire, Connect, downloadVars
<1>4. CASE UNCHANGED vars
  BY <1>1, <1>4 DEF vars, processVars, downloadVars
<1>5. CASE SeedStep
  <2>1. command' = command /\ UNCHANGED <<registering, overtaken>>
    BY <1>5 DEF SeedStep, downloadVars
  <2>2. link' = link \/ \E w \in Wire : link' = [link EXCEPT ![w] = "closed"]
    BY <1>5 DEF SeedStep, SeedHandshake, SeedReceives, SeedVerified, SeedClaimReturns,
                SeedDisconnects, SeedSignal, SeedWireCloses
  <2>3. negotiated \subseteq negotiated'
    BY <1>5 DEF SeedStep, SeedHandshake, SeedReceives, SeedVerified, SeedClaimReturns,
                SeedDisconnects, SeedSignal, SeedWireCloses
  <2> QED
    BY <1>1, <1>2, <2>1, <2>2, <2>3
<1>6. CASE DownloadStep
  <2>1. command = "download" /\ command' = command
    BY <1>6 DEF DownloadStep
  <2>2. ASSUME NEW w \in Wire, NEW s, DownloadWireCloses(w, s)
        PROVE  \A v \in Wire : link[v] # "new" => link'[v] # "new"
    BY <1>2, <2>2 DEF DownloadWireCloses
  <2>3. ASSUME NEW w \in Wire, NEW r, DownloadExecute(w, r)
        PROVE  \A v \in Wire : link[v] # "new" => link'[v] # "new"
    BY <2>2, <2>3 DEF DownloadExecute
  <2>4. ASSUME NEW w \in Wire, NEW kind, DownloadHandshake(w, kind) PROVE LateInv'
    <3>1. CASE /\ registering' = w /\ w \in negotiated' /\ link[w] = "open" /\ link' = link
      BY <2>1, <3>1 DEF LateInv
    <3>2. CASE Grows /\ registering' = registering
      BY <2>1, <3>2 DEF LateInv
    <3> QED
      BY <2>2, <2>4, <3>1, <3>2 DEF DownloadHandshake
  <2>5. ASSUME NEW w \in Wire, DownloadRegisters(w) PROVE LateInv'
    BY <2>1, <2>5 DEF DownloadRegisters, LateInv
  <2>6. ASSUME NEW w \in Wire, NEW m \in SeederMessages, DownloadReceives(w, m)
        PROVE  LateInv'
    BY <1>1, <2>1, <2>3, <2>6 DEF DownloadReceives, downloadVars
  <2>7. ASSUME NEW w \in Wire, DownloadPiece(w) PROVE LateInv'
    BY <1>1, <2>1, <2>3, <2>7 DEF DownloadPiece
  <2>8. ASSUME NEW w \in Wire, DownloadDisconnects(w) PROVE LateInv'
    BY <1>1, <2>1, <2>2, <2>8 DEF DownloadDisconnects, downloadVars
  <2>9. CASE \/ \E w \in Wire, landed \in BOOLEAN : OpenReturns(w, landed)
             \/ DownloadDone \/ DownloadEnds
    BY <1>1, <2>1, <2>9 DEF OpenReturns, DownloadDone, DownloadEnds, downloadVars
  <2> QED
    BY <1>6, <2>4, <2>5, <2>6, <2>7, <2>8, <2>9 DEF DownloadStep
<1> QED
  BY <1>3, <1>4, <1>5, <1>6 DEF Next
-----------------------------------------------------------------------------
(* --- a seeder's session --- *)

(* onDisconnect ends a session, and a check it holds is claimed for, now or  *)
(* before.                                                                   *)
LEMMA Disconnected ==
  ASSUME NEW s, NEW c, NEW n, NEW l, SeederOK(s, c, n, l)
  PROVE  LET r == SeederOnDisconnect(s)
         IN  /\ SeederOK(r.session, CallOf(r, c),
                         n + (IF r.action = NoAction THEN 0 ELSE 1), "closed")
             /\ r.session.state \in Ended
<1> DEFINE r == SeederOnDisconnect(s)
<1>1. s \in SeederSessions /\ n \in {0, 1}
  BY DEF SeederOK
<1>2. CASE s.state = "active" /\ s.highestCheck # NoCheck
  <2>1. /\ r.session = [s EXCEPT !.state = "closing"]
        /\ r.action = [action |-> "close_channel"]
    BY <1>2 DEF SeederOnDisconnect, Returns
  <2>2. r.session \in SeederSessions /\ r.session.state = "closing"
    BY <1>1, <2>1 DEF SeederSessions, SessionState
  <2>3. r.action # NoAction /\ r.action.action = "close_channel"
    BY <2>1 DEF NoAction
  <2>4. CallOf(r, c).call = "claim"
    BY <2>3 DEF CallOf
  <2>5. n = 0
    BY <1>2 DEF SeederOK, Ended
  <2> QED
    BY <2>2, <2>3, <2>4, <2>5 DEF SeederOK, Ended
<1>3. CASE ~(s.state = "active" /\ s.highestCheck # NoCheck)
  <2>1. r.session = [s EXCEPT !.state = "closed"] /\ r.action = NoAction
    BY <1>3 DEF SeederOnDisconnect, Returns
  <2>2. /\ r.session \in SeederSessions /\ r.session.state = "closed"
        /\ r.session.highestCheck = s.highestCheck
    BY <1>1, <2>1 DEF SeederSessions, SessionState
  <2>3. CallOf(r, c) = c
    BY <2>1 DEF CallOf, NoAction
  <2> QED
    BY <1>1, <1>3, <2>1, <2>2, <2>3 DEF SeederOK, Ended
<1> QED
  BY <1>2, <1>3

(* A message either is an error, which changes nothing but the wire, or      *)
(* keeps the session in order; a channel_closed gives up a check it holds.   *)
GivesUp(s, m) ==
  m.type = "channel_closed" /\ s.state = "active" /\ s.highestCheck # NoCheck

LEMMA SeederHandled ==
  ASSUME NEW s, NEW c, NEW n, SeederOK(s, c, n, "open"),
         NEW m \in LeecherMessages, NEW valid \in BOOLEAN
  PROVE  LET r == SeederHandle(s, m, valid)
         IN  /\ r.action = ErrorAction => r.session = s /\ ~GivesUp(s, m)
             /\ SeederOK(r.session, CallOf(r, c),
                         n + (IF GivesUp(s, m) THEN 1 ELSE 0), "open")
<1> DEFINE r == SeederHandle(s, m, valid)
           Done == /\ r.action = ErrorAction => r.session = s
                   /\ SeederOK(r.session, CallOf(r, c), n, "open")
           more == IF GivesUp(s, m) THEN 1 ELSE 0
           Result == /\ r.action = ErrorAction => r.session = s /\ ~GivesUp(s, m)
                     /\ SeederOK(r.session, CallOf(r, c), n + more, "open")
<1>1. /\ s \in SeederSessions /\ n \in {0, 1}
      /\ n = 1 => s.state \in Ended
      /\ s.highestCheck # NoCheck => s.state = "active" \/ n = 1
      /\ c.call = "verify" => s.state \in {"channel_pending", "closed"}
  BY DEF SeederOK
<1>2. ASSUME r.session = s, r.action.action \notin {"verify_channel", "close_channel"}
      PROVE  Done
  BY <1>2 DEF CallOf
<1>3. ASSUME m.type = "ecdh_init" PROVE Done
  <2>1. r = SeederOnEcdhInit(s)
    BY <1>3 DEF SeederHandle
  <2>2. CASE s.state = "idle"
    <3>1. /\ r.session = [s EXCEPT !.state = "handshake"]
          /\ r.action = SendMessage([type |-> "ecdh_init"])
      BY <2>1, <2>2 DEF SeederOnEcdhInit, InState, Returns
    <3>2. /\ r.session \in SeederSessions /\ r.session.state = "handshake"
          /\ r.session.highestCheck = s.highestCheck
      BY <1>1, <3>1 DEF SeederSessions, SessionState
    <3>3. CallOf(r, c) = c /\ r.action # ErrorAction
      BY <3>1 DEF CallOf, SendMessage, ErrorAction
    <3> QED
      BY <1>1, <2>2, <3>2, <3>3 DEF SeederOK, Ended
  <2>3. CASE s.state # "idle"
    BY <1>2, <2>1, <2>3 DEF SeederOnEcdhInit, InState, Returns, ErrorAction
  <2> QED
    BY <2>2, <2>3
<1>4. ASSUME m.type = "channel_opened" PROVE Done
  <2>1. r = SeederOnChannelOpened(s)
    BY <1>4 DEF SeederHandle
  <2>2. CASE s.state = "handshake"
    <3>1. /\ r.session = [s EXCEPT !.state = "channel_pending"]
          /\ r.action = [action |-> "verify_channel"]
      BY <2>1, <2>2 DEF SeederOnChannelOpened, InState, Returns
    <3>2. /\ r.session \in SeederSessions /\ r.session.state = "channel_pending"
          /\ r.session.highestCheck = s.highestCheck
      BY <1>1, <3>1 DEF SeederSessions, SessionState
    <3>3. r.action # ErrorAction
      BY <3>1 DEF ErrorAction
    <3> QED
      BY <1>1, <2>2, <3>2, <3>3 DEF SeederOK, Ended
  <2>3. CASE s.state # "handshake"
    BY <1>2, <2>1, <2>3 DEF SeederOnChannelOpened, InState, Returns, ErrorAction
  <2> QED
    BY <2>2, <2>3
<1>5. ASSUME m.type = "payment_check" PROVE Done
  <2> DEFINE check == [channelId |-> m.channelId, amount |-> m.amount, nonce |-> m.nonce]
  <2>1. r = SeederOnPaymentCheck(s, check, valid)
    BY <1>5 DEF SeederHandle
  <2>2. check \in PaymentCheck
    BY <1>5 DEF LeecherMessages, PaymentCheck
  <2>3. CASE s.state = "active" /\ CheckRefusal(s, check, valid) = "none"
    <3>1. r.session = [s EXCEPT !.highestCheck = check] /\ r.action = NoAction
      BY <2>1, <2>3 DEF SeederOnPaymentCheck, InState, Returns
    <3>2. r.session \in SeederSessions /\ r.session.state = "active"
      BY <1>1, <2>2, <2>3, <3>1 DEF SeederSessions
    <3>3. CallOf(r, c) = c /\ r.action # ErrorAction
      BY <3>1 DEF CallOf, NoAction, ErrorAction
    <3> QED
      BY <1>1, <2>3, <3>2, <3>3 DEF SeederOK, Ended
  <2>4. CASE ~(s.state = "active" /\ CheckRefusal(s, check, valid) = "none")
    BY <1>2, <2>1, <2>4
       DEF SeederOnPaymentCheck, InState, Returns, ErrorAction, SendMessage
  <2> QED
    BY <2>3, <2>4
<1>6. ASSUME m.type = "channel_closed" PROVE Result
  <2>1. r.session = [s EXCEPT !.state = "closed"] /\ r.action = NoAction
    BY <1>6 DEF SeederHandle, SeederOnChannelClosed, Returns
  <2>2. /\ r.session \in SeederSessions /\ r.session.state = "closed"
        /\ r.session.highestCheck = s.highestCheck
    BY <1>1, <2>1 DEF SeederSessions, SessionState
  <2>3. CallOf(r, c) = c /\ r.action # ErrorAction
    BY <2>1 DEF CallOf, NoAction, ErrorAction
  <2> HIDE DEF r
  <2>4. CASE GivesUp(s, m)
    <3>1. n = 0
      BY <1>1, <2>4 DEF GivesUp, Ended
    <3> QED
      BY <1>1, <2>2, <2>3, <2>4, <3>1 DEF SeederOK, Ended
  <2>5. CASE ~GivesUp(s, m)
    <3>1. n + 0 = n /\ (s.highestCheck # NoCheck => n = 1)
      BY <1>1, <1>6, <2>5 DEF GivesUp
    <3> QED
      BY <1>1, <2>2, <2>3, <2>5, <3>1 DEF SeederOK, Ended
  <2> QED
    BY <2>4, <2>5
<1>7. ASSUME m.type # "channel_closed" PROVE Result
  <2>1. ~GivesUp(s, m) /\ n + 0 = n
    BY <1>1, <1>7 DEF GivesUp
  <2>2. m.type \in {"ecdh_init", "channel_opened", "payment_check"}
    BY <1>7 DEF LeecherMessages
  <2>3. Done
    BY <1>3, <1>4, <1>5, <2>2
  <2> HIDE DEF r
  <2> QED
    BY <2>1, <2>3
<1> QED
  BY <1>6, <1>7

(* The continuation after verifyChannel. *)
LEMMA Verified ==
  ASSUME NEW s, NEW c, NEW n, NEW l, SeederOK(s, c, n, l), c.call = "verify",
         NEW valid \in BOOLEAN
  PROVE  LET r == IF valid THEN ConfirmChannel(s, Deposit) ELSE RejectChannel(s)
         IN  /\ SeederOK(r.session, NoCall, n, l)
             /\ s.state \in Ended => r.session.state \in Ended
<1> DEFINE r == IF valid THEN ConfirmChannel(s, Deposit) ELSE RejectChannel(s)
           known == [s EXCEPT !.channelDeposit = Deposit]
<1>1. /\ s \in SeederSessions /\ n \in {0, 1}
      /\ s.state \in {"channel_pending", "closed"}
      /\ s.highestCheck # NoCheck => n = 1
      /\ n = 1 => s.state \in Ended
      /\ l # "new" /\ (l = "closed" => s.state \in Ended)
  BY DEF SeederOK
<1>2. NoCall.call # "verify"
  BY DEF NoCall
<1>3. /\ known \in SeederSessions /\ known.state = s.state
      /\ known.highestCheck = s.highestCheck
  BY <1>1 DEF SeederSessions
<1>4. ASSUME r.session = [s EXCEPT !.state = "closed"]
             \/ r.session = [known EXCEPT !.state = "closed"]
      PROVE  SeederOK(r.session, NoCall, n, l) /\ r.session.state \in Ended
  <2>1. /\ r.session \in SeederSessions /\ r.session.state = "closed"
        /\ r.session.highestCheck = s.highestCheck
    BY <1>1, <1>3, <1>4 DEF SeederSessions, SessionState
  <2> QED
    BY <1>1, <1>2, <2>1 DEF SeederOK, Ended
<1>5. CASE ~valid
  <2>1. r.session = [s EXCEPT !.state = "closed"]
    BY <1>5 DEF RejectChannel, Returns
  <2> QED
    BY <1>4, <2>1
<1>6. CASE valid /\ s.state # "channel_pending"
  <2>1. r.session = s
    BY <1>6 DEF ConfirmChannel, InState, Returns
  <2> QED
    BY <1>1, <1>2, <2>1 DEF SeederOK, Ended
<1>7. CASE valid /\ s.state = "channel_pending" /\ Deposit < MinDeposit
  <2>1. r.session = [known EXCEPT !.state = "closed"]
    BY <1>7 DEF ConfirmChannel, RejectChannel, InState, Returns
  <2> QED
    BY <1>4, <2>1
<1>8. CASE valid /\ s.state = "channel_pending" /\ ~(Deposit < MinDeposit)
  <2>1. r.session = [known EXCEPT !.state = "active"]
    BY <1>8 DEF ConfirmChannel, InState, Returns
  <2>2. /\ r.session \in SeederSessions /\ r.session.state = "active"
    BY <1>3, <2>1 DEF SeederSessions, SessionState
  <2> QED
    BY <1>1, <1>2, <1>8, <2>2 DEF SeederOK, Ended
<1> QED
  BY <1>5, <1>6, <1>7, <1>8
-----------------------------------------------------------------------------
(* --- a leecher's session --- *)

LEMMA CostType == ASSUME NEW bytes \in Nat PROVE Cost(bytes) \in Nat
<1> DEFINE x == bytes * PricePerMb + BytesPerMb - 1
<1>1. bytes * PricePerMb \in Nat
  BY SMT
<1>2. x \in Nat
  BY <1>1
<1> HIDE DEF x
<1>3. x \div BytesPerMb \in Nat
  BY <1>2, SMT
<1> QED
  BY <1>3 DEF x, Cost, ComputeCost

(* A check changes the accounting only. *)
LEMMA CheckSent ==
  ASSUME NEW s \in LeecherSessions
  PROVE  LET r == SendCheck(s)
         IN  /\ r.session \in LeecherSessions /\ r.session.state = s.state
             /\ r.action.action \in {"send_message", "none"}
<1> DEFINE amount == NextCheckAmount(s.accounting)
           nonce == NextNonce(s.accounting)
           acc == RecordCheck(s.accounting, amount, nonce)
<1>1. s.accounting \in PieceAccounting
  BY DEF LeecherSessions
<1>2. amount \in Nat /\ nonce \in Nat
  BY <1>1, CostType DEF PieceAccounting, NextCheckAmount, NextNonce
<1>3. acc \in PieceAccounting
  BY <1>1, <1>2 DEF PieceAccounting, RecordCheck
<1>4. CASE MayRecord(s.accounting, amount, nonce)
  <2>1. /\ SendCheck(s).session = [s EXCEPT !.accounting = acc]
        /\ \E message : SendCheck(s).action = SendMessage(message)
    BY <1>4 DEF SendCheck, Returns
  <2> HIDE DEF acc
  <2>2. SendCheck(s).session \in LeecherSessions /\ SendCheck(s).session.state = s.state
    BY <1>3, <2>1 DEF LeecherSessions
  <2> QED
    BY <2>1, <2>2 DEF SendMessage
<1>5. CASE ~MayRecord(s.accounting, amount, nonce)
  BY <1>5 DEF SendCheck, Returns, NoAction
<1> QED
  BY <1>4, <1>5

(* The states before the channel is opened are left for good. *)
Young == {"idle", "handshake"}

(* What a method may do to a session s that awaits c and opened n channels:  *)
(* it opens one only from the handshake, which it ends.                      *)
Steps(s, r) ==
  /\ r.session \in LeecherSessions
  /\ r.session.state \in Young => s.state \in Young
  /\ r.action.action = "open_channel" =>
       s.state = "handshake" /\ r.session.state \notin Young

LEMMA StateSet ==
  ASSUME NEW s \in LeecherSessions, NEW state \in SessionState
  PROVE  /\ [s EXCEPT !.state = state] \in LeecherSessions
         /\ [s EXCEPT !.state = state].state = state
         /\ [s EXCEPT !.state = state].accounting = s.accounting
  BY DEF LeecherSessions

LEMMA LeecherHandled ==
  ASSUME NEW s \in LeecherSessions, NEW m \in SeederMessages
  PROVE  Steps(s, LeecherHandle(s, m))
<1> DEFINE r == LeecherHandle(s, m)
<1>1. ASSUME r.session = s, r.action.action # "open_channel"
      PROVE  Steps(s, r)
  BY <1>1 DEF Steps
<1>2. ErrorAction.action # "open_channel" /\ NoAction.action # "open_channel"
  BY DEF ErrorAction, NoAction
<1>3. CASE m.type = "ecdh_init"
  <2>1. r = LeecherOnEcdhInit(s)
    BY <1>3 DEF LeecherHandle
  <2>2. CASE s.state = "handshake"
    <3>1. r.session = [s EXCEPT !.state = "channel_pending"]
      BY <2>1, <2>2 DEF LeecherOnEcdhInit, InState, Returns
    <3> QED
      BY <2>2, <3>1, StateSet DEF Steps, Young, SessionState
  <2> QED
    BY <1>1, <1>2, <2>1, <2>2 DEF LeecherOnEcdhInit, InState, Returns
<1>4. CASE m.type = "channel_confirmed"
  <2>1. r = LeecherOnChannelConfirmed(s)
    BY <1>4 DEF LeecherHandle
  <2>2. CASE s.state = "channel_pending"
    <3>1. r.session = [s EXCEPT !.state = "active"] /\ r.action = NoAction
      BY <2>1, <2>2 DEF LeecherOnChannelConfirmed, InState, Returns
    <3> QED
      BY <1>2, <3>1, StateSet DEF Steps, Young, SessionState
  <2> QED
    BY <1>1, <1>2, <2>1, <2>2 DEF LeecherOnChannelConfirmed, InState, Returns
<1>5. CASE m.type = "channel_rejected"
  <2>1. r.session = [s EXCEPT !.state = "error"] /\ r.action = ErrorAction
    BY <1>5 DEF LeecherHandle, LeecherOnChannelRejected, Returns
  <2> QED
    BY <1>2, <2>1, StateSet DEF Steps, Young, SessionState
<1>6. CASE m.type = "payment_check_required"
  <2>1. r = LeecherOnPaymentCheckRequired(s)
    BY <1>6 DEF LeecherHandle
  <2>2. CASE s.state = "active"
    <3>1. r = SendCheck(s)
      BY <2>1, <2>2 DEF LeecherOnPaymentCheckRequired, InState
    <3> QED
      BY <3>1, CheckSent DEF Steps
  <2> QED
    BY <1>1, <1>2, <2>1, <2>2 DEF LeecherOnPaymentCheckRequired, InState, Returns
<1>7. CASE m.type = "channel_closed"
  <2>1. r.session = [s EXCEPT !.state = "closed"] /\ r.action = NoAction
    BY <1>7 DEF LeecherHandle, LeecherOnChannelClosed, Returns
  <2> QED
    BY <1>2, <2>1, StateSet DEF Steps, Young, SessionState
<1>8. CASE m.type = "payment_check_rejected"
  BY <1>1, <1>2, <1>8 DEF LeecherHandle, Returns
<1> QED
  BY <1>3, <1>4, <1>5, <1>6, <1>7, <1>8 DEF SeederMessages

LEMMA Stays ==
  ASSUME NEW s, NEW t \in LeecherSessions, t.state = s.state,
         NEW a \in {NoAction, ErrorAction}
  PROVE  Steps(s, Returns(t, a))
  BY DEF Steps, Returns, NoAction, ErrorAction

LEMMA PieceCounted ==
  ASSUME NEW s \in LeecherSessions
  PROVE  Steps(s, LeecherOnPieceReceived(s, PieceBytes))
<1> DEFINE acc == RecordBytes(s.accounting, PieceBytes)
           counted == [s EXCEPT !.accounting = acc]
<1>1. acc \in PieceAccounting
  BY DEF LeecherSessions, PieceAccounting, RecordBytes
<1>2. LeecherOnPieceReceived(s, PieceBytes) \in
        {SendCheck(counted), Returns(counted, NoAction), Returns(s, ErrorAction)}
  BY DEF LeecherOnPieceReceived, InState
<1> HIDE DEF acc
<1>3. counted \in LeecherSessions /\ counted.state = s.state
  BY <1>1 DEF LeecherSessions
<1> HIDE DEF counted
<1>4. Steps(s, SendCheck(counted))
  BY <1>3, CheckSent DEF Steps
<1>5. Steps(s, Returns(counted, NoAction)) /\ Steps(s, Returns(s, ErrorAction))
  BY <1>3, Stays
<1> QED
  BY <1>2, <1>4, <1>5
-----------------------------------------------------------------------------
(* --- the initial states --- *)

LEMMA InitInv == Init => CliInv
<1> SUFFICES ASSUME Init PROVE CliInv
  OBVIOUS
<1> USE DEF Init, ProcessInit, SeedInit, DownloadInit
<1>1. Shape
  BY DEF Shape, Link
<1>2. \A w \in Wire : WireOK(w)
  BY DEF WireOK, Unused
<1>3. Locked = {}
  BY DEF Locked
<1>4. balance \in Balances /\ balance \in Nat
  BY DEF BalanceAssumption
<1>5. Deposit * Cardinality(Locked) = 0
  BY <1>3, FS_EmptySet, SMT DEF DepositAssumption
<1>6. BalanceInv
  BY <1>4, <1>5 DEF BalanceInv
<1> QED
  BY <1>1, <1>2, <1>6 DEF CliInv

LEMMA MoneyKept ==
  ASSUME CliInv, UNCHANGED <<balance, opened>>
  PROVE  BalanceInv'
<1>1. Locked' = Locked
  BY DEF Locked
<1> QED
  BY <1>1 DEF CliInv, BalanceInv
-----------------------------------------------------------------------------
(* --- the seeding process --- *)

LEMMA SeedingWire ==
  ASSUME CliInv, command = "seed", NEW w \in Wire
  PROVE  /\ Seeding(w) <=> controller[w] # None
         /\ Unused(w) <=> controller[w] = None
         /\ rpc[w].call # "none" => controller[w] # None
<1>1. Unused(w) \/ Seeding(w)
  BY DEF CliInv, WireOK, Leeching
<1>2. Seeding(w) => controller[w] # None
  BY DEF Seeding, SeederOK, ConnectionAssumption
<1>3. Unused(w) => controller[w] = None /\ rpc[w].call = "none"
  BY DEF Unused, NoCall
<1> QED
  BY <1>1, <1>2, <1>3

(* A wire that a step leaves alone. *)
SameWire(v) ==
  /\ controller'[v] = controller[v] /\ rpc'[v] = rpc[v] /\ link'[v] = link[v]
  /\ claims'[v] = claims[v] /\ opened'[v] = opened[v]
  /\ v \in negotiated' <=> v \in negotiated
  /\ v \in givenUp' <=> v \in givenUp

LEMMA WireKept ==
  ASSUME CliInv, NEW v \in Wire, SameWire(v), command' = command,
         command = "download" \/ alive' = alive
  PROVE  WireOK(v)'
<1>1. Spent(v)' = Spent(v)
  BY DEF SameWire, Spent
<1>2. CASE Unused(v)
  BY <1>2 DEF SameWire, Unused, WireOK
<1>3. CASE Seeding(v)
  BY <1>1, <1>3 DEF SameWire, Seeding, WireOK
<1>4. CASE Leeching(v)
  BY <1>4 DEF SameWire, Leeching, WireOK
<1> QED
  BY <1>2, <1>3, <1>4 DEF CliInv, WireOK

(* No money moves in a seeding process. *)
LEMMA SeedBalance ==
  ASSUME CliInv, UNCHANGED downloadVars
  PROVE  BalanceInv'
BY MoneyKept DEF downloadVars

LEMMA SeedHandshakeKeeps ==
  ASSUME CliInv, command = "seed", NEW w \in Wire, NEW advertised \in BOOLEAN,
         SeedHandshake(w, advertised), UNCHANGED <<command, downloadVars>>
  PROVE  CliInv'
<1>1. /\ alive /\ link[w] = "open" /\ controller[w] = None
      /\ controller' = [controller EXCEPT ![w] = NewSeederSession]
      /\ negotiated' \in {negotiated, negotiated \cup {w}}
      /\ UNCHANGED <<command, link, rpc, alive, claims, givenUp, opened>>
  BY DEF SeedHandshake, seedVars, downloadVars
<1>2. NewSeederSession \in SeederSessions
  BY DEF NewSeederSession, SeederSessions, SessionState, NewAccounting,
         PieceAccounting, NoCheck
<1>3. Unused(w)
  BY <1>1, SeedingWire
<1>4. Seeding(w)'
  <2>1. Spent(w)' = 0
    BY <1>1, <1>3 DEF Unused, Spent
  <2> QED
    BY <1>1, <1>2, <1>3, <2>1
       DEF CliInv, Shape, Unused, Seeding, SeederOK, NoCall, NewSeederSession
<1>5. ASSUME NEW v \in Wire, v # w PROVE WireOK(v)'
  BY <1>1, <1>5, WireKept DEF CliInv, Shape, SameWire
<1>6. Shape'
  BY <1>1 DEF CliInv, Shape
<1> QED
  BY <1>4, <1>5, <1>6, SeedBalance DEF CliInv, WireOK

(* A wire that closes, seen from the sessions. *)
LEMMA SeedClosesKeeps ==
  ASSUME CliInv, command = "seed", alive, NEW w \in Wire, controller[w] # None,
         SeedWireCloses(w, controller[w]),
         UNCHANGED <<command, negotiated, alive, givenUp, downloadVars>>
  PROVE  CliInv'
<1> DEFINE r == SeederOnDisconnect(controller[w])
           started == IF r.action = NoAction THEN {} ELSE {w}
<1>1. /\ link' = [link EXCEPT ![w] = "closed"]
      /\ controller' = [controller EXCEPT ![w] = r.session]
      /\ rpc' = [rpc EXCEPT ![w] = CallOf(r, rpc[w])]
      /\ claims' = [v \in Wire |-> claims[v] + IF v \in started THEN 1 ELSE 0]
      /\ UNCHANGED <<command, negotiated, alive, givenUp, opened>>
  BY DEF SeedWireCloses, CountClaims, downloadVars
<1>2. Seeding(w)
  BY SeedingWire
<1>3. /\ SeederOK(r.session, CallOf(r, rpc[w]),
                  Spent(w) + (IF r.action = NoAction THEN 0 ELSE 1), "closed")
      /\ r.session.state \in Ended
  BY <1>2, Disconnected DEF Seeding
<1>4. Spent(w)' = Spent(w) + (IF r.action = NoAction THEN 0 ELSE 1)
  <2>1. claims'[w] = claims[w] + (IF r.action = NoAction THEN 0 ELSE 1)
    BY <1>1
  <2> HIDE DEF r
  <2> QED
    BY <1>1, <2>1 DEF Spent, CliInv, Shape
<1> HIDE DEF r
<1>5. Seeding(w)'
  BY <1>1, <1>2, <1>3, <1>4 DEF CliInv, Shape, Seeding
<1>6. ASSUME NEW v \in Wire, v # w PROVE WireOK(v)'
  <2>1. claims'[v] = claims[v]
    BY <1>1, <1>6 DEF CliInv, Shape
  <2> QED
    BY <1>1, <1>6, <2>1, WireKept DEF CliInv, Shape, SameWire
<1>7. Shape'
  <2>1. claims' \in [Wire -> Nat]
    BY <1>1 DEF CliInv, Shape
  <2>2. link' \in [Wire -> Link]
    BY <1>1 DEF CliInv, Shape, Link
  <2> QED
    BY <1>1, <2>1, <2>2 DEF CliInv, Shape
<1> QED
  BY <1>5, <1>6, <1>7, SeedBalance DEF CliInv, WireOK

LEMMA SeedDisconnectsKeeps ==
  ASSUME CliInv, command = "seed", NEW w \in Wire, SeedDisconnects(w),
         UNCHANGED <<command, downloadVars>>
  PROVE  CliInv'
<1>1. CASE controller[w] = None
  <2>1. /\ link' = [link EXCEPT ![w] = "closed"]
        /\ UNCHANGED <<command, controller, negotiated, rpc, alive, claims, givenUp,
                       opened>>
    BY <1>1 DEF SeedDisconnects, downloadVars
  <2>2. Unused(w)
    BY <1>1, SeedingWire
  <2>3. ASSUME NEW v \in Wire PROVE WireOK(v)'
    <3>1. CASE v = w
      BY <2>1, <2>2, <3>1 DEF WireOK, Unused
    <3>2. CASE v # w
      BY <2>1, <3>2, WireKept DEF CliInv, Shape, SameWire
    <3> QED
      BY <3>1, <3>2
  <2>4. Shape'
    BY <2>1 DEF CliInv, Shape, Link
  <2> QED
    BY <2>3, <2>4, SeedBalance DEF CliInv
<1>2. CASE controller[w] # None
  BY <1>2, SeedClosesKeeps DEF SeedDisconnects
<1> QED
  BY <1>1, <1>2

LEMMA SeedReceivesKeeps ==
  ASSUME CliInv, command = "seed", NEW w \in Wire, NEW m \in LeecherMessages,
         NEW valid \in BOOLEAN, SeedReceives(w, m, valid),
         UNCHANGED <<command, downloadVars>>
  PROVE  CliInv'
<1> DEFINE s == controller[w]
           r == SeederHandle(controller[w], m, valid)
<1>1. /\ alive /\ link[w] = "open" /\ UNCHANGED <<alive, negotiated>>
      /\ givenUp' = IF GivesUp(s, m) THEN givenUp \cup {w} ELSE givenUp
  BY DEF SeedReceives, Due, Active, GivesUp
<1>2. Seeding(w) /\ controller[w] # None
  BY SeedingWire DEF SeedReceives, CliInv, WireOK, Unused
<1>3. /\ r.action = ErrorAction => r.session = controller[w]
      /\ r.action = ErrorAction => ~GivesUp(s, m)
      /\ SeederOK(r.session, CallOf(r, rpc[w]),
                  Spent(w) + (IF GivesUp(s, m) THEN 1 ELSE 0), "open")
  BY <1>1, <1>2, SeederHandled DEF Seeding
<1>4. CASE r.action = ErrorAction
  <2>1. SeedWireCloses(w, controller[w]) /\ UNCHANGED givenUp
    BY <1>1, <1>3, <1>4 DEF SeedReceives
  <2> QED
    BY <1>1, <1>2, <2>1, SeedClosesKeeps
<1>5. CASE r.action # ErrorAction
  <2>1. /\ controller' = [controller EXCEPT ![w] = r.session]
        /\ rpc' = [rpc EXCEPT ![w] = CallOf(r, rpc[w])]
        /\ UNCHANGED <<command, link, negotiated, alive, claims, opened>>
    BY <1>5 DEF SeedReceives, downloadVars
  <2>2. Spent(w)' = Spent(w) + (IF GivesUp(s, m) THEN 1 ELSE 0)
    <3>1. GivesUp(s, m) => w \notin givenUp
      BY <1>2 DEF GivesUp, Seeding, SeederOK, Ended, Spent, CliInv, Shape
    <3> QED
      BY <1>1, <2>1, <3>1 DEF Spent, CliInv, Shape
  <2> HIDE DEF r
  <2>3. Seeding(w)'
    BY <1>1, <1>2, <1>3, <2>1, <2>2 DEF CliInv, Shape, Seeding
  <2>5. ASSUME NEW v \in Wire, v # w PROVE WireOK(v)'
    BY <1>1, <2>1, <2>5, WireKept DEF CliInv, Shape, SameWire
  <2>4. Shape'
    BY <2>1 DEF CliInv, Shape
  <2> QED
    BY <2>3, <2>4, <2>5, SeedBalance DEF CliInv, WireOK
<1> QED
  BY <1>4, <1>5

LEMMA SeedVerifiedKeeps ==
  ASSUME CliInv, command = "seed", NEW w \in Wire, NEW valid \in BOOLEAN,
         SeedVerified(w, valid, Deposit), UNCHANGED <<command, downloadVars>>
  PROVE  CliInv'
<1> DEFINE r == IF valid THEN ConfirmChannel(controller[w], Deposit)
                         ELSE RejectChannel(controller[w])
<1>1. /\ alive /\ rpc[w].call = "verify"
      /\ rpc' = [rpc EXCEPT ![w] = NoCall]
      /\ controller' = [controller EXCEPT ![w] = r.session]
      /\ UNCHANGED <<command, link, negotiated, alive, claims, givenUp, opened>>
  BY DEF SeedVerified, seedVars, downloadVars
<1>2. Seeding(w) /\ Spent(w)' = Spent(w)
  BY <1>1, SeedingWire DEF Spent
<1>3. SeederOK(r.session, NoCall, Spent(w), link[w])
  BY <1>1, <1>2, Verified DEF Seeding
<1> HIDE DEF r
<1>4. Seeding(w)'
  BY <1>1, <1>2, <1>3 DEF CliInv, Shape, Seeding
<1>5. ASSUME NEW v \in Wire, v # w PROVE WireOK(v)'
  BY <1>1, <1>5, WireKept DEF CliInv, Shape, SameWire
<1>6. Shape'
  BY <1>1 DEF CliInv, Shape
<1> QED
  BY <1>4, <1>5, <1>6, SeedBalance DEF CliInv, WireOK

(* A round of a shutdown loop: each session it tells is disconnected, the    *)
(* others are left alone; the round that ends the process leaves no session  *)
(* of an open wire untold.                                                   *)
LEMMA LoopKeeps ==
  ASSUME CliInv, command = "seed", alive, NEW n, NEW cursor, NEW calls,
         calls = [w \in Wire |-> calls[w]],
         \A w \in Wire : calls[w] \in {rpc[w], NoCall},
         LoopGoesOn(n, calls, cursor),
         UNCHANGED <<command, link, negotiated, givenUp, downloadVars>>
  PROVE  CliInv'
<1> DEFINE ahead == DueAfter(cursor)
           stop == IF ahead = {} THEN Len(activeControllers) ELSE Min(ahead)
           visited == {activeControllers[i][2] : i \in cursor + 1 .. stop}
           all == {w \in Wire : link[w] = "open" /\ controller[w] # None}
           told == IF ahead = {} THEN all ELSE {w \in visited : Active(w)}
           r == [w \in told |-> SeederOnDisconnect(controller[w])]
           started == {w \in told : r[w].action # NoAction}
<1>1. /\ controller' = [w \in Wire |-> IF w \in told THEN r[w].session
                                                      ELSE controller[w]]
      /\ rpc' = [w \in Wire |-> IF w \in told THEN CallOf(r[w], calls[w]) ELSE calls[w]]
      /\ claims' = [w \in Wire |-> claims[w] + IF w \in started THEN 1 ELSE 0]
      /\ ~alive' => ahead = {}
      /\ UNCHANGED <<command, link, negotiated, givenUp, opened>>
  BY DEF LoopGoesOn, CountClaims, downloadVars
<1>2. \A w \in told : r[w] = SeederOnDisconnect(controller[w]) /\ controller[w] # None
  BY DEF Active
<1>3. ~alive' => told = all
  BY <1>1
<1>4. \A w \in told : w \in started <=> r[w].action # NoAction
  OBVIOUS
<1>5. started \subseteq told
  OBVIOUS
<1> HIDE DEF told, r, started, ahead
<1>6. ASSUME NEW w \in Wire PROVE WireOK(w)'
  <2>1. CASE w \in told
    <3>1. Seeding(w)
      BY <1>2, <2>1, SeedingWire
    <3>2. SeederOK(controller[w], calls[w], Spent(w), link[w])
      BY <3>1 DEF Seeding, SeederOK, NoCall
    <3> DEFINE d == SeederOnDisconnect(controller[w])
               more == IF d.action = NoAction THEN 0 ELSE 1
               m == Spent(w) + more
    <3>3. SeederOK(d.session, CallOf(d, calls[w]), m, "closed")
          /\ d.session.state \in Ended
      BY <3>2, Disconnected
    <3>4. /\ controller'[w] = d.session /\ rpc'[w] = CallOf(d, calls[w])
          /\ claims'[w] = claims[w] + more
          /\ link'[w] = link[w] /\ opened'[w] = opened[w]
      BY <1>1, <1>2, <1>4, <2>1
    <3>7. Spent(w)' = m
      <4>1. more \in Nat
        OBVIOUS
      <4> HIDE DEF d, more
      <4> QED
        BY <1>1, <3>4, <4>1 DEF Spent, CliInv, Shape
    <3> HIDE DEF d, m
    <3>5. SeederOK(d.session, CallOf(d, calls[w]), m, link[w])
      BY <3>2, <3>3 DEF SeederOK
    <3>6. Seeding(w)'
      BY <1>1, <3>1, <3>3, <3>4, <3>5, <3>7 DEF Seeding
    <3> QED
      BY <3>6 DEF WireOK
  <2>2. CASE w \notin told
    <3>1. /\ controller'[w] = controller[w] /\ rpc'[w] = calls[w]
          /\ claims'[w] = claims[w] /\ link'[w] = link[w] /\ opened'[w] = opened[w]
      BY <1>1, <1>5, <2>2 DEF CliInv, Shape
    <3>2. CASE Unused(w)
      BY <1>1, <3>1, <3>2 DEF WireOK, Unused
    <3>3. CASE Seeding(w)
      <4>1. SeederOK(controller[w], calls[w], Spent(w), link[w]) /\ Spent(w)' = Spent(w)
        BY <1>1, <3>1, <3>3 DEF Seeding, SeederOK, NoCall, Spent
      <4>2. ~alive' => controller[w].state \in Ended
        <5>1. SUFFICES ASSUME ~alive' PROVE controller[w].state \in Ended
          OBVIOUS
        <5>2. link[w] # "open"
          BY <1>3, <2>2, <3>3, <5>1, SeedingWire
        <5> QED
          BY <3>3, <5>2 DEF CliInv, Shape, Link, Seeding, SeederOK
      <4> QED
        BY <1>1, <3>1, <3>3, <4>1, <4>2 DEF WireOK, Seeding
    <3> QED
      BY <3>2, <3>3 DEF CliInv, WireOK, Leeching
  <2> QED
    BY <2>1, <2>2
<1>7. Shape'
  <2>1. claims' \in [Wire -> Nat]
    BY <1>1 DEF CliInv, Shape
  <2> QED
    BY <1>1, <2>1 DEF CliInv, Shape
<1> QED
  BY <1>6, <1>7, SeedBalance DEF CliInv

LEMMA SeedClaimReturnsKeeps ==
  ASSUME CliInv, command = "seed", NEW w \in Wire, SeedClaimReturns(w),
         UNCHANGED <<command, downloadVars>>
  PROVE  CliInv'
<1> DEFINE calls == [rpc EXCEPT ![w] = NoCall]
<1>1. alive /\ rpc[w].call = "claim" /\ UNCHANGED <<link, negotiated, givenUp>>
  BY DEF SeedClaimReturns
<1>2. /\ calls = [v \in Wire |-> calls[v]]
      /\ \A v \in Wire : calls[v] \in {rpc[v], NoCall}
  BY DEF CliInv, Shape
<1>3. CASE \E n \in DOMAIN awaited : LoopGoesOn(n, calls, cursors[n])
  <2>1. PICK n \in DOMAIN awaited : LoopGoesOn(n, calls, cursors[n])
    BY <1>3
  <2> HIDE DEF calls
  <2> QED
    BY <1>1, <1>2, <2>1, LoopKeeps
<1>4. CASE rpc' = calls /\ UNCHANGED <<controller, cursors, awaited, claims, alive>>
  <2>1. UNCHANGED <<command, link, negotiated, controller, claims, givenUp, alive,
                    opened>>
    BY <1>1, <1>4 DEF downloadVars
  <2>2. ASSUME NEW v \in Wire PROVE WireOK(v)'
    <3>1. Unused(v) => Unused(v)'
      BY <1>2, <1>4, <2>1 DEF Unused
    <3>2. Seeding(v) => Seeding(v)'
      <4>1. Spent(v)' = Spent(v)
        BY <2>1 DEF Spent
      <4> QED
        BY <1>2, <1>4, <2>1, <4>1 DEF Seeding, SeederOK, NoCall
    <3> QED
      BY <3>1, <3>2 DEF CliInv, WireOK, Leeching
  <2>3. Shape'
    BY <1>2, <1>4, <2>1 DEF CliInv, Shape
  <2> QED
    BY <2>2, <2>3, SeedBalance DEF CliInv
<1> QED
  BY <1>3, <1>4 DEF SeedClaimReturns

LEMMA SeedSignalKeeps ==
  ASSUME CliInv, command = "seed", SeedSignal, UNCHANGED <<command, downloadVars>>
  PROVE  CliInv'
<1>1. /\ alive /\ LoopGoesOn(Len(awaited) + 1, rpc, 0)
      /\ UNCHANGED <<link, negotiated, givenUp>>
  BY DEF SeedSignal
<1>2. rpc = [w \in Wire |-> rpc[w]]
  BY DEF CliInv, Shape
<1> QED
  BY <1>1, <1>2, LoopKeeps
-----------------------------------------------------------------------------
(* --- the downloading process --- *)

LEMMA LeechingWire ==
  ASSUME CliInv, command = "download", NEW w \in Wire
  PROVE  /\ Leeching(w) <=> controller[w] # None
         /\ Unused(w) <=> controller[w] = None
         /\ rpc[w].call # "none" \/ w \in negotiated => controller[w] # None
<1>1. Unused(w) \/ Leeching(w)
  BY DEF CliInv, WireOK, Seeding
<1>2. Leeching(w) => controller[w] # None
  BY DEF Leeching, LeecherOK, ConnectionAssumption
<1>3. Unused(w) => controller[w] = None /\ rpc[w].call = "none" /\ w \notin negotiated
  BY DEF Unused, NoCall
<1> QED
  BY <1>1, <1>2, <1>3

(* onDisconnect and onComplete close a session. *)
LEMMA Ends ==
  ASSUME NEW s, NEW c, NEW n, LeecherOK(s, c, n)
  PROVE  LeecherOK(Closed(s), c, n) /\ Closed(s).state = "closed"
<1>1. Closed(s) = [s EXCEPT !.state = "closed"]
  BY DEF Closed, LeecherOnChannelClosed, Returns
<1>2. s \in LeecherSessions /\ "closed" \in SessionState
  BY DEF LeecherOK, SessionState
<1>3. Closed(s) \in LeecherSessions /\ Closed(s).state = "closed"
  BY <1>1, <1>2, StateSet
<1> QED
  BY <1>3 DEF LeecherOK

LEMMA DownloadClosesKeeps ==
  ASSUME CliInv, command = "download", NEW w \in Wire, NEW session,
         \/ session = None /\ controller[w] = None
         \/ LeecherOK(session, rpc[w], opened[w]),
         DownloadWireCloses(w, session),
         UNCHANGED <<command, negotiated, balance, opened, seedVars>>
  PROVE  CliInv'
<1>1. /\ link' = [link EXCEPT ![w] = "closed"]
      /\ controller' = [controller EXCEPT ![w] = IF session = None THEN None
                                                                   ELSE Closed(session)]
      /\ UNCHANGED <<command, negotiated, rpc, opened, claims, givenUp, balance>>
  BY DEF DownloadWireCloses, seedVars
<1>2. claims[w] = 0
  BY DEF CliInv, WireOK, Unused, Leeching, Seeding
<1>3. WireOK(w)'
  <2>1. CASE session = None /\ controller[w] = None
    BY <1>1, <2>1, LeechingWire DEF CliInv, Shape, WireOK, Unused
  <2>2. CASE LeecherOK(session, rpc[w], opened[w])
    <3>1. session # None
      BY <2>2 DEF LeecherOK, ConnectionAssumption
    <3>2. controller'[w] = Closed(session)
      BY <1>1, <3>1 DEF CliInv, Shape
    <3>3. LeecherOK(controller'[w], rpc'[w], opened'[w]) /\ controller'[w].state = "closed"
      BY <1>1, <2>2, <3>2, Ends
    <3>4. link'[w] = "closed" /\ claims'[w] = 0 /\ command' = "download"
      BY <1>1, <1>2 DEF CliInv, Shape
    <3> QED
      BY <3>3, <3>4 DEF WireOK, Leeching
  <2> QED
    BY <2>1, <2>2
<1>4. ASSUME NEW v \in Wire, v # w PROVE WireOK(v)'
  BY <1>1, <1>4, WireKept DEF CliInv, Shape, SameWire
<1>5. Shape'
  BY <1>1 DEF CliInv, Shape, Link
<1> QED
  BY <1>1, <1>3, <1>4, <1>5, MoneyKept DEF CliInv

LEMMA DownloadDisconnectsKeeps ==
  ASSUME CliInv, command = "download", NEW w \in Wire, DownloadDisconnects(w),
         UNCHANGED <<command, seedVars>>
  PROVE  CliInv'
<1>1. \/ controller[w] = None
      \/ LeecherOK(controller[w], rpc[w], opened[w])
  BY LeechingWire DEF Leeching
<1> QED
  BY <1>1, DownloadClosesKeeps DEF DownloadDisconnects, downloadVars

LEMMA NewLeecher ==
  /\ NewLeecherSession \in LeecherSessions
  /\ LeecherStart(NewLeecherSession).session \in LeecherSessions
<1>1. NewLeecherSession \in LeecherSessions /\ NewLeecherSession.state = "idle"
  BY SMTT(30) DEF NewLeecherSession, LeecherSessions, SessionState, NewAccounting,
     PieceAccounting
<1>2. LeecherStart(NewLeecherSession).session =
        [NewLeecherSession EXCEPT !.state = "handshake"]
  BY <1>1 DEF LeecherStart, InState, Returns
<1>3. "handshake" \in SessionState
  BY DEF SessionState
<1>4. [NewLeecherSession EXCEPT !.state = "handshake"] \in LeecherSessions
  BY <1>1, <1>3, SMT DEF LeecherSessions
<1> QED
  BY <1>1, <1>2, <1>4

LEMMA DownloadHandshakeKeeps ==
  ASSUME CliInv, command = "download", NEW w \in Wire, NEW kind,
         DownloadHandshake(w, kind), UNCHANGED <<command, seedVars>>
  PROVE  CliInv'
<1>1. controller[w] = None /\ Unused(w) /\ link[w] = "open" /\ UNCHANGED <<balance, opened>>
  BY LeechingWire DEF DownloadHandshake
<1>2. ASSUME NEW s \in LeecherSessions PROVE LeecherOK(s, rpc[w], opened[w])
  BY <1>1, <1>2 DEF Unused, LeecherOK, NoCall
<1>3. CASE /\ DownloadWireCloses(w, NewLeecherSession)
           /\ UNCHANGED negotiated
  BY <1>1, <1>2, <1>3, NewLeecher, DownloadClosesKeeps
<1>4. ASSUME NEW s \in LeecherSessions,
             controller' = [controller EXCEPT ![w] = s],
             negotiated' \in {negotiated, negotiated \cup {w}}, UNCHANGED <<link, rpc>>
      PROVE  CliInv'
  <2>1. UNCHANGED <<command, link, rpc, claims, givenUp, opened, balance>>
    BY <1>1, <1>4 DEF seedVars
  <2>2. Leeching(w)'
    BY <1>1, <1>2, <1>4, <2>1 DEF CliInv, Shape, Leeching, Unused
  <2>3. ASSUME NEW v \in Wire, v # w PROVE WireOK(v)'
    BY <1>4, <2>1, <2>3, WireKept DEF CliInv, Shape, SameWire
  <2>4. Shape'
    BY <1>4, <2>1 DEF CliInv, Shape
  <2> QED
    BY <2>1, <2>2, <2>3, <2>4, MoneyKept DEF CliInv, WireOK
<1> QED
  BY <1>3, <1>4, NewLeecher DEF DownloadHandshake

LEMMA DownloadExecuteKeeps ==
  ASSUME CliInv, command = "download", NEW w \in Wire, Leeching(w), link[w] = "open",
         NEW r, Steps(controller[w], r), DownloadExecute(w, r),
         UNCHANGED <<command, negotiated, balance, opened, seedVars>>
  PROVE  CliInv'
<1>1. LeecherOK(controller[w], rpc[w], opened[w]) /\ claims[w] = 0
  BY DEF Leeching
<1>2. LeecherOK(r.session, rpc[w], opened[w])
  BY <1>1 DEF Steps, LeecherOK, Young
<1>3. CASE r.action = ErrorAction
  BY <1>2, <1>3, DownloadClosesKeeps DEF DownloadExecute
<1>4. CASE r.action # ErrorAction
  <2> DEFINE call == IF r.action.action = "open_channel" THEN [call |-> "open"] ELSE rpc[w]
  <2>1. /\ controller' = [controller EXCEPT ![w] = r.session]
        /\ rpc' = [rpc EXCEPT ![w] = call]
        /\ UNCHANGED <<command, link, negotiated, claims, givenUp, opened, balance>>
    BY <1>4 DEF DownloadExecute, seedVars
  <2>2. LeecherOK(r.session, call, opened[w])
    <3>1. CASE r.action.action = "open_channel"
      BY <1>1, <3>1 DEF Steps, LeecherOK, Young
    <3>2. CASE r.action.action # "open_channel"
      BY <1>2, <3>2
    <3> QED
      BY <3>1, <3>2
  <2> HIDE DEF call
  <2>3. Leeching(w)'
    BY <1>1, <2>1, <2>2 DEF CliInv, Shape, Leeching
  <2>4. ASSUME NEW v \in Wire, v # w PROVE WireOK(v)'
    BY <2>1, <2>4, WireKept DEF CliInv, Shape, SameWire
  <2>5. Shape'
    BY <2>1 DEF CliInv, Shape
  <2> QED
    BY <2>1, <2>3, <2>4, <2>5, MoneyKept DEF CliInv, WireOK
<1> QED
  BY <1>3, <1>4

LEMMA DownloadReceivesKeeps ==
  ASSUME CliInv, command = "download", NEW w \in Wire, NEW m \in SeederMessages,
         DownloadReceives(w, m), UNCHANGED <<command, seedVars>>
  PROVE  CliInv'
<1>1. Leeching(w) /\ link[w] = "open"
  BY LeechingWire DEF DownloadReceives, InChunk
<1>2. Steps(controller[w], LeecherHandle(controller[w], m))
  BY <1>1, LeecherHandled DEF Leeching, LeecherOK
<1>3. /\ DownloadExecute(w, LeecherHandle(controller[w], m))
      /\ UNCHANGED <<negotiated, balance, opened>>
  BY DEF DownloadReceives, downloadVars
<1> QED
  BY <1>1, <1>2, <1>3, DownloadExecuteKeeps

LEMMA DownloadPieceKeeps ==
  ASSUME CliInv, command = "download", NEW w \in Wire, DownloadPiece(w),
         UNCHANGED <<command, seedVars>>
  PROVE  CliInv'
<1> DEFINE r == LeecherOnPieceReceived(controller[w], PieceBytes)
<1>1. UNCHANGED <<negotiated, balance, opened>> /\ link[w] = "open"
  BY DEF DownloadPiece, InChunk
<1>2. CASE Active(w)
  <2>1. Leeching(w)
    BY <1>2, LeechingWire DEF Active
  <2>2. Steps(controller[w], r)
    BY <2>1, PieceCounted DEF Leeching, LeecherOK
  <2>3. DownloadExecute(w, r)
    BY <1>2 DEF DownloadPiece
  <2> HIDE DEF r
  <2> QED
    BY <1>1, <2>1, <2>2, <2>3, DownloadExecuteKeeps
<1>3. CASE ~Active(w)
  <2>1. UNCHANGED <<command, link, controller, negotiated, rpc, claims, givenUp, opened,
                    balance>>
    BY <1>1, <1>3 DEF DownloadPiece, seedVars
  <2>2. Shape' /\ \A v \in Wire : WireOK(v)'
    BY <2>1, WireKept DEF CliInv, Shape, SameWire
  <2> QED
    BY <2>1, <2>2, MoneyKept DEF CliInv
<1> QED
  BY <1>2, <1>3

(* Sessions that are told, all at once, that the torrent or the process is   *)
(* at its end.                                                               *)
LEMMA AllEndKeeps ==
  ASSUME CliInv, command = "download", NEW S,
         \A w \in S \cap Wire : controller[w] # None,
         controller' = [w \in Wire |-> IF w \in S THEN Closed(controller[w])
                                                  ELSE controller[w]],
         UNCHANGED <<command, link, negotiated, rpc, balance, opened, seedVars>>
  PROVE  CliInv'
<1>1. UNCHANGED <<claims, givenUp>>
  BY DEF seedVars
<1>2. ASSUME NEW w \in Wire PROVE WireOK(w)'
  <2>1. CASE w \in S
    <3>1. LeecherOK(controller[w], rpc[w], opened[w]) /\ claims[w] = 0 /\ link[w] # "new"
      BY <2>1, LeechingWire DEF Leeching
    <3>2. LeecherOK(controller'[w], rpc[w], opened[w]) /\ controller'[w].state = "closed"
      BY <2>1, <3>1, Ends
    <3> QED
      BY <1>1, <3>1, <3>2 DEF WireOK, Leeching
  <2>2. CASE w \notin S
    <3>1. controller'[w] = controller[w]
      BY <2>2
    <3> QED
      BY <1>1, <3>1, WireKept DEF SameWire
  <2> QED
    BY <2>1, <2>2
<1>3. Shape'
  BY <1>1 DEF CliInv, Shape
<1> QED
  BY <1>2, <1>3, MoneyKept DEF CliInv

LEMMA DownloadDoneKeeps ==
  ASSUME CliInv, MapInv, command = "download", DownloadDone,
         UNCHANGED <<command, seedVars>>
  PROVE  CliInv'
<1>1. \A w \in Registered \cap Wire : controller[w] # None
  BY LeechingWire DEF Registered, MapInv
<1>2. /\ controller' = [w \in Wire |-> IF w \in Registered THEN Closed(controller[w])
                                                           ELSE controller[w]]
      /\ UNCHANGED <<link, negotiated, rpc, balance, opened>>
  BY DEF DownloadDone
<1> QED
  BY <1>1, <1>2, AllEndKeeps

LEMMA DownloadEndsKeeps ==
  ASSUME CliInv, command = "download", DownloadEnds, UNCHANGED <<command, seedVars>>
  PROVE  CliInv'
<1> DEFINE S == {w \in Wire : controller[w] # None /\ link[w] = "open"}
<1>1. controller' = [w \in Wire |-> IF w \in S THEN Closed(controller[w])
                                               ELSE controller[w]]
  BY DEF DownloadEnds
<1>2. UNCHANGED <<link, negotiated, rpc, balance, opened>>
  BY DEF DownloadEnds, downloadVars
<1>3. \A w \in S \cap Wire : controller[w] # None
  OBVIOUS
<1> HIDE DEF S
<1> QED
  BY <1>1, <1>2, <1>3, AllEndKeeps

LEMMA OneMore == \A d, c \in Nat : d * (c + 1) = d * c + d /\ d * c \in Nat
  BY SMT

(* A channel that lands moves one deposit from the wallet to its wire.       *)
LEMMA OpenReturnsKeeps ==
  ASSUME CliInv, command = "download", NEW w \in Wire, NEW landed \in BOOLEAN,
         OpenReturns(w, landed), UNCHANGED <<command, seedVars>>
  PROVE  CliInv'
<1>1. /\ rpc[w].call = "open"
      /\ landed => balance >= Deposit
      /\ balance' = IF landed THEN balance - Deposit ELSE balance
      /\ opened' = [opened EXCEPT ![w] = IF landed THEN @ + 1 ELSE @]
      /\ rpc' = [rpc EXCEPT ![w] = NoCall]
      /\ UNCHANGED <<command, link, controller, negotiated, claims, givenUp>>
  BY DEF OpenReturns, seedVars
<1>2. Leeching(w)
  BY <1>1, LeechingWire
<1>3. opened[w] = 0 /\ controller[w].state \notin Young
  BY <1>1, <1>2 DEF Leeching, LeecherOK, Young
<1>4. opened'[w] \in {0, 1} /\ (opened'[w] = 1 <=> landed)
  BY <1>1, <1>3 DEF CliInv, Shape
<1>5. Leeching(w)'
  BY <1>1, <1>2, <1>3, <1>4 DEF CliInv, Shape, Leeching, LeecherOK, NoCall, Young
<1>6. ASSUME NEW v \in Wire, v # w PROVE WireOK(v)'
  BY <1>1, <1>6, WireKept DEF CliInv, Shape, SameWire
<1>7. Shape'
  BY <1>1 DEF CliInv, Shape
<1>8. BalanceInv'
  <2>1. CASE ~landed
    <3>1. balance' = balance /\ opened' = opened
      BY <1>1, <2>1 DEF CliInv, Shape
    <3> QED
      BY <3>1, MoneyKept
  <2>2. CASE landed
    <3>1. Locked' = Locked \cup {w} /\ w \notin Locked
      BY <1>1, <1>3, <1>4, <2>2 DEF CliInv, Shape, Locked
    <3>2. IsFiniteSet(Locked)
      BY FS_Subset DEF Locked, ConnectionAssumption
    <3>3. Cardinality(Locked') = Cardinality(Locked) + 1 /\ Cardinality(Locked) \in Nat
      BY <3>1, <3>2, FS_AddElement, FS_CardinalityType
    <3>4. PICK b \in Balances : b = balance + Deposit * Cardinality(Locked)
      BY DEF CliInv, BalanceInv
    <3> DEFINE c == Cardinality(Locked)
    <3>5. Deposit * (c + 1) = Deposit * c + Deposit /\ Deposit * c \in Nat
      BY <3>3, OneMore, Zenon DEF DepositAssumption
    <3>6. balance' \in Nat /\ balance' = balance - Deposit
      BY <1>1, <2>2 DEF CliInv, BalanceInv, DepositAssumption
    <3>7. b = balance' + Deposit * Cardinality(Locked')
      <4>1. b = balance + Deposit * c /\ Cardinality(Locked') = c + 1
        BY <3>3, <3>4
      <4> HIDE DEF c
      <4> DEFINE x == Deposit * c
                 y == Deposit * (c + 1)
      <4>2. y = x + Deposit /\ x \in Nat /\ b = balance + x
        BY <3>5, <4>1
      <4>3. Deposit * Cardinality(Locked') = y
        BY <4>1
      <4> HIDE DEF x, y
      <4> QED
        BY <3>6, <4>2, <4>3 DEF CliInv, BalanceInv, DepositAssumption
    <3> QED
      BY <3>6, <3>7 DEF BalanceInv
  <2> QED
    BY <2>1, <2>2
<1> QED
  BY <1>5, <1>6, <1>7, <1>8 DEF CliInv, WireOK
-----------------------------------------------------------------------------
LEMMA DownloadRegistersKeeps ==
  ASSUME CliInv, command = "download", NEW w \in Wire, DownloadRegisters(w),
         UNCHANGED <<command, seedVars>>
  PROVE  CliInv'
<1>1. UNCHANGED <<command, link, controller, negotiated, rpc, claims, givenUp, opened,
                  balance>>
  BY DEF DownloadRegisters, seedVars
<1>2. Shape' /\ \A v \in Wire : WireOK(v)'
  BY <1>1, WireKept DEF CliInv, Shape, SameWire
<1> QED
  BY <1>1, <1>2, MoneyKept DEF CliInv
-----------------------------------------------------------------------------
(* --- both processes --- *)

LEMMA NewWireKeeps == CliInv /\ NewWire => CliInv'
<1> SUFFICES ASSUME CliInv, NEW w \in Wire, Connect(w),
                    UNCHANGED <<command, seedVars, downloadVars>>
             PROVE  CliInv'
  BY DEF NewWire
<1>1. /\ link[w] = "new" /\ link' = [link EXCEPT ![w] = "open"]
      /\ UNCHANGED <<command, controller, negotiated, rpc, alive, claims, givenUp,
                     opened>>
  BY DEF Connect, seedVars, downloadVars
<1>2. Unused(w)
  BY <1>1 DEF CliInv, WireOK, Seeding, SeederOK, Leeching
<1>3. ASSUME NEW v \in Wire PROVE WireOK(v)'
  <2>1. CASE v = w
    BY <1>1, <1>2, <2>1 DEF WireOK, Unused
  <2>2. CASE v # w
    BY <1>1, <2>2, WireKept DEF CliInv, Shape, SameWire
  <2> QED
    BY <2>1, <2>2
<1>4. Shape'
  BY <1>1 DEF CliInv, Shape, Link
<1> QED
  BY <1>3, <1>4, SeedBalance DEF CliInv

ProcessInv == CliInv /\ MapInv /\ LateInv

LEMMA StepKeeps == ProcessInv /\ [Next]_vars => ProcessInv'
<1> SUFFICES ASSUME CliInv, MapInv, LateInv, [Next]_vars PROVE CliInv' /\ MapInv'
  BY LateKept DEF ProcessInv, CliInv
<1>1. CASE NewWire
  BY <1>1, NewWireKeeps, MapConnected DEF NewWire, downloadVars
<1>2. CASE SeedStep
  <2>1. CliInv'
    BY <1>2, SeedHandshakeKeeps, SeedReceivesKeeps, SeedVerifiedKeeps,
       SeedClaimReturnsKeeps, SeedDisconnectsKeeps, SeedSignalKeeps DEF SeedStep
  <2> QED
    BY <1>2, <2>1, SeedMap
<1>3. CASE DownloadStep
  <2>1. CliInv'
    BY <1>3, DownloadHandshakeKeeps, DownloadRegistersKeeps, DownloadReceivesKeeps,
       OpenReturnsKeeps,
       DownloadPieceKeeps, DownloadDisconnectsKeeps, DownloadDoneKeeps,
       DownloadEndsKeeps DEF DownloadStep
  <2> QED
    BY <1>3, <2>1, DownloadMap
<1>4. CASE UNCHANGED vars
  <2>1. UNCHANGED <<command, link, peerId, controller, negotiated, activeControllers,
                    rpc, alive, claims, givenUp, balance, opened, overtaken>>
    BY <1>4 DEF vars, processVars, seedVars, downloadVars
  <2>2. Shape' /\ \A w \in Wire : WireOK(w)'
    BY <2>1, WireKept DEF CliInv, Shape, SameWire
  <2> QED
    BY <2>1, <2>2, MoneyKept, MapKept DEF CliInv
<1> QED
  BY <1>1, <1>2, <1>3, <1>4 DEF Next

LEMMA InitMap == Init => MapInv /\ LateInv
  BY DEF Init, ProcessInit, DownloadInit, MapInv, UniqueKeys, Link, LateInv

(* A process keeps the inductive invariant, whatever its peers send and in   *)
(* whatever order callbacks, answers of the chain and signals come.          *)
THEOREM CliInvariance == Spec => []ProcessInv
<1>1. Init => ProcessInv
  BY InitInv, InitMap DEF ProcessInv
<1>2. ProcessInv /\ [Next]_vars => ProcessInv'
  BY StepKeeps
<1> QED
  BY <1>1, <1>2, PTL DEF Spec

(* The close event, overlapping shutdown loops and client.destroy start at   *)
(* most one claim for a session (onDisconnect, seed.ts).                     *)
THEOREM OneClaimProved == Spec => []OneClaimPerSession
<1>1. ProcessInv => OneClaimPerSession
  <2> SUFFICES ASSUME CliInv, NEW w \in Wire PROVE claims[w] <= 1
    BY DEF ProcessInv, OneClaimPerSession
  <2>1. CASE Seeding(w)
    BY <2>1 DEF Seeding, SeederOK, Spent, CliInv, Shape
  <2> QED
    BY <2>1 DEF CliInv, WireOK, Unused, Leeching
<1> QED
  BY <1>1, CliInvariance, PTL

(* A check is claimed, at the latest when its wire closes or the process     *)
(* ends and whatever the Map has done with its session's entry, or a         *)
(* channel_closed made the session give it up, and never both.               *)
THEOREM NoClaimForgottenProved == Spec => []NoClaimForgotten
<1>1. ProcessInv => NoClaimForgotten
  <2> SUFFICES ASSUME CliInv, NEW w \in Wire, controller[w] # None, command = "seed",
                      link[w] = "closed" \/ ~alive,
                      controller[w].highestCheck # NoCheck
               PROVE  claims[w] = 1 <=> w \notin givenUp
    BY DEF NoClaimForgotten, ProcessInv
  <2>1. Seeding(w)
    BY SeedingWire
  <2>2. Spent(w) = 1
    BY <2>1 DEF Seeding, SeederOK, Ended
  <2> QED
    BY <2>2 DEF Spent, CliInv, Shape
<1> QED
  BY <1>1, CliInvariance, PTL

(* A wire takes at most one deposit from the wallet, and the channels        *)
(* account for all it has lost (openChannel, download.ts).                   *)
THEOREM OneOpeningProved == Spec => []OneOpeningPerWire
<1>1. ProcessInv => OneOpeningPerWire
  <2> SUFFICES ASSUME CliInv PROVE OneOpeningPerWire
    BY DEF ProcessInv
  <2>1. \A w \in Wire : opened[w] <= 1
    BY DEF CliInv, WireOK, Unused, Seeding, Leeching, LeecherOK
  <2>2. Locked = {w \in Wire : opened[w] = 1}
    BY DEF Locked
  <2> QED
    BY <2>1, <2>2 DEF CliInv, BalanceInv, OneOpeningPerWire
<1> QED
  BY <1>1, CliInvariance, PTL

(* Whatever deletes and replaces entries, the Map holds one controller per   *)
(* peer id, each of an open wire, or of a closed session that its handshake's*)
(* continuation registered late (activeControllers, seed.ts, download.ts).   *)
THEOREM NoStaleControllersProved == Spec => []NoStaleControllers
<1>1. ASSUME CliInv, LateInv, NEW w \in Wire, w \in overtaken, w \in negotiated,
             link[w] = "closed"
      PROVE  Stale(w)
  <2>1. command = "download"
    BY <1>1 DEF CliInv, Shape, LateInv
  <2>2. Leeching(w)
    BY <1>1, <2>1, LeechingWire
  <2> QED
    BY <1>1, <2>2 DEF Leeching, Stale
<1>2. ASSUME ProcessInv, NEW i \in DOMAIN activeControllers
      PROVE  LET w == activeControllers[i][2]
             IN  /\ link[w] = "open" \/ Stale(w)
                 /\ peerId[w] = activeControllers[i][1]
  <2>1. activeControllers[i][2] \in Wire
    BY <1>2 DEF ProcessInv, MapInv
  <2> QED
    BY <1>1, <1>2, <2>1 DEF ProcessInv, MapInv
<1>3. ProcessInv => NoStaleControllers
  BY <1>2 DEF ProcessInv, MapInv, UniqueKeys, NoStaleControllers
<1> QED
  BY <1>3, CliInvariance, PTL
-----------------------------------------------------------------------------
(* --- closed sessions --- *)

(* What a step may do to a closed session s and the call c it awaits. *)
Rests(s, c, s2, c2) ==
  s2.state = "closed" /\ s2.accounting = s.accounting /\ c2 \in {c, NoCall}

LEMMA SeederRests ==
  ASSUME NEW s \in SeederSessions, s.state = "closed"
  PROVE  /\ LET r == SeederOnDisconnect(s)
            IN  r.action = NoAction /\ \A c : Rests(s, c, r.session, CallOf(r, c))
         /\ \A m \in LeecherMessages, valid \in BOOLEAN :
              LET r == SeederHandle(s, m, valid)
              IN  \/ r.action = ErrorAction /\ r.session = s
                  \/ r.action # ErrorAction /\ \A c : Rests(s, c, r.session, CallOf(r, c))
         /\ \A valid \in BOOLEAN : \A c :
              Rests(s, c, (IF valid THEN ConfirmChannel(s, Deposit)
                                    ELSE RejectChannel(s)).session, NoCall)
<1> DEFINE t == [s EXCEPT !.state = "closed"]
<1>1. t.state = "closed" /\ t.accounting = s.accounting
  BY DEF SeederSessions
<1>2. SeederOnDisconnect(s) = Returns(t, NoAction)
  BY DEF SeederOnDisconnect
<1>3. RejectChannel(s).session = t
  BY DEF RejectChannel, Returns
<1> HIDE DEF t
<1>4. \A c : CallOf(Returns(t, NoAction), c) = c
  BY DEF CallOf, Returns, NoAction
<1>5. ASSUME NEW m \in LeecherMessages, NEW valid \in BOOLEAN
      PROVE  SeederHandle(s, m, valid) \in {Returns(s, ErrorAction), Returns(t, NoAction)}
  <2>1. CASE m.type = "channel_closed"
    BY <2>1 DEF SeederHandle, SeederOnChannelClosed, t
  <2>2. CASE m.type # "channel_closed"
    BY <2>2 DEF LeecherMessages, SeederHandle, SeederOnEcdhInit, SeederOnChannelOpened,
                SeederOnPaymentCheck, InState
  <2> QED
    BY <2>1, <2>2
<1>6. ConfirmChannel(s, Deposit).session = s
  BY DEF ConfirmChannel, InState, Returns
<1>7. /\ Returns(t, NoAction).session = t /\ Returns(t, NoAction).action = NoAction
      /\ Returns(s, ErrorAction).session = s /\ Returns(s, ErrorAction).action = ErrorAction
      /\ NoAction # ErrorAction
  BY DEF Returns, NoAction, ErrorAction
<1>8. \A c : Rests(s, c, t, c)
  BY <1>1 DEF Rests
<1>9. ASSUME NEW m \in LeecherMessages, NEW valid \in BOOLEAN
      PROVE  LET r == SeederHandle(s, m, valid)
             IN  \/ r.action = ErrorAction /\ r.session = s
                 \/ r.action # ErrorAction /\ \A c : Rests(s, c, r.session, CallOf(r, c))
  <2>1. CASE SeederHandle(s, m, valid) = Returns(s, ErrorAction)
    BY <1>7, <2>1
  <2>2. CASE SeederHandle(s, m, valid) = Returns(t, NoAction)
    BY <1>4, <1>7, <1>8, <2>2
  <2> QED
    BY <1>5, <2>1, <2>2
<1> QED
  BY <1>1, <1>2, <1>3, <1>4, <1>6, <1>7, <1>9 DEF Rests

LEMMA ClosedRests ==
  ASSUME NEW s \in LeecherSessions
  PROVE  Closed(s).state = "closed" /\ Closed(s).accounting = s.accounting
BY DEF Closed, LeecherOnChannelClosed, Returns, LeecherSessions

LEMMA LeecherRests ==
  ASSUME NEW s \in LeecherSessions, s.state = "closed"
  PROVE  \A m \in SeederMessages :
           LET r == LeecherHandle(s, m)
           IN  /\ r.session \in LeecherSessions
               /\ r.session.accounting = s.accounting
               /\ r.action # ErrorAction =>
                    r.session.state = "closed" /\ r.action = NoAction
<1> DEFINE t == [s EXCEPT !.state = "closed"]
           e == [s EXCEPT !.state = "error"]
<1>1. /\ t \in LeecherSessions /\ t.state = "closed" /\ t.accounting = s.accounting
      /\ e \in LeecherSessions /\ e.accounting = s.accounting
  BY DEF LeecherSessions, SessionState
<1>2. LeecherOnChannelClosed(s) = Returns(t, NoAction)
  BY DEF LeecherOnChannelClosed
<1>3. LeecherOnChannelRejected(s) = Returns(e, ErrorAction)
  BY DEF LeecherOnChannelRejected
<1> HIDE DEF t, e
<1>4. ASSUME NEW m \in SeederMessages
      PROVE  LeecherHandle(s, m) \in {Returns(s, ErrorAction), Returns(s, NoAction),
                                     Returns(t, NoAction), Returns(e, ErrorAction)}
  BY <1>2, <1>3
     DEF SeederMessages, LeecherHandle, LeecherOnEcdhInit, LeecherOnChannelConfirmed,
         LeecherOnPaymentCheckRequired, InState
<1>5. \A x, a : Returns(x, a).session = x /\ Returns(x, a).action = a
  BY DEF Returns
<1>6. ASSUME NEW m \in SeederMessages
      PROVE  LET r == LeecherHandle(s, m)
             IN  /\ r.session \in LeecherSessions
                 /\ r.session.accounting = s.accounting
                 /\ r.action # ErrorAction =>
                      r.session.state = "closed" /\ r.action = NoAction
  BY <1>1, <1>4, <1>5
<1> QED
  BY <1>6

Rested(w) == Rests(controller[w], rpc[w], controller'[w], rpc'[w])

LEMMA RestsAlone ==
  ASSUME NEW w, controller[w].state = "closed", controller'[w] = controller[w],
         rpc'[w] \in {rpc[w], NoCall}
  PROVE  Rested(w)
BY DEF Rested, Rests

LEMMA SeedRested ==
  ASSUME CliInv, SeedStep, NEW w \in Wire, controller[w] # None,
         controller[w].state = "closed"
  PROVE  Rested(w)
<1> DEFINE d == SeederOnDisconnect(controller[w])
<1>1. command = "seed" /\ controller[w] \in SeederSessions
  BY SeedingWire DEF SeedStep, Seeding, SeederOK
<1>2. d.action = NoAction /\ \A c : Rests(controller[w], c, d.session, CallOf(d, c))
  BY <1>1, SeederRests
<1> HIDE DEF d
<1>3. ASSUME NEW v \in Wire, SeedWireCloses(v, controller[v]) PROVE Rested(w)
  <2>1. CASE v = w
    <3>1. controller'[w] = d.session /\ rpc'[w] = CallOf(d, rpc[w])
      BY <1>3, <2>1 DEF SeedWireCloses, d, CliInv, Shape
    <3> QED
      BY <1>2, <3>1 DEF Rested
  <2>2. CASE v # w
    BY <1>3, <2>2, RestsAlone DEF SeedWireCloses, CliInv, Shape
  <2> QED
    BY <2>1, <2>2
<1>4. ASSUME NEW n, NEW cursor, NEW calls, \A v \in Wire : calls[v] \in {rpc[v], NoCall},
             LoopGoesOn(n, calls, cursor)
      PROVE  Rested(w)
  <2>1. \/ controller'[w] = d.session /\ rpc'[w] = CallOf(d, calls[w])
        \/ controller'[w] = controller[w] /\ rpc'[w] = calls[w]
    BY <1>4 DEF LoopGoesOn, d
  <2>2. Rests(controller[w], calls[w], d.session, CallOf(d, calls[w]))
    BY <1>2
  <2>3. calls[w] \in {rpc[w], NoCall}
    BY <1>4
  <2> QED
    BY <2>1, <2>2, <2>3 DEF Rested, Rests
<1>5. ASSUME NEW v \in Wire, NEW advertised \in BOOLEAN, SeedHandshake(v, advertised)
      PROVE  Rested(w)
  BY <1>5, RestsAlone DEF SeedHandshake, CliInv, Shape
<1>6. ASSUME NEW v \in Wire, NEW m \in LeecherMessages, NEW valid \in BOOLEAN,
             SeedReceives(v, m, valid)
      PROVE  Rested(w)
  <2>1. CASE v = w
    <3> DEFINE r == SeederHandle(controller[w], m, valid)
    <3>1. \/ r.action = ErrorAction /\ r.session = controller[w]
          \/ r.action # ErrorAction
             /\ \A c : Rests(controller[w], c, r.session, CallOf(r, c))
      BY <1>1, SeederRests
    <3>2. CASE r.action = ErrorAction
      BY <1>3, <1>6, <2>1, <3>1, <3>2 DEF SeedReceives
    <3>3. CASE r.action # ErrorAction
      <4>1. controller'[w] = r.session /\ rpc'[w] = CallOf(r, rpc[w])
        BY <1>6, <2>1, <3>3 DEF SeedReceives, CliInv, Shape
      <4> QED
        BY <3>1, <3>3, <4>1 DEF Rested
    <3> QED
      BY <3>2, <3>3
  <2>2. CASE v # w
    <3>1. controller'[w] = controller[w] /\ rpc'[w] = rpc[w]
      BY <1>6, <2>2 DEF SeedReceives, SeedWireCloses, CliInv, Shape
    <3> QED
      BY <3>1, RestsAlone
  <2> QED
    BY <2>1, <2>2
<1>7. ASSUME NEW v \in Wire, NEW valid \in BOOLEAN, SeedVerified(v, valid, Deposit)
      PROVE  Rested(w)
  <2> DEFINE r == IF valid THEN ConfirmChannel(controller[w], Deposit)
                           ELSE RejectChannel(controller[w])
  <2>1. CASE v = w
    <3>1. controller'[w] = r.session /\ rpc'[w] = NoCall
      BY <1>7, <2>1 DEF SeedVerified, CliInv, Shape
    <3>2. Rests(controller[w], rpc[w], r.session, NoCall)
      BY <1>1, SeederRests
    <3> QED
      BY <3>1, <3>2 DEF Rested
  <2>2. CASE v # w
    BY <1>7, <2>2, RestsAlone DEF SeedVerified, CliInv, Shape
  <2> QED
    BY <2>1, <2>2
<1>8. ASSUME NEW v \in Wire, SeedClaimReturns(v) PROVE Rested(w)
  <2> DEFINE calls == [rpc EXCEPT ![v] = NoCall]
  <2>1. \A u \in Wire : calls[u] \in {rpc[u], NoCall}
    BY DEF CliInv, Shape
  <2> HIDE DEF calls
  <2>2. CASE \E n \in DOMAIN awaited : LoopGoesOn(n, calls, cursors[n])
    BY <1>4, <2>1, <2>2
  <2>3. CASE rpc' = calls /\ UNCHANGED controller
    BY <2>1, <2>3, RestsAlone
  <2> QED
    BY <1>8, <2>2, <2>3 DEF SeedClaimReturns, calls
<1>9. ASSUME NEW v \in Wire, SeedDisconnects(v) PROVE Rested(w)
  <2>1. CASE controller[v] # None
    BY <1>3, <1>9, <2>1 DEF SeedDisconnects
  <2>2. CASE controller[v] = None
    BY <1>9, <2>2, RestsAlone DEF SeedDisconnects
  <2> QED
    BY <2>1, <2>2
<1>10. CASE SeedSignal
  BY <1>4, <1>10 DEF SeedSignal
<1> QED
  BY <1>5, <1>6, <1>7, <1>8, <1>9, <1>10 DEF SeedStep

LEMMA DownloadRested ==
  ASSUME CliInv, DownloadStep, NEW w \in Wire, controller[w] # None,
         controller[w].state = "closed"
  PROVE  Rested(w)
<1>1. command = "download" /\ controller[w] \in LeecherSessions
  BY LeechingWire DEF DownloadStep, Leeching, LeecherOK
<1>2. ASSUME NEW s \in LeecherSessions, s.accounting = controller[w].accounting,
             controller'[w] = Closed(s), rpc'[w] = rpc[w]
      PROVE  Rested(w)
  BY <1>2, ClosedRests DEF Rested, Rests
<1>3. ASSUME NEW v \in Wire, NEW s, DownloadWireCloses(v, s),
             v = w => s \in LeecherSessions /\ s.accounting = controller[w].accounting
      PROVE  Rested(w)
  <2>1. CASE v = w
    <3>1. s # None
      BY <1>3, <2>1 DEF ConnectionAssumption
    <3>2. controller'[w] = Closed(s) /\ rpc'[w] = rpc[w]
      BY <1>3, <2>1, <3>1 DEF DownloadWireCloses, CliInv, Shape
    <3> QED
      BY <1>2, <1>3, <2>1, <3>2
  <2>2. CASE v # w
    BY <1>3, <2>2, RestsAlone DEF DownloadWireCloses, CliInv, Shape
  <2> QED
    BY <2>1, <2>2
<1>4. ASSUME NEW v \in Wire, v # w, NEW r, DownloadExecute(v, r) PROVE Rested(w)
  <2>1. controller'[w] = controller[w] /\ rpc'[w] = rpc[w]
    BY <1>4 DEF DownloadExecute, DownloadWireCloses, CliInv, Shape
  <2> QED
    BY <2>1, RestsAlone
<1>5. ASSUME NEW v \in Wire, NEW kind, DownloadHandshake(v, kind) PROVE Rested(w)
  <2>1. v # w
    BY <1>5 DEF DownloadHandshake
  <2>2. controller'[w] = controller[w] /\ rpc'[w] = rpc[w]
    BY <1>5, <2>1 DEF DownloadHandshake, DownloadWireCloses, CliInv, Shape
  <2> QED
    BY <2>2, RestsAlone
<1>6. ASSUME NEW v \in Wire, NEW m \in SeederMessages, DownloadReceives(v, m)
      PROVE  Rested(w)
  <2> DEFINE r == LeecherHandle(controller[v], m)
  <2>1. DownloadExecute(v, r)
    BY <1>6 DEF DownloadReceives
  <2>2. CASE v = w
    <3>1. /\ r.session \in LeecherSessions
          /\ r.session.accounting = controller[w].accounting
          /\ r.action # ErrorAction =>
               r.session.state = "closed" /\ r.action = NoAction
      BY <1>1, <2>2, LeecherRests
    <3> HIDE DEF r
    <3>2. CASE r.action = ErrorAction
      BY <1>3, <2>1, <2>2, <3>1, <3>2 DEF DownloadExecute
    <3>3. CASE r.action # ErrorAction
      <4>1. r.action.action # "open_channel"
        BY <3>1, <3>3 DEF NoAction
      <4>2. controller'[w] = r.session /\ rpc'[w] = rpc[w]
        BY <2>1, <2>2, <3>3, <4>1 DEF DownloadExecute, CliInv, Shape
      <4> QED
        BY <3>1, <3>3, <4>2 DEF Rested, Rests
    <3> QED
      BY <3>2, <3>3
  <2> HIDE DEF r
  <2>3. CASE v # w
    BY <1>4, <2>1, <2>3
  <2> QED
    BY <2>2, <2>3
<1>7. ASSUME NEW v \in Wire, NEW landed \in BOOLEAN, OpenReturns(v, landed)
      PROVE  Rested(w)
  BY <1>7, RestsAlone DEF OpenReturns, CliInv, Shape
<1>8. ASSUME NEW v \in Wire, DownloadPiece(v) PROVE Rested(w)
  <2>1. CASE Active(v)
    <3>1. v # w
      BY <2>1 DEF Active
    <3> QED
      BY <1>4, <1>8, <2>1, <3>1 DEF DownloadPiece
  <2>2. CASE ~Active(v)
    BY <1>8, <2>2, RestsAlone DEF DownloadPiece
  <2> QED
    BY <2>1, <2>2
<1>9. ASSUME NEW v \in Wire, DownloadDisconnects(v) PROVE Rested(w)
  BY <1>1, <1>3, <1>9 DEF DownloadDisconnects
<1>10. ASSUME controller'[w] \in {controller[w], Closed(controller[w])}, UNCHANGED rpc
       PROVE  Rested(w)
  BY <1>1, <1>2, <1>10, RestsAlone
<1>11. CASE DownloadDone \/ DownloadEnds
  BY <1>10, <1>11 DEF DownloadDone, DownloadEnds
<1>12. ASSUME NEW v \in Wire, DownloadRegisters(v) PROVE Rested(w)
  BY <1>12, RestsAlone DEF DownloadRegisters
<1> QED
  BY <1>5, <1>6, <1>7, <1>8, <1>9, <1>11, <1>12 DEF DownloadStep

(* A closed session stays closed and its accounting fixed: late messages,    *)
(* answers of the chain, pieces, a second close and shutdown loops find it   *)
(* closed (session.ts).                                                      *)
THEOREM ClosedForGoodProved == Spec => ClosedForGood
<1>1. ASSUME CliInv, [Next]_vars, NEW w \in Wire, controller[w] # None,
             controller[w].state = "closed"
      PROVE  Rested(w)
  <2>1. CASE NewWire
    BY <1>1, <2>1, RestsAlone DEF NewWire, Connect
  <2>2. CASE UNCHANGED vars
    BY <1>1, <2>2, RestsAlone DEF vars, processVars
  <2> QED
    BY <1>1, <2>1, <2>2, SeedRested, DownloadRested DEF Next
<1>2. CliInv /\ [Next]_vars =>
        [\A w \in Wire :
           (controller[w] # None /\ controller[w].state = "closed") =>
             /\ controller'[w].state = "closed"
             /\ controller'[w].accounting = controller[w].accounting
             /\ rpc'[w] \in {rpc[w], NoCall}]_vars
  BY <1>1 DEF Rested, Rests
<1>3. ProcessInv => CliInv
  BY DEF ProcessInv
<1> QED
  BY <1>2, <1>3, CliInvariance, PTL DEF Spec, ClosedForGood
-----------------------------------------------------------------------------
(* --- what the processes keep in common for their wires: the loops over --- *)
(* --- activeControllers, and the claims a shutdown awaits               --- *)
-----------------------------------------------------------------------------
(* --- the inductive invariant --- *)

(* No other wire that was ever open has this one's peer id. *)
Alone(w) == \A v \in Wire \ {w} : link[v] # "new" => peerId[v] # peerId[w]

EntryAt(w, i) == i \in DOMAIN activeControllers /\ activeControllers[i] = <<peerId[w], w>>

(* A session that has negotiated and whose peer id is its own is in the Map  *)
(* as long as its wire is open.                                              *)
RegisteredAt(w) ==
  (command = "seed" /\ link[w] = "open" /\ controller[w] # None
    /\ w \in negotiated /\ Alone(w)) =>
    \E i \in DOMAIN activeControllers : EntryAt(w, i)

LoopInv ==
  /\ negotiated \subseteq Wire
  /\ alive \in BOOLEAN
  /\ awaited \in Seq(Wire \cup {None})
  /\ cursors \in Seq(0 .. Len(activeControllers))
  /\ Len(awaited) = Len(cursors)
  /\ command = "download" => awaited = <<>> /\ due = {}
  /\ due \subseteq {w \in Wire : link[w] # "new" /\ controller[w] # None}
  /\ givenUp \subseteq Wire

(* A loop that has passed the entry of a wire has started its claim, and is  *)
(* past it unless the claim has returned; one that has not will find a check *)
(* there, unless the peer's channel_closed has made the session give it up.  *)
Claimed(w) == claims[w] = 1 /\ (rpc[w] = NoCall \/ awaited[1] = w)
Progress(w, i) == IF i <= cursors[1] THEN Claimed(w) ELSE Due(w)

Awaits(w) == w \in due /\ w \in negotiated /\ w \notin givenUp
SettledAt(w) ==
  (Len(awaited) = 1 /\ Awaits(w) /\ link[w] = "open" /\ Alone(w)) =>
    IF alive THEN \E i \in DOMAIN activeControllers : EntryAt(w, i) /\ Progress(w, i)
             ELSE claims[w] = 1 /\ rpc[w] = NoCall

ShutdownInv == LoopInv /\ \A w \in Wire : RegisteredAt(w) /\ SettledAt(w)
-----------------------------------------------------------------------------
(* --- the entries and the loops over them --- *)

LEMMA Least ==
  ASSUME NEW S, S \subseteq Nat, S # {}
  PROVE  Min(S) \in S /\ \A y \in S : Min(S) <= y
<1> DEFINE R == OpToRel(<, Nat)
<1>1. IsWellFoundedOn(R, Nat)
  BY NatLessThanWellFounded
<1>2. \A x, y \in Nat : x < y => <<x, y>> \in R
  BY DEF OpToRel
<1> HIDE DEF R
<1>3. PICK x \in S : \A y \in S : ~(<<y, x>> \in R)
  BY <1>1, WFMin
<1>4. ASSUME NEW y \in S PROVE x <= y
  <2>1. x \in Nat /\ y \in Nat /\ ~(y < x)
    BY <1>2, <1>3
  <2> QED
    BY <2>1
<1> QED
  BY <1>3, <1>4 DEF Min

(* An entry under another key keeps its place, and the new one is there.     *)
LEMMA SetEntries ==
  ASSUME NEW map \in Seq(PeerId \X Wire), NEW key \in PeerId, NEW w \in Wire
  PROVE  LET after == MapSet(map, key, w)
         IN  /\ after \in Seq(PeerId \X Wire) /\ Len(map) <= Len(after)
             /\ \E i \in DOMAIN after : after[i] = <<key, w>>
             /\ \A i \in DOMAIN map : map[i][1] # key => i \in DOMAIN after /\ after[i] = map[i]
<1>1. DOMAIN map = 1 .. Len(map) /\ Len(map) \in Nat
  OBVIOUS
<1>2. CASE \E i \in DOMAIN map : map[i][1] = key
  <2> DEFINE after == [i \in DOMAIN map |-> IF map[i][1] = key THEN <<key, w>> ELSE map[i]]
  <2>1. after \in Seq(PeerId \X Wire) /\ Len(after) = Len(map) /\ DOMAIN after = DOMAIN map
    BY <1>1
  <2>2. \E i \in DOMAIN after : after[i] = <<key, w>>
    BY <1>2, <2>1
  <2>3. \A i \in DOMAIN map : map[i][1] # key => i \in DOMAIN after /\ after[i] = map[i]
    OBVIOUS
  <2>4. MapSet(map, key, w) = after
    BY <1>2 DEF MapSet
  <2> HIDE DEF after
  <2> QED
    BY <1>1, <2>1, <2>2, <2>3, <2>4
<1>3. CASE ~\E i \in DOMAIN map : map[i][1] = key
  <2> DEFINE after == Append(map, <<key, w>>)
  <2>1. after \in Seq(PeerId \X Wire) /\ Len(after) = Len(map) + 1
    OBVIOUS
  <2>2. /\ \A i \in 1 .. Len(map) : after[i] = map[i]
        /\ after[Len(map) + 1] = <<key, w>>
    OBVIOUS
  <2>3. MapSet(map, key, w) = after
    BY <1>3 DEF MapSet
  <2> HIDE DEF after
  <2>4. DOMAIN after = 1 .. Len(map) + 1
    BY <2>1
  <2> QED
    BY <1>1, <2>1, <2>2, <2>3, <2>4
<1> QED
  BY <1>2, <1>3

(* Where a loop that stood at c stands when a key is deleted. *)
Passed(map, c, key) == Cardinality({j \in 1 .. c : map[j][1] # key})

LEMMA PassedEntries ==
  ASSUME NEW map \in Seq(PeerId \X Wire), UniqueKeys(map), NEW key,
         NEW c \in 0 .. Len(map), NEW k \in DOMAIN map, map[k][1] = key
  PROVE  Passed(map, c, key) = IF k <= c THEN c - 1 ELSE c
<1> DEFINE S == 1 .. c
           T == {j \in 1 .. c : map[j][1] # key}
<1>1. DOMAIN map = 1 .. Len(map) /\ Len(map) \in Nat /\ c \in Nat /\ k \in Nat \ {0}
  OBVIOUS
<1>2. IsFiniteSet(S) /\ Cardinality(S) = c
  <2>1. 1 \in Int /\ c \in Int
    BY <1>1
  <2>2. IsFiniteSet(1 .. c) /\ Cardinality(1 .. c) = IF 1 > c THEN 0 ELSE c - 1 + 1
    BY <2>1, FS_Interval
  <2> QED
    BY <1>1, <2>2
<1>3. \A j \in S : map[j][1] = key <=> j = k
  BY <1>1 DEF UniqueKeys
<1>4. CASE k <= c
  <2>1. T = S \ {k}
    BY <1>3
  <2>2. k \in S
    BY <1>1, <1>4
  <2> HIDE DEF S, T
  <2>3. Cardinality(S \ {k}) = Cardinality(S) - 1
    BY <1>2, <2>2, FS_RemoveElement
  <2> QED
    BY <1>2, <1>4, <2>1, <2>3 DEF T, Passed
<1>5. CASE ~(k <= c)
  <2>1. k \notin S
    BY <1>1, <1>5
  <2>2. T = S
    BY <1>3, <2>1
  <2> HIDE DEF S, T
  <2> QED
    BY <1>2, <1>5, <2>2 DEF T, Passed
<1> QED
  BY <1>4, <1>5

(* A deleted entry moves the later ones and the loops behind it alike. *)
LEMMA DeletedEntries ==
  ASSUME NEW map \in Seq(PeerId \X Wire), UniqueKeys(map), NEW key,
         NEW c \in 0 .. Len(map)
  PROVE  LET after == MapDelete(map, key)
             passed == Passed(map, c, key)
         IN  /\ after \in Seq(PeerId \X Wire)
             /\ passed \in 0 .. Len(after)
             /\ \A i \in DOMAIN map : map[i][1] # key =>
                  \E j \in DOMAIN after : after[j] = map[i] /\ (j <= passed <=> i <= c)
<1> DEFINE passed == Passed(map, c, key)
           result == MapDelete(map, key)
<1>1. DOMAIN map = 1 .. Len(map) /\ Len(map) \in Nat /\ c \in Nat
  OBVIOUS
<1>2. result \in Seq(PeerId \X Wire)
  BY EntriesAfterDelete
<1>3. CASE \E i \in DOMAIN map : map[i][1] = key
  <2> DEFINE k == CHOOSE i \in DOMAIN map : map[i][1] = key
             after == [i \in 1 .. Len(map) - 1 |-> IF i < k THEN map[i] ELSE map[i + 1]]
  <2>1. k \in DOMAIN map /\ map[k][1] = key
    BY <1>3
  <2>2. result = after
    BY <1>3 DEF MapDelete
  <2> HIDE DEF k, result
  <2>3. passed = IF k <= c THEN c - 1 ELSE c
    BY <2>1, PassedEntries
  <2> HIDE DEF passed
  <2>4. Len(map) - 1 \in Nat /\ DOMAIN after = 1 .. Len(map) - 1
    BY <1>1, <2>1
  <2>5. \A i \in 1 .. Len(map) - 1 : after[i] = IF i < k THEN map[i] ELSE map[i + 1]
    OBVIOUS
  <2> HIDE DEF after
  <2>6. Len(after) = Len(map) - 1
    BY <1>2, <2>2, <2>4
  <2>7. passed \in 0 .. Len(after)
    BY <1>1, <2>1, <2>3, <2>6
  <2>8. ASSUME NEW i \in DOMAIN map, map[i][1] # key
        PROVE  \E j \in DOMAIN after : after[j] = map[i] /\ (j <= passed <=> i <= c)
    <3>1. i # k
      BY <2>1, <2>8
    <3>2. CASE i < k
      <4>1. i \in DOMAIN after /\ after[i] = map[i] /\ (i <= passed <=> i <= c)
        BY <1>1, <2>1, <2>3, <2>4, <2>5, <3>2
      <4> QED
        BY <4>1
    <3>3. CASE k < i
      <4>1. i - 1 \in DOMAIN after /\ ~(i - 1 < k) /\ (i - 1) + 1 = i
        BY <1>1, <2>1, <2>4, <3>3
      <4>2. after[i - 1] = map[i]
        BY <2>4, <2>5, <4>1
      <4>3. i - 1 <= passed <=> i <= c
        BY <1>1, <2>1, <2>3, <3>3
      <4> QED
        BY <4>1, <4>2, <4>3
    <3> QED
      BY <1>1, <2>1, <3>1, <3>2, <3>3
  <2> QED
    BY <1>2, <2>2, <2>7, <2>8 DEF passed, result
<1>4. CASE ~\E i \in DOMAIN map : map[i][1] = key
  <2>1. result = map
    BY <1>4 DEF MapDelete
  <2> DEFINE T == {j \in 1 .. c : map[j][1] # key}
  <2>2. T = 1 .. c
    BY <1>1, <1>4
  <2>3. Cardinality(1 .. c) = c
    <3>1. 1 \in Int /\ c \in Int
      BY <1>1
    <3>2. Cardinality(1 .. c) = IF 1 > c THEN 0 ELSE c - 1 + 1
      BY <3>1, FS_Interval
    <3> QED
      BY <1>1, <3>2
  <2>4. passed = c
    BY <2>2, <2>3 DEF Passed
  <2> HIDE DEF passed, result
  <2> QED
    BY <1>1, <1>2, <2>1, <2>4 DEF passed, result
<1> QED
  BY <1>3, <1>4
-----------------------------------------------------------------------------
(* --- what a step leaves alone --- *)

(* An entry that stays, on the same side of the first loop. *)
EntryKept(w) ==
  \A i \in DOMAIN activeControllers : EntryAt(w, i) =>
    \E j \in DOMAIN activeControllers' :
      /\ EntryAt(w, j)'
      /\ 1 \in DOMAIN cursors => (j <= cursors'[1] <=> i <= cursors[1])

(* The step is about other wires. *)
Untouched(w) ==
  /\ link'[w] = link[w] /\ peerId'[w] = peerId[w] /\ controller'[w] = controller[w]
  /\ rpc'[w] = rpc[w] /\ claims'[w] = claims[w]
  /\ w \in negotiated' <=> w \in negotiated
  /\ w \in givenUp' <=> w \in givenUp
  /\ Alone(w)' => Alone(w)
  /\ Alone(w) /\ link[w] = "open" => EntryKept(w)

LEMMA LoopPresent == LoopInv /\ Len(awaited) = 1 => 1 \in DOMAIN cursors
<1> SUFFICES ASSUME LoopInv, Len(awaited) = 1 PROVE 1 \in DOMAIN cursors
  OBVIOUS
<1>1. cursors \in Seq(0 .. Len(activeControllers)) /\ Len(cursors) = 1
  BY DEF LoopInv
<1> QED
  BY <1>1

LEMMA Framed ==
  ASSUME LoopInv, NEW w \in Wire, RegisteredAt(w), SettledAt(w), Untouched(w),
         UNCHANGED <<command, awaited, due, alive>>
  PROVE  RegisteredAt(w)' /\ SettledAt(w)'
<1>1. RegisteredAt(w)'
  BY DEF RegisteredAt, Untouched, EntryKept
<1>2. SettledAt(w)'
  <2>1. SUFFICES ASSUME Len(awaited) = 1, Awaits(w), link[w] = "open", Alone(w), alive
                 PROVE  \E j \in DOMAIN activeControllers' : EntryAt(w, j)' /\ Progress(w, j)'
    BY DEF SettledAt, Untouched, Awaits
  <2>2. PICK i \in DOMAIN activeControllers : EntryAt(w, i) /\ Progress(w, i)
    BY <2>1 DEF SettledAt
  <2>3. PICK j \in DOMAIN activeControllers' :
          EntryAt(w, j)' /\ (j <= cursors'[1] <=> i <= cursors[1])
    BY <2>1, <2>2, LoopPresent DEF Untouched, EntryKept
  <2>4. Due(w)' <=> Due(w)
    BY DEF Due, Active, Untouched
  <2>5. Claimed(w)' <=> Claimed(w)
    BY DEF Claimed, Untouched
  <2>6. Progress(w, j)'
    BY <2>2, <2>3, <2>4, <2>5 DEF Progress
  <2> QED
    BY <2>3, <2>6
<1> QED
  BY <1>1, <1>2

LEMMA StillAlone ==
  ASSUME NEW w \in Wire, UNCHANGED peerId,
         \A v \in Wire : link[v] # "new" => link'[v] # "new"
  PROVE  Alone(w)' => Alone(w)
BY DEF Alone

LEMMA EntriesSame ==
  ASSUME NEW w, UNCHANGED <<activeControllers, cursors>>, peerId'[w] = peerId[w]
  PROVE  EntryKept(w)
<1>1. \A i : EntryAt(w, i)' <=> EntryAt(w, i)
  BY DEF EntryAt
<1> QED
  BY <1>1 DEF EntryKept

LEMMA OwnKey ==
  ASSUME MapInv, NEW v \in Wire, NEW w \in Wire, v # w, link[v] = "open", Alone(w)
  PROVE  peerId[v] \in PeerId /\ peerId[v] # peerId[w]
BY DEF MapInv, Alone

LEMMA EntriesSet ==
  ASSUME MapInv, NEW v \in Wire, NEW w \in Wire, v # w, link[v] = "open", Alone(w),
         activeControllers' = MapSet(activeControllers, peerId[v], v),
         UNCHANGED <<peerId, cursors>>
  PROVE  EntryKept(w)
<1>1. peerId[v] \in PeerId /\ peerId[v] # peerId[w]
  BY OwnKey
<1>2. activeControllers \in Seq(PeerId \X Wire)
  BY DEF MapInv
<1>3. \A i \in DOMAIN activeControllers : activeControllers[i][1] # peerId[v] =>
         i \in DOMAIN activeControllers' /\ activeControllers'[i] = activeControllers[i]
  <2> DEFINE map == activeControllers
             key == peerId[v]
             after == MapSet(map, key, v)
  <2>1. map \in Seq(PeerId \X Wire) /\ key \in PeerId
    BY <1>1, <1>2
  <2> HIDE DEF map, key
  <2>2. \A i \in DOMAIN map : map[i][1] # key => i \in DOMAIN after /\ after[i] = map[i]
    BY <2>1, SetEntries, SMTT(60)
  <2>3. activeControllers' = after
    BY DEF map, key
  <2> HIDE DEF after
  <2> QED
    BY <2>2, <2>3 DEF map, key
<1>4. ASSUME NEW i \in DOMAIN activeControllers, EntryAt(w, i)
      PROVE  EntryAt(w, i)'
  <2>1. activeControllers[i][1] # peerId[v]
    BY <1>1, <1>4 DEF EntryAt
  <2> QED
    BY <1>3, <1>4, <2>1 DEF EntryAt
<1>5. \A i : EntryAt(w, i)' => i \in DOMAIN activeControllers'
  BY DEF EntryAt
<1> QED
  BY <1>4, <1>5 DEF EntryKept

(* The loops stay within the Map. *)
LEMMA LoopsAfterSet ==
  ASSUME MapInv, NEW v \in Wire, link[v] # "new",
         activeControllers' = MapSet(activeControllers, peerId[v], v), UNCHANGED cursors,
         cursors \in Seq(0 .. Len(activeControllers))
  PROVE  cursors' \in Seq(0 .. Len(activeControllers'))
<1>1. peerId[v] \in PeerId /\ activeControllers \in Seq(PeerId \X Wire)
  BY DEF MapInv
<1>2. /\ Len(activeControllers) <= Len(activeControllers')
      /\ activeControllers' \in Seq(PeerId \X Wire)
  BY <1>1, SetEntries
<1>3. Len(activeControllers) \in Nat /\ Len(activeControllers') \in Nat
  BY <1>1, <1>2
<1>4. 0 .. Len(activeControllers) \subseteq 0 .. Len(activeControllers')
  BY <1>2, <1>3
<1>5. \A A, B, seq : A \subseteq B /\ seq \in Seq(A) => seq \in Seq(B)
  OBVIOUS
<1> QED
  BY <1>4, <1>5, Zenon

LEMMA Unregistered ==
  ASSUME NEW v, Unregister(v)
  PROVE  /\ activeControllers' = MapDelete(activeControllers, peerId[v])
         /\ DOMAIN cursors' = DOMAIN cursors
         /\ cursors' = [n \in DOMAIN cursors |->
                          Passed(activeControllers, cursors[n], peerId[v])]
BY DEF Unregister, Passed

LEMMA DeletedThere ==
  ASSUME MapInv, NEW v \in Wire, Unregister(v), NEW c \in 0 .. Len(activeControllers)
  PROVE  LET passed == Passed(activeControllers, c, peerId[v])
         IN  /\ passed \in 0 .. Len(activeControllers')
             /\ \A i \in DOMAIN activeControllers : activeControllers[i][1] # peerId[v] =>
                  \E j \in DOMAIN activeControllers' :
                    /\ activeControllers'[j] = activeControllers[i]
                    /\ j <= passed <=> i <= c
<1> DEFINE map == activeControllers
           key == peerId[v]
           after == MapDelete(map, key)
           passed == Passed(map, c, key)
<1>1. map \in Seq(PeerId \X Wire) /\ UniqueKeys(map) /\ c \in 0 .. Len(map)
  BY DEF MapInv
<1> HIDE DEF map, key
<1>2. /\ passed \in 0 .. Len(after)
      /\ \A i \in DOMAIN map : map[i][1] # key =>
           \E j \in DOMAIN after : after[j] = map[i] /\ (j <= passed <=> i <= c)
  BY <1>1, DeletedEntries
<1>3. activeControllers' = after
  BY Unregistered DEF map, key
<1> HIDE DEF after, passed
<1> QED
  BY <1>2, <1>3 DEF map, key, passed

LEMMA LoopsAfterDelete ==
  ASSUME MapInv, NEW v \in Wire, Unregister(v),
         cursors \in Seq(0 .. Len(activeControllers))
  PROVE  /\ cursors' \in Seq(0 .. Len(activeControllers'))
         /\ Len(cursors') = Len(cursors)
<1>1. activeControllers \in Seq(PeerId \X Wire) /\ UniqueKeys(activeControllers)
  BY DEF MapInv
<1>2. \A n \in DOMAIN cursors : cursors[n] \in 0 .. Len(activeControllers)
  OBVIOUS
<1>3. ASSUME NEW c \in 0 .. Len(activeControllers)
      PROVE  Passed(activeControllers, c, peerId[v]) \in 0 .. Len(activeControllers')
  BY <1>1, Unregistered, DeletedThere
<1>4. \A n \in DOMAIN cursors : cursors'[n] \in 0 .. Len(activeControllers')
  BY <1>2, <1>3, Unregistered
<1>5. DOMAIN cursors' = 1 .. Len(cursors) /\ Len(cursors) \in Nat
  BY Unregistered
<1>6. cursors' = [n \in 1 .. Len(cursors) |-> cursors'[n]]
  BY <1>5, Unregistered
<1> DEFINE bound == 0 .. Len(activeControllers')
           after == cursors'
<1>7. after \in Seq(bound)
  <2>1. /\ \A n \in 1 .. Len(cursors) : after[n] \in bound
        /\ after = [n \in 1 .. Len(cursors) |-> after[n]]
    BY <1>4, <1>5, <1>6
  <2> HIDE DEF bound, after
  <2>2. [n \in 1 .. Len(cursors) |-> after[n]] \in Seq(bound)
    BY <1>5, <2>1
  <2> QED
    BY <2>1, <2>2
<1> QED
  BY <1>5, <1>7

LEMMA EntriesDeleted ==
  ASSUME MapInv, NEW v \in Wire, NEW w \in Wire, v # w, link[v] = "open", Alone(w),
         Unregister(v), UNCHANGED peerId,
         cursors \in Seq(0 .. Len(activeControllers))
  PROVE  EntryKept(w)
<1>1. peerId[v] # peerId[w]
  BY OwnKey
<1>2. activeControllers \in Seq(PeerId \X Wire) /\ UniqueKeys(activeControllers)
  BY DEF MapInv
<1>3. SUFFICES ASSUME NEW i \in DOMAIN activeControllers, EntryAt(w, i)
               PROVE  \E j \in DOMAIN activeControllers' :
                        /\ EntryAt(w, j)'
                        /\ 1 \in DOMAIN cursors => (j <= cursors'[1] <=> i <= cursors[1])
  BY DEF EntryKept
<1>4. activeControllers[i][1] # peerId[v] /\ activeControllers[i] = <<peerId[w], w>>
  BY <1>1, <1>3 DEF EntryAt
<1>5. ASSUME NEW c \in 0 .. Len(activeControllers)
      PROVE  \E j \in DOMAIN activeControllers' :
               /\ activeControllers'[j] = activeControllers[i]
               /\ j <= Passed(activeControllers, c, peerId[v]) <=> i <= c
  BY <1>2, <1>4, Unregistered, DeletedThere
<1>6. \A j \in DOMAIN activeControllers' :
        activeControllers'[j] = activeControllers[i] => EntryAt(w, j)'
  BY <1>4 DEF EntryAt
<1>7. CASE 1 \in DOMAIN cursors
  <2>1. cursors[1] \in 0 .. Len(activeControllers)
    BY <1>7
  <2>2. cursors'[1] = Passed(activeControllers, cursors[1], peerId[v])
    BY <1>7, Unregistered
  <2> QED
    BY <1>5, <1>6, <2>1, <2>2
<1>8. CASE 1 \notin DOMAIN cursors
  <2>1. 0 \in 0 .. Len(activeControllers)
    BY <1>2
  <2> QED
    BY <1>5, <1>6, <1>8, <2>1
<1> QED
  BY <1>7, <1>8
-----------------------------------------------------------------------------
(* --- the steps --- *)

LEMMA AllFramed ==
  ASSUME ShutdownInv, NEW v \in Wire, \A w \in Wire \ {v} : Untouched(w),
         UNCHANGED <<command, awaited, due, alive>>,
         LoopInv', RegisteredAt(v)', SettledAt(v)'
  PROVE  ShutdownInv'
<1>1. ASSUME NEW w \in Wire PROVE RegisteredAt(w)' /\ SettledAt(w)'
  <2>1. CASE w = v
    BY <2>1
  <2>2. CASE w # v
    BY <2>2, Framed DEF ShutdownInv
  <2> QED
    BY <2>1, <2>2
<1> QED
  BY <1>1 DEF ShutdownInv

LEMMA ConnectSettles ==
  ASSUME CliInv, MapInv, ShutdownInv, NEW v \in Wire, Connect(v),
         UNCHANGED <<command, seedVars>>
  PROVE  ShutdownInv'
<1>1. PICK id \in PeerId : peerId' = [peerId EXCEPT ![v] = id]
  BY DEF Connect
<1>2. /\ link[v] = "new" /\ link' = [link EXCEPT ![v] = "open"]
      /\ UNCHANGED <<command, controller, negotiated, activeControllers, cursors, rpc,
                     alive, awaited, claims, due, givenUp>>
  BY DEF Connect, seedVars
<1>3. v \notin due
  BY <1>2 DEF ShutdownInv, LoopInv
<1>4. command = "seed" => controller[v] = None
  BY <1>2, SeedingWire DEF Seeding, SeederOK
<1>5. ASSUME NEW w \in Wire \ {v} PROVE Untouched(w)
  <2>1. link'[w] = link[w] /\ peerId'[w] = peerId[w]
    BY <1>1, <1>2 DEF MapInv
  <2>2. Alone(w)' => Alone(w)
    <3>1. \A u \in Wire : link[u] # "new" => link'[u] # "new" /\ peerId'[u] = peerId[u]
      BY <1>1, <1>2 DEF MapInv
    <3> QED
      BY <2>1, <3>1 DEF Alone
  <2> QED
    BY <1>2, <2>1, <2>2, EntriesSame DEF Untouched
<1>6. LoopInv'
  BY <1>2 DEF ShutdownInv, LoopInv, MapInv
<1>7. RegisteredAt(v)' /\ SettledAt(v)'
  BY <1>2, <1>3, <1>4 DEF RegisteredAt, SettledAt, Awaits
<1> QED
  BY <1>2, <1>5, <1>6, <1>7, AllFramed

LEMMA HandshakeSettles ==
  ASSUME CliInv, MapInv, ShutdownInv, NEW v \in Wire, NEW advertised \in BOOLEAN,
         SeedHandshake(v, advertised), UNCHANGED command
  PROVE  ShutdownInv'
<1>1. /\ link[v] = "open" /\ controller[v] = None
      /\ controller' = [controller EXCEPT ![v] = NewSeederSession]
      /\ UNCHANGED <<command, link, peerId, cursors, rpc, alive, awaited, claims, due,
                     givenUp>>
  BY DEF SeedHandshake, seedVars
<1>2. \/ /\ negotiated' = negotiated \cup {v}
         /\ activeControllers' = MapSet(activeControllers, peerId[v], v)
      \/ UNCHANGED <<negotiated, activeControllers>>
  BY DEF SeedHandshake
<1>3. v \notin due
  BY <1>1 DEF ShutdownInv, LoopInv
<1>4. ASSUME NEW w \in Wire \ {v} PROVE Untouched(w)
  <2>1. controller'[w] = controller[w]
    BY <1>1 DEF CliInv, Shape
  <2>2. Alone(w)' => Alone(w)
    BY <1>1, StillAlone
  <2>3. Alone(w) /\ link[w] = "open" => EntryKept(w)
    BY <1>1, <1>2, EntriesSet, EntriesSame
  <2> QED
    BY <1>1, <1>2, <2>1, <2>2, <2>3 DEF Untouched
<1>5. cursors' \in Seq(0 .. Len(activeControllers'))
  <2>1. cursors \in Seq(0 .. Len(activeControllers))
    BY DEF ShutdownInv, LoopInv
  <2>2. CASE activeControllers' = MapSet(activeControllers, peerId[v], v)
    BY <1>1, <2>1, <2>2, LoopsAfterSet
  <2>3. CASE UNCHANGED activeControllers
    BY <1>1, <2>1, <2>3
  <2> QED
    BY <1>2, <2>2, <2>3
<1>6. due' \subseteq {w \in Wire : link'[w] # "new" /\ controller'[w] # None}
  BY <1>1, <1>3 DEF ShutdownInv, LoopInv, CliInv, Shape
<1>7. LoopInv'
  BY <1>1, <1>2, <1>5, <1>6 DEF ShutdownInv, LoopInv
<1>9. v \in negotiated' => \E i \in DOMAIN activeControllers' : EntryAt(v, i)'
  <2>1. CASE v \in negotiated
    BY <1>1, <2>1, SeedingWire DEF SeedHandshake, CliInv, WireOK, Unused, Seeding,
       Leeching, SeederOK, LeecherOK, ConnectionAssumption
  <2>2. CASE activeControllers' = MapSet(activeControllers, peerId[v], v)
    <3>1. activeControllers \in Seq(PeerId \X Wire) /\ peerId[v] \in PeerId
      BY <1>1 DEF MapInv
    <3>2. \E i \in DOMAIN activeControllers' : activeControllers'[i] = <<peerId[v], v>>
      BY <2>2, <3>1, SetEntries
    <3> QED
      BY <1>1, <3>2 DEF EntryAt
  <2> QED
    BY <1>2, <2>1, <2>2
<1>10. RegisteredAt(v)' /\ SettledAt(v)'
  BY <1>1, <1>3, <1>9 DEF RegisteredAt, SettledAt, Awaits
<1> QED
  BY <1>1, <1>4, <1>7, <1>10, AllFramed

(* A wire that closes. *)
LEMMA ClosingSettles ==
  ASSUME CliInv, MapInv, ShutdownInv, command = "seed", NEW v \in Wire, link[v] = "open",
         link' = [link EXCEPT ![v] = "closed"], Unregister(v),
         UNCHANGED <<command, peerId, negotiated, alive, awaited, due, givenUp>>,
         \A w \in Wire \ {v} : /\ controller'[w] = controller[w]
                               /\ rpc'[w] = rpc[w] /\ claims'[w] = claims[w],
         controller[v] # None => controller'[v] # None
  PROVE  ShutdownInv'
<1>1. cursors \in Seq(0 .. Len(activeControllers)) /\ Len(awaited) = Len(cursors)
  BY DEF ShutdownInv, LoopInv
<1>2. link'[v] = "closed" /\ \A w \in Wire \ {v} : link'[w] = link[w]
  BY DEF MapInv
<1>3. ASSUME NEW w \in Wire \ {v} PROVE Untouched(w)
  <2>1. Alone(w)' => Alone(w)
    BY <1>2, StillAlone
  <2>2. Alone(w) /\ link[w] = "open" => EntryKept(w)
    BY <1>1, EntriesDeleted
  <2> QED
    BY <1>2, <2>1, <2>2 DEF Untouched
<1>4. cursors' \in Seq(0 .. Len(activeControllers')) /\ Len(cursors') = Len(cursors)
  BY <1>1, LoopsAfterDelete
<1>5. due' \subseteq {w \in Wire : link'[w] # "new" /\ controller'[w] # None}
  BY <1>2 DEF ShutdownInv, LoopInv
<1>6. LoopInv'
  BY <1>1, <1>4, <1>5 DEF ShutdownInv, LoopInv
<1>7. RegisteredAt(v)' /\ SettledAt(v)'
  BY <1>2 DEF RegisteredAt, SettledAt
<1> QED
  BY <1>3, <1>6, <1>7, AllFramed

LEMMA WireClosesSettles ==
  ASSUME CliInv, MapInv, ShutdownInv, command = "seed", NEW v \in Wire, link[v] = "open",
         controller[v] # None, SeedWireCloses(v, controller[v]),
         UNCHANGED <<command, peerId, negotiated, alive, awaited, due, givenUp>>
  PROVE  ShutdownInv'
<1> DEFINE r == SeederOnDisconnect(controller[v])
           started == IF r.action = NoAction THEN {} ELSE {v}
<1>1. /\ link' = [link EXCEPT ![v] = "closed"] /\ Unregister(v)
      /\ controller' = [controller EXCEPT ![v] = r.session]
      /\ rpc' = [rpc EXCEPT ![v] = CallOf(r, rpc[v])]
      /\ claims' = [w \in Wire |-> claims[w] + IF w \in started THEN 1 ELSE 0]
  BY DEF SeedWireCloses, CountClaims
<1>2. Seeding(v)
  BY SeedingWire
<1>3. r.session \in SeederSessions
  BY <1>2, Disconnected DEF Seeding, SeederOK
<1> HIDE DEF r
<1>4. r.session # None
  BY <1>3 DEF ConnectionAssumption
<1>5. controller'[v] = r.session /\ \A w \in Wire \ {v} : controller'[w] = controller[w]
  BY <1>1 DEF CliInv, Shape
<1>6. \A w \in Wire \ {v} : claims'[w] = claims[w] /\ rpc'[w] = rpc[w]
  BY <1>1 DEF CliInv, Shape
<1> QED
  BY <1>1, <1>4, <1>5, <1>6, ClosingSettles

LEMMA DisconnectSettles ==
  ASSUME CliInv, MapInv, ShutdownInv, command = "seed", NEW v \in Wire, SeedDisconnects(v),
         UNCHANGED command
  PROVE  ShutdownInv'
<1>1. CASE controller[v] = None
  BY <1>1, ClosingSettles DEF SeedDisconnects
<1>2. CASE controller[v] # None
  BY <1>2, WireClosesSettles DEF SeedDisconnects
<1> QED
  BY <1>1, <1>2

(* A message that is no error leaves a check where a loop will find it, or   *)
(* gives it up; one for an ended session starts nothing.                     *)
LEMMA MessageLeavesDue ==
  ASSUME NEW s \in SeederSessions, NEW m \in LeecherMessages, NEW valid \in BOOLEAN
  PROVE  LET r == SeederHandle(s, m, valid)
         IN  /\ s.state \in Ended => r.action \in {ErrorAction, NoAction}
             /\ (s.state = "active" /\ s.highestCheck # NoCheck /\ ~GivesUp(s, m)
                   /\ r.action # ErrorAction)
                  => r.session.state = "active" /\ r.session.highestCheck # NoCheck
<1> DEFINE r == SeederHandle(s, m, valid)
<1>4. CASE m.type = "channel_closed"
  <2>1. r.action = NoAction
    BY <1>4 DEF SeederHandle, SeederOnChannelClosed, Returns
  <2> QED
    BY <1>4, <2>1 DEF GivesUp
<1>1. CASE s.state # "active" /\ m.type # "channel_closed"
  BY <1>1 DEF LeecherMessages, SeederHandle, SeederOnEcdhInit, SeederOnChannelOpened,
              SeederOnPaymentCheck, InState, Returns, Ended
<1>2. CASE s.state = "active" /\ m.type \in {"ecdh_init", "channel_opened"}
  <2>1. r.action = ErrorAction
    BY <1>2 DEF SeederHandle, SeederOnEcdhInit, SeederOnChannelOpened, InState, Returns
  <2> QED
    BY <1>2, <2>1 DEF Ended
<1>3. CASE s.state = "active" /\ m.type = "payment_check"
  <2> DEFINE check == [channelId |-> m.channelId, amount |-> m.amount, nonce |-> m.nonce]
  <2>1. "channelId" \in DOMAIN check /\ "channelId" \notin DOMAIN NoCheck
    BY DEF NoCheck
  <2>2. check # NoCheck
    BY <2>1
  <2>3. r = SeederOnPaymentCheck(s, check, valid)
    BY <1>3 DEF SeederHandle
  <2> HIDE DEF check
  <2>4. r.session = s \/ r.session = [s EXCEPT !.highestCheck = check]
    BY <1>3, <2>3 DEF SeederOnPaymentCheck, InState, Returns
  <2> HIDE DEF r
  <2>5. s.highestCheck # NoCheck => r.session.state = "active" /\ r.session.highestCheck # NoCheck
    BY <1>3, <2>2, <2>4 DEF SeederSessions
  <2> QED
    BY <1>3, <2>5 DEF Ended, r
<1> QED
  BY <1>1, <1>2, <1>3, <1>4 DEF LeecherMessages

(* A step of a session alone. *)
LEMMA SessionSettles ==
  ASSUME CliInv, MapInv, ShutdownInv, NEW v \in Wire, alive,
         \A w \in Wire \ {v} : controller'[w] = controller[w] /\ rpc'[w] = rpc[w],
         UNCHANGED <<command, link, peerId, negotiated, activeControllers, cursors,
                     alive, awaited, claims, due>>,
         givenUp' \in {givenUp, givenUp \cup {v}},
         controller[v] # None, controller'[v] # None,
         Due(v) => Due(v)' \/ v \in givenUp', claims[v] = 1 => rpc'[v] \in {rpc[v], NoCall}
  PROVE  ShutdownInv'
<1>1. \A w \in Wire : Alone(w)' <=> Alone(w)
  BY DEF Alone
<1>2. \A w \in Wire, i \in DOMAIN activeControllers : EntryAt(w, i)' <=> EntryAt(w, i)
  BY DEF EntryAt
<1>3. ASSUME NEW w \in Wire \ {v} PROVE Untouched(w)
  BY <1>1, EntriesSame DEF Untouched
<1>4. due' \subseteq {w \in Wire : link'[w] # "new" /\ controller'[w] # None}
  BY DEF ShutdownInv, LoopInv
<1>5. LoopInv'
  BY <1>4 DEF ShutdownInv, LoopInv
<1>6. RegisteredAt(v)'
  BY <1>1, <1>2 DEF ShutdownInv, RegisteredAt
<1>7. v \notin givenUp' => \A i \in DOMAIN activeControllers : Progress(v, i) => Progress(v, i)'
  BY DEF Progress, Claimed
<1>8. SettledAt(v)'
  BY <1>1, <1>2, <1>7 DEF ShutdownInv, SettledAt, Awaits
<1> QED
  BY <1>3, <1>5, <1>6, <1>8, AllFramed

LEMMA MessageSettles ==
  ASSUME CliInv, MapInv, ShutdownInv, command = "seed", NEW v \in Wire,
         NEW m \in LeecherMessages, NEW valid \in BOOLEAN, SeedReceives(v, m, valid),
         UNCHANGED command
  PROVE  ShutdownInv'
<1> DEFINE r == SeederHandle(controller[v], m, valid)
<1>1. /\ alive /\ link[v] = "open"
      /\ UNCHANGED <<command, peerId, negotiated, alive, awaited, due>>
      /\ givenUp' = IF GivesUp(controller[v], m) THEN givenUp \cup {v} ELSE givenUp
  BY DEF SeedReceives, Due, Active, GivesUp
<1>2. Seeding(v) /\ controller[v] # None
  BY <1>1, SeedingWire DEF SeedReceives
<1>3. /\ r.action = ErrorAction => r.session = controller[v] /\ ~GivesUp(controller[v], m)
      /\ r.session \in SeederSessions
  BY <1>1, <1>2, SeederHandled DEF Seeding, SeederOK
<1>4. controller[v] \in SeederSessions /\ (claims[v] = 1 => controller[v].state \in Ended)
  BY <1>2 DEF Seeding, SeederOK, Spent, CliInv, Shape
<1>5. /\ controller[v].state \in Ended => r.action \in {ErrorAction, NoAction}
      /\ (controller[v].state = "active" /\ controller[v].highestCheck # NoCheck
            /\ ~GivesUp(controller[v], m) /\ r.action # ErrorAction)
           => r.session.state = "active" /\ r.session.highestCheck # NoCheck
  BY <1>4, MessageLeavesDue
<1>6. CASE r.action = ErrorAction
  <2>1. SeedWireCloses(v, controller[v]) /\ UNCHANGED givenUp
    BY <1>1, <1>3, <1>6 DEF SeedReceives
  <2> QED
    BY <1>1, <1>2, <2>1, WireClosesSettles
<1>7. CASE r.action # ErrorAction
  <2>1. /\ controller' = [controller EXCEPT ![v] = r.session]
        /\ rpc' = [rpc EXCEPT ![v] = CallOf(r, rpc[v])]
        /\ UNCHANGED <<link, activeControllers, cursors, claims>>
    BY <1>7 DEF SeedReceives
  <2>2. r.session # None
    BY <1>3 DEF ConnectionAssumption
  <2>7. r.action = NoAction => CallOf(r, rpc[v]) = rpc[v]
    BY DEF CallOf, NoAction
  <2> HIDE DEF r
  <2>3. controller'[v] = r.session /\ rpc'[v] = CallOf(r, rpc[v])
    BY <2>1 DEF CliInv, Shape
  <2>4. \A w \in Wire \ {v} : controller'[w] = controller[w] /\ rpc'[w] = rpc[w]
    BY <2>1 DEF CliInv, Shape
  <2>5. Due(v) => Due(v)' \/ v \in givenUp'
    BY <1>1, <1>5, <1>7, <2>2, <2>3 DEF Due, Active
  <2>6. claims[v] = 1 => rpc'[v] = rpc[v]
    BY <1>4, <1>5, <1>7, <2>3, <2>7
  <2> QED
    BY <1>1, <1>2, <2>1, <2>2, <2>3, <2>4, <2>5, <2>6, SessionSettles
<1> QED
  BY <1>6, <1>7

LEMMA VerifiedSettles ==
  ASSUME CliInv, MapInv, ShutdownInv, command = "seed", NEW v \in Wire,
         NEW valid \in BOOLEAN, SeedVerified(v, valid, Deposit), UNCHANGED command
  PROVE  ShutdownInv'
<1> DEFINE r == IF valid THEN ConfirmChannel(controller[v], Deposit)
                         ELSE RejectChannel(controller[v])
<1>1. /\ alive /\ rpc[v].call = "verify"
      /\ rpc' = [rpc EXCEPT ![v] = NoCall]
      /\ controller' = [controller EXCEPT ![v] = r.session]
      /\ UNCHANGED <<command, link, peerId, negotiated, activeControllers, cursors,
                     alive, awaited, claims, due, givenUp>>
  BY DEF SeedVerified, seedVars
<1>2. Seeding(v) /\ controller[v] # None
  BY <1>1, SeedingWire
<1>3. r.session \in SeederSessions
  <2>1. SeederOK(r.session, NoCall, Spent(v), link[v])
    BY <1>1, <1>2, Verified DEF Seeding
  <2> QED
    BY <2>1 DEF SeederOK
<1>4. controller[v].state \in {"channel_pending", "closed"}
  BY <1>1, <1>2 DEF Seeding, SeederOK
<1> HIDE DEF r
<1>5. r.session # None
  BY <1>3 DEF ConnectionAssumption
<1>6. controller'[v] = r.session /\ rpc'[v] = NoCall
  BY <1>1 DEF CliInv, Shape
<1>7. \A w \in Wire \ {v} : controller'[w] = controller[w] /\ rpc'[w] = rpc[w]
  BY <1>1 DEF CliInv, Shape
<1>8. ~Due(v)
  BY <1>4 DEF Due, Active
<1> QED
  BY <1>1, <1>2, <1>5, <1>6, <1>7, <1>8, SessionSettles

(* The answer to a claim no loop awaits. *)
LEMMA AnswerSettles ==
  ASSUME CliInv, MapInv, ShutdownInv, command = "seed", NEW v \in Wire, alive,
         rpc[v].call = "claim", rpc' = [rpc EXCEPT ![v] = NoCall],
         UNCHANGED <<command, link, peerId, controller, negotiated, activeControllers,
                     cursors, alive, awaited, claims, due, givenUp>>
  PROVE  ShutdownInv'
<1>1. controller[v] # None
  BY SeedingWire
<1>2. rpc'[v] = NoCall /\ \A w \in Wire \ {v} : rpc'[w] = rpc[w]
  BY DEF CliInv, Shape
<1>3. Due(v) => Due(v)'
  BY DEF Due, Active
<1> QED
  BY <1>1, <1>2, <1>3, SessionSettles
-----------------------------------------------------------------------------
(* --- the rounds of a shutdown loop --- *)

(* A loop goes on, or a new one starts. *)
Placed(seq, n, x) == [i \in DOMAIN seq \cup {n} |-> IF i = n THEN x ELSE seq[i]]

Grown(after, seq, n, S) ==
  after \in Seq(S) /\ Len(after) = IF n = Len(seq) + 1 THEN Len(seq) + 1 ELSE Len(seq)

LEMMA Replaced ==
  ASSUME NEW S, NEW seq \in Seq(S), NEW n \in 1 .. Len(seq) + 1, NEW x \in S
  PROVE  Grown(Placed(seq, n, x), seq, n, S)
<1> DEFINE after == [i \in DOMAIN seq \cup {n} |-> IF i = n THEN x ELSE seq[i]]
           k == IF n = Len(seq) + 1 THEN Len(seq) + 1 ELSE Len(seq)
<1>1. DOMAIN seq = 1 .. Len(seq) /\ Len(seq) \in Nat /\ k \in Nat
  OBVIOUS
<1>2. DOMAIN seq \cup {n} = 1 .. k
  BY <1>1
<1>3. ASSUME NEW i \in 1 .. k PROVE after[i] \in S
  <2>1. i = n \/ i \in DOMAIN seq
    BY <1>2
  <2>2. after[i] = IF i = n THEN x ELSE seq[i]
    BY <2>1
  <2>3. \A j \in DOMAIN seq : seq[j] \in S
    OBVIOUS
  <2> QED
    BY <2>1, <2>2, <2>3
<1>4. DOMAIN after = 1 .. k /\ after = [i \in 1 .. k |-> after[i]]
  BY <1>2
<1> HIDE DEF k, after
<1>5. [i \in 1 .. k |-> after[i]] \in Seq(S)
  <2>1. k \in Nat /\ \A i \in 1 .. k : after[i] \in S
    BY <1>1, <1>3
  <2> QED
    BY <2>1
<1>6. after \in Seq(S)
  BY <1>4, <1>5
<1> QED
  BY <1>1, <1>4, <1>6 DEF k, after, Placed, Grown

(* The entry a round stops at: the first with a check, or the last of all.   *)
Stop(cursor) ==
  IF DueAfter(cursor) = {} THEN Len(activeControllers) ELSE Min(DueAfter(cursor))

LEMMA StopsThere ==
  ASSUME MapInv, NEW cursor \in Nat
  PROVE  /\ DueAfter(cursor) \subseteq DOMAIN activeControllers
         /\ Stop(cursor) \in 0 .. Len(activeControllers)
         /\ DueAfter(cursor) # {} =>
              /\ Stop(cursor) \in DueAfter(cursor) /\ Stop(cursor) > cursor
              /\ \A i \in DueAfter(cursor) : Stop(cursor) <= i
<1> DEFINE ahead == DueAfter(cursor)
<1>1. activeControllers \in Seq(PeerId \X Wire)
  BY DEF MapInv
<1>2. DOMAIN activeControllers = 1 .. Len(activeControllers) /\ Len(activeControllers) \in Nat
  BY <1>1
<1>3. /\ ahead \subseteq DOMAIN activeControllers
      /\ \A i \in ahead : i > cursor
  BY DEF DueAfter
<1> HIDE DEF ahead
<1>4. CASE ahead = {}
  BY <1>2, <1>3, <1>4 DEF Stop, ahead
<1>5. CASE ahead # {}
  <2>1. ahead \subseteq Nat
    BY <1>2, <1>3
  <2>2. Min(ahead) \in ahead /\ \A y \in ahead : Min(ahead) <= y
    BY <1>5, <2>1, Least
  <2>3. Stop(cursor) = Min(ahead)
    BY <1>5 DEF Stop, ahead
  <2> QED
    BY <1>2, <1>3, <1>5, <2>2, <2>3 DEF ahead
<1> QED
  BY <1>4, <1>5

(* The sessions a round tells, and what it awaits. *)
Told(cursor) ==
  IF DueAfter(cursor) = {}
  THEN {w \in Wire : link[w] = "open" /\ controller[w] # None}
  ELSE {w \in {activeControllers[i][2] : i \in cursor + 1 .. Stop(cursor)} : Active(w)}

Round(n, calls, cursor) ==
  /\ \A w \in Wire :
       LET r == SeederOnDisconnect(controller[w])
       IN  IF w \in Told(cursor)
           THEN /\ controller'[w] = r.session /\ rpc'[w] = CallOf(r, calls[w])
                /\ claims'[w] = claims[w] + IF r.action = NoAction THEN 0 ELSE 1
           ELSE /\ controller'[w] = controller[w] /\ rpc'[w] = calls[w]
                /\ claims'[w] = claims[w] + 0
  /\ cursors' = [i \in DOMAIN cursors \cup {n} |-> IF i = n THEN Stop(cursor) ELSE cursors[i]]
  /\ awaited' = [i \in DOMAIN awaited \cup {n} |->
                   IF i # n THEN awaited[i]
                   ELSE IF DueAfter(cursor) = {} THEN None
                   ELSE activeControllers[Stop(cursor)][2]]
  /\ alive' = IF DueAfter(cursor) = {} THEN FALSE ELSE alive

LEMMA GoesRound ==
  ASSUME NEW n, NEW calls, NEW cursor, LoopGoesOn(n, calls, cursor)
  PROVE  Round(n, calls, cursor)
<1> DEFINE told == Told(cursor)
           r == [w \in told |-> SeederOnDisconnect(controller[w])]
           started == {w \in told : r[w].action # NoAction}
<1>1. /\ controller' = [w \in Wire |-> IF w \in told THEN r[w].session ELSE controller[w]]
      /\ rpc' = [w \in Wire |-> IF w \in told THEN CallOf(r[w], calls[w]) ELSE calls[w]]
      /\ CountClaims(started)
      /\ cursors' = [i \in DOMAIN cursors \cup {n} |->
                       IF i = n THEN Stop(cursor) ELSE cursors[i]]
      /\ awaited' = [i \in DOMAIN awaited \cup {n} |->
                       IF i # n THEN awaited[i]
                       ELSE IF DueAfter(cursor) = {} THEN None
                       ELSE activeControllers[Stop(cursor)][2]]
      /\ alive' = IF DueAfter(cursor) = {} THEN FALSE ELSE alive
  BY Zenon DEF LoopGoesOn, Told, Stop, ExitProcess
<1>2. claims' = [w \in Wire |-> claims[w] + IF w \in started THEN 1 ELSE 0]
  BY <1>1 DEF CountClaims
<1>3. \A w \in told : r[w] = SeederOnDisconnect(controller[w])
  OBVIOUS
<1>4. \A w : w \in started <=> w \in told /\ r[w].action # NoAction
  OBVIOUS
<1> HIDE DEF told, r, started
<1>5. ASSUME NEW w \in Wire
      PROVE  LET d == SeederOnDisconnect(controller[w])
             IN  IF w \in told
                 THEN /\ controller'[w] = d.session /\ rpc'[w] = CallOf(d, calls[w])
                      /\ claims'[w] = claims[w] + IF d.action = NoAction THEN 0 ELSE 1
                 ELSE /\ controller'[w] = controller[w] /\ rpc'[w] = calls[w]
                      /\ claims'[w] = claims[w] + 0
  <2>1. CASE w \in told
    BY <1>1, <1>2, <1>3, <1>4, <2>1
  <2>2. CASE w \notin told
    BY <1>1, <1>2, <1>4, <2>2
  <2> QED
    BY <2>1, <2>2
<1> QED
  BY <1>1, <1>5 DEF Round, told

(* onDisconnect: a session with a check gets its claim, an ended one none.   *)
LEMMA ToldOnce ==
  ASSUME CliInv, command = "seed", NEW w \in Wire, controller[w] # None
  PROVE  LET d == SeederOnDisconnect(controller[w])
         IN  /\ d.session # None /\ d.session.state \in Ended
             /\ Due(w) => d.action # NoAction /\ claims[w] = 0
             /\ claims[w] = 1 => d.action = NoAction /\ ~Active(w)
             /\ d.action = NoAction => \A c : CallOf(d, c) = c
<1> DEFINE d == SeederOnDisconnect(controller[w])
<1>1. Seeding(w)
  BY SeedingWire
<1>2. d.session \in SeederSessions /\ d.session.state \in Ended
  BY <1>1, Disconnected DEF Seeding, SeederOK
<1>3. Due(w) => d.action # NoAction /\ claims[w] = 0
  BY <1>1 DEF Due, Active, SeederOnDisconnect, Returns, NoAction, Seeding, SeederOK, Ended,
              Spent, CliInv, Shape
<1>4. claims[w] = 1 => d.action = NoAction /\ ~Active(w)
  BY <1>1 DEF Active, SeederOnDisconnect, Returns, NoAction, Seeding, SeederOK, Ended,
              Spent, CliInv, Shape
<1>5. d.action = NoAction => \A c : CallOf(d, c) = c
  BY DEF CallOf, NoAction
<1> HIDE DEF d
<1> QED
  BY <1>2, <1>3, <1>4, <1>5 DEF d, ConnectionAssumption

(* What the first loop relies on where it stands.                            *)
Ready(w, calls, cursor) ==
  \E i \in DOMAIN activeControllers :
    /\ EntryAt(w, i)
    /\ IF i <= cursor THEN claims[w] = 1 /\ calls[w] = NoCall ELSE Due(w)

LEMMA RoundSettles ==
  ASSUME CliInv, MapInv, command = "seed", alive, NEW calls, NEW cursor \in Nat,
         Round(1, calls, cursor), UNCHANGED <<peerId, activeControllers>>,
         NEW w \in Wire, link[w] = "open", controller[w] # None, Ready(w, calls, cursor)
  PROVE  IF alive' THEN \E i \in DOMAIN activeControllers' : EntryAt(w, i)' /\ Progress(w, i)'
                   ELSE claims'[w] = 1 /\ rpc'[w] = NoCall
<1> DEFINE d == SeederOnDisconnect(controller[w])
           stop == Stop(cursor)
           ahead == DueAfter(cursor)
<1>1. PICK i \in DOMAIN activeControllers :
        /\ EntryAt(w, i)
        /\ IF i <= cursor THEN claims[w] = 1 /\ calls[w] = NoCall ELSE Due(w)
  BY DEF Ready
<1>2. /\ d.session # None
      /\ Due(w) => d.action # NoAction /\ claims[w] = 0
      /\ claims[w] = 1 => d.action = NoAction /\ ~Active(w)
      /\ d.action = NoAction => CallOf(d, calls[w]) = calls[w]
  BY ToldOnce
<1>3. /\ IF w \in Told(cursor)
         THEN /\ controller'[w] = d.session /\ rpc'[w] = CallOf(d, calls[w])
              /\ claims'[w] = claims[w] + IF d.action = NoAction THEN 0 ELSE 1
         ELSE /\ controller'[w] = controller[w] /\ rpc'[w] = calls[w]
              /\ claims'[w] = claims[w] + 0
      /\ alive' <=> ahead # {}
      /\ cursors'[1] = stop
      /\ ahead # {} => awaited'[1] = activeControllers[stop][2]
  BY DEF Round
<1> HIDE DEF d
<1>4. /\ ahead \subseteq DOMAIN activeControllers
      /\ ahead # {} => /\ stop \in ahead /\ stop > cursor
                       /\ \A k \in ahead : stop <= k
  BY StopsThere
<1>5. /\ activeControllers \in Seq(PeerId \X Wire) /\ UniqueKeys(activeControllers)
      /\ \A k \in DOMAIN activeControllers :
           peerId[activeControllers[k][2]] = activeControllers[k][1]
      /\ i \in Nat /\ stop \in Nat
  <2>1. stop \in 0 .. Len(activeControllers) /\ activeControllers \in Seq(PeerId \X Wire)
    BY StopsThere DEF MapInv
  <2> HIDE DEF stop
  <2>2. i \in Nat /\ stop \in Nat
    BY <2>1
  <2> QED
    BY <2>1, <2>2 DEF MapInv
<1>6. activeControllers[i] = <<peerId[w], w>>
  BY <1>1 DEF EntryAt
<1>7. EntryAt(w, i)'
  BY <1>6 DEF EntryAt
<1>8. i > cursor /\ Due(w) => i \in ahead
  BY <1>1, <1>6 DEF DueAfter
<1>9. claims[w] = 1 => claims'[w] = 1 /\ rpc'[w] = calls[w]
  BY <1>2, <1>3
<1>10. CASE ahead = {}
  BY <1>1, <1>3, <1>5, <1>8, <1>9, <1>10
<1>11. CASE ahead # {} /\ i <= cursor
  <2>1. claims'[w] = 1 /\ rpc'[w] = NoCall /\ i <= cursors'[1]
    BY <1>1, <1>3, <1>4, <1>5, <1>9, <1>11
  <2> QED
    BY <1>3, <1>7, <1>11, <2>1 DEF Progress, Claimed
<1>12. CASE ahead # {} /\ ~(i <= cursor) /\ i = stop
  <2>1. w \in Told(cursor)
    <3>1. activeControllers[stop][2] = w /\ stop \in cursor + 1 .. Stop(cursor) /\ Active(w)
      BY <1>1, <1>4, <1>5, <1>6, <1>12 DEF Due
    <3> QED
      BY <1>12, <3>1 DEF Told
  <2>2. claims'[w] = 1 /\ awaited'[1] = w
    BY <1>1, <1>2, <1>3, <1>6, <1>12, <2>1
  <2> QED
    BY <1>3, <1>5, <1>7, <1>12, <2>2 DEF Progress, Claimed
<1>13. CASE ahead # {} /\ ~(i <= cursor) /\ i # stop
  <2>1. i > stop
    BY <1>1, <1>4, <1>5, <1>8, <1>13
  <2>2. w \notin Told(cursor)
    <3>1. ASSUME NEW k \in cursor + 1 .. stop PROVE activeControllers[k][2] # w
      <4>1. k \in DOMAIN activeControllers /\ k # i
        BY <1>4, <1>5, <1>13, <2>1
      <4>2. activeControllers[k][2] = w => activeControllers[k][1] = activeControllers[i][1]
        BY <1>5, <1>6, <4>1
      <4> QED
        BY <1>1, <4>1, <4>2, <1>5 DEF UniqueKeys
    <3> QED
      BY <1>13, <3>1 DEF Told
  <2>3. Due(w)'
    BY <1>1, <1>3, <1>13, <2>2 DEF Due, Active
  <2>4. ~(i <= cursors'[1])
    BY <1>3, <1>5, <2>1
  <2> QED
    BY <1>3, <1>7, <1>13, <2>3, <2>4 DEF Progress
<1> QED
  BY <1>5, <1>10, <1>11, <1>12, <1>13

LEMMA LoopSettles ==
  ASSUME CliInv, MapInv, ShutdownInv, command = "seed", alive,
         NEW n \in 1 .. Len(cursors) + 1, NEW calls, NEW cursor \in Nat,
         Round(n, calls, cursor),
         UNCHANGED <<command, link, peerId, negotiated, activeControllers, givenUp>>,
         due' \subseteq {w \in Wire : link[w] # "new" /\ controller[w] # None},
         (n = 1 /\ Len(cursors) \in {0, 1}) =>
           \A w \in due' : Awaits(w)' /\ link[w] = "open" /\ Alone(w)
                          => Ready(w, calls, cursor)
  PROVE  ShutdownInv'
<1>1. /\ awaited \in Seq(Wire \cup {None}) /\ cursors \in Seq(0 .. Len(activeControllers))
      /\ Len(awaited) = Len(cursors) /\ Len(cursors) \in Nat
      /\ activeControllers \in Seq(PeerId \X Wire)
  BY DEF ShutdownInv, LoopInv, MapInv
<1>2. /\ DueAfter(cursor) \subseteq DOMAIN activeControllers
      /\ Stop(cursor) \in 0 .. Len(activeControllers)
      /\ DueAfter(cursor) # {} => Stop(cursor) \in DueAfter(cursor)
  BY StopsThere
<1> DEFINE x == IF DueAfter(cursor) = {} THEN None ELSE activeControllers[Stop(cursor)][2]
           y == Stop(cursor)
           bound == 0 .. Len(activeControllers)
           who == Wire \cup {None}
<1>3. x \in who /\ y \in bound
  BY <1>1, <1>2
<1>4. /\ cursors' = [i \in DOMAIN cursors \cup {n} |-> IF i = n THEN y ELSE cursors[i]]
      /\ awaited' = [i \in DOMAIN awaited \cup {n} |-> IF i = n THEN x ELSE awaited[i]]
  BY DEF Round
<1>5. cursors \in Seq(bound) /\ awaited \in Seq(who) /\ n \in 1 .. Len(awaited) + 1
  BY <1>1
<1> HIDE DEF x, y, bound, who
<1>6. Grown(cursors', cursors, n, bound)
  <2>1. cursors \in Seq(bound) /\ y \in bound /\ n \in 1 .. Len(cursors) + 1
    BY <1>3, <1>5
  <2>2. Grown(Placed(cursors, n, y), cursors, n, bound)
    BY <2>1, Replaced, Zenon
  <2>3. cursors' = Placed(cursors, n, y)
    BY <1>4 DEF Placed
  <2> QED
    BY <2>2, <2>3, Zenon
<1>7. Grown(awaited', awaited, n, who)
  <2>1. awaited \in Seq(who) /\ x \in who /\ n \in 1 .. Len(awaited) + 1
    BY <1>3, <1>5
  <2>2. Grown(Placed(awaited, n, x), awaited, n, who)
    BY <2>1, Replaced, Zenon
  <2>3. awaited' = Placed(awaited, n, x)
    BY <1>4 DEF Placed
  <2> QED
    BY <2>2, <2>3, Zenon
<1>8. ASSUME NEW w \in Wire
      PROVE  /\ controller'[w] # None <=> controller[w] # None
             /\ controller'[w] # None => \/ controller'[w] = controller[w]
                                         \/ controller'[w].state \in Ended
  <2>1. CASE w \in Told(cursor)
    <3>1. controller[w] # None
      BY <2>1 DEF Told, Active
    <3>2. controller'[w] = SeederOnDisconnect(controller[w]).session
      BY <2>1 DEF Round
    <3> QED
      BY <3>1, <3>2, ToldOnce
  <2>2. CASE w \notin Told(cursor)
    BY <2>2 DEF Round
  <2> QED
    BY <2>1, <2>2
<1>9. due' \subseteq {w \in Wire : link'[w] # "new" /\ controller'[w] # None}
  BY <1>8
<1>10. alive' \in BOOLEAN
  BY DEF Round
<1>11. LoopInv'
  <2>1. bound = 0 .. Len(activeControllers') /\ who = Wire \cup {None}
    BY DEF bound, who
  <2>2. Len(awaited') = Len(cursors')
    BY <1>1, <1>6, <1>7 DEF Grown
  <2> QED
    BY <1>6, <1>7, <1>9, <1>10, <2>1, <2>2 DEF Grown, ShutdownInv, LoopInv
<1>12. ASSUME NEW w \in Wire PROVE RegisteredAt(w)'
  <2>1. Alone(w)' <=> Alone(w)
    BY DEF Alone
  <2>2. \A i : EntryAt(w, i)' <=> EntryAt(w, i)
    BY DEF EntryAt
  <2> QED
    BY <1>8, <2>1, <2>2 DEF ShutdownInv, RegisteredAt
<1>13. ASSUME NEW w \in Wire PROVE SettledAt(w)'
  <2>1. SUFFICES ASSUME Len(awaited') = 1, Awaits(w)', link[w] = "open", Alone(w)'
                 PROVE  IF alive' THEN \E i \in DOMAIN activeControllers' :
                                         EntryAt(w, i)' /\ Progress(w, i)'
                                  ELSE claims'[w] = 1 /\ rpc'[w] = NoCall
    BY DEF SettledAt
  <2>2. n = 1 /\ Len(cursors) \in {0, 1}
    <3> DEFINE k == Len(cursors)
               k2 == Len(awaited')
    <3>1. k \in Nat /\ n \in 1 .. k + 1 /\ k2 = 1
          /\ k2 = IF n = k + 1 THEN k + 1 ELSE k
      BY <1>1, <1>7, <2>1 DEF Grown
    <3> HIDE DEF k, k2
    <3>2. n = 1 /\ k \in {0, 1}
      BY <3>1
    <3> QED
      BY <3>2 DEF k
  <2>3. Alone(w)
    BY <2>1 DEF Alone
  <2>4. Ready(w, calls, cursor) /\ controller[w] # None
    BY <2>1, <2>2, <2>3 DEF Awaits
  <2>5. Round(1, calls, cursor)
    BY <2>2
  <2> QED
    BY <2>1, <2>4, <2>5, RoundSettles
<1> QED
  BY <1>11, <1>12, <1>13 DEF ShutdownInv

LEMMA ClaimReturnsSettles ==
  ASSUME CliInv, MapInv, ShutdownInv, command = "seed", NEW v \in Wire,
         SeedClaimReturns(v), UNCHANGED command
  PROVE  ShutdownInv'
<1> DEFINE calls == [rpc EXCEPT ![v] = NoCall]
<1>1. /\ alive /\ rpc[v].call = "claim"
      /\ UNCHANGED <<command, link, peerId, negotiated, activeControllers, due, givenUp>>
  BY DEF SeedClaimReturns
<1>2. \A w \in Wire : calls[w] = IF w = v THEN NoCall ELSE rpc[w]
  BY DEF CliInv, Shape
<1>3. ASSUME NEW n \in DOMAIN awaited, awaited[n] = v, LoopGoesOn(n, calls, cursors[n])
      PROVE  ShutdownInv'
  <2>1. /\ awaited \in Seq(Wire \cup {None}) /\ cursors \in Seq(0 .. Len(activeControllers))
        /\ Len(awaited) = Len(cursors) /\ activeControllers \in Seq(PeerId \X Wire)
    BY DEF ShutdownInv, LoopInv, MapInv
  <2>2. n \in 1 .. Len(cursors) + 1 /\ cursors[n] \in Nat
    BY <2>1
  <2>3. Round(n, calls, cursors[n])
    BY <1>3, GoesRound
  <2>4. due' \subseteq {w \in Wire : link[w] # "new" /\ controller[w] # None}
    BY <1>1 DEF ShutdownInv, LoopInv
  <2> HIDE DEF calls
  <2>5. ASSUME n = 1, Len(cursors) \in {0, 1}, NEW w \in due', Awaits(w)',
               link[w] = "open", Alone(w)
        PROVE  Ready(w, calls, cursors[n])
    <3>1. Len(awaited) = 1
      BY <2>1, <2>5
    <3>2. Awaits(w) /\ w \in Wire /\ SettledAt(w)
      BY <1>1, <2>4, <2>5 DEF ShutdownInv, Awaits
    <3>3. PICK i \in DOMAIN activeControllers : EntryAt(w, i) /\ Progress(w, i)
      BY <1>1, <2>5, <3>1, <3>2 DEF SettledAt
    <3>4. Claimed(w) => claims[w] = 1 /\ calls[w] = NoCall
      BY <1>2, <1>3, <2>5, <3>2 DEF Claimed
    <3> QED
      BY <2>5, <3>3, <3>4 DEF Progress, Ready
  <2> QED
    BY <1>1, <2>2, <2>3, <2>4, <2>5, LoopSettles
<1>4. CASE rpc' = calls /\ UNCHANGED <<controller, cursors, awaited, claims, alive>>
  BY <1>1, <1>4, AnswerSettles
<1> QED
  BY <1>3, <1>4 DEF SeedClaimReturns

LEMMA SignalSettles ==
  ASSUME CliInv, MapInv, ShutdownInv, command = "seed", SeedSignal, UNCHANGED command
  PROVE  ShutdownInv'
<1>1. /\ alive
      /\ UNCHANGED <<command, link, peerId, negotiated, activeControllers, givenUp>>
      /\ due' = IF awaited = <<>> THEN {w \in Wire : Due(w)} ELSE due
      /\ LoopGoesOn(Len(awaited) + 1, rpc, 0)
  BY DEF SeedSignal
<1>2. Round(Len(awaited) + 1, rpc, 0)
  BY <1>1, GoesRound
<1>3. /\ awaited \in Seq(Wire \cup {None}) /\ Len(awaited) = Len(cursors)
      /\ cursors \in Seq(0 .. Len(activeControllers)) /\ Len(cursors) \in Nat
      /\ activeControllers \in Seq(PeerId \X Wire)
  BY DEF ShutdownInv, LoopInv, MapInv
<1>4. Len(awaited) + 1 \in 1 .. Len(cursors) + 1
  BY <1>3
<1>5. ASSUME NEW w \in Wire, Due(w)
      PROVE  controller[w] # None /\ link[w] # "new"
  BY <1>5, SeedingWire DEF Due, Active, Seeding, SeederOK
<1>6. due' \subseteq {w \in Wire : link[w] # "new" /\ controller[w] # None}
  BY <1>1, <1>5 DEF ShutdownInv, LoopInv
<1>7. ASSUME Len(awaited) + 1 = 1, NEW w \in due', Awaits(w)', link[w] = "open", Alone(w)
      PROVE  Ready(w, rpc, 0)
  <2>1. awaited = <<>>
    BY <1>3, <1>7
  <2>2. w \in Wire /\ Due(w)
    BY <1>1, <2>1
  <2>3. w \in negotiated /\ controller[w] # None /\ command = "seed"
    BY <1>1, <1>7, <2>2 DEF Awaits, Due, Active
  <2>4. PICK i \in DOMAIN activeControllers : EntryAt(w, i)
    BY <1>7, <2>2, <2>3 DEF ShutdownInv, RegisteredAt
  <2>5. ~(i <= 0)
    BY <1>3
  <2> QED
    BY <2>2, <2>4, <2>5 DEF Ready
<1> QED
  BY <1>1, <1>2, <1>4, <1>6, <1>7, LoopSettles

LEMMA SeedSettles == CliInv /\ MapInv /\ ShutdownInv /\ SeedStep => ShutdownInv'
BY HandshakeSettles, MessageSettles, VerifiedSettles, ClaimReturnsSettles,
   DisconnectSettles, SignalSettles DEF SeedStep

(* The loops of a downloading process await nothing. *)
LEMMA DownloadSettles == ProcessInv /\ ShutdownInv /\ DownloadStep => ShutdownInv'
<1> SUFFICES ASSUME CliInv, MapInv, LateInv, ShutdownInv, DownloadStep PROVE ShutdownInv'
  BY DEF ProcessInv
<1>1. command = "download" /\ command' = "download" /\ UNCHANGED <<awaited, due, givenUp>>
  BY DEF DownloadStep, seedVars
<1>2. awaited = <<>> /\ due = {} /\ cursors \in Seq(0 .. Len(activeControllers))
      /\ Len(awaited) = Len(cursors)
  BY <1>1 DEF ShutdownInv, LoopInv
<1> DEFINE Loops == /\ cursors' \in Seq(0 .. Len(activeControllers'))
                    /\ Len(cursors') = Len(cursors)
<1>3. ASSUME NEW v \in Wire, Unregister(v) PROVE Loops
  BY <1>2, <1>3, LoopsAfterDelete
<1>4. ASSUME UNCHANGED <<activeControllers, cursors>> PROVE Loops
  BY <1>2, <1>4
<1>5. ASSUME NEW v \in Wire, DownloadRegisters(v) PROVE Loops
  <2>1. link[v] # "new" /\ UNCHANGED cursors
        /\ activeControllers' = MapSet(activeControllers, peerId[v], v)
    BY <1>5 DEF DownloadRegisters, LateInv, ConnectionAssumption
  <2> QED
    BY <1>2, <2>1, LoopsAfterSet
<1> HIDE DEF Loops
<1>6. ASSUME NEW v, NEW r, DownloadExecute(v, r), v \in Wire PROVE Loops
  BY <1>3, <1>4, <1>6 DEF DownloadExecute, DownloadWireCloses
<1>7. Loops /\ negotiated' \subseteq Wire /\ alive' \in BOOLEAN
  <2>1. negotiated \subseteq Wire /\ alive \in BOOLEAN
    BY DEF ShutdownInv, LoopInv
  <2>2. ASSUME NEW v \in Wire, NEW kind, DownloadHandshake(v, kind)
        PROVE  Loops /\ negotiated' \subseteq Wire /\ UNCHANGED alive
    BY <1>3, <1>4, <2>1, <2>2 DEF DownloadHandshake, DownloadWireCloses
  <2>9. ASSUME NEW v \in Wire, DownloadRegisters(v)
        PROVE  Loops /\ UNCHANGED <<negotiated, alive>>
    BY <1>5, <2>9 DEF DownloadRegisters
  <2>3. ASSUME NEW v \in Wire, NEW m, DownloadReceives(v, m)
        PROVE  Loops /\ UNCHANGED <<negotiated, alive>>
    BY <1>6, <2>3 DEF DownloadReceives
  <2>4. ASSUME NEW v \in Wire, NEW landed, OpenReturns(v, landed)
        PROVE  Loops /\ UNCHANGED <<negotiated, alive>>
    BY <1>4, <2>4 DEF OpenReturns
  <2>5. ASSUME NEW v \in Wire, DownloadPiece(v)
        PROVE  Loops /\ UNCHANGED <<negotiated, alive>>
    BY <1>4, <1>6, <2>5 DEF DownloadPiece
  <2>6. ASSUME NEW v \in Wire, DownloadDisconnects(v)
        PROVE  Loops /\ UNCHANGED <<negotiated, alive>>
    BY <1>3, <2>6 DEF DownloadDisconnects, DownloadWireCloses
  <2>7. CASE DownloadDone
    BY <1>4, <2>1, <2>7 DEF DownloadDone
  <2>8. CASE DownloadEnds
    BY <1>4, <2>1, <2>8 DEF DownloadEnds, ExitProcess
  <2> QED
    BY <2>1, <2>2, <2>3, <2>4, <2>5, <2>6, <2>7, <2>8, <2>9 DEF DownloadStep
<1>8. LoopInv'
  BY <1>1, <1>2, <1>7 DEF Loops, LoopInv, ShutdownInv
<1>9. \A w \in Wire : RegisteredAt(w)' /\ SettledAt(w)'
  BY <1>1, <1>2 DEF RegisteredAt, SettledAt
<1> QED
  BY <1>8, <1>9 DEF ShutdownInv

LEMMA InitSettles == Init => ShutdownInv
<1> SUFFICES ASSUME Init PROVE ShutdownInv
  OBVIOUS
<1> USE DEF Init, ProcessInit, SeedInit
<1>1. LoopInv
  BY DEF LoopInv
<1>2. \A w \in Wire : RegisteredAt(w) /\ SettledAt(w)
  BY DEF RegisteredAt, SettledAt
<1> QED
  BY <1>1, <1>2 DEF ShutdownInv

LEMMA StepSettles == ProcessInv /\ ShutdownInv /\ [Next]_vars => ShutdownInv'
<1> SUFFICES ASSUME ProcessInv, CliInv, MapInv, ShutdownInv, [Next]_vars PROVE ShutdownInv'
  BY DEF ProcessInv
<1>1. CASE NewWire
  BY <1>1, ConnectSettles DEF NewWire
<1>2. CASE UNCHANGED vars
  <2>1. UNCHANGED <<command, link, peerId, controller, negotiated, activeControllers,
                    cursors, rpc, alive, awaited, claims, due, givenUp>>
    BY <1>2 DEF vars, processVars, seedVars
  <2>2. LoopInv'
    BY <2>1 DEF ShutdownInv, LoopInv
  <2>3. \A w \in Wire : Untouched(w)
    BY <2>1, EntriesSame DEF Untouched, Alone
  <2>4. \A w \in Wire : RegisteredAt(w)' /\ SettledAt(w)'
    BY <2>1, <2>3, Framed DEF ShutdownInv
  <2> QED
    BY <2>2, <2>4 DEF ShutdownInv
<1> QED
  BY <1>1, <1>2, SeedSettles, DownloadSettles DEF Next

(* A seeding process keeps the entries of its wires and what its first       *)
(* shutdown loop has done and has to do, whatever closes, connects and       *)
(* answers between two awaits of the loop.                                   *)
THEOREM ShutdownInvariance == Spec => []ShutdownInv
<1>1. ProcessInv /\ ShutdownInv /\ [Next]_vars => ShutdownInv'
  BY StepSettles
<1> QED
  BY <1>1, InitSettles, CliInvariance, PTL DEF Spec

(* A process that got one signal has claimed, and awaited the claim of, every*)
(* session with a check at the signal whose wire stayed open and whose peer  *)
(* id no other wire has (shutdown, seed.ts).                                 *)
THEOREM ShutdownSettlesProved == Spec => []ShutdownSettles
<1>1. ShutdownInv => ShutdownSettles
  <2> SUFFICES ASSUME ShutdownInv, ~alive, Len(awaited) = 1, NEW w \in due,
                      w \in negotiated, w \notin givenUp, link[w] = "open",
                      ~SharesPeerId(w)
               PROVE  claims[w] = 1 /\ rpc[w] = NoCall
    BY DEF ShutdownSettles
  <2>1. w \in Wire /\ Alone(w)
    BY DEF ShutdownInv, LoopInv, SharesPeerId, Alone
  <2> QED
    BY <2>1 DEF ShutdownInv, SettledAt, Awaits
<1> QED
  BY <1>1, ShutdownInvariance, PTL
-----------------------------------------------------------------------------
(* --- types --- *)

Calls == [call : {"none", "verify", "open"}] \cup [call : {"claim"}, check : PaymentCheck]

(* A check that was accepted has a nonce: a claim is never for NoCheck.      *)
Held(s) == s.highestCheck \in PaymentCheck \cup {NoCheck}

CallInv ==
  \A w \in Wire : /\ rpc[w] \in Calls
                  /\ command = "seed" /\ controller[w] # None => Held(controller[w])

CountsInv == /\ received \in 0 .. FilePieces /\ done \in BOOLEAN
             /\ overtaken \subseteq Wire

TypeInv == CallInv /\ CountsInv

(* What a method that leaves the check alone, or disconnects, starts. *)
LEMMA CallTypes ==
  ASSUME NEW r, NEW c \in Calls, r.action.action = "close_channel" => r.session.highestCheck \in PaymentCheck
  PROVE  CallOf(r, c) \in Calls
<1>1. CASE r.action.action = "verify_channel"
  BY <1>1 DEF CallOf, Calls
<1>2. CASE r.action.action = "close_channel"
  BY <1>2 DEF CallOf, Calls
<1>3. CASE r.action.action \notin {"verify_channel", "close_channel"}
  BY <1>3 DEF CallOf
<1> QED
  BY <1>1, <1>2, <1>3

LEMMA DisconnectTypes ==
  ASSUME NEW s \in SeederSessions, Held(s), NEW c \in Calls
  PROVE  LET r == SeederOnDisconnect(s)
         IN  Held(r.session) /\ CallOf(r, c) \in Calls
<1> DEFINE r == SeederOnDisconnect(s)
<1>1. r.session.highestCheck = s.highestCheck
  BY DEF SeederOnDisconnect, Returns, SeederSessions
<1>2. r.action.action = "close_channel" => s.highestCheck # NoCheck
  BY DEF SeederOnDisconnect, Returns, NoAction
<1> HIDE DEF r
<1> QED
  BY <1>1, <1>2, CallTypes DEF Held, r

LEMMA MessageTypes ==
  ASSUME NEW s \in SeederSessions, Held(s), NEW c \in Calls,
         NEW m \in LeecherMessages, NEW valid \in BOOLEAN
  PROVE  LET r == SeederHandle(s, m, valid)
         IN  Held(r.session) /\ CallOf(r, c) \in Calls
<1> DEFINE r == SeederHandle(s, m, valid)
<1>1. CASE m.type \in {"ecdh_init", "channel_opened"}
  <2>1. r.session.highestCheck = s.highestCheck /\ r.action.action # "close_channel"
    BY <1>1 DEF SeederHandle, SeederOnEcdhInit, SeederOnChannelOpened, InState, Returns,
                SeederSessions, SendMessage, ErrorAction
  <2> HIDE DEF r
  <2> QED
    BY <2>1, CallTypes DEF Held, r
<1>2. CASE m.type = "payment_check"
  <2> DEFINE check == [channelId |-> m.channelId, amount |-> m.amount, nonce |-> m.nonce]
  <2>1. check \in PaymentCheck
    BY <1>2 DEF LeecherMessages, PaymentCheck
  <2>2. r = SeederOnPaymentCheck(s, check, valid)
    BY <1>2 DEF SeederHandle
  <2> HIDE DEF check
  <2>3. /\ r.session = s \/ r.session = [s EXCEPT !.highestCheck = check]
        /\ r.action.action # "close_channel"
    BY <2>2 DEF SeederOnPaymentCheck, InState, Returns, NoAction, SendMessage, ErrorAction
  <2> HIDE DEF r
  <2>4. r.session.highestCheck \in {s.highestCheck, check}
    BY <2>3 DEF SeederSessions
  <2> QED
    BY <2>1, <2>3, <2>4, CallTypes DEF Held, r
<1>3. CASE m.type = "channel_closed"
  <2>1. r.session.highestCheck = s.highestCheck /\ r.action.action # "close_channel"
    BY <1>3 DEF SeederHandle, SeederOnChannelClosed, Returns, SeederSessions, NoAction
  <2> HIDE DEF r
  <2> QED
    BY <2>1, CallTypes DEF Held, r
<1> QED
  BY <1>1, <1>2, <1>3 DEF LeecherMessages

LEMMA VerifiedTypes ==
  ASSUME NEW s \in SeederSessions, Held(s), NEW valid \in BOOLEAN
  PROVE  Held((IF valid THEN ConfirmChannel(s, Deposit) ELSE RejectChannel(s)).session)
<1> DEFINE known == [s EXCEPT !.channelDeposit = Deposit]
<1>1. known \in SeederSessions /\ known.highestCheck = s.highestCheck
  BY DEF SeederSessions
<1>2. ASSUME NEW t \in SeederSessions, t.highestCheck = s.highestCheck,
             NEW state \in {"closed", "active"}
      PROVE  [t EXCEPT !.state = state].highestCheck = s.highestCheck
  BY <1>2 DEF SeederSessions
<1>3. RejectChannel(s).session = [s EXCEPT !.state = "closed"]
  BY DEF RejectChannel, Returns
<1>4. ConfirmChannel(s, Deposit).session \in
        {s, [known EXCEPT !.state = "closed"], [known EXCEPT !.state = "active"]}
  BY DEF ConfirmChannel, RejectChannel, InState, Returns
<1> HIDE DEF known
<1>5. /\ [s EXCEPT !.state = "closed"].highestCheck = s.highestCheck
      /\ [known EXCEPT !.state = "closed"].highestCheck = s.highestCheck
      /\ [known EXCEPT !.state = "active"].highestCheck = s.highestCheck
  BY <1>1, <1>2
<1>6. /\ RejectChannel(s).session.highestCheck = s.highestCheck
      /\ ConfirmChannel(s, Deposit).session.highestCheck = s.highestCheck
  BY <1>3, <1>4, <1>5
<1> QED
  BY <1>6 DEF Held

LEMMA SeedTypes ==
  ASSUME CliInv, MapInv, TypeInv, SeedStep
  PROVE  TypeInv'
<1>1. command = "seed" /\ UNCHANGED <<command, received, done, overtaken>>
  BY DEF SeedStep, downloadVars
<1>2. CountsInv'
  BY <1>1 DEF TypeInv, CountsInv
<1> DEFINE Kept(w) == /\ rpc'[w] \in Calls
                      /\ controller'[w] # None => Held(controller'[w])
<1>3. NoCall \in Calls
  BY DEF NoCall, Calls
<1>4. ASSUME NEW w \in Wire
      PROVE  /\ rpc[w] \in Calls
             /\ controller[w] # None => controller[w] \in SeederSessions /\ Held(controller[w])
  BY <1>1, SeedingWire DEF TypeInv, CallInv, Seeding, SeederOK
<1>5. ASSUME NEW w \in Wire, controller'[w] = controller[w], rpc'[w] \in {rpc[w], NoCall}
      PROVE  Kept(w)
  BY <1>3, <1>4, <1>5
<1>6. ASSUME NEW w \in Wire, NEW c \in Calls, controller[w] # None,
             controller'[w] = SeederOnDisconnect(controller[w]).session,
             rpc'[w] = CallOf(SeederOnDisconnect(controller[w]), c)
      PROVE  Kept(w)
  BY <1>4, <1>6, DisconnectTypes
<1>7. ASSUME NEW v \in Wire, controller[v] # None, SeedWireCloses(v, controller[v]), NEW w \in Wire
      PROVE  Kept(w)
  <2>1. CASE w = v
    <3>1. /\ controller'[w] = SeederOnDisconnect(controller[w]).session
          /\ rpc'[w] = CallOf(SeederOnDisconnect(controller[w]), rpc[w])
      BY <1>7, <2>1 DEF SeedWireCloses, CliInv, Shape
    <3> QED
      BY <1>4, <1>6, <1>7, <2>1, <3>1
  <2>2. CASE w # v
    <3>1. controller'[w] = controller[w] /\ rpc'[w] = rpc[w]
      BY <1>7, <2>2 DEF SeedWireCloses, CliInv, Shape
    <3> QED
      BY <1>5, <3>1
  <2> QED
    BY <2>1, <2>2
<1>8. ASSUME NEW n, NEW calls, NEW cursor, LoopGoesOn(n, calls, cursor),
             NEW w \in Wire, calls[w] \in {rpc[w], NoCall}
      PROVE  Kept(w)
  <2>1. calls[w] \in Calls /\ Round(n, calls, cursor)
    BY <1>3, <1>4, <1>8, GoesRound
  <2>2. CASE w \in Told(cursor)
    <3>1. controller[w] # None
      BY <2>2 DEF Told, Active
    <3> QED
      BY <1>6, <2>1, <2>2, <3>1 DEF Round
  <2>3. CASE w \notin Told(cursor)
    BY <1>5, <1>8, <2>1, <2>3 DEF Round
  <2> QED
    BY <2>2, <2>3
<1>9. ASSUME NEW v \in Wire, NEW advertised \in BOOLEAN, SeedHandshake(v, advertised),
             NEW w \in Wire
      PROVE  Kept(w)
  <2>1. Held(NewSeederSession)
    BY DEF Held, NewSeederSession
  <2>2. /\ controller'[w] = IF w = v THEN NewSeederSession ELSE controller[w]
        /\ rpc'[w] = rpc[w]
    BY <1>9 DEF SeedHandshake, CliInv, Shape
  <2> QED
    BY <1>4, <2>1, <2>2
<1>10. ASSUME NEW v \in Wire, NEW m \in LeecherMessages, NEW valid \in BOOLEAN,
              SeedReceives(v, m, valid), NEW w \in Wire
       PROVE  Kept(w)
  <2> DEFINE r == SeederHandle(controller[v], m, valid)
  <2>1. Seeding(v) /\ controller[v] # None
    BY <1>1, <1>10, SeedingWire DEF SeedReceives, CliInv, WireOK, Unused
  <2>2. Held(r.session) /\ CallOf(r, rpc[v]) \in Calls
    BY <1>4, <2>1, MessageTypes
  <2>3. CASE r.action = ErrorAction
    <3>1. r.session = controller[v]
      BY <1>10, <2>1, <2>3, SeederHandled DEF SeedReceives, Seeding
    <3>2. SeedWireCloses(v, controller[v])
      BY <1>10, <2>3, <3>1 DEF SeedReceives
    <3> QED
      BY <1>7, <2>1, <3>2
  <2>4. CASE r.action # ErrorAction
    <3>1. /\ controller' = [controller EXCEPT ![v] = r.session]
          /\ rpc' = [rpc EXCEPT ![v] = CallOf(r, rpc[v])]
      BY <1>10, <2>4 DEF SeedReceives
    <3> HIDE DEF r
    <3>2. /\ controller'[w] = IF w = v THEN r.session ELSE controller[w]
          /\ rpc'[w] = IF w = v THEN CallOf(r, rpc[v]) ELSE rpc[w]
      BY <3>1 DEF CliInv, Shape
    <3> QED
      BY <1>4, <2>2, <3>2
  <2> QED
    BY <2>3, <2>4
<1>11. ASSUME NEW v \in Wire, NEW valid \in BOOLEAN, SeedVerified(v, valid, Deposit),
              NEW w \in Wire
       PROVE  Kept(w)
  <2> DEFINE r == IF valid THEN ConfirmChannel(controller[v], Deposit)
                           ELSE RejectChannel(controller[v])
  <2>1. controller[v] # None
    BY <1>1, <1>11, SeedingWire DEF SeedVerified
  <2>2. Held(r.session)
    BY <1>4, <2>1, VerifiedTypes
  <2>3. /\ controller' = [controller EXCEPT ![v] = r.session]
        /\ rpc' = [rpc EXCEPT ![v] = NoCall]
    BY <1>11 DEF SeedVerified
  <2> HIDE DEF r
  <2>4. /\ controller'[w] = IF w = v THEN r.session ELSE controller[w]
        /\ rpc'[w] = IF w = v THEN NoCall ELSE rpc[w]
    BY <2>3 DEF CliInv, Shape
  <2> QED
    BY <1>3, <1>4, <2>2, <2>4
<1>12. ASSUME NEW v \in Wire, SeedClaimReturns(v), NEW w \in Wire PROVE Kept(w)
  <2> DEFINE calls == [rpc EXCEPT ![v] = NoCall]
  <2>1. calls[w] \in {rpc[w], NoCall}
    BY DEF CliInv, Shape
  <2> HIDE DEF calls
  <2>2. CASE \E n \in DOMAIN awaited : LoopGoesOn(n, calls, cursors[n])
    BY <1>8, <2>1, <2>2
  <2>3. CASE rpc' = calls /\ UNCHANGED controller
    BY <1>5, <2>1, <2>3
  <2> QED
    BY <1>12, <2>2, <2>3 DEF SeedClaimReturns, calls
<1>13. ASSUME NEW v \in Wire, SeedDisconnects(v), NEW w \in Wire PROVE Kept(w)
  <2>1. CASE controller[v] # None
    BY <1>7, <1>13, <2>1 DEF SeedDisconnects
  <2>2. CASE controller[v] = None
    BY <1>5, <1>13, <2>2 DEF SeedDisconnects
  <2> QED
    BY <2>1, <2>2
<1>14. ASSUME SeedSignal, NEW w \in Wire PROVE Kept(w)
  BY <1>8, <1>14 DEF SeedSignal
<1> HIDE DEF Kept
<1>15. \A w \in Wire : Kept(w)
  BY <1>9, <1>10, <1>11, <1>12, <1>13, <1>14 DEF SeedStep
<1> QED
  BY <1>1, <1>2, <1>15 DEF TypeInv, CallInv, Kept

LEMMA DownloadTypes ==
  ASSUME CliInv, MapInv, TypeInv, DownloadStep
  PROVE  TypeInv'
<1>1. command = "download" /\ command' = "download"
  BY DEF DownloadStep
<1>2. /\ \A w \in Wire : rpc[w] \in Calls
      /\ received \in 0 .. FilePieces /\ FilePieces \in Nat /\ done \in BOOLEAN
      /\ overtaken \subseteq Wire
  BY DEF TypeInv, CallInv, CountsInv, BalanceAssumption
<1>3. NoCall \in Calls /\ [call |-> "open"] \in Calls
  BY DEF NoCall, Calls
<1> DEFINE Kept == \A w \in Wire : rpc'[w] \in Calls
<1>4. ASSUME UNCHANGED rpc PROVE Kept
  BY <1>2, <1>4
<1>5. ASSUME NEW v \in Wire, NEW c \in Calls, rpc' = [rpc EXCEPT ![v] = c] PROVE Kept
  BY <1>2, <1>5 DEF CliInv, Shape
<1> HIDE DEF Kept
<1>6. ASSUME NEW v \in Wire, NEW r, DownloadExecute(v, r) PROVE Kept
  <2>1. CASE r.action = ErrorAction
    BY <1>4, <1>6, <2>1 DEF DownloadExecute, DownloadWireCloses
  <2>2. CASE r.action # ErrorAction
    <3> DEFINE c == IF r.action.action = "open_channel" THEN [call |-> "open"] ELSE rpc[v]
    <3>1. rpc' = [rpc EXCEPT ![v] = c]
      BY <1>6, <2>2 DEF DownloadExecute
    <3>2. c \in Calls
      BY <1>2, <1>3
    <3> HIDE DEF c
    <3> QED
      BY <1>5, <3>1, <3>2
  <2> QED
    BY <2>1, <2>2
<1>7. Kept /\ CountsInv'
  <2>1. ASSUME NEW v \in Wire, NEW kind, DownloadHandshake(v, kind)
        PROVE  Kept /\ UNCHANGED <<received, done, overtaken>>
    BY <1>4, <2>1 DEF DownloadHandshake, DownloadWireCloses, downloadVars
  <2>2. ASSUME NEW v \in Wire, NEW m, DownloadReceives(v, m)
        PROVE  Kept /\ UNCHANGED <<received, done, overtaken>>
    BY <1>6, <2>2 DEF DownloadReceives, downloadVars
  <2>9. ASSUME NEW v \in Wire, DownloadRegisters(v)
        PROVE  Kept /\ UNCHANGED <<received, done>> /\ overtaken' \subseteq Wire
    BY <1>2, <1>4, <2>9 DEF DownloadRegisters
  <2>3. ASSUME NEW v \in Wire, NEW landed, OpenReturns(v, landed)
        PROVE  Kept /\ UNCHANGED <<received, done, overtaken>>
    BY <1>3, <1>5, <2>3 DEF OpenReturns
  <2>4. ASSUME NEW v \in Wire, DownloadPiece(v)
        PROVE  Kept /\ received < FilePieces /\ received' = received + 1
               /\ UNCHANGED <<done, overtaken>>
    BY <1>4, <1>6, <2>4 DEF DownloadPiece
  <2>5. ASSUME NEW v \in Wire, DownloadDisconnects(v)
        PROVE  Kept /\ UNCHANGED <<received, done, overtaken>>
    BY <1>4, <2>5 DEF DownloadDisconnects, DownloadWireCloses, downloadVars
  <2>6. ASSUME DownloadDone PROVE Kept /\ UNCHANGED <<received, overtaken>> /\ done' \in BOOLEAN
    BY <1>4, <2>6 DEF DownloadDone
  <2>7. ASSUME DownloadEnds PROVE Kept /\ UNCHANGED <<received, done, overtaken>>
    BY <1>4, <2>7 DEF DownloadEnds, downloadVars
  <2>8. \/ Kept /\ UNCHANGED <<received, done>> /\ overtaken' \subseteq Wire
        \/ Kept /\ UNCHANGED <<received, done, overtaken>>
        \/ Kept /\ received < FilePieces /\ received' = received + 1
               /\ UNCHANGED <<done, overtaken>>
        \/ Kept /\ UNCHANGED <<received, overtaken>> /\ done' \in BOOLEAN
    BY <2>1, <2>2, <2>3, <2>4, <2>5, <2>6, <2>7, <2>9 DEF DownloadStep
  <2> QED
    BY <1>2, <2>8 DEF CountsInv
<1> QED
  BY <1>1, <1>7 DEF TypeInv, CallInv, Kept

LEMMA InitTypes == Init => TypeInv
<1> SUFFICES ASSUME Init PROVE TypeInv
  OBVIOUS
<1>1. CallInv
  <2>1. NoCall \in Calls
    BY DEF Calls, NoCall
  <2>2. \A w \in Wire : rpc[w] = NoCall /\ controller[w] = None
    BY DEF Init, ProcessInit
  <2> QED
    BY <2>1, <2>2 DEF CallInv
<1>2. CountsInv
  <2>1. received = 0 /\ done = FALSE /\ FilePieces \in Nat /\ overtaken = {}
    BY DEF Init, DownloadInit, BalanceAssumption
  <2>2. 0 \in 0 .. FilePieces
    BY <2>1
  <2> QED
    BY <2>1, <2>2 DEF CountsInv
<1> QED
  BY <1>1, <1>2 DEF TypeInv

LEMMA StepTypes == ProcessInv /\ TypeInv /\ [Next]_vars => TypeInv'
<1> SUFFICES ASSUME CliInv, MapInv, TypeInv, [Next]_vars PROVE TypeInv'
  BY DEF ProcessInv
<1>1. CASE NewWire \/ UNCHANGED vars
  <2>1. UNCHANGED <<command, controller, rpc, received, done, overtaken>>
    BY <1>1 DEF NewWire, Connect, downloadVars, vars, processVars
  <2> QED
    BY <2>1 DEF TypeInv, CallInv, CountsInv
<1> QED
  BY <1>1, SeedTypes, DownloadTypes DEF Next

LEMMA AllTypes == ProcessInv /\ LoopInv /\ TypeInv => TypeOK
<1> SUFFICES ASSUME CliInv, MapInv, LateInv, LoopInv, TypeInv PROVE TypeOK
  BY DEF ProcessInv
<1>1. controller \in [Wire -> LeecherSessions \cup SeederSessions \cup {None}]
  <2>1. \A w \in Wire : controller[w] \in LeecherSessions \cup SeederSessions \cup {None}
    BY DEF CliInv, WireOK, Unused, Seeding, SeederOK, Leeching, LeecherOK
  <2> QED
    BY <2>1 DEF CliInv, Shape
<1>2. rpc \in [Wire -> [call : {"none", "verify", "open"}]
                         \cup [call : {"claim"}, check : PaymentCheck]]
  <2>1. rpc \in [Wire -> Calls]
    BY DEF CliInv, Shape, TypeInv, CallInv
  <2> QED
    BY <2>1 DEF Calls
<1>3. ProcessTypeOK
  BY <1>1, <1>2 DEF ProcessTypeOK, MapInv, LoopInv, Link
<1>4. SeedTypeOK
  BY DEF SeedTypeOK, LoopInv, CliInv, Shape
<1>5. DownloadTypeOK
  BY DEF DownloadTypeOK, CliInv, Shape, BalanceInv, TypeInv, CountsInv, LateInv
<1> QED
  BY <1>3, <1>4, <1>5 DEF TypeOK, CliInv, Shape

(* Every variable of a process keeps its type: in particular the loops stay  *)
(* within the Map and a claim is always for a check that was accepted.       *)
THEOREM CliTypeCorrect == Spec => []TypeOK
<1>1. ProcessInv /\ TypeInv /\ [Next]_vars => TypeInv'
  BY StepTypes
<1>2. ProcessInv /\ ShutdownInv /\ TypeInv => TypeOK
  BY AllTypes DEF ShutdownInv
<1> QED
  BY <1>1, <1>2, InitTypes, CliInvariance, ShutdownInvariance, PTL DEF Spec
=============================================================================
