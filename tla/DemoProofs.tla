----------------------------- MODULE DemoProofs -----------------------------
(* Theorems about Demo for files, pieces and check intervals of any size,    *)
(* any price, and any tokens the wallets hold before.                        *)
EXTENDS Demo, TLAPS

USE DemoAssumption, WalletAssumption
-----------------------------------------------------------------------------
(* --- the inductive invariant --- *)

ConfigInv ==
  /\ config \in [fileSize : Nat \ {0}, pieceSize : Nat \ {0}, pricePerMb : Nat,
                 checkFrequency : Nat \ {0}, depositAmount : Nat \ {0}]
  /\ TotalCostBaseUnits(config) <= config.depositAmount

Paid(bytes) == CostOf(bytes, config.pricePerMb)

(* The loop of simulateTransfer: all pieces but the last are whole, and the  *)
(* last check left at most the pieces since the last multiple of the check   *)
(* interval unpaid.                                                          *)
LoopInv ==
  /\ currentPiece \in 0 .. TotalPieces(config)
  /\ currentPiece < TotalPieces(config) =>
       seeder.bytesServed = currentPiece * config.pieceSize
  /\ currentPiece = TotalPieces(config) =>
       /\ seeder.bytesServed = config.fileSize
       /\ leecher.bytesDownloaded = config.fileSize
       /\ leecher.nonce # 0
  /\ leecher.bytesDownloaded <= seeder.bytesServed
  /\ seeder.bytesServed <=
       leecher.bytesDownloaded + (currentPiece % config.checkFrequency) * config.pieceSize

(* Both sides hold the same check, for what was downloaded when it was made. *)
CheckInv ==
  /\ leecher \in [nonce : Nat, bytesDownloaded : Nat, highestCheck : Checks]
  /\ seeder \in [lastNonce : Nat, lastAmount : Nat, highestCheck : Checks,
                 bytesServed : Nat, channelDeposit : {0, config.depositAmount}]
  /\ leecher.highestCheck.amount = Paid(leecher.bytesDownloaded)
  /\ leecher.highestCheck.nonce = leecher.nonce
  /\ seeder.highestCheck = leecher.highestCheck
  /\ seeder.lastAmount = leecher.highestCheck.amount
  /\ seeder.lastNonce = leecher.nonce

ChainTypes == Chain!TypeOK

(* Where the script is says where the channel is. *)
NotOpened ==
  /\ channel[TheKey] = NoAccount /\ escrow[TheKey] = NoAccount
  /\ Len(log[TheKey]) = 0
  /\ balance[SeederWallet] = InitialBalance[SeederWallet]
IsOpen ==
  /\ channel[TheKey] # NoAccount
  /\ channel[TheKey].status = "Open"
  /\ channel[TheKey].deposited = config.depositAmount
  /\ Len(log[TheKey]) = 1
  /\ balance[SeederWallet] = InitialBalance[SeederWallet]
Settled ==
  /\ Len(log[TheKey]) = 2
  /\ log[TheKey][2].earned = leecher.highestCheck.amount
  /\ log[TheKey][2].refunded = config.depositAmount - leecher.highestCheck.amount
  /\ leecher.highestCheck.amount <= config.depositAmount
  /\ balance[SeederWallet] = InitialBalance[SeederWallet] + leecher.highestCheck.amount

PhaseInv ==
  /\ phase \in {"setup", "open", "verify", "transfer", "close", "summary", "done",
                "failed"}
  /\ phase \in {"setup", "open"} => NotOpened
  /\ phase \in {"verify", "transfer", "close"} => IsOpen
  /\ phase \in {"transfer", "close"} => seeder.channelDeposit = config.depositAmount
  /\ phase \in {"close", "summary", "done"} => currentPiece = TotalPieces(config)
  /\ phase \in {"summary", "done"} => Settled

Printed == [earned |-> leecher.highestCheck.amount,
            refunded |-> config.depositAmount - leecher.highestCheck.amount,
            transferred |-> seeder.bytesServed]

SummaryInv ==
  /\ summary \in Seq([earned : Nat, refunded : Nat, transferred : Nat])
  /\ phase = "done" => summary = <<Printed>>
  /\ rpcFailed \in BOOLEAN

DemoInv == ConfigInv /\ LoopInv /\ CheckInv /\ ChainTypes /\ PhaseInv /\ SummaryInv
-----------------------------------------------------------------------------
(* --- rounding --- *)

LEMMA Product ==
  ASSUME NEW x \in Nat, NEW y \in Nat, NEW z \in Nat, x <= y
  PROVE  x * z \in Nat /\ y * z \in Nat /\ x * z <= y * z
  BY SMT

LEMMA Distributes ==
  ASSUME NEW x \in Nat, NEW y \in Nat, NEW z \in Nat
  PROVE  (x + y) * z = x * z + y * z
  BY SMT

(* A common factor cancels. *)
LEMMA Cancel ==
  ASSUME NEW x \in Nat, NEW y \in Nat, NEW z \in Nat \ {0}, x * z < y * z
  PROVE  x < y
<1> SUFFICES ASSUME y <= x PROVE FALSE
  OBVIOUS
<1>1. y * z <= x * z /\ x * z \in Nat /\ y * z \in Nat
  BY Product
<1> QED
  BY <1>1

(* Rounding up gives the least number of parts that hold everything. *)
LEMMA Ceil ==
  ASSUME NEW a \in Nat, NEW b \in Nat \ {0}
  PROVE  /\ CeilDiv(a, b) \in Nat
         /\ a <= CeilDiv(a, b) * b
         /\ CeilDiv(a, b) * b < a + b
<1> DEFINE x == a + b - 1
<1>1. x \in Nat
  OBVIOUS
<1> HIDE DEF x
<1>2. x \div b \in Nat /\ b * (x \div b) <= x /\ x < b * (x \div b) + b
  BY <1>1, SMT
<1>3. CeilDiv(a, b) = x \div b
  BY DEF CeilDiv, x
<1>4. x = a + b - 1
  BY DEF x
<1> DEFINE q == x \div b
<1> HIDE DEF q
<1>5. q \in Nat /\ b * q <= x /\ x < b * q + b
  BY <1>2 DEF q
<1>6. b * q = q * b /\ q * b \in Nat
  BY <1>5
<1>7. a <= q * b /\ q * b < a + b
  BY <1>4, <1>5, <1>6
<1> QED
  BY <1>3, <1>5, <1>7 DEF q

LEMMA CeilLeast ==
  ASSUME NEW a \in Nat, NEW b \in Nat \ {0}, NEW k \in Nat, a <= k * b
  PROVE  CeilDiv(a, b) <= k
<1> DEFINE q == CeilDiv(a, b)
<1>1. q \in Nat /\ q * b < a + b
  BY Ceil
<1> HIDE DEF q
<1>2. q * b < (k + 1) * b
  <2>1. (k + 1) * b = k * b + b /\ k * b \in Nat /\ q * b \in Nat
    BY <1>1, Product
  <2> QED
    BY <1>1, <2>1
<1>3. q < k + 1
  BY <1>1, <1>2, Cancel
<1> QED
  BY <1>1, <1>3 DEF q

(* More bytes never cost less, and two parts cost at least the whole. *)
LEMMA CostType ==
  ASSUME NEW a \in Nat, NEW price \in Nat
  PROVE  /\ a * price \in Nat /\ CostOf(a, price) \in Nat
         /\ a * price <= CostOf(a, price) * BytesPerMb
<1>1. a * price \in Nat
  BY Product
<1> QED
  BY <1>1, Ceil DEF CostOf

LEMMA CostMonotone ==
  ASSUME NEW a \in Nat, NEW b \in Nat, NEW price \in Nat, a <= b
  PROVE  CostOf(a, price) <= CostOf(b, price)
<1> DEFINE k == CostOf(b, price)
<1>1. a * price \in Nat /\ k \in Nat /\ a * price <= b * price /\ b * price <= k * BytesPerMb
      /\ b * price \in Nat
  BY CostType, Product
<1> HIDE DEF k
<1>2. a * price <= k * BytesPerMb
  <2>1. k * BytesPerMb \in Nat
    BY <1>1, Product
  <2> QED
    BY <1>1, <2>1
<1>3. CeilDiv(a * price, BytesPerMb) <= k
  BY <1>1, <1>2, CeilLeast
<1> QED
  BY <1>3 DEF k, CostOf

LEMMA CostOfParts ==
  ASSUME NEW a \in Nat, NEW b \in Nat, NEW price \in Nat
  PROVE  CostOf(a + b, price) <= CostOf(a, price) + CostOf(b, price)
<1> DEFINE k == CostOf(a, price)
           m == CostOf(b, price)
<1>1. /\ a * price \in Nat /\ k \in Nat /\ a * price <= k * BytesPerMb
      /\ b * price \in Nat /\ m \in Nat /\ b * price <= m * BytesPerMb
  BY CostType
<1> HIDE DEF k, m
<1>2. (a + b) * price = a * price + b * price
  BY Distributes
<1>3. (k + m) * BytesPerMb = k * BytesPerMb + m * BytesPerMb
  BY <1>1, Distributes
<1>4. k * BytesPerMb \in Nat /\ m * BytesPerMb \in Nat
  BY <1>1, Product
<1>5. (a + b) * price <= (k + m) * BytesPerMb /\ (a + b) * price \in Nat
  BY <1>1, <1>2, <1>3, <1>4
<1>6. CeilDiv((a + b) * price, BytesPerMb) <= k + m
  BY <1>1, <1>5, CeilLeast
<1> QED
  BY <1>6 DEF k, m, CostOf

LEMMA CostOfNothing == ASSUME NEW price \in Nat PROVE CostOf(0, price) = 0
<1>1. 0 * price = 0 /\ 0 <= 0 * BytesPerMb
  OBVIOUS
<1>2. CeilDiv(0, BytesPerMb) \in Nat /\ CeilDiv(0, BytesPerMb) <= 0
  BY <1>1, Ceil, CeilLeast
<1> QED
  BY <1>1, <1>2 DEF CostOf

(* A file has a piece, and its last piece begins before its end. *)
LEMMA PieceCount ==
  ASSUME NEW f \in Nat \ {0}, NEW p \in Nat \ {0}
  PROVE  LET n == CeilDiv(f, p)
         IN  n \in Nat \ {0} /\ (n - 1) * p < f /\ f <= n * p
<1> DEFINE n == CeilDiv(f, p)
<1>1. n \in Nat /\ f <= n * p /\ n * p < f + p
  BY Ceil
<1> HIDE DEF n
<1>2. n # 0
  <2>1. 0 * p = 0
    OBVIOUS
  <2> QED
    BY <1>1, <2>1
<1>3. (n - 1) * p = n * p - p /\ n * p \in Nat
  BY <1>1, SMT
<1> QED
  BY <1>1, <1>2, <1>3 DEF n

(* Counting on from a multiple of n that is not the next one. *)
LEMMA Quotient ==
  ASSUME NEW n \in Nat \ {0}, NEW a \in Nat, NEW b \in Nat,
         NEW r \in 0 .. n - 1, NEW s \in 0 .. n - 1, a * n + r = b * n + s
  PROVE  r = s
<1>1. ASSUME NEW x \in Nat, NEW y \in Nat, x < y, NEW u \in 0 .. n - 1,
             NEW v \in Nat, x * n + u = y * n + v
      PROVE  FALSE
  <2>1. (x + 1) * n <= y * n /\ y * n \in Nat /\ x * n \in Nat
    BY <1>1, Product
  <2>2. (x + 1) * n = x * n + n
    BY <1>1, SMT
  <2> QED
    BY <1>1, <2>1, <2>2
<1>2. ~(a < b)
  BY <1>1
<1>3. ~(b < a)
  BY <1>1
<1>4. a = b
  BY <1>2, <1>3
<1>5. a * n \in Nat
  BY Product
<1> QED
  BY <1>4, <1>5

LEMMA Division ==
  ASSUME NEW x \in Nat, NEW n \in Nat \ {0}
  PROVE  /\ x \div n \in Nat /\ x % n \in 0 .. n - 1
         /\ x = (x \div n) * n + (x % n)
<1>1. x \div n \in Nat /\ n * (x \div n) <= x /\ x < n * (x \div n) + n
  BY SMT
<1>2. x % n \in 0 .. n - 1
  BY SMT
<1>3. x = n * (x \div n) + (x % n)
  BY SMT
<1> DEFINE q == x \div n
           r == x % n
<1> HIDE DEF q, r
<1>4. n * q = q * n
  BY <1>1, SMT DEF q
<1> QED
  BY <1>1, <1>2, <1>3, <1>4 DEF q, r

LEMMA NextRest ==
  ASSUME NEW x \in Nat, NEW n \in Nat \ {0}, (x + 1) % n # 0
  PROVE  (x + 1) % n = (x % n) + 1
<1> DEFINE a == x \div n
           r == x % n
           b == (x + 1) \div n
           s == (x + 1) % n
<1>1. a \in Nat /\ r \in 0 .. n - 1 /\ x = a * n + r
  BY Division
<1>2. x + 1 \in Nat
  OBVIOUS
<1>3. b \in Nat /\ s \in 0 .. n - 1 /\ x + 1 = b * n + s
  BY <1>2, Division
<1>4. s # 0
  OBVIOUS
<1> HIDE DEF a, r, b, s
<1>5. a * n \in Nat /\ b * n \in Nat
  BY <1>1, <1>3, Product
<1>6. a * n + r = b * n + (s - 1) /\ s - 1 \in 0 .. n - 1
  BY <1>1, <1>3, <1>4, <1>5
<1>7. r = s - 1
  BY <1>1, <1>3, <1>6, Quotient
<1> QED
  BY <1>1, <1>3, <1>7 DEF r, s
-----------------------------------------------------------------------------
(* --- the configuration and the start --- *)

LEMMA DepositCovers ==
  ASSUME NEW f \in Nat, NEW price \in Nat
  PROVE  /\ DefaultDeposit(f, price) \in Nat \ {0}
         /\ CostOf(f, price) <= DefaultDeposit(f, price)
<1> DEFINE c == CostOf(f, price)
           d == CeilDiv(6 * c, 5)
<1>1. c \in Nat
  BY CostType
<1> HIDE DEF c
<1>2. d \in Nat /\ 6 * c <= d * 5
  BY <1>1, Ceil
<1>3. DefaultDeposit(f, price) = IF d > MinimumDeposit THEN d ELSE MinimumDeposit
  BY DEF DefaultDeposit, c
<1> HIDE DEF d
<1> QED
  BY <1>1, <1>2, <1>3 DEF c

LEMMA DefaultConfigOK ==
  ASSUME NEW f \in Nat \ {0}, NEW p \in Nat \ {0}, NEW price \in Nat, NEW n \in Nat \ {0},
         config = DefaultConfig(f, p, price, n)
  PROVE  ConfigInv
<1> DEFINE d == DefaultDeposit(f, price)
<1>1. d \in Nat \ {0} /\ CostOf(f, price) <= d
  BY DepositCovers
<1>2. config = [fileSize |-> f, pieceSize |-> p, pricePerMb |-> price,
                checkFrequency |-> n, depositAmount |-> d]
  BY DEF DefaultConfig
<1> HIDE DEF d
<1>3. CostOf(config.fileSize, config.pricePerMb) <= config.depositAmount
  BY <1>1, <1>2
<1> QED
  BY <1>1, <1>2, <1>3 DEF ConfigInv, TotalCostBaseUnits

(* The numbers of a configuration. *)
LEMMA ConfigTypes ==
  ASSUME ConfigInv
  PROVE  /\ config.fileSize \in Nat \ {0} /\ config.pieceSize \in Nat \ {0}
         /\ config.pricePerMb \in Nat /\ config.checkFrequency \in Nat \ {0}
         /\ config.depositAmount \in Nat \ {0}
         /\ Paid(config.fileSize) <= config.depositAmount
         /\ TotalPieces(config) \in Nat \ {0}
         /\ (TotalPieces(config) - 1) * config.pieceSize < config.fileSize
         /\ config.fileSize <= TotalPieces(config) * config.pieceSize
<1>1. /\ config.fileSize \in Nat \ {0} /\ config.pieceSize \in Nat \ {0}
      /\ config.pricePerMb \in Nat /\ config.checkFrequency \in Nat \ {0}
      /\ config.depositAmount \in Nat \ {0}
      /\ Paid(config.fileSize) <= config.depositAmount
  BY DEF ConfigInv, Paid, TotalCostBaseUnits
<1> QED
  BY <1>1, PieceCount DEF TotalPieces

LEMMA InitDemo == Init => DemoInv
<1> SUFFICES ASSUME Init PROVE DemoInv
  OBVIOUS
<1>1. ConfigInv
  <2>1. PICK f \in FileSizes, p \in PieceSizes, price \in Prices, n \in CheckFrequencies :
          config = DefaultConfig(f, p, price, n)
    BY DEF Init
  <2> QED
    BY <2>1, DefaultConfigOK
<1>2. /\ phase = "setup" /\ currentPiece = 0 /\ leecher = NewLeecher
      /\ seeder = NewSeeder /\ summary = <<>> /\ rpcFailed = FALSE /\ Chain!Init
  BY DEF Init
<1>3. LoopInv
  <2> DEFINE r == 0 % config.checkFrequency
             p == config.pieceSize
             n == TotalPieces(config)
  <2>1. r \in Nat /\ p \in Nat /\ n \in Nat \ {0}
    <3>1. 0 \in Nat /\ config.checkFrequency \in Nat \ {0} /\ p \in Nat /\ n \in Nat \ {0}
      BY <1>1, ConfigTypes
    <3>2. r \in 0 .. config.checkFrequency - 1
      BY <3>1, Division
    <3> QED
      BY <3>1, <3>2
  <2>2. seeder.bytesServed = 0 /\ leecher.bytesDownloaded = 0
    BY <1>2 DEF NewLeecher, NewSeeder
  <2> HIDE DEF r, p, n
  <2>3. r * p \in Nat /\ 0 = 0 * p
    BY <2>1, Product
  <2>4. seeder.bytesServed <= leecher.bytesDownloaded + r * p
    BY <2>2, <2>3
  <2> QED
    BY <1>2, <2>1, <2>2, <2>3, <2>4 DEF LoopInv, r, p, n
<1>4. CheckInv
  BY <1>1, <1>2, ConfigTypes, CostOfNothing
     DEF CheckInv, NewLeecher, NewSeeder, NoCheck, Checks, Paid
<1>5. ChainTypes
  BY <1>2 DEF ChainTypes, Chain!Init, Chain!TypeOK
<1>6. PhaseInv
  BY <1>2 DEF PhaseInv, NotOpened, Chain!Init, TheKey
<1>7. SummaryInv
  <2>1. <<>> \in Seq([earned : Nat, refunded : Nat, transferred : Nat])
    OBVIOUS
  <2>2. phase # "done"
    BY <1>2
  <2> QED
    BY <1>2, <2>1, <2>2, Zenon DEF SummaryInv
<1> QED
  BY <1>1, <1>3, <1>4, <1>5, <1>6, <1>7 DEF DemoInv
-----------------------------------------------------------------------------
(* --- a turn of the loop --- *)

(* Nothing but the loop moves what it counts. *)
LEMMA LoopRests ==
  ASSUME DemoInv, UNCHANGED <<config, currentPiece, leecher>>,
         \/ seeder' = seeder
         \/ seeder' = [seeder EXCEPT !.channelDeposit = config.depositAmount]
  PROVE  ConfigInv' /\ LoopInv' /\ CheckInv'
<1> USE DEF DemoInv
<1>1. ConfigInv'
  BY DEF ConfigInv, TotalCostBaseUnits
<1>2. /\ seeder' \in [lastNonce : Nat, lastAmount : Nat, highestCheck : Checks,
                      bytesServed : Nat, channelDeposit : {0, config.depositAmount}]
      /\ seeder'.bytesServed = seeder.bytesServed
      /\ seeder'.highestCheck = seeder.highestCheck
      /\ seeder'.lastAmount = seeder.lastAmount
      /\ seeder'.lastNonce = seeder.lastNonce
  BY DEF CheckInv
<1>3. LoopInv'
  BY <1>2 DEF LoopInv, TotalPieces
<1>4. CheckInv'
  BY <1>2 DEF CheckInv, Paid
<1> QED
  BY <1>1, <1>3, <1>4

(* The bytes of the next piece. *)
LEMMA ServedBytes ==
  ASSUME ConfigInv, LoopInv, CheckInv, currentPiece + 1 <= TotalPieces(config)
  PROVE  LET after == seeder.bytesServed + NextPiece(seeder.bytesServed)
         IN  /\ after \in Nat /\ after <= config.fileSize
             /\ seeder.bytesServed <= after /\ after <= seeder.bytesServed + config.pieceSize
             /\ currentPiece + 1 < TotalPieces(config) =>
                  after = (currentPiece + 1) * config.pieceSize
             /\ currentPiece + 1 = TotalPieces(config) => after = config.fileSize
<1> DEFINE n == TotalPieces(config)
           f == config.fileSize
           p == config.pieceSize
           i == currentPiece
           b == seeder.bytesServed
<1>1. n \in Nat \ {0} /\ f \in Nat \ {0} /\ p \in Nat \ {0} /\ (n - 1) * p < f /\ f <= n * p
  BY ConfigTypes
<1>2. i \in Nat /\ i < n /\ b = i * p
  BY <1>1 DEF LoopInv
<1>3. b + NextPiece(b) = IF p < f - b THEN b + p ELSE b + (f - b)
  BY DEF NextPiece
<1> HIDE DEF n, f, p, i, b
<1>4. /\ i * p \in Nat /\ (i + 1) * p = i * p + p
      /\ (n - 1) * p \in Nat /\ n * p \in Nat /\ n * p = (n - 1) * p + p
  <2>1. n - 1 \in Nat /\ n = (n - 1) + 1
    BY <1>1
  <2>2. (n - 1) * p \in Nat /\ ((n - 1) + 1) * p = (n - 1) * p + 1 * p
    BY <1>1, <2>1, Product, Distributes
  <2>3. i * p \in Nat /\ (i + 1) * p = i * p + 1 * p
    BY <1>1, <1>2, Product, Distributes
  <2> QED
    BY <1>1, <2>1, <2>2, <2>3
<1>5. b <= (n - 1) * p
  BY <1>1, <1>2, Product
<1>6. b < f
  BY <1>1, <1>2, <1>4, <1>5
<1>7. CASE i + 1 < n
  <2>1. (i + 1) * p <= (n - 1) * p
    BY <1>1, <1>2, <1>7, Product
  <2>2. b + p < f
    BY <1>1, <1>2, <1>4, <2>1
  <2> QED
    BY <1>1, <1>2, <1>3, <1>4, <1>7, <2>2 DEF n, f, p, i, b
<1>8. CASE i + 1 = n
  <2>1. (i + 1) * p = n * p
    BY <1>8
  <2>2. f <= b + p
    BY <1>1, <1>2, <1>4, <2>1
  <2>3. b + NextPiece(b) = f
    BY <1>1, <1>2, <1>3, <1>4, <2>2
  <2> QED
    BY <1>1, <1>2, <1>4, <1>6, <1>8, <2>2, <2>3 DEF n, f, p, i, b
<1> QED
  BY <1>1, <1>2, <1>7, <1>8 DEF n, i

(* A piece between two checks adds at most its own length to what is unpaid. *)
LEMMA PieceWithoutCheck ==
  ASSUME DemoInv, currentPiece + 1 <= TotalPieces(config), ~CheckIsDue(currentPiece + 1),
         currentPiece' = currentPiece + 1, UNCHANGED <<config, leecher>>,
         seeder' = [seeder EXCEPT !.bytesServed = @ + NextPiece(@)]
  PROVE  ConfigInv' /\ LoopInv' /\ CheckInv'
<1> USE DEF DemoInv
<1> DEFINE after == seeder.bytesServed + NextPiece(seeder.bytesServed)
           n == TotalPieces(config)
           k == config.checkFrequency
           p == config.pieceSize
           i == currentPiece
           got == leecher.bytesDownloaded
           b == seeder.bytesServed
           r == i % k
           s == (i + 1) % k
<1>1. n \in Nat \ {0} /\ k \in Nat \ {0} /\ p \in Nat \ {0} /\ i \in Nat /\ i + 1 <= n
  BY ConfigTypes DEF LoopInv
<1>2. s # 0 /\ i + 1 # n
  BY DEF CheckIsDue
<1>3. s = r + 1
  BY <1>1, <1>2, NextRest
<1>4. r \in Nat
  <2>1. r \in 0 .. k - 1
    BY <1>1, Division
  <2> QED
    BY <1>1, <2>1
<1>5. got \in Nat /\ b \in Nat /\ got <= b /\ b <= got + r * p
  BY DEF CheckInv, LoopInv
<1>6. /\ after \in Nat /\ b <= after /\ after <= b + p
      /\ i + 1 < n => after = (i + 1) * p
  BY ServedBytes
<1>7. seeder' \in [lastNonce : Nat, lastAmount : Nat, highestCheck : Checks,
                   bytesServed : Nat, channelDeposit : {0, config.depositAmount}]
      /\ seeder'.bytesServed = after
      /\ seeder'.highestCheck = seeder.highestCheck
      /\ seeder'.lastAmount = seeder.lastAmount
      /\ seeder'.lastNonce = seeder.lastNonce
  <2>1. seeder \in [lastNonce : Nat, lastAmount : Nat, highestCheck : Checks,
                    bytesServed : Nat, channelDeposit : {0, config.depositAmount}]
    BY DEF CheckInv
  <2>2. seeder' = [seeder EXCEPT !.bytesServed = after]
    OBVIOUS
  <2> HIDE DEF after
  <2> QED
    BY <1>6, <2>1, <2>2
<1>8. ConfigInv' /\ CheckInv'
  BY <1>7 DEF ConfigInv, CheckInv, TotalCostBaseUnits, Paid
<1>9. got' = got /\ i' = i + 1 /\ n' = n /\ p' = p /\ k' = k /\ seeder'.bytesServed = after
  BY <1>7 DEF TotalPieces
<1> HIDE DEF after, n, k, p, i, got, b, r, s
<1>10. after <= got + s * p
  <2>1. (r + 1) * p = r * p + 1 * p
    BY <1>1, <1>4, Distributes
  <2>2. r * p \in Nat /\ 1 * p = p
    BY <1>1, <1>4, Product
  <2> QED
    BY <1>1, <1>3, <1>5, <1>6, <2>1, <2>2
<1>11. got <= after
  BY <1>5, <1>6
<1>12. i + 1 \in 0 .. n /\ (i + 1 < n => after = (i + 1) * p) /\ i + 1 # n
  BY <1>1, <1>2, <1>6
<1>13. LoopInv'
  BY <1>9, <1>10, <1>11, <1>12 DEF LoopInv, n, k, p, i, got, s
<1> QED
  BY <1>8, <1>13

(* The check for all bytes so far is newer and no smaller than the last and, *)
(* with the default deposit, within it.                                      *)
LEMMA CheckIsGood ==
  ASSUME DemoInv, phase = "transfer", NEW bytes \in Nat, bytes <= config.fileSize,
         leecher.bytesDownloaded <= bytes
  PROVE  ~IsRefused([amount |-> Paid(bytes), nonce |-> leecher.nonce + 1])
<1> DEFINE got == leecher.bytesDownloaded
           price == config.pricePerMb
<1>1. /\ got \in Nat /\ leecher.nonce \in Nat
      /\ seeder.lastAmount = Paid(got) /\ seeder.lastNonce = leecher.nonce
      /\ seeder.channelDeposit = config.depositAmount
  BY DEF DemoInv, CheckInv, PhaseInv
<1>2. config.fileSize \in Nat /\ price \in Nat /\ config.depositAmount \in Nat
      /\ Paid(config.fileSize) <= config.depositAmount
  BY ConfigTypes DEF DemoInv
<1>3. /\ Paid(got) \in Nat /\ Paid(bytes) \in Nat /\ Paid(config.fileSize) \in Nat
      /\ Paid(got) <= Paid(bytes) /\ Paid(bytes) <= Paid(config.fileSize)
  BY <1>1, <1>2, CostType, CostMonotone DEF Paid
<1>4. Paid(bytes) <= seeder.channelDeposit
  BY <1>1, <1>2, <1>3
<1>5. ~(Paid(bytes) > seeder.channelDeposit) /\ ~(Paid(bytes) < seeder.lastAmount)
      /\ ~(leecher.nonce + 1 <= seeder.lastNonce)
  BY <1>1, <1>2, <1>3, <1>4
<1> QED
  BY <1>5 DEF IsRefused

LEMMA PieceWithCheck ==
  ASSUME DemoInv, currentPiece + 1 <= TotalPieces(config),
         currentPiece' = currentPiece + 1, UNCHANGED config,
         NEW after, after = seeder.bytesServed + NextPiece(seeder.bytesServed),
         NEW check, check = [amount |-> Paid(after), nonce |-> leecher.nonce + 1],
         leecher' = [nonce |-> check.nonce, bytesDownloaded |-> after,
                     highestCheck |-> check],
         seeder' = Accept([seeder EXCEPT !.bytesServed = @ + NextPiece(@)], check)
  PROVE  ConfigInv' /\ LoopInv' /\ CheckInv'
<1> USE DEF DemoInv
<1>1. /\ after \in Nat
      /\ currentPiece + 1 < TotalPieces(config) => after = (currentPiece + 1) * config.pieceSize
      /\ currentPiece + 1 = TotalPieces(config) => after = config.fileSize
  BY ServedBytes
<1>2. /\ leecher.nonce \in Nat
      /\ seeder \in [lastNonce : Nat, lastAmount : Nat, highestCheck : Checks,
                     bytesServed : Nat, channelDeposit : {0, config.depositAmount}]
  BY DEF CheckInv
<1>3. /\ check \in Checks /\ check.amount = Paid(after) /\ check.nonce = leecher.nonce + 1
      /\ check.amount \in Nat /\ check.nonce \in Nat
  <2>1. Paid(after) \in Nat
    BY <1>1, ConfigTypes, CostType DEF Paid
  <2> QED
    BY <1>2, <2>1 DEF Checks
<1>4. /\ leecher' \in [nonce : Nat, bytesDownloaded : Nat, highestCheck : Checks]
      /\ leecher'.nonce = check.nonce /\ leecher'.bytesDownloaded = after
      /\ leecher'.highestCheck = check
  BY <1>1, <1>3
<1>5. seeder' = [seeder EXCEPT !.bytesServed = after, !.lastNonce = check.nonce,
                               !.lastAmount = check.amount, !.highestCheck = check]
  BY <1>2 DEF Accept
<1>6. /\ seeder' \in [lastNonce : Nat, lastAmount : Nat, highestCheck : Checks,
                      bytesServed : Nat, channelDeposit : {0, config.depositAmount}]
      /\ seeder'.bytesServed = after /\ seeder'.highestCheck = check
      /\ seeder'.lastAmount = check.amount /\ seeder'.lastNonce = check.nonce
  BY <1>1, <1>2, <1>3, <1>5
<1>7. ConfigInv'
  BY DEF ConfigInv, TotalCostBaseUnits
<1>8. CheckInv'
  <2>1. check.amount = CostOf(after, config'.pricePerMb)
    BY <1>3 DEF Paid
  <2> QED
    BY <1>4, <1>6, <2>1 DEF CheckInv, Paid
<1>9. LoopInv'
  <2> DEFINE n == TotalPieces(config)
             i == currentPiece
             p == config.pieceSize
             s == (i + 1) % config.checkFrequency
  <2>1. n \in Nat \ {0} /\ p \in Nat /\ i \in Nat /\ i + 1 <= n
    BY ConfigTypes DEF LoopInv
  <2>2. s \in Nat
    <3>1. i + 1 \in Nat /\ config.checkFrequency \in Nat \ {0}
      BY <2>1, ConfigTypes
    <3>2. s \in 0 .. config.checkFrequency - 1
      BY <3>1, Division
    <3> QED
      BY <3>1, <3>2
  <2>3. n' = n /\ p' = p /\ i' = i + 1
    BY DEF TotalPieces
  <2> HIDE DEF n, p, i, s
  <2>4. s * p \in Nat
    BY <2>1, <2>2, Product
  <2>5. after <= after + s * p /\ after <= after /\ check.nonce # 0
    BY <1>1, <1>2, <1>3, <2>4
  <2>6. i + 1 \in 0 .. n
    BY <2>1
  <2> QED
    BY <1>1, <1>4, <1>6, <2>3, <2>5, <2>6 DEF LoopInv, n, p, i, s
<1> QED
  BY <1>7, <1>8, <1>9
-----------------------------------------------------------------------------
(* --- the channel --- *)

Wallets == {LeecherWallet, SeederWallet}

LEMMA KeyWallets ==
  /\ TheKey.leecher = LeecherWallet /\ TheKey.seeder = SeederWallet /\ TheKey.id = Id
  /\ LeecherWallet \in Wallets /\ SeederWallet \in Wallets
  BY DEF TheKey, Wallets

LEMMA Credited ==
  ASSUME NEW b \in [Wallets -> Nat], NEW w \in Wallets, NEW amount \in Int,
         b[w] + amount \in Nat
  PROVE  /\ Chain!Credit(b, w, amount) \in [Wallets -> Nat]
         /\ Chain!Credit(b, w, amount)[w] = b[w] + amount
         /\ \A v \in Wallets \ {w} : Chain!Credit(b, w, amount)[v] = b[v]
  BY DEF Chain!Credit

(* The event that Emit appended to the log. *)
LEMMA Emitted ==
  ASSUME ChainTypes, NEW e \in Chain!Event, Chain!Emit(TheKey, e)
  PROVE  /\ log' \in [{TheKey} -> Seq(Chain!Event)]
         /\ Len(log'[TheKey]) = Len(log[TheKey]) + 1
         /\ log'[TheKey][Len(log[TheKey]) + 1] = e
<1>1. log \in [{TheKey} -> Seq(Chain!Event)] /\ log[TheKey] \in Seq(Chain!Event)
  BY DEF ChainTypes, Chain!TypeOK
<1>2. log' = [log EXCEPT ![TheKey] = Append(log[TheKey], e)]
  BY DEF Chain!Emit
<1> DEFINE after == Append(log[TheKey], e)
<1>3. /\ after \in Seq(Chain!Event) /\ Len(after) = Len(log[TheKey]) + 1
      /\ after[Len(log[TheKey]) + 1] = e
  BY <1>1
<1> HIDE DEF after
<1>4. log' = [log EXCEPT ![TheKey] = after]
  BY <1>2 DEF after
<1>5. log' \in [{TheKey} -> Seq(Chain!Event)] /\ log'[TheKey] = after
  BY <1>1, <1>3, <1>4
<1> QED
  BY <1>3, <1>5

LEMMA FundStep ==
  ASSUME DemoInv, NEW amount \in Nat, Fund(amount)
  PROVE  DemoInv'
<1> USE DEF DemoInv
<1>1. /\ phase = "setup" /\ phase' = "open"
      /\ balance' = Chain!Credit(balance, LeecherWallet, amount)
      /\ UNCHANGED <<config, currentPiece, leecher, seeder, summary, rpcFailed,
                     channel, escrow, signed, now, log>>
  BY DEF Fund, Chain!Credit
<1>2. balance \in [Wallets -> Nat] /\ balance[LeecherWallet] + amount \in Nat
  BY KeyWallets DEF ChainTypes, Chain!TypeOK, Wallets
<1>3. balance' \in [Wallets -> Nat] /\ balance'[SeederWallet] = balance[SeederWallet]
  BY <1>1, <1>2, KeyWallets, Credited
<1>4. ConfigInv' /\ LoopInv' /\ CheckInv'
  BY <1>1, LoopRests
<1>5. ChainTypes'
  BY <1>1, <1>3 DEF ChainTypes, Chain!TypeOK, Wallets
<1>6. PhaseInv'
  BY <1>1, <1>3 DEF PhaseInv, NotOpened, TheKey
<1>7. SummaryInv'
  BY <1>1 DEF SummaryInv
<1> QED
  BY <1>4, <1>5, <1>6, <1>7

LEMMA OpenStep ==
  ASSUME DemoInv, OpenChannel
  PROVE  DemoInv'
<1> USE DEF DemoInv
<1> DEFINE deposit == config.depositAmount
           account == [deposited |-> deposit, created_at |-> now,
                       timeout |-> now + 1, last_nonce |-> 0, status |-> "Open"]
           e == [type |-> "ChannelOpened", deposited |-> deposit, timeout |-> now + 1]
<1>1. /\ phase = "open" /\ phase' = "verify"
      /\ channel' = [channel EXCEPT ![TheKey] = account]
      /\ escrow' = [escrow EXCEPT ![TheKey] = deposit]
      /\ balance[LeecherWallet] >= deposit
      /\ balance' = Chain!Credit(balance, LeecherWallet, -deposit)
      /\ Chain!Emit(TheKey, e)
      /\ UNCHANGED <<config, currentPiece, leecher, seeder, summary, rpcFailed, signed, now>>
  BY KeyWallets DEF OpenChannel, Chain!OpenChannel, Chain!MayOpen, Chain!FundEscrow
<1>2. deposit \in Nat /\ now \in Nat
  BY ConfigTypes DEF ChainTypes, Chain!TypeOK
<1>3. account \in Chain!ChannelState /\ e \in Chain!Event
  BY <1>2 DEF Chain!ChannelState, Chain!Event, Chain!OpenedEvent
<1>4. account.deposited = deposit /\ account.status = "Open"
  OBVIOUS
<1> HIDE DEF account, e
<1>5. balance' \in [Wallets -> Nat] /\ balance'[SeederWallet] = balance[SeederWallet]
  <2>1. balance \in [Wallets -> Nat]
    BY DEF ChainTypes, Chain!TypeOK, Wallets
  <2>2. balance[LeecherWallet] + (-deposit) \in Nat
    BY <1>1, <1>2, <2>1, KeyWallets
  <2> QED
    BY <1>1, <1>2, <2>1, <2>2, KeyWallets, Credited
<1>6. NotOpened /\ seeder.channelDeposit \in {0, deposit}
  BY <1>1 DEF PhaseInv, CheckInv
<1>7. log' \in [{TheKey} -> Seq(Chain!Event)] /\ Len(log'[TheKey]) = 1
  <2>1. /\ log' \in [{TheKey} -> Seq(Chain!Event)]
        /\ Len(log'[TheKey]) = Len(log[TheKey]) + 1
    BY <1>1, <1>3, Emitted
  <2>2. Len(log[TheKey]) = 0
    BY <1>6 DEF NotOpened
  <2> QED
    BY <2>1, <2>2
<1>8. /\ channel' \in [{TheKey} -> Chain!ChannelState \cup {NoAccount}]
      /\ channel'[TheKey] = account /\ account # NoAccount
  BY <1>1, <1>3 DEF ChainTypes, Chain!TypeOK
<1>9. ConfigInv' /\ LoopInv' /\ CheckInv'
  BY <1>1, LoopRests
<1>10. ChainTypes'
  <2>1. escrow' \in [{TheKey} -> Nat \cup {NoAccount}]
    BY <1>1, <1>2 DEF ChainTypes, Chain!TypeOK
  <2> QED
    BY <1>1, <1>5, <1>7, <1>8, <2>1 DEF ChainTypes, Chain!TypeOK, Wallets, TheKey
<1>11. IsOpen'
  BY <1>1, <1>4, <1>5, <1>6, <1>7, <1>8 DEF IsOpen, NotOpened, TheKey
<1>12. PhaseInv'
  BY <1>1, <1>11 DEF PhaseInv
<1>13. SummaryInv'
  BY <1>1 DEF SummaryInv
<1> QED
  BY <1>9, <1>10, <1>12, <1>13

(* The account that was opened is the one the seeder wants to see. *)
LEMMA VerifyStep ==
  ASSUME DemoInv, VerifyChannel
  PROVE  DemoInv' /\ phase' = "transfer"
<1> USE DEF DemoInv
<1>1. IsOpen /\ phase = "verify" /\ config.depositAmount \in Nat
  BY ConfigTypes DEF VerifyChannel, PhaseInv
<1>2. /\ phase' = "transfer"
      /\ seeder' = [seeder EXCEPT !.channelDeposit = config.depositAmount]
      /\ UNCHANGED <<config, currentPiece, leecher, summary, rpcFailed, chainVars>>
  BY <1>1 DEF VerifyChannel, IsOpen
<1>3. ConfigInv' /\ LoopInv' /\ CheckInv'
  BY <1>2, LoopRests
<1>4. ChainTypes' /\ SummaryInv'
  BY <1>1, <1>2 DEF ChainTypes, Chain!TypeOK, SummaryInv, chainVars, TheKey
<1>5. seeder'.channelDeposit = config.depositAmount
  BY <1>2 DEF CheckInv
<1>6. IsOpen'
  BY <1>1, <1>2 DEF IsOpen, chainVars, TheKey
<1>7. PhaseInv'
  BY <1>2, <1>5, <1>6 DEF PhaseInv
<1> QED
  BY <1>2, <1>3, <1>4, <1>7

(* One turn of the loop, with or without a check; the chain learns nothing.  *)
LEMMA TransferStep ==
  ASSUME DemoInv, TransferPiece
  PROVE  DemoInv' /\ phase' = "transfer"
<1> USE DEF DemoInv
<1> DEFINE served == [seeder EXCEPT !.bytesServed = @ + NextPiece(@)]
           after == seeder.bytesServed + NextPiece(seeder.bytesServed)
           check == [amount |-> Paid(after), nonce |-> leecher.nonce + 1]
<1>1. /\ phase = "transfer" /\ currentPiece + 1 <= TotalPieces(config)
      /\ currentPiece' = currentPiece + 1
      /\ UNCHANGED <<config, summary, rpcFailed>>
  BY DEF TransferPiece
<1>2. seeder.bytesServed \in Nat /\ seeder.channelDeposit = config.depositAmount
      /\ served.bytesServed = after /\ served.channelDeposit = seeder.channelDeposit
  BY <1>1 DEF CheckInv, PhaseInv
<1>3. /\ after \in Nat /\ after <= config.fileSize /\ leecher.bytesDownloaded <= after
      /\ leecher.bytesDownloaded \in Nat
  <2>1. /\ after \in Nat /\ after <= config.fileSize /\ seeder.bytesServed <= after
    BY <1>1, ServedBytes
  <2>2. leecher.bytesDownloaded \in Nat /\ leecher.bytesDownloaded <= seeder.bytesServed
    BY DEF CheckInv, LoopInv
  <2> HIDE DEF after
  <2> QED
    BY <1>2, <2>1, <2>2
<1>4. ASSUME ConfigInv', LoopInv', CheckInv', phase' = phase,
             UNCHANGED <<channel, escrow, balance, now, log>>,
             signed' \subseteq signed \cup Chain!SignedCheck,
             seeder'.channelDeposit = seeder.channelDeposit
      PROVE  DemoInv' /\ phase' = "transfer"
  <2>1. ChainTypes'
    BY <1>4 DEF ChainTypes, Chain!TypeOK
  <2>2. IsOpen'
    BY <1>1, <1>4 DEF PhaseInv, IsOpen, TheKey
  <2>3. PhaseInv'
    BY <1>1, <1>2, <1>4, <2>2 DEF PhaseInv
  <2>4. SummaryInv'
    BY <1>1, <1>4 DEF SummaryInv
  <2> QED
    BY <1>1, <1>4, <2>1, <2>3, <2>4
<1>5. CASE ~CheckIsDue(currentPiece + 1)
  <2>1. seeder' = served /\ UNCHANGED <<phase, leecher, chainVars>>
    BY <1>5 DEF TransferPiece
  <2>2. ConfigInv' /\ LoopInv' /\ CheckInv'
    BY <1>1, <1>5, <2>1, PieceWithoutCheck
  <2> HIDE DEF served
  <2> QED
    BY <1>2, <1>4, <2>1, <2>2 DEF chainVars
<1>6. CASE CheckIsDue(currentPiece + 1)
  <2>1. /\ leecher' = [nonce |-> check.nonce, bytesDownloaded |-> after,
                       highestCheck |-> check]
        /\ Chain!Sign(LeecherWallet, [id |-> Id, amount |-> check.amount,
                                      nonce |-> check.nonce])
        /\ LET c == leecher'.highestCheck
           IN  IF IsRefused(c)
               THEN phase' = "failed" /\ seeder' = served
               ELSE seeder' = Accept(served, c) /\ UNCHANGED phase
    BY <1>2, <1>6 DEF TransferPiece, SignCheck, Paid
  <2>2. ~IsRefused(check)
    BY <1>1, <1>3, CheckIsGood
  <2>3. check.amount \in Nat /\ check.nonce \in Nat
    <3>1. Paid(after) \in Nat /\ leecher.nonce \in Nat
      BY <1>3, ConfigTypes, CostType DEF Paid, CheckInv
    <3> QED
      BY <3>1
  <2>4. seeder' = Accept(served, check) /\ phase' = phase
    <3>1. leecher'.highestCheck = check
      BY <2>1
    <3> HIDE DEF check, served
    <3> QED
      BY <2>1, <2>2, <3>1
  <2>5. ConfigInv' /\ LoopInv' /\ CheckInv'
    BY <1>1, <2>1, <2>4, PieceWithCheck
  <2>6. seeder'.channelDeposit = served.channelDeposit
    <3> HIDE DEF check
    <3> QED
      BY <2>4 DEF Accept
  <2>7. /\ UNCHANGED <<channel, escrow, balance, now, log>>
        /\ signed' = signed \cup {[signer |-> LeecherWallet,
                                   check |-> [id |-> Id, amount |-> check.amount,
                                              nonce |-> check.nonce]]}
    BY <2>1 DEF Chain!Sign
  <2> HIDE DEF served, check
  <2>8. signed' \subseteq signed \cup Chain!SignedCheck
    BY <2>3, <2>7 DEF Chain!SignedCheck, Chain!Check
  <2> QED
    BY <1>2, <1>4, <2>4, <2>5, <2>6, <2>7, <2>8
<1> QED
  BY <1>5, <1>6

LEMMA EndsStep ==
  ASSUME DemoInv, TransferEnds
  PROVE  DemoInv' /\ phase' = "close"
<1> USE DEF DemoInv
<1>1. /\ phase = "transfer" /\ currentPiece = TotalPieces(config)
      /\ phase' = "close"
      /\ UNCHANGED <<config, currentPiece, leecher, seeder, summary, rpcFailed, chainVars>>
  <2>1. phase = "transfer" /\ currentPiece = TotalPieces(config)
    BY DEF TransferEnds
  <2>2. leecher.highestCheck.nonce # 0
    BY <2>1 DEF LoopInv, CheckInv
  <2>3. leecher.highestCheck # NoCheck
    BY <2>2 DEF NoCheck
  <2> QED
    BY <2>1, <2>3 DEF TransferEnds
<1>2. ConfigInv' /\ LoopInv' /\ CheckInv'
  BY <1>1, LoopRests
<1>3. ChainTypes' /\ SummaryInv'
  BY <1>1 DEF ChainTypes, Chain!TypeOK, SummaryInv, chainVars
<1>4. IsOpen'
  BY <1>1 DEF PhaseInv, IsOpen, chainVars, TheKey
<1>5. PhaseInv'
  BY <1>1, <1>4 DEF PhaseInv, TotalPieces
<1> QED
  BY <1>1, <1>2, <1>3, <1>5

(* What the program pays out is what the leecher's last check says.          *)
LEMMA CloseStep ==
  ASSUME DemoInv, CloseChannel
  PROVE  DemoInv'
<1> USE DEF DemoInv
<1> DEFINE amount == seeder.highestCheck.amount
           refund == channel[TheKey].deposited - amount
           nonce == seeder.highestCheck.nonce
           first == Chain!Credit(balance, SeederWallet, amount)
           e == [type |-> "ChannelClosed", earned |-> amount, refunded |-> refund,
                 nonce |-> nonce]
<1>1. /\ phase = "close" /\ phase' = "summary"
      /\ amount <= channel[TheKey].deposited
      /\ balance' = Chain!Credit(first, LeecherWallet, refund)
      /\ Chain!CloseAccounts(TheKey)
      /\ Chain!Emit(TheKey, e)
      /\ UNCHANGED <<config, currentPiece, leecher, seeder, summary, rpcFailed, signed, now>>
  BY KeyWallets DEF CloseChannel, ClaimedCheck, Chain!CloseChannel, Chain!MayClose,
     Chain!WithinDeposit
<1>2. IsOpen /\ currentPiece = TotalPieces(config) /\ config.depositAmount \in Nat
  BY <1>1, ConfigTypes DEF PhaseInv
<1>3. amount \in Nat /\ nonce \in Nat /\ amount = leecher.highestCheck.amount
  BY DEF CheckInv, Checks
<1>4. /\ refund = config.depositAmount - leecher.highestCheck.amount
      /\ amount <= config.depositAmount
  BY <1>1, <1>2, <1>3 DEF IsOpen
<1>5. refund \in Nat
  BY <1>2, <1>3, <1>4
<1>6. e \in Chain!Event /\ e.earned = amount /\ e.refunded = refund
  BY <1>3, <1>5 DEF Chain!Event, Chain!ClosedEvent
<1> HIDE DEF amount, refund, nonce, e
<1>7. /\ balance' \in [Wallets -> Nat]
      /\ balance'[SeederWallet] = InitialBalance[SeederWallet] + amount
  <2>1. balance \in [Wallets -> Nat] /\ balance[SeederWallet] = InitialBalance[SeederWallet]
    BY <1>2 DEF ChainTypes, Chain!TypeOK, Wallets, IsOpen
  <2>2. first \in [Wallets -> Nat] /\ first[SeederWallet] = balance[SeederWallet] + amount
    <3>1. balance[SeederWallet] + amount \in Nat
      BY <1>3, <2>1, KeyWallets
    <3> QED
      BY <1>3, <2>1, <3>1, KeyWallets, Credited
  <2> HIDE DEF first
  <2>3. first[LeecherWallet] + refund \in Nat
    BY <1>5, <2>2, KeyWallets
  <2>4. balance' \in [Wallets -> Nat] /\ balance'[SeederWallet] = first[SeederWallet]
    BY <1>1, <1>5, <2>2, <2>3, KeyWallets, Credited
  <2> QED
    BY <2>1, <2>2, <2>4
<1>8. /\ log' \in [{TheKey} -> Seq(Chain!Event)]
      /\ Len(log'[TheKey]) = 2 /\ log'[TheKey][2] = e
  <2>1. /\ log' \in [{TheKey} -> Seq(Chain!Event)]
        /\ Len(log'[TheKey]) = Len(log[TheKey]) + 1
        /\ log'[TheKey][Len(log[TheKey]) + 1] = e
    BY <1>1, <1>6, Emitted
  <2>2. Len(log[TheKey]) = 1
    BY <1>2 DEF IsOpen
  <2> QED
    BY <2>1, <2>2
<1>9. /\ channel' \in [{TheKey} -> Chain!ChannelState \cup {NoAccount}]
      /\ escrow' \in [{TheKey} -> Nat \cup {NoAccount}]
  BY <1>1 DEF Chain!CloseAccounts, ChainTypes, Chain!TypeOK
<1>10. ConfigInv' /\ LoopInv' /\ CheckInv'
  BY <1>1, LoopRests
<1>11. ChainTypes'
  BY <1>1, <1>7, <1>8, <1>9 DEF ChainTypes, Chain!TypeOK, Wallets, TheKey
<1>12. Settled'
  BY <1>1, <1>3, <1>4, <1>6, <1>7, <1>8 DEF Settled, TheKey
<1>13. PhaseInv'
  BY <1>1, <1>2, <1>12 DEF PhaseInv, TotalPieces
<1>14. SummaryInv'
  BY <1>1 DEF SummaryInv
<1> QED
  BY <1>10, <1>11, <1>13, <1>14

LEMMA PrintStep ==
  ASSUME DemoInv, PrintSummary
  PROVE  DemoInv'
<1> USE DEF DemoInv
<1>1. /\ phase = "summary" /\ phase' = "done"
      /\ summary' = <<Printed>>
      /\ UNCHANGED <<config, currentPiece, leecher, seeder, rpcFailed, chainVars>>
  BY DEF PrintSummary, Printed
<1>2. ConfigInv' /\ LoopInv' /\ CheckInv'
  BY <1>1, LoopRests
<1>3. ChainTypes'
  BY <1>1 DEF ChainTypes, Chain!TypeOK, chainVars
<1>4. Settled /\ currentPiece = TotalPieces(config)
  BY <1>1 DEF PhaseInv
<1>5. Settled'
  BY <1>1, <1>4 DEF Settled, chainVars, TheKey
<1>6. PhaseInv'
  BY <1>1, <1>4, <1>5 DEF PhaseInv, TotalPieces
<1>7. Printed \in [earned : Nat, refunded : Nat, transferred : Nat] /\ Printed' = Printed
  <2>1. /\ leecher.highestCheck.amount \in Nat /\ config.depositAmount \in Nat
        /\ seeder.bytesServed \in Nat
        /\ leecher.highestCheck.amount <= config.depositAmount
    BY <1>4, ConfigTypes DEF CheckInv, Checks, Settled
  <2> QED
    BY <1>1, <2>1 DEF Printed
<1>8. SummaryInv'
  <2>1. summary' \in Seq([earned : Nat, refunded : Nat, transferred : Nat])
    <3> HIDE DEF DemoInv
    <3> QED
      BY <1>1, <1>7
  <2> QED
    BY <1>1, <1>7, <2>1 DEF SummaryInv
<1> QED
  BY <1>2, <1>3, <1>6, <1>8

(* A call that throws ends the script where it is. *)
LEMMA FailsStep ==
  ASSUME DemoInv, RpcFails
  PROVE  DemoInv'
<1> USE DEF DemoInv
<1>1. /\ phase' = "failed" /\ rpcFailed' \in BOOLEAN
      /\ UNCHANGED <<config, currentPiece, leecher, seeder, summary, chainVars>>
  BY DEF RpcFails, WouldBeAccepted
<1>2. ConfigInv' /\ LoopInv' /\ CheckInv'
  BY <1>1, LoopRests
<1>3. ChainTypes' /\ PhaseInv' /\ SummaryInv'
  BY <1>1 DEF ChainTypes, Chain!TypeOK, chainVars, PhaseInv, SummaryInv
<1> QED
  BY <1>2, <1>3
-----------------------------------------------------------------------------
(* --- the theorems --- *)

LEMMA NextDemo == DemoInv /\ [Next]_vars => DemoInv'
<1> SUFFICES ASSUME DemoInv, [Next]_vars PROVE DemoInv'
  OBVIOUS
<1>1. CASE MintTwice
  BY <1>1, ConfigTypes, FundStep DEF MintTwice, DemoInv
<1>2. CASE MintMissing
  <2>1. PICK held \in Balances :
          Fund(IF held < config.depositAmount THEN config.depositAmount ELSE held)
    BY <1>2 DEF MintMissing
  <2>2. (IF held < config.depositAmount THEN config.depositAmount ELSE held) \in Nat
    BY ConfigTypes DEF DemoInv
  <2> QED
    BY <2>1, <2>2, FundStep
<1>3. CASE UNCHANGED vars
  BY <1>3, LoopRests DEF vars, chainVars, DemoInv, ChainTypes, Chain!TypeOK, PhaseInv,
     NotOpened, IsOpen, Settled, SummaryInv, Printed, TheKey, TotalPieces
<1> QED
  BY <1>1, <1>2, <1>3, OpenStep, VerifyStep, TransferStep, EndsStep, CloseStep, PrintStep,
     FailsStep DEF Next

(* In every state of the script, the counts of both sides, the one check     *)
(* they share, the channel and what is printed fit together.                 *)
THEOREM DemoInvariance == Spec => []DemoInv
  BY InitDemo, NextDemo, PTL DEF Spec

(* Every variable keeps its type: neither side counts more than the file.    *)
THEOREM DemoTypeCorrect == Spec => []TypeOK
<1>1. ASSUME DemoInv PROVE TypeOK
  <2> USE <1>1 DEF DemoInv
  <2>1. config \in [fileSize : Nat, pieceSize : Nat, pricePerMb : Nat,
                    checkFrequency : Nat, depositAmount : Nat]
    BY DEF ConfigInv
  <2>2. seeder.bytesServed \in 0 .. config.fileSize
    <3> DEFINE n == TotalPieces(config)
               p == config.pieceSize
               i == currentPiece
    <3>1. /\ n \in Nat \ {0} /\ p \in Nat \ {0} /\ i \in 0 .. n
          /\ (n - 1) * p < config.fileSize /\ config.fileSize \in Nat
      BY ConfigTypes DEF LoopInv
    <3>2. seeder.bytesServed \in Nat
      BY DEF CheckInv
    <3>3. /\ i < n => seeder.bytesServed = i * p
          /\ i = n => seeder.bytesServed = config.fileSize
      BY DEF LoopInv
    <3> HIDE DEF n, p, i
    <3>4. CASE i < n
      <4>1. n - 1 \in Nat /\ i <= n - 1
        BY <3>1, <3>4
      <4>2. i * p <= (n - 1) * p /\ i * p \in Nat /\ (n - 1) * p \in Nat
        BY <3>1, <4>1, Product
      <4> QED
        BY <3>1, <3>2, <3>3, <3>4, <4>2
    <3>5. CASE i = n
      BY <3>1, <3>3, <3>5
    <3> QED
      BY <3>1, <3>4, <3>5
  <2>3. leecher.bytesDownloaded \in 0 .. config.fileSize
    BY <2>1, <2>2 DEF CheckInv, LoopInv
  <2>4. /\ leecher \in [nonce : Nat, bytesDownloaded : 0 .. config.fileSize,
                        highestCheck : Checks]
        /\ seeder \in [lastNonce : Nat, lastAmount : Nat, highestCheck : Checks,
                       bytesServed : 0 .. config.fileSize,
                       channelDeposit : {0, config.depositAmount}]
    BY <2>2, <2>3 DEF CheckInv
  <2> QED
    BY <2>1, <2>4 DEF TypeOK, LoopInv, ChainTypes, PhaseInv, SummaryInv
<1> QED
  BY <1>1, DemoInvariance, PTL

(* What was served and not paid for costs no more than the pieces between    *)
(* two checks: rounding up parts never costs less than rounding up the whole.*)
THEOREM UnpaidBounded == Spec => []UnpaidIsBounded
<1>1. ASSUME DemoInv PROVE UnpaidIsBounded
  <2> DEFINE b == seeder.bytesServed
             got == leecher.bytesDownloaded
             k == config.checkFrequency
             r == currentPiece % k
             p == config.pieceSize
  <2>1. /\ b \in Nat /\ got \in Nat /\ b <= got + r * p /\ seeder.lastAmount = Paid(got)
        /\ currentPiece \in Nat
    BY <1>1, ConfigTypes DEF DemoInv, CheckInv, LoopInv
  <2>2. k \in Nat \ {0} /\ p \in Nat \ {0} /\ config.pricePerMb \in Nat
    BY <1>1, ConfigTypes DEF DemoInv
  <2>3. r \in 0 .. k - 1
    BY <2>1, <2>2, Division
  <2> HIDE DEF b, got, k, r, p
  <2>4. r \in Nat /\ k - 1 \in Nat /\ r <= k - 1
    BY <2>2, <2>3
  <2> DEFINE bound == (k - 1) * p
             part == r * p
  <2>5. part \in Nat /\ bound \in Nat /\ part <= bound
    BY <2>2, <2>4, Product
  <2>6. b <= got + part
    BY <2>1
  <2> HIDE DEF bound, part
  <2>7. b <= got + bound /\ got + bound \in Nat
    BY <2>1, <2>5, <2>6
  <2>8. Paid(b) <= Paid(got + bound) /\ Paid(got + bound) <= Paid(got) + Paid(bound)
    BY <2>1, <2>2, <2>5, <2>7, CostMonotone, CostOfParts DEF Paid
  <2>9. Paid(b) \in Nat /\ Paid(got + bound) \in Nat /\ Paid(got) \in Nat /\ Paid(bound) \in Nat
    BY <2>1, <2>2, <2>5, <2>7, CostType DEF Paid
  <2>10. Paid(b) <= seeder.lastAmount + Paid(bound)
    BY <2>1, <2>8, <2>9
  <2> QED
    BY <2>10 DEF UnpaidIsBounded, Paid, b, bound, k, p
<1> QED
  BY <1>1, DemoInvariance, PTL

(* A demonstration that is done has served the whole file, and the last      *)
(* check pays for all of it.                                                 *)
THEOREM WholeFilePaid == Spec => []WholeFileIsPaid
<1>1. ASSUME DemoInv, phase = "done"
      PROVE  /\ summary[1].transferred = config.fileSize
             /\ summary[1].earned = TotalCostBaseUnits(config)
  <2>1. summary[1] = Printed /\ currentPiece = TotalPieces(config)
    BY <1>1 DEF DemoInv, SummaryInv, PhaseInv
  <2>2. seeder.bytesServed = config.fileSize /\ leecher.bytesDownloaded = config.fileSize
    BY <1>1, <2>1 DEF DemoInv, LoopInv
  <2>3. leecher.highestCheck.amount = TotalCostBaseUnits(config)
    BY <1>1, <2>2 DEF DemoInv, CheckInv, Paid, TotalCostBaseUnits
  <2> QED
    BY <2>1, <2>2, <2>3 DEF Printed
<1>2. DemoInv => WholeFileIsPaid
  BY <1>1 DEF WholeFileIsPaid
<1> QED
  BY <1>2, DemoInvariance, PTL

(* The summary is computed from the leecher's checks; it says what the chain *)
(* did.                                                                      *)
THEOREM SummaryTrue == Spec => []SummaryIsTrue
<1>1. ASSUME DemoInv, phase = "done"
      PROVE  /\ log[TheKey][2].earned = summary[1].earned
             /\ log[TheKey][2].refunded = summary[1].refunded
             /\ balance[SeederWallet] = InitialBalance[SeederWallet] + summary[1].earned
  <2>1. summary[1] = Printed /\ Settled
    BY <1>1 DEF DemoInv, SummaryInv, PhaseInv
  <2> QED
    BY <2>1 DEF Printed, Settled
<1>2. DemoInv => SummaryIsTrue
  BY <1>1 DEF SummaryIsTrue
<1> QED
  BY <1>2, DemoInvariance, PTL

(* With the deposit of defaultConfig the seeder finds its channel, refuses   *)
(* no check and has one at the end: only an awaited call that throws ends a  *)
(* script early.                                                             *)
THEOREM OnlyCallsFail ==
  Spec => [][phase' = "failed" /\ phase # "failed" => RpcFails]_vars
<1>1. ASSUME DemoInv, [Next]_vars, phase' = "failed", phase # "failed"
      PROVE  RpcFails
  <2>1. ~UNCHANGED vars
    BY <1>1 DEF vars
  <2>2. ~MintTwice /\ ~MintMissing /\ ~OpenChannel /\ ~CloseChannel /\ ~PrintSummary
    BY <1>1 DEF MintTwice, MintMissing, Fund, OpenChannel, CloseChannel, PrintSummary
  <2>3. ~VerifyChannel /\ ~TransferPiece /\ ~TransferEnds
    BY <1>1, VerifyStep, TransferStep, EndsStep
  <2> QED
    BY <1>1, <2>1, <2>2, <2>3 DEF Next
<1>2. DemoInv /\ [Next]_vars => [phase' = "failed" /\ phase # "failed" => RpcFails]_vars
  BY <1>1
<1> QED
  BY <1>2, DemoInvariance, PTL DEF Spec
-----------------------------------------------------------------------------
(* --- the script's transactions would be accepted --- *)

(* The clock stands still, the deposit is at hand, the escrow account holds  *)
(* it untouched, and the check to claim is signed.                           *)
SubmitInv ==
  /\ phase \in {"setup", "open"} => now = 0
  /\ phase \in {"setup", "open", "verify"} => leecher.nonce = 0
  /\ phase = "open" => balance[LeecherWallet] >= config.depositAmount
  /\ phase \in {"verify", "transfer", "close"} =>
       /\ escrow[TheKey] = config.depositAmount
       /\ channel[TheKey].last_nonce = 0
  /\ (phase \in {"transfer", "close"} /\ leecher.nonce # 0) => IsSigned
  /\ phase = "failed" => rpcFailed

LEMMA OpenAccepted ==
  ASSUME DemoInv, SubmitInv, phase = "open"
  PROVE  Chain!MayOpen(TheKey, LeecherWallet, config.depositAmount, 1)
<1>1. NotOpened /\ now = 0 /\ balance[LeecherWallet] >= config.depositAmount
  BY DEF DemoInv, PhaseInv, SubmitInv
<1>2. config.depositAmount \in Nat \ {0}
  BY DEF DemoInv, ConfigInv
<1> QED
  BY <1>1, <1>2, KeyWallets DEF Chain!MayOpen, Chain!Live, NotOpened

(* All pieces are there, so that the check is for the whole file, which the  *)
(* deposit covers.                                                           *)
LEMMA CloseAccepted ==
  ASSUME DemoInv, SubmitInv, phase = "close"
  PROVE  /\ IsSigned
         /\ Chain!MayClose(TheKey, SeederWallet, ClaimedCheck.amount,
                           ClaimedCheck.nonce, SigVerify)
<1> DEFINE amount == seeder.highestCheck.amount
           nonce == seeder.highestCheck.nonce
<1>1. IsOpen /\ currentPiece = TotalPieces(config)
  BY DEF DemoInv, PhaseInv
<1>2. /\ leecher.bytesDownloaded = config.fileSize /\ leecher.nonce \in Nat \ {0}
      /\ amount = Paid(leecher.bytesDownloaded) /\ nonce = leecher.nonce
  BY <1>1 DEF DemoInv, LoopInv, CheckInv
<1>3. amount <= config.depositAmount
  BY <1>2 DEF DemoInv, ConfigInv, TotalCostBaseUnits, Paid
<1>4. /\ escrow[TheKey] = config.depositAmount /\ channel[TheKey].last_nonce = 0
      /\ IsSigned /\ config.depositAmount \in Nat
  BY <1>2 DEF SubmitInv, DemoInv, ConfigInv
<1>5. ClaimedCheck = [id |-> Id, amount |-> amount, nonce |-> nonce]
  BY DEF ClaimedCheck
<1> HIDE DEF amount, nonce
<1>6. ClaimedCheck.amount = amount /\ ClaimedCheck.nonce = nonce
  BY <1>5
<1>7. Chain!VerifyEd25519Signature(SigVerify, LeecherWallet, Id, amount, nonce)
  BY <1>5 DEF Chain!VerifyEd25519Signature, SigVerify
<1>8. Chain!IsEmptied(TheKey, channel[TheKey].deposited)
  BY <1>1, <1>4 DEF Chain!IsEmptied, IsOpen
<1>9. Chain!MayClose(TheKey, SeederWallet, amount, nonce, SigVerify)
  BY <1>1, <1>2, <1>3, <1>4, <1>7, <1>8, KeyWallets
     DEF Chain!MayClose, Chain!Live, Chain!WithinDeposit, IsOpen
<1> QED
  BY <1>4, <1>6, <1>9

LEMMA InitSubmit == Init => SubmitInv
  BY DEF Init, SubmitInv, Chain!Init, NewLeecher

LEMMA FundSubmits ==
  ASSUME DemoInv, SubmitInv, NEW amount \in Nat, amount >= config.depositAmount,
         Fund(amount)
  PROVE  SubmitInv'
<1>1. /\ phase = "setup" /\ phase' = "open" /\ UNCHANGED <<now, config, leecher>>
      /\ balance' = [balance EXCEPT ![LeecherWallet] = @ + amount]
  BY DEF Fund
<1>2. balance[LeecherWallet] \in Nat /\ config.depositAmount \in Nat
      /\ balance'[LeecherWallet] = balance[LeecherWallet] + amount
  BY <1>1, KeyWallets DEF DemoInv, ChainTypes, Chain!TypeOK, Wallets, ConfigInv
<1>3. balance'[LeecherWallet] >= config'.depositAmount
  BY <1>1, <1>2
<1> QED
  BY <1>1, <1>3 DEF SubmitInv

LEMMA OpenSubmits ==
  ASSUME DemoInv, SubmitInv, OpenChannel
  PROVE  SubmitInv'
<1>1. /\ phase = "open" /\ phase' = "verify" /\ UNCHANGED <<config, leecher>>
      /\ channel' = [channel EXCEPT ![TheKey] =
                       [deposited |-> config.depositAmount, created_at |-> now,
                        timeout |-> now + 1, last_nonce |-> 0, status |-> "Open"]]
      /\ escrow' = [escrow EXCEPT ![TheKey] = config.depositAmount]
  BY DEF OpenChannel, Chain!OpenChannel, Chain!FundEscrow
<1>2. channel'[TheKey].last_nonce = 0 /\ escrow'[TheKey] = config.depositAmount
  BY <1>1 DEF DemoInv, ChainTypes, Chain!TypeOK
<1> QED
  BY <1>1, <1>2 DEF SubmitInv, TheKey

LEMMA VerifySubmits ==
  ASSUME DemoInv, SubmitInv, VerifyChannel
  PROVE  SubmitInv'
<1>1. phase = "verify" /\ phase' = "transfer"
  BY VerifyStep DEF VerifyChannel
<1>2. UNCHANGED <<config, leecher, channel, escrow>>
  BY DEF VerifyChannel, chainVars
<1>3. leecher.nonce = 0
  BY <1>1 DEF SubmitInv
<1> QED
  BY <1>1, <1>2, <1>3 DEF SubmitInv, TheKey

LEMMA TransferSubmits ==
  ASSUME DemoInv, SubmitInv, TransferPiece
  PROVE  SubmitInv'
<1> DEFINE served == [seeder EXCEPT !.bytesServed = @ + NextPiece(@)]
           check == leecher'.highestCheck
<1>1. phase = "transfer" /\ phase' = "transfer" /\ config' = config
  BY TransferStep DEF TransferPiece
<1>2. seeder \in [lastNonce : Nat, lastAmount : Nat, highestCheck : Checks,
                  bytesServed : Nat, channelDeposit : {0, config.depositAmount}]
  BY DEF DemoInv, CheckInv
<1>3. served.highestCheck = seeder.highestCheck
  BY <1>2
<1>4. SUFFICES /\ UNCHANGED <<channel, escrow>>
               /\ leecher'.nonce # 0 => IsSigned'
  BY <1>1, <1>4 DEF SubmitInv, TheKey
<1>5. CASE ~CheckIsDue(currentPiece + 1)
  <2>1. seeder' = served /\ UNCHANGED <<phase, leecher, chainVars>>
    BY <1>5 DEF TransferPiece
  <2>2. ClaimedCheck' = ClaimedCheck
    BY <1>3, <2>1 DEF ClaimedCheck
  <2> QED
    BY <1>1, <2>1, <2>2 DEF SubmitInv, IsSigned, chainVars
<1>6. CASE CheckIsDue(currentPiece + 1)
  <2>1. /\ SignCheck(served.bytesServed)
        /\ IF IsRefused(check)
           THEN phase' = "failed" /\ seeder' = served
           ELSE seeder' = Accept(served, check) /\ UNCHANGED phase
    BY <1>6 DEF TransferPiece
  <2>2. seeder' = Accept(served, check)
    <3> HIDE DEF served, check
    <3> QED
      BY <1>1, <2>1
  <2>3. seeder'.highestCheck = check
    <3> HIDE DEF check
    <3> QED
      BY <1>2, <2>2 DEF Accept
  <2>4. /\ UNCHANGED <<channel, escrow>>
        /\ [signer |-> LeecherWallet,
            check |-> [id |-> Id, amount |-> check.amount, nonce |-> check.nonce]] \in signed'
    <3> HIDE DEF served
    <3>1. /\ UNCHANGED <<channel, escrow>>
          /\ signed' = signed \cup {[signer |-> LeecherWallet,
               check |-> [id |-> Id, amount |-> check.amount, nonce |-> check.nonce]]}
      BY <2>1 DEF SignCheck, Chain!Sign
    <3> QED
      BY <3>1
  <2> HIDE DEF check
  <2>5. IsSigned'
    BY <2>3, <2>4 DEF IsSigned, ClaimedCheck
  <2> QED
    BY <2>4, <2>5
<1> QED
  BY <1>5, <1>6

LEMMA EndsSubmits ==
  ASSUME DemoInv, SubmitInv, TransferEnds
  PROVE  SubmitInv'
<1>1. /\ phase = "transfer" /\ phase' = "close"
      /\ UNCHANGED <<config, leecher, seeder, channel, escrow, signed>>
  BY EndsStep DEF TransferEnds, chainVars
<1> QED
  BY <1>1 DEF SubmitInv, IsSigned, ClaimedCheck, TheKey

(* Whenever a call throws, the program would have accepted the transaction.  *)
LEMMA FailsSubmits ==
  ASSUME DemoInv, SubmitInv, RpcFails
  PROVE  SubmitInv'
<1>1. phase' = "failed" /\ rpcFailed' = WouldBeAccepted
  BY DEF RpcFails
<1>2. WouldBeAccepted
  BY OpenAccepted, CloseAccepted DEF WouldBeAccepted
<1> QED
  BY <1>1, <1>2 DEF SubmitInv

LEMMA NextSubmits ==
  ASSUME DemoInv, SubmitInv, [Next]_vars
  PROVE  SubmitInv'
<1>1. CASE MintTwice
  <2>1. 2 * config.depositAmount \in Nat /\ 2 * config.depositAmount >= config.depositAmount
    BY DEF DemoInv, ConfigInv
  <2> QED
    BY <1>1, <2>1, FundSubmits DEF MintTwice
<1>2. CASE MintMissing
  <2>1. PICK held \in Balances :
          Fund(IF held < config.depositAmount THEN config.depositAmount ELSE held)
    BY <1>2 DEF MintMissing
  <2> DEFINE amount == IF held < config.depositAmount THEN config.depositAmount ELSE held
  <2>2. amount \in Nat /\ amount >= config.depositAmount
    BY DEF DemoInv, ConfigInv
  <2>3. Fund(amount)
    BY <2>1
  <2> HIDE DEF amount
  <2> QED
    BY <2>2, <2>3, FundSubmits
<1>3. CASE CloseChannel \/ PrintSummary
  <2>1. phase' \in {"summary", "done"}
    BY <1>3 DEF CloseChannel, PrintSummary
  <2> QED
    BY <2>1 DEF SubmitInv
<1>4. CASE UNCHANGED vars
  BY <1>4 DEF SubmitInv, IsSigned, ClaimedCheck, TheKey, vars, chainVars
<1> QED
  BY <1>1, <1>2, <1>3, <1>4, OpenSubmits, VerifySubmits, TransferSubmits, EndsSubmits,
     FailsSubmits DEF Next

(* With the deposit of defaultConfig no check is refused and no transaction  *)
(* either: a script that failed had a call throw that the program would have *)
(* accepted.                                                                 *)
THEOREM FailsOnlyOnCalls == Spec => []FailsOnlyOnRpc
<1>1. DemoInv /\ SubmitInv /\ [Next]_vars => DemoInv' /\ SubmitInv'
  BY NextDemo, NextSubmits
<1>2. SubmitInv => FailsOnlyOnRpc
  BY DEF SubmitInv, FailsOnlyOnRpc
<1> QED
  BY InitDemo, InitSubmit, <1>1, <1>2, PTL DEF Spec
=============================================================================
