----------------------------- MODULE Accounting -----------------------------
(* packages/sdk/src/accounting.ts: what served bytes cost, when a leecher    *)
(* sends its next payment check, and the PieceAccounting record both         *)
(* sessions keep.  Amounts, bytes and nonces are BigInts, hence unbounded.   *)
EXTENDS Integers

CONSTANTS BytesPerMb,        \* BYTES_PER_MB, 1048576 in the code
          PricePerMb,        \* config.pricePerMb
          CheckFrequencyMb   \* config.checkFrequencyMb

ASSUME AccountingAssumption ==
  /\ BytesPerMb \in Nat \ {0}
  /\ PricePerMb \in Nat
  /\ CheckFrequencyMb \in Nat

(* BigInt division of non-negative values rounds down, so this rounds up. *)
ComputeCost(bytes, price) == (bytes * price + BytesPerMb - 1) \div BytesPerMb

Cost(bytes) == ComputeCost(bytes, PricePerMb)

(* Variant with a mistake: a check only when the debt passes the interval. *)
ShouldSendCheckLate(bytesDownloaded, lastCheckAmount) ==
  Cost(bytesDownloaded) >
    lastCheckAmount + Cost(CheckFrequencyMb * BytesPerMb)

ShouldSendCheck(bytesDownloaded, lastCheckAmount) ==
  Cost(bytesDownloaded) >=
    lastCheckAmount + Cost(CheckFrequencyMb * BytesPerMb)

PieceAccounting == [totalBytes : Nat, lastCheckAmount : Nat, lastNonce : Nat]

NewAccounting == [totalBytes |-> 0, lastCheckAmount |-> 0, lastNonce |-> 0]

RecordBytes(acc, bytes) == [acc EXCEPT !.totalBytes = @ + bytes]

(* recordCheck throws unless the amount is monotonic and the nonce new.      *)
MayRecord(acc, amount, nonce) ==
  amount >= acc.lastCheckAmount /\ nonce > acc.lastNonce

RecordCheck(acc, amount, nonce) ==
  [acc EXCEPT !.lastCheckAmount = amount, !.lastNonce = nonce]

(* Variant with a mistake: a whole amount is rounded up too. *)
NextCheckAhead(acc) == (acc.totalBytes * PricePerMb) \div BytesPerMb + 1

NeedsCheck(acc) == ShouldSendCheck(acc.totalBytes, acc.lastCheckAmount)
NextCheckAmount(acc) == Cost(acc.totalBytes)
NextNonce(acc) == acc.lastNonce + 1
=============================================================================
