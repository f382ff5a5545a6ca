---------------------------- MODULE WireMessages ----------------------------
(* What travels over the extension: the nine messages of                     *)
(* packages/sdk/src/messages.ts as objects of strings, bencoded by           *)
(* encodeBep10Message and decoded by decodeBep10Message, and the metadata    *)
(* that peers put into their extended handshake (bittorrent extension.ts).   *)
(* Texts are sequences of symbols, byte strings sequences of 0 .. 255.       *)
EXTENDS Bencode

(* The fields of each message, by the conversion encodeMessage applies. *)
Fields ==
  [ecdh_init |-> [publicKey |-> "hex"],
   channel_opened |-> [channelId |-> "hex", txSignature |-> "text",
                       deposited |-> "amount", timeout |-> "amount"],
   channel_confirmed |-> [channelId |-> "hex"],
   channel_rejected |-> [channelId |-> "hex", reason |-> "text"],
   payment_check |-> [channelId |-> "hex", amount |-> "amount",
                      nonce |-> "amount", signature |-> "hex"],
   payment_check_required |-> [amountOwed |-> "amount"],
   payment_check_rejected |-> [reason |-> "text"],
   channel_closed |-> [channelId |-> "hex", txSignature |-> "text"],
   channel_timeout_warning |-> [channelId |-> "hex", timeoutAt |-> "amount"]]

MessageTypes == DOMAIN Fields

HexDigit == Digit \o <<"a", "b", "c", "d", "e", "f">>
ASSUME WireAssumption ==
  /\ MessageTypes \cup ToSet(HexDigit) \subseteq Symbol
  /\ {"type", "wallet", "price_per_mb", "min_prepayment", "chain", "m", "seedpay"}
       \cup UNION {DOMAIN Fields[t] : t \in MessageTypes} \subseteq ToSet(KeyOrder)

HexValue(c) == (CHOOSE i \in DOMAIN HexDigit : HexDigit[i] = c) - 1

BytesToHex(bytes) ==
  [i \in 1 .. 2 * Len(bytes) |->
     IF i % 2 = 1 THEN HexDigit[bytes[(i + 1) \div 2] \div 16 + 1]
                  ELSE HexDigit[(bytes[i \div 2] % 16) + 1]]

(* hexToBytes throws on an odd length and on other characters. *)
IsHex(text) == (Len(text) % 2) = 0 /\ ToSet(text) \subseteq ToSet(HexDigit)
HexToBytes(text) ==
  [i \in 1 .. Len(text) \div 2 |-> 16 * HexValue(text[2 * i - 1]) + HexValue(text[2 * i])]

(* BigInt(text): "" is 0; what is no number throws.  Signs, blanks and other *)
(* bases, which it also accepts, are not among the symbols.                  *)
IsBigInt(text) == ToSet(text) \subseteq Digits
BigIntOf(text) == ParseInt(text)

EncodeField(kind, content) ==
  CASE kind = "hex" -> Text(BytesToHex(content))
    [] kind = "amount" -> Text(DecimalText[content])
    [] kind = "text" -> Text(content)

EncodeMessage(msg) ==
  LET fields == Fields[msg.type]
  IN  Dict(<< <<<<"type">>, Text(<<msg.type>>)>> >>
           \o SetToSeq({<<<<f>>, EncodeField(fields[f], msg[f])>> : f \in DOMAIN fields}))

EncodeBep10Message(msg) == EncodeValue(EncodeMessage(msg))

(* obj[key]: the last entry of a key counts, and only objects have entries. *)
Entries(obj, key) ==
  IF obj[1] = "dict" THEN {i \in DOMAIN obj[2] : obj[2][i][1] = <<key>>} ELSE {}
Has(obj, key) == Entries(obj, key) # {}
Property(obj, key) == obj[2][Max(Entries(obj, key))][2]

(* requireString, and the conversion that does not throw. *)
IsField(obj, key, kind) ==
  /\ Has(obj, key)
  /\ Property(obj, key)[1] = "text"
  /\ kind = "hex" => IsHex(Property(obj, key)[2])
  /\ kind = "amount" => IsBigInt(Property(obj, key)[2])

DecodeField(kind, text) ==
  CASE kind = "hex" -> HexToBytes(text)
    [] kind = "amount" -> BigIntOf(text)
    [] kind = "text" -> text

Undecided == [type |-> "undecided"]
Refused   == [type |-> "error"]

(* Variant with a mistake: fields that are missing or invalid are left out. *)
DecodeWhatIsThere(obj) ==
  IF ~(\E t \in MessageTypes : Has(obj, "type") /\ Property(obj, "type") = Text(<<t>>))
  THEN Refused
  ELSE LET type == Property(obj, "type")[2][1]
           fields == {f \in DOMAIN Fields[type] : IsField(obj, f, Fields[type][f])}
       IN  [f \in {"type"} \cup fields |->
              IF f = "type" THEN type
              ELSE DecodeField(Fields[type][f], Property(obj, f)[2])]

(* decodeMessage throws, or returns a message with its type's fields. *)
DecodeMessage(obj) ==
  IF ~(\E t \in MessageTypes : Has(obj, "type") /\ Property(obj, "type") = Text(<<t>>))
  THEN Refused
  ELSE LET type == Property(obj, "type")[2][1]
           fields == Fields[type]
       IN  IF \E f \in DOMAIN fields : ~IsField(obj, f, fields[f])
           THEN Refused
           ELSE [f \in {"type"} \cup DOMAIN fields |->
                   IF f = "type" THEN type
                   ELSE DecodeField(fields[f], Property(obj, f)[2])]

(* The bridge to the signed check of payment-check.ts. *)
PaymentCheckToMessage(check) ==
  [type |-> "payment_check", channelId |-> check.channelId, amount |-> check.amount,
   nonce |-> check.nonce, signature |-> check.signature]
MessageToPaymentCheck(msg) ==
  [channelId |-> msg.channelId, amount |-> msg.amount, nonce |-> msg.nonce,
   signature |-> msg.signature]
-----------------------------------------------------------------------------
CreateHandshakeMetadata(meta) ==
  Dict(<< <<<<"wallet">>, Text(meta.wallet)>>,
          <<<<"price_per_mb">>, Text(DecimalText[meta.pricePerMb])>>,
          <<<<"min_prepayment">>, Text(DecimalText[meta.minPrepayment])>>,
          <<<<"chain">>, Text(meta.chain)>> >>)

(* Variant with a mistake: byte strings are not coerced. *)
StringsOnly(value) == IF value[1] = "text" THEN value[2] ELSE <<>>

(* toStr, where "" stands for null: parseHandshakeMetadata refuses both. *)
ToStr(value) == IF value[1] \in {"text", "bytes"} THEN value[2] ELSE <<>>

NoMetadata == [type |-> "null"]

ParseHandshakeMetadata(dict) ==
  LET field(key) == IF Has(dict, key) THEN ToStr(Property(dict, key)) ELSE <<>>
  IN  IF \/ \E key \in {"wallet", "price_per_mb", "min_prepayment", "chain"} :
              field(key) = <<>>
         \/ ~IsBigInt(field("price_per_mb")) \/ ~IsBigInt(field("min_prepayment"))
      THEN NoMetadata
      ELSE [wallet |-> field("wallet"), pricePerMb |-> BigIntOf(field("price_per_mb")),
            minPrepayment |-> BigIntOf(field("min_prepayment")), chain |-> field("chain")]

(* ExtensionNegotiator: the id the peer gave the extension, 0 for none. *)
RemoteId(remoteExtensions) ==
  IF /\ Has(remoteExtensions, "seedpay")
     /\ Property(remoteExtensions, "seedpay")[1] = "number"
     /\ Property(remoteExtensions, "seedpay")[2] > 0
  THEN Property(remoteExtensions, "seedpay")[2] ELSE 0
LocalHandshakeEntry(localId) == Dict(<< <<<<"seedpay">>, Number(localId)>> >>)
=============================================================================
