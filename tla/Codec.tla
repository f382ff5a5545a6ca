-------------------------------- MODULE Codec -------------------------------
(* One buffer from the peer that encodes it to the handler that gets the     *)
(* message: as it was encoded, cut off, with one symbol changed, or foreign. *)
(* The extended handshake, which the BitTorrent library bencodes and decodes *)
(* into byte strings, takes the same way.                                    *)
EXTENDS WireMessages

CONSTANTS Messages,      \* messages that are sent
          Metadata,      \* handshake metadata of a peer
          Altered,       \* messages whose buffer may have one symbol changed
          Alphabet,      \* symbols of foreign buffers and of changes
          ForeignLen     \* bound on the length of foreign buffers

VARIABLES sent,       \* the message or the metadata
          way,        \* what happened to its buffer
          delivered   \* what the handler gets, or the error, or Undecided

vars == <<decodeVars, sent, way, delivered>>

IsMessage(m) ==
  /\ "type" \in DOMAIN m /\ m.type \in MessageTypes
  /\ DOMAIN m = {"type"} \cup DOMAIN Fields[m.type]
  /\ \A f \in DOMAIN Fields[m.type] :
       CASE Fields[m.type][f] = "hex" -> m[f] \in Seq(0 .. 255)
         [] Fields[m.type][f] = "amount" -> m[f] \in Nat
         [] Fields[m.type][f] = "text" -> m[f] \in Seq(Symbol)

(* The senders build their messages and metadata from typed objects; they    *)
(* have a wallet and a chain.  Changes are followed in messages without free *)
(* text.                                                                     *)
ASSUME SentAssumption ==
  /\ \A m \in Messages \cup Altered : IsMessage(m) /\ m = [f \in DOMAIN m |-> m[f]]
  /\ \A m \in Altered : \A f \in DOMAIN Fields[m.type] : Fields[m.type][f] # "text"
  /\ Metadata \subseteq [wallet : Seq(Symbol) \ {<<>>}, pricePerMb : Nat,
                        minPrepayment : Nat, chain : Seq(Symbol) \ {<<>>}]
  /\ Alphabet \subseteq Symbol /\ ForeignLen \in Nat

LocalId == 1
HandshakeDict(meta) ==
  Dict(<< <<<<"m">>, LocalHandshakeEntry(LocalId)>> >> \o CreateHandshakeMetadata(meta)[2])

StrictPrefixes(b) == Prefixes(b) \ {b}

(* A word with one byte changed is none of the words of the messages. *)
Words == MessageTypes \cup {"type"} \cup UNION {DOMAIN Fields[t] : t \in MessageTypes}
Changes(b) == {[b EXCEPT ![i] = c] : i \in DOMAIN b, c \in Alphabet \ Words}

Init ==
  /\ pos = 1 /\ open = <<>> /\ result = Pending /\ delivered = Undecided
  /\ \/ way = "whole" /\ sent \in Messages /\ buffer = EncodeBep10Message(sent)
     \/ way = "cut" /\ sent \in Messages /\ buffer \in StrictPrefixes(EncodeBep10Message(sent))
     \/ way = "altered" /\ sent \in Altered /\ buffer \in Changes(EncodeBep10Message(sent))
     \/ way = "foreign" /\ sent = Undecided
          /\ buffer \in UNION {[1 .. n -> Alphabet] : n \in 0 .. ForeignLen}
     \/ way = "handshake" /\ sent \in Metadata /\ buffer = EncodeValue(HandshakeDict(sent))

(* The library's decoder leaves strings as bytes. *)
AsBytes(entries) ==
  [i \in DOMAIN entries |->
     IF entries[i][2][1] = "text" THEN <<entries[i][1], Bytes(entries[i][2][2])>>
                                  ELSE entries[i]]

(* decodeBep10Message: an error leaves the session as it was. *)
DecodeBep10Message ==
  /\ way # "handshake" /\ result # Pending /\ delivered = Undecided
  /\ delivered' = IF result = Thrown THEN Refused ELSE DecodeMessage(result)
  /\ UNCHANGED <<decodeVars, sent, way>>

(* onHandshake: negotiation first, then the metadata. *)
OnHandshake ==
  /\ way = "handshake" /\ result # Pending /\ delivered = Undecided
  /\ delivered' = IF RemoteId(Property(result, "m")) = 0 THEN Refused
                  ELSE ParseHandshakeMetadata(Dict(AsBytes(result[2])))
  /\ UNCHANGED <<decodeVars, sent, way>>

Decode == DecodeNext /\ UNCHANGED <<sent, way, delivered>>

Next == Decode \/ DecodeBep10Message \/ OnHandshake

Spec == Init /\ [][Next]_vars
FairSpec == Spec /\ WF_vars(Next)      \* decoding is one synchronous call
-----------------------------------------------------------------------------
(* A decoded dictionary has strings as keys; the session methods get         *)
(* messages with all their fields, of their types, whatever the buffer was.  *)
TypeOK ==
  /\ pos \in Nat \ {0}
  /\ \A i \in DOMAIN open : open[i].key # <<>> => open[i].key[1] \in Seq(Symbol)
  /\ (way # "handshake" /\ delivered \notin {Undecided, Refused}) => IsMessage(delivered)

(* What one side encodes, the other decodes to: bencode, hex and decimal     *)
(* amounts lose nothing, whatever bytes (":", "e" and digits among them) the *)
(* fields hold; a payment check comes out as the check that was signed.      *)
DeliveredAsSent ==
  (way = "whole" /\ delivered # Undecided) =>
    /\ delivered = sent
    /\ sent.type = "payment_check" =>
         PaymentCheckToMessage(MessageToPaymentCheck(delivered)) = sent

(* No part of a message is taken for a message: although slice silently      *)
(* shortens a string at the end of the buffer, the missing end of the        *)
(* dictionary is always noticed.                                             *)
CutIsRefused == (way = "cut" /\ result # Pending) => result = Thrown

(* One changed symbol in a message of hex and decimal fields, a length       *)
(* prefix included, never gives a message of a type with other fields, and   *)
(* never moves content from one field into another: what is accepted differs *)
(* from what was sent in one field at most.                                  *)
ChangeStaysLocal ==
  (way = "altered" /\ delivered \notin {Undecided, Refused}) =>
    /\ DOMAIN delivered = DOMAIN sent
    /\ \E f \in DOMAIN sent : \A g \in DOMAIN sent \ {f} : delivered[g] = sent[g]

(* Both sides read the terms the other side put into its handshake, a price  *)
(* of 0, which every leecher advertises, included.                           *)
HandshakeSurvives == (way = "handshake" /\ delivered # Undecided) => delivered = sent

(* decode ends for every buffer: its loops look for an end that may not come *)
(* and take steps whose length the buffer chooses.                           *)
DecodeEnds == <>(delivered # Undecided)
=============================================================================
