------------------------------- MODULE Bencode ------------------------------
(* packages/bittorrent/src/bencode.ts.  A buffer is a sequence of symbols; a *)
(* symbol is one byte, and a word that no code looks into (a key, a message  *)
(* type) is one symbol too.  A value is a pair of its kind and its contents. *)
(* encode is an operator; decode, whose control is a position that runs over *)
(* bytes a peer chose, is a state machine with one step per call of          *)
(* decodeNext and per closed container.                                      *)
EXTENDS Naturals, SequencesExt

CONSTANTS Symbol,           \* the bytes and words of buffers
          KeyOrder,         \* the words used as keys, as sort() orders them
          MaxSafeInteger    \* Number.MAX_SAFE_INTEGER, scaled (bound)

VARIABLES buffer,
          pos,       \* state.pos, from 1 on
          open,      \* the containers being decoded, innermost last
          result     \* what decode returned or threw, or Pending

decodeVars == <<buffer, pos, open, result>>

Digit == <<"0", "1", "2", "3", "4", "5", "6", "7", "8", "9">>
Digits == ToSet(Digit)

ASSUME BencodeAssumption ==
  /\ Digits \cup {"i", "l", "d", "e", ":", "object"} \subseteq Symbol
  /\ KeyOrder \in Seq(Symbol) /\ MaxSafeInteger \in Nat \ {0}

ValueOf(digit) == (CHOOSE i \in DOMAIN Digit : Digit[i] = digit) - 1

DecimalText[n \in Nat] == IF n < 10 THEN <<Digit[n + 1]>>
                          ELSE Append(DecimalText[n \div 10], Digit[(n % 10) + 1])

DecimalValue[digits \in Seq(Digits)] ==
  IF digits = <<>> THEN 0 ELSE 10 * DecimalValue[Front(digits)] + ValueOf(Last(digits))

(* parseInt: the leading digits count. *)
LeadingDigits(text) ==
  LET first == SelectInSeq(text, LAMBDA c : c \notin Digits)
  IN  IF first = 0 THEN text ELSE SubSeq(text, 1, first - 1)
ParseInt(text) == DecimalValue[LeadingDigits(text)]

Text(symbols) == <<"text", symbols>>
Number(n)     == <<"number", n>>
Bytes(symbols) == <<"bytes", symbols>>
List(values)  == <<"list", values>>
Dict(entries) == <<"dict", entries>>      \* pairs of a key and a value
-----------------------------------------------------------------------------
(* Variant with a mistake: a length prefix of one digit. *)
OneDigitLength(n) == <<Digit[(n % 10) + 1]>>

LengthPrefix(n) == DecimalText[n]

EncodeString(symbols) == LengthPrefix(Len(symbols)) \o <<":">> \o symbols

(* The entries in the order of their keys. *)
Sorted(entries) ==
  LET place(i) == CHOOSE k \in DOMAIN KeyOrder : <<KeyOrder[k]>> = entries[i][1]
      rank(i) == Cardinality({j \in DOMAIN entries : place(j) <= place(i)})
  IN  [r \in DOMAIN entries |-> entries[CHOOSE i \in DOMAIN entries : rank(i) = r]]

EncodeScalar(data) ==
  IF data[1] = "number" THEN <<"i">> \o DecimalText[data[2]] \o <<"e">>
                        ELSE EncodeString(data[2])

EncodeContainer(data, Encode(_)) ==
  LET entries == Sorted(data[2])
  IN  IF data[1] = "list"
      THEN <<"l">> \o FlattenSeq([i \in DOMAIN data[2] |-> Encode(data[2][i])]) \o <<"e">>
      ELSE <<"d">> \o FlattenSeq([i \in DOMAIN entries |->
                        EncodeString(entries[i][1]) \o Encode(entries[i][2])]) \o <<"e">>

(* encodeValue calls itself for what a container holds.  No caller nests     *)
(* deeper than a dictionary of scalars within a dictionary.                  *)
IsContainer(data) == data[1] \in {"list", "dict"}
EncodeFlat(data) ==
  IF IsContainer(data) THEN EncodeContainer(data, EncodeScalar) ELSE EncodeScalar(data)
EncodeValue(data) ==
  IF IsContainer(data) THEN EncodeContainer(data, EncodeFlat) ELSE EncodeScalar(data)
-----------------------------------------------------------------------------
Pending == <<"pending">>
Thrown  == <<"error">>

(* Variant with a mistake: the end of the buffer ends what is open. *)
ByteOrEnd(p) == IF p <= Len(buffer) THEN buffer[p] ELSE "e"

ByteAt(p) == IF p <= Len(buffer) THEN buffer[p] ELSE "undefined"

IndexOf(byte, from) ==
  SelectInSubSeq(buffer, from, Len(buffer), LAMBDA c : c = byte)

Throw == result' = Thrown /\ UNCHANGED <<buffer, pos, open>>

(* result[key]: what is no string becomes one; the text of a container, which*)
(* JavaScript puts together from its contents, is one fixed text here.       *)
PropertyKey(value) ==
  CASE value[1] = "text" -> value[2]
    [] value[1] = "number" -> DecimalText[value[2]]
    [] OTHER -> <<"object">>

(* What a container becomes with one more value. *)
Take(container, value) ==
  IF container.kind = "list" THEN [container EXCEPT !.items = Append(@, value)]
  ELSE IF container.key = <<>> THEN [container EXCEPT !.key = <<PropertyKey(value)>>]
  ELSE [container EXCEPT !.key = <<>>, !.items = Append(@, <<container.key[1], value>>)]

(* decodeNext returns value to the innermost of these containers. *)
ReturnValue(containers, value, next) ==
  /\ pos' = next
  /\ IF containers = <<>>
     THEN result' = value /\ open' = <<>>
     ELSE /\ open' = [containers EXCEPT ![Len(containers)] = Take(@, value)]
          /\ UNCHANGED result
  /\ UNCHANGED buffer

(* A number that is not written canonically, or too large, stays a string. *)
IntegerValue(text) ==
  LET n == ParseInt(text)
  IN  IF text # <<>> /\ DecimalText[n] = text /\ n <= MaxSafeInteger
      THEN Number(n) ELSE Text(text)

DecodeInteger ==
  /\ result = Pending /\ ByteAt(pos) = "i"
  /\ LET end == IndexOf("e", pos + 1)
     IN  IF end = 0 THEN Throw
         ELSE ReturnValue(open, IntegerValue(SubSeq(buffer, pos + 1, end - 1)), end + 1)

OpenContainer ==
  /\ result = Pending /\ ByteAt(pos) \in {"l", "d"}
  /\ open' = Append(open, [kind |-> IF ByteAt(pos) = "l" THEN "list" ELSE "dict",
                           key |-> <<>>, items |-> <<>>])
  /\ pos' = pos + 1
  /\ UNCHANGED <<buffer, result>>

(* The loop of a container ends at an "e" where a value or a key is due. *)
AtContainerEnd == open # <<>> /\ Last(open).key = <<>> /\ ByteAt(pos) = "e"

CloseContainer ==
  /\ result = Pending /\ AtContainerEnd
  /\ ReturnValue(Front(open), <<Last(open).kind, Last(open).items>>, pos + 1)

(* slice stops at the end of the buffer, the position does not. *)
DecodeString ==
  /\ result = Pending /\ ByteAt(pos) \in Digits
  /\ LET colon == IndexOf(":", pos)
         len == ParseInt(SubSeq(buffer, pos, colon - 1))
         to == IF colon + len < Len(buffer) THEN colon + len ELSE Len(buffer)
     IN  IF colon = 0 THEN Throw
         ELSE ReturnValue(open, Text(SubSeq(buffer, colon + 1, to)), colon + len + 1)

(* Variant with a mistake: bytes that begin nothing are passed over. *)
PassOver ==
  /\ result = Pending /\ ~AtContainerEnd
  /\ ByteAt(pos) \notin {"i", "l", "d", "undefined"} \cup Digits
  /\ pos' = pos + 1
  /\ UNCHANGED <<buffer, open, result>>

(* The end of the buffer too: its undefined has no toString. *)
UnexpectedByte ==
  /\ result = Pending /\ ~AtContainerEnd
  /\ ByteAt(pos) \notin {"i", "l", "d"} \cup Digits
  /\ Throw

DecodeNext == DecodeInteger \/ OpenContainer \/ CloseContainer \/ DecodeString
                \/ UnexpectedByte
=============================================================================
