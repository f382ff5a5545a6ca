------------------------------- MODULE MCCodec ------------------------------
(* Small contents for Codec.  They hold the bytes the decoder looks for:     *)
(* "d", "e" and digits in hex, ":" and "e" in free text, amounts and lengths *)
(* of one and of two digits.                                                 *)
EXTENDS Codec

MCSymbol == STRING
MCKeyOrder == <<"amount", "amountOwed", "chain", "channelId", "deposited", "m",
                "min_prepayment", "nonce", "price_per_mb", "publicKey", "reason",
                "seedpay", "signature", "timeout", "timeoutAt", "txSignature",
                "type", "wallet">>

Ids == {<<222>>, <<0, 14, 1, 238, 16>>}
Texts == {<<>>, <<":", "e">>}
Amounts == {0, 9, 10}

MCMessages ==
  [type : {"ecdh_init"}, publicKey : Ids]
    \cup [type : {"channel_opened"}, channelId : Ids, txSignature : Texts,
          deposited : Amounts, timeout : {10}]
    \cup [type : {"channel_confirmed"}, channelId : Ids]
    \cup [type : {"channel_rejected"}, channelId : Ids, reason : Texts]
    \cup {PaymentCheckToMessage(c) :
            c \in [channelId : Ids, amount : Amounts, nonce : {1, 12}, signature : Ids]}
    \cup [type : {"payment_check_required"}, amountOwed : Amounts]
    \cup [type : {"payment_check_rejected"}, reason : Texts]
    \cup [type : {"channel_closed"}, channelId : Ids, txSignature : Texts]
    \cup [type : {"channel_timeout_warning"}, channelId : Ids, timeoutAt : Amounts]

MCAltered ==
  [type : {"channel_confirmed"}, channelId : Ids]
    \cup [type : {"payment_check_required"}, amountOwed : {7, 10, 12}]
    \cup [type : {"payment_check"}, channelId : Ids, amount : {1, 10}, nonce : {12},
          signature : {<<17>>, <<222>>}]

MCMetadata == [wallet : {<<"w">>, <<"1", ":">>}, pricePerMb : {0, 7},
               minPrepayment : {0, 70}, chain : {<<"solana">>}]

MCAlphabet == {"d", "l", "i", "e", ":", "0", "1", "3", "x"}
=============================================================================
