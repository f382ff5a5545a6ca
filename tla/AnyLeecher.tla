------------------------------ MODULE AnyLeecher ------------------------------
(* The seeder and the chain with a leecher of which nothing is assumed: it   *)
(* sends any message at any time, signs checks of any id, amount and nonce,  *)
(* and opens, refunds and re-opens the channel as the program allows; and    *)
(* anybody sends tokens to the escrow account.  What a seeder that runs the  *)
(* code of SeederController can rely on all the same.  Uploads are left out: *)
(* they change neither the state of the session nor its highest check.  A    *)
(* channel id stands for the 32 bytes of it that enter the signed message.   *)
EXTENDS SeederController

CONSTANTS LeecherWallet, SeederWallet,
          Amount, Duration, Checks,   \* what the leecher chooses from
          U64,                        \* 2^64 in the code
          MinTimeout, MaxTimeout, InitialBalance, NoAccount,
          MaxNow, MaxOpenings, MaxSigned   \* bounds, see SeedPayProgram

VARIABLES channel, escrow, balance, signed, now, log,   \* see SeedPayProgram
          opening   \* history: events on the chain when the seeder read it

chainVars == <<channel, escrow, balance, signed, now, log>>
vars == <<wireVars, seederVars, chainVars, opening>>

ASSUME WidthAssumption == U64 \in Nat \ {0}
Word == 0 .. U64 - 1

TheKey == [leecher |-> LeecherWallet, seeder |-> SeederWallet, id |-> Id]

Chain == INSTANCE SeedPayProgram WITH
           Wallet <- {LeecherWallet, SeederWallet}, Key <- {TheKey}, Nonce <- Word

ASSUME InputAssumption ==
  Amount \subseteq Word /\ Duration \subseteq Int /\ Checks \subseteq PaymentCheck
ASSUME AccountAssumption ==
  /\ NoAccount \notin Nat /\ NoAccount \notin Chain!ChannelState
  /\ InitialBalance \in [{LeecherWallet, SeederWallet} -> Nat]

TheChannel == channel[TheKey]
Open == TheChannel # NoAccount

(* encodePaymentCheckMessage: setBigUint64 keeps the numbers modulo 2^64.    *)
Encoded(id, check) ==
  [id |-> id, amount |-> check.amount % U64, nonce |-> check.nonce % U64]

(* The check, under the id it carries, as the leecher's wallet signs it. *)
SignedBy(check) ==
  [signer |-> LeecherWallet, check |-> Encoded(check.channelId, check)]

(* The claim for a check: the Ed25519 instruction holds the session's id and *)
(* the signature of the check, which is one of these bytes only if the check *)
(* carries that id; close_channel then has the last word.  BN writes numbers *)
(* without their sign into the instruction, and none of more than 64 bits,   *)
(* which no encoded number equals.                                           *)
ClaimProof(check) ==
  [form |-> "sigVerify", signer |-> LeecherWallet, check |-> Encoded(Id, check)]
Carried(n) == IF n < 0 THEN -n ELSE n
Claimable(check) ==
  /\ SignedBy(check) \in signed /\ check.channelId = Id
  /\ Chain!MayClose(TheKey, SeederWallet, Carried(check.amount), Carried(check.nonce),
                    ClaimProof(check))
-----------------------------------------------------------------------------
Init ==
  /\ WireInit /\ SeederInit
  /\ Chain!Init
  /\ opening = 0

(* What a seeder has a handler for; every other message is ignored. *)
LeecherMessages ==
  [type : {"ecdh_init", "channel_closed"}]
    \cup [type : {"channel_opened"}, deposited : Amount]
    \cup {[type |-> "payment_check", channelId |-> c.channelId, amount |-> c.amount,
           nonce |-> c.nonce] : c \in Checks}

(* A leecher sends a message, and may have read what has reached it.  The    *)
(* check of a payment_check may be one it signs for that, one it has signed  *)
(* before, or not signed at all.                                             *)
LeecherSends(message) ==
  /\ toSeeder = <<>>                    \* bound
  /\ leecherUp /\ seederUp
  /\ toSeeder' = <<message>>
  /\ toLeecher' = <<>>
  /\ \/ /\ message.type = "payment_check"
        /\ Chain!Sign(LeecherWallet, Encoded(message.channelId, message))
     \/ UNCHANGED chainVars
  /\ UNCHANGED <<leecherUp, seederUp, seederVars, opening>>

(* What others do on the chain; time passes while a channel is open, and     *)
(* nothing but its timeout looks at the clock.                               *)
OnChain(step) == step /\ UNCHANGED <<wireVars, seederVars, opening>>

EscrowGrows ==
  \E w \in {LeecherWallet, SeederWallet}, a \in Amount : Chain!TopUp(TheKey, w, a)

Seeder(step) == step /\ UNCHANGED <<chainVars, opening>>

SeederMessage ==
  \E valid \in BOOLEAN :
    /\ toSeeder # <<>>
    /\ valid <=> (Head(toSeeder).type = "payment_check"
                    => SignedBy(Head(toSeeder)) \in signed)
    /\ Seeder(SeederReceives(valid))

(* The account as it is read, or no answer. *)
VerifyReads ==
  /\ VerifyReturns(Open, IF Open THEN TheChannel.deposited ELSE 0)
  /\ opening' = Len(log[TheKey])
  /\ UNCHANGED chainVars
VerifyFails == Seeder(VerifyReturns(FALSE, 0))

ClaimLands ==
  LET check == seederRpc.check
  IN  /\ ClaimReturns
      /\ Claimable(check)
      /\ Chain!CloseChannel(TheKey, SeederWallet, Carried(check.amount),
                            Carried(check.nonce), ClaimProof(check))
      /\ UNCHANGED opening
ClaimFails == Seeder(ClaimReturns)

Next ==
  \/ \E m \in LeecherMessages : LeecherSends(m)
  \/ OnChain(Chain!Open(TheKey)) \/ OnChain(Chain!Expire(TheKey))
  \/ OnChain(EscrowGrows) \/ OnChain(Open /\ Chain!Tick)
  \/ SeederMessage \/ VerifyReads \/ VerifyFails \/ Seeder(VerifyResolves)
  \/ ClaimLands \/ ClaimFails
  \/ Seeder(SeederDisconnects) \/ Seeder(Crash)
  \/ Seeder(Shutdown) \/ Seeder(ShutdownEnds)

Spec == Init /\ [][Next]_vars
-----------------------------------------------------------------------------
(* What can make an accepted check worthless, and nothing else can: while    *)
(* the channel the seeder has read is open, close_channel takes the highest  *)
(* check unless it carries another id than the session's, which the seeder   *)
(* does not compare (session.ts:320), its nonce is 0, which is fresh to the  *)
(* seeder and stale to the program (session.ts:336), tokens were added to    *)
(* the escrow account, which close_channel then cannot empty, or one of its  *)
(* numbers is not a u64, for which the seeder does not look (messages.ts:185)*)
(* and which the signature does not tell from one that is.  Each of the      *)
(* first three does make it worthless.                                       *)
ClaimableUnless ==
  LET check == seeder.highestCheck
      unspoilt == /\ check.channelId = Id
                  /\ check.nonce # 0
                  /\ escrow[TheKey] = TheChannel.deposited
  IN  (check # NoCheck /\ Open /\ Len(log[TheKey]) = opening) =>
        /\ unspoilt /\ check.amount \in Word /\ check.nonce \in Word => Claimable(check)
        /\ Claimable(check) => unspoilt

(* The settlements by claim of the channel's address. *)
Claims == {i \in DOMAIN log[TheKey] : log[TheKey][i].type = "ChannelClosed"}

(* However often the leecher re-opens the address, for which the same check  *)
(* is fresh again, one session is paid once; and what it is paid is the      *)
(* highest check it has ever accepted, as long as it has not lost it.        *)
PaidOnceInFull ==
  /\ \A i, j \in Claims : i = j
  /\ \A i \in Claims :
       /\ seederAlive => seeder.highestCheck # NoCheck
       /\ seeder.highestCheck # NoCheck =>
            /\ log[TheKey][i].earned = Carried(seeder.highestCheck.amount)
            /\ log[TheKey][i].nonce = Carried(seeder.highestCheck.nonce)
=============================================================================
