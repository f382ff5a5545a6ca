# SeedPay: specification and verification

SeedPay pays for BitTorrent downloads through payment channels on Solana. A
leecher deposits tokens in an escrow account on the chain, signs *payment
checks* for a growing total while the pieces arrive, and the seeder submits the
highest check to be paid. This directory specifies the program and the peers in
TLA+, checks them with TLC, and proves with TLAPS what the on-chain program, a
download between two peers, a process of the command line, the encoding of the
messages and the demonstration keep safe: every safety property that a
passing run checks is also a theorem, for every value of the constants.

## 1. Inventory

| component | source | state it keeps | operations |
|---|---|---|---|
| on-chain program | `programs/seedpay/src` | a `ChannelState` account and an escrow token account per (leecher, seeder, channel id) | `open_channel`, `close_channel`, `timeout_close` |
| accounting | `packages/sdk/src/accounting.ts` | bytes, last check's amount and nonce | `recordBytes`, `recordCheck`, `needsCheck` |
| leecher session | `packages/sdk/src/session.ts` | protocol state, accounting, keys | `start`, `onEcdhInit`, `onChannelOpened`, `onChannelConfirmed`, `onChannelRejected`, `onPieceReceived`, `onPaymentCheckRequired`, `onChannelClosed` |
| seeder session | `packages/sdk/src/session.ts` | protocol state, accounting, highest check, deposit | `onEcdhInit`, `onChannelOpened`, `confirmChannel`, `rejectChannel`, `onPaymentCheck`, `onPieceRequested`, `onDisconnect`, `initiateClose` |
| leecher controller | `packages/bittorrent/src/leecher.ts`, `packages/cli/src/download.ts` | a session per wire, an awaited `openChannel` | handshake, extension message, piece, done, close |
| seeder controller | `packages/bittorrent/src/seeder.ts`, `packages/cli/src/seed.ts` | a session per wire, awaited `verifyChannel` and `closeChannel`, the map of controllers | extension message, upload, close, shutdown |
| connection | `packages/cli/src/transport.ts`, webtorrent | messages in flight, two ends | send, deliver, destroy |
| chain access | `packages/cli/src/channel-adapters.ts`, `packages/sdk/src/solana` | none | open, verify (read), close, timeout_close |
| payment check, keys | `packages/sdk/src/payment-check.ts`, `ecdh.ts` | none | sign, verify, derive the channel id |
| codec, negotiation | `messages.ts`, `bencode.ts`, `extension.ts` | the position in a buffer, the peer's extension id | encode, decode, handshake entry and metadata |
| command line processes | `packages/cli/src/seed.ts`, `download.ts`, `cli.ts` | a controller per wire, the map `activeControllers`, the wallet's balance | wire, handshake, close, done, SIGINT and SIGTERM |
| command line set-up | `config.ts`, `wallet.ts`, `balance.ts`, `logger.ts`, `bin.ts` of `packages/cli/src` | none | read options and files, print |
| demo | `packages/demo/src` | roles of its own (no session): highest check, counts | one script from funding to settlement |

The session classes are pure: a method changes the session and returns actions.
A controller executes the actions: it sends messages on the wire or awaits a
call to the chain. The command line connects the controllers with webtorrent's
callbacks (`upload`, `download`, `close`, `done`). The two peers share the wire
and the chain.

What is hard here:

* *Interleaving.* Every `await` (open, verify, claim) lets any other callback run
  before its continuation; the wire can close, the download can complete and the
  chain can change in between.
* *Two counts of one transfer.* Seeder and leecher count bytes on their own, from
  different moments on, and the price is taken from both.
* *Two settlements.* After the timeout both `close_channel` and `timeout_close`
  are possible; whichever transaction lands first wins.
* *Several wires of one process.* The map of controllers is keyed by a peer id
  that wires may share; a close deletes the entry of whichever wire has it; a
  shutdown is an `async` loop over that map, and a second signal starts another.
  Several channels are paid from a balance compared with one deposit.
* *A peer that follows no protocol.* Every message can come at any time: a check for
  another channel, with a nonce of 0 or a number that is no u64, a `channel_closed`
  while a check is held; and the channel can be refunded and opened again.
* *Bytes from a peer.* The decoder's loops end at a byte that may not come, and it
  steps by lengths the buffer announces.
* *Failure.* A call throws before or after its transaction landed, a process
  dies with the highest check in memory, SIGINT exits while a claim is running.
* *Arithmetic at boundaries.* Rounding up, `>=` against `>`, deposit used up.

The list with lines is under `hazards` in `PROJECT.json`.

What makes each part correct: the program never pays more than it holds, settles
each opening once, pays the seeder only what was signed, and makes the leecher
wait for the timeout; a check that the seeder accepts off the chain is one the
chain accepts, but for the few ways in which a leecher can spoil it; the leecher
pays for nothing it did not get; two honest peers
never meet a message they do not expect; an honest leecher's seeder is paid in the
end; a process claims once for each session and ends when it is told to; what is encoded is what
is decoded, and what is damaged is refused.

## 2. Modules

| module | models |
|---|---|
| `EscrowLedger` | the promise of the program: tokens are locked, split at a promised amount, or reclaimed after a lapse |
| `SeedPayProgram` | the three instructions, the token program, the clock and the signatures they depend on; `Ledger` is its refinement mapping to `EscrowLedger` |
| `SeedPayProgramProofs` | theorems about `SeedPayProgram` |
| `Accounting` | `accounting.ts` as operators on the record |
| `LeecherSession`, `SeederSession` | `session.ts`: an operator per method, from session to session and action |
| `PeerWire` | the connection: two FIFO directions, two ends |
| `LeecherController`, `SeederController` | the controllers with their callers in the command line: an action per callback and per continuation of an `await` |
| `SeedPaySystem` | both peers, running the repository's code, the wire and an instance of `SeedPayProgram`, with the faults that may happen |
| `AnyLeecher` | the seeder and an instance of `SeedPayProgram` with a leecher of which nothing is assumed |
| `AnyLeecherProofs` | theorems about `AnyLeecher` |
| `SeedPaySystemProofs` | theorems about `SeedPaySystem`: the money |
| `SeedPayWireProofs` | theorems about `SeedPaySystem`: the messages in flight |
| `SeedPayCountProofs` | theorems about `SeedPaySystem`: the counts, the types, the program it runs |
| `PeerProcess` | what one process of the command line keeps for all its wires, for both commands |
| `SeedProcess`, `DownloadProcess` | `seedpay seed` with its shutdown loops; `seedpay download` with its wallet, its completion and its end |
| `CliProcess` | one process of either command among peers that send any message at any time |
| `CliProcessProofs` | theorems about `CliProcess`: each wire, the map, the shutdown loops and the types |
| `Bencode` | `bencode.ts`: encode as an operator, decode as a state machine over the buffer |
| `WireMessages` | `messages.ts` and `extension.ts`: nine messages as dictionaries, the handshake's metadata and extension entry |
| `Codec` | one buffer from the encoder to the handler: whole, cut off, changed or foreign |
| `CodecProofs` | theorems about `Codec` |
| `Demo` | the demonstration's script and its two roles on an instance of `SeedPayProgram` |
| `DemoProofs` | theorems about `Demo` |
| `MCSeedPayProgram`, `MCSeedPaySystem`, `MCAnyLeecher`, `MCCliProcess`, `MCCodec`, `MCDemo` | instances for TLC and the statements of the documents that the code does not meet |

Composition: `SeedPaySystem` joins `LeecherController`, `SeederController`,
`PeerWire` and the program. `AnyLeecher` joins `SeederController`, `PeerWire` and
the program, and puts in the leecher's place whatever the wire and the chain let it
do. `CliProcess` joins `SeedProcess` and
`DownloadProcess`, which use the same session operators but put several
controllers into one process and let the peers be arbitrary. `Codec` covers what
the other two leave out between two ends of a wire, the bytes. `Demo` is a
separate program on the same on-chain model.

How the code is translated:

* *Instruction = action.* A failed check aborts the whole transaction, so an
  instruction is one action guarded by its account constraints, its `require!`
  checks and the conditions of the token program's calls. `close = leecher` and
  `close_account` set the account to `NoAccount`; the token program closes an
  escrow account only when it is empty, which is a guard (`IsEmptied`). The guards
  of the two instructions that the demonstration submits have names of their own
  (`MayOpen`, `MayClose`): it asks whether a call that threw would have been accepted.
* *Signatures* are unforgeable: `signed` holds what was signed, and a transaction
  can carry a well-formed Ed25519 instruction only for a member of it. A missing,
  foreign or malformed preceding instruction is a member of `Preceding` too.
  A check carries the id it was signed for. As in the code, the seeder verifies it
  over that id and does not compare it with the session's, under which its claim
  is submitted (`SignedBy`, `ClaimProof`, `Claimable`).
* *Width.* Amounts and nonces are read as integers of any sign and size.
  `AnyLeecher` has what becomes of them: the signed bytes hold them modulo 2^64
  (`Encoded`), the claim's instruction without their sign (`Carried`). The leecher
  of `SeedPaySystem` signs what its own accounting counts, and numbers there stay
  below 2^64.
* *Callbacks run to completion.* JavaScript interrupts a callback only at an
  `await`, so a callback is an action up to the `await` and its continuation
  another. The awaited call sits in `openRpc` or `seederRpc` meanwhile.
* *`wire.destroy()`* emits `close` before it returns, so an error action also
  runs `onDisconnect` in the same step (`LeecherExecute`, `SeederCloses`).
* *Processes.* In `SeedProcess` and `DownloadProcess` each wire has its session,
  its awaited call and its entry, or none, in `activeControllers`, a sequence of
  pairs in insertion order as a JavaScript `Map` has it. The leecher's entry is made
  by the `.then` of the handshake (`DownloadRegisters`), which runs before any other
  callback but after the messages that came in one chunk with the handshake
  (`InChunk`); a wire that closed by then keeps its entry (`overtaken`). A shutdown loop is a
  cursor into that sequence and the wire whose claim it awaits. `Map.delete` moves
  the cursors as iteration over a `Map` requires. The peers' messages are any
  that the SDK can encode, `channel_closed` included, in any order and number; a
  check's signature may or may not verify. webtorrent sends one extended handshake per wire, and the models
  take that as given.
* *Buffers* are sequences of symbols. A symbol is a byte, or a word no code looks
  into (a key, a message type). The recursion of `decodeNext` is the stack `open`;
  a step is one call of `decodeNext` or the end of a container. `encodeValue` is
  written out for the two levels of nesting that its callers use. `indexOf`, a
  silently shortened `slice`, `parseInt` and `undefined` past the end are modelled
  by what they do.
* *Serving.* webtorrent uploads whatever the session's state is; the `upload`
  callback counts the piece only when the session is active, and its answer is
  only logged. `Upload` models this as it is.
* Keys, ids and signatures are not built from bytes; a wire has one fresh id,
  which both ends derive.

Variants of some definitions (such as `TimeoutReachedInclusive`) stand before
the real one. Each has one plausible mistake; `PROJECT.json` pairs it with the
property that finds the mistake when the variant replaces the definition. No
action uses them.

## 3. Runs

| run | shows | states |
|---|---|---|
| `program` | type correctness, backing, one settlement per opening, signed claims, full refunds, no early refund, refinement of the ledger; no channel stays locked for a leecher who keeps submitting `timeout_close` | about 540,000 |
| `program_self` | the same ledger with leecher = seeder, which `INVARIANTS.md` allows | about 110,000 |
| `system` | the safety of one download, with an honest leecher, under all faults | about 150,000 |
| `any_leecher` | what can make a check that the seeder has accepted worthless; a session is paid once, by its highest check | about 1,180,000 |
| `cli` | a process with two wires: one claim per session, one opening per wire, no check forgotten but at a peer's `channel_closed`, no stale entry but of a closed session, what a shutdown settles, closed sessions stay closed, the process ends | about 710,000 |
| `codec` | what is encoded is decoded; truncated, changed and foreign buffers; decoding ends | 78,133 |
| `demo` | the demonstration's deposit suffices, the file is paid to its last byte, the summary is true | 3,330 |
| `system_live` | handshakes end and accepted checks are paid while the chain works | about 13,000 |
| `serving_gated`, `claim_retried`, `check_channel`, `ended_session` | a statement of a document that the code does not meet, each with a counterexample | |

All runs set `CHECK_DEADLOCK FALSE`: with a bounded clock, bounded openings and a
finite torrent every behaviour ends, and so does a real download.

**Bounds of the program runs.** Two wallets, two channels that cross (each wallet
leecher of one and seeder of the other, under one id, so that a check of one
channel could be mistaken for one of the other). Amounts 0 to 2 cover the zero
deposit, the claim of nothing, of a part and of everything, and an amount above
the deposit. Timeouts below, at and above the allowed range. `MaxOpenings = 2`
lets every address be settled and opened again, and `MaxNow = 4` leaves time for
both timeouts. Two signed checks are enough to hold a newer and an older one, and one of
an earlier opening.

**Bounds of the system runs.** One leecher, one seeder, five pieces of a third of a
"megabyte" at 2 tokens, so that a piece costs a fraction, every piece but the third
raises what is owed and two checks may have one amount, and the deposit of 3 is used
up before the file is complete, so that checks above the deposit occur. The clock
passes the timeout while the channel is in use.

**Bounds of `any_leecher`.** Two openings of the address, with deposits of 1 and 2,
so that a check for the first can be above the deposit of the second; one message in
flight; two signed checks. A "u64" has two bits: the checks have both ids, amounts
on both sides of the deposits, the nonce 0, and numbers outside of the width, one of
which is encoded as its magnitude. The clock passes the timeout of both openings. Uploads are
left out, as they change neither state nor highest check.

**Bounds of the other runs.** `cli`: two wires and two peer ids are enough for a
reconnect under one id, for an id shared by "unknown" peers and for two distinct
peers; two signals make two loops; a file of two pieces completes; one check per
session and a session that never signs more than `MaxNonce = 3` let checks and
demands repeat; a balance of one deposit and one of two. `codec`: ids with the bytes `d`, `e` and
digits in their hex, texts with `:` and `e`, lengths and amounts of one and two
digits; every strict prefix of every message; every change of one symbol of nine
in messages of hex and decimal fields; every foreign buffer of up to four of these
symbols. Free text fields are excluded from the changes: one symbol changed in a
length before free text can move content into another field, which bencoding
cannot notice and no code here claims. A change never makes a whole word (a key, a
message type) out of one symbol: it stands for one changed byte. `demo`: files smaller than a piece, of whole pieces,
and with a partial last piece; check intervals that do and do not divide the
number of pieces; a price of 0 and one at which every check rounds up; devnet
balances below and above the deposit.

**Faults** (`Faults` in `SeedPaySystem`): *network*, the connection breaks at
either end; *rpc*, a call throws before or after its transaction landed, or a
read finds nothing; *shutdown*, SIGINT at the seeder; *crash*, its process dies;
*recovery*, the leecher's owner submits `timeout_close`, which the SDK offers and
the command line never calls. A fault is never obliged to happen.

**Fairness.** `SeedPayProgram!FairSpec`: time passes, and the leecher's
`timeout_close` eventually lands once it is allowed, as a retry until a
transaction goes through would achieve. `SeedPaySystem!FairSpec`: weak fairness
of each callback and continuation (the event loop runs what is due), of the
delivery of messages on an open wire and the notice of a closed one (TCP), of
webtorrent's upload of missing pieces, and of the landing of submitted
transactions. Under *rpc* the last is not enough for a payment, since nothing
retries; `SeederIsPaid` is therefore checked without *rpc*, and `claim_retried`
shows what happens with it. `CliProcess!FairSpec`: an awaited claim returns or
throws, the continuation of a handshake runs, and the timer of a completed download
runs out; peers, wires and signals are not obliged to do anything. `AnyLeecher` has
no fairness: its properties are safety. `Codec!FairSpec`: decoding is one
synchronous call.

**Properties of the system.** `AcceptedChecksAreClaimable` relates the highest check
of an honest leecher to the chain: it is signed for the session's id, within the
deposit and fresh while the channel is open. `ClaimableUnless` is what is left of it
with any leecher: while the account that the seeder has read is open,
`close_channel` takes the check unless it carries another id, nonce 0 or a number
that is no u64, or somebody sent tokens to the escrow account, and with another id,
nonce 0 or such tokens it never does. `PaidOnceInFull` says that re-opening the
address, for which the same check is fresh again, does not pay a session twice. `ActiveIsFunded` covers the account that is read before an
`await`. `CountsAgree` and `LeecherNeverOverpays` relate the two counts, the
checks on the way, and the final settlement. `RefusedOnlyOverDeposit` and
`NoProtocolErrors` cover messages that cross. `DebtIsBounded` is about the
threshold. `HandshakeEnds` holds also because a download that completes closes
the session: serving does not wait for the channel.

**Properties of a process.** `NoStaleControllers` and `NoClaimForgotten` are about
the map keyed by peer id: an entry outlives its wire only if it was made after the
wire's close, for a session that is closed, and a check whose session was pushed out
of the map is still claimed when its own wire closes. The one way to lose a check
is a `channel_closed` from the peer (`givenUp`), and it does lose it.
`ShutdownSettles` says which claims have returned before the process exits, and
its conditions name those that need not have: a wire that closed by itself, a
shared peer id, a second signal, a `channel_closed`. `OneClaimPerSession` covers the four callers of
`onDisconnect`, `OneOpeningPerWire` the money of a wallet across wires and lost
answers, `ClosedForGood` everything that arrives late.

**Properties of the codec.** `CutIsRefused` and `ChangeStaysLocal` are about the
silently shortened `slice` and the lengths a buffer announces; `HandshakeSurvives`
about a price of 0 and about strings that arrive as bytes.

**Properties of the demonstration.** `SummaryIsTrue` compares the summary, which is
computed from the leecher's checks, with the chain's last event and balances;
`FailsOnlyOnRpc` says that a script fails for no reason of its own, since the
deposit covers what rounding adds.

**Findings.** (1) Serving is not gated by the session.
(2) A failed claim is not retried. (3) A check signed for another channel is
accepted, contrary to `PROTOCOL.md` 5.4.5, and cannot be claimed. (4) A session that
the peer's `channel_closed` ends loses the check it holds, contrary to 3.4.4. The
quotes are in `PROJECT.json`. Two more need no run to be seen: a settled triple can be
opened again, with its nonce back at 0, contrary to `INVARIANTS.md:11` (`program` and
`any_leecher` do so), and the `min_prepayment` that `seed.ts:84` advertises is
compared with nothing, as `seed.ts:109` passes no `minDeposit`.

## 4. Proofs

`SeedPayProgramProofs` proves, for any set of wallets, ids, channel addresses,
amounts, nonces and durations and any bounds, the theorems `TypeCorrect`,
`ChannelsAreBacked`, `SettledOnce`, `OnlySignedClaims`, `FullRefunds`,
`RefundsWait` (an action property) and `Refinement` (`SeedPayProgram` implements
`EscrowLedger`). The assumptions are the `ASSUME`s of `SeedPayProgram`: keys are
triples of wallets and an id, amounts, nonces and balances are natural numbers,
`MinTimeout <= MaxTimeout` are natural numbers, and `NoAccount` is no account.

The inductive invariant `Inv` is the conjunction of the checked invariants and
`LogMatchesChannel`: an open channel was opened by the last event of its log,
with the deposit it records. Without it nothing relates the events of a
settlement, in which `ClaimsAreSigned` and `RefundsAreFull` are stated, to the
account that the settlement reads. `EscrowBacksChannel` is needed for type
correctness already (a refund is a balance only if the escrow account exists),
so nothing smaller is inductive. `KeyInv` restates `Inv` for one key: an action touches
one key (`OpenKey`, `SettleKey`), every other keeps its `KeyInv`
(`UntouchedKey`). For the refinement, each action is mapped to its counterpart:
`OpenLocks`, `TopUpLocks`, `CloseSplits`, `ExpireReclaims`, `SignPromises`,
`TickLapses`.

`SeedPaySystemProofs` proves, for a leecher that runs the repository's code, every
price, piece size, check interval,
deposit, minimum deposit, file and timeout and with every fault, four invariants
of the download: `BoundedDebt`, `ClaimableChecks`, `FundedService` and
`NoOverpayment`. The assumptions are those of `Accounting`, the sessions,
`PeerWire` and `SeedPaySystem`: `BytesPerMb` is positive; prices, intervals, piece
and file sizes, deposits, the timeout and the wallets' first balances are natural
numbers; `NoAccount` is no account. The two wallets may be the same. The inductive invariant is
`LeecherInv /\ SignedInv /\ ChannelInv /\ SeederInv /\ PaidInv`:

* `LeecherInv`: an early session has counted nothing, no check pays for more than
  was counted, an active session owes less than an interval, and what was counted
  has arrived. Every callback is one `Move` of the session (`HandledMessage`,
  `CountedPiece`, `ClosedMove`, through `ExecutedMove`), and `MoveKeeps` turns any
  move into `LeecherKeeps`. The arithmetic is in `CostMonotone` and `CheckIsPaid`.
* `SignedInv`: every signed check is covered by counted bytes. It is what makes a
  forged or stale message harmless for the proof: messages on the wire need no
  invariant, since a seeder accepts only signed checks and they are all covered.
* `ChannelInv`: the one channel is not opened, open with the leecher's deposit and
  `last_nonce` 0, or settled, in step with the length of its log.
* `SeederInv`: the highest check is signed and within the deposit (`CheckOK`);
  the awaited call says which states the session can be in when it returns
  (`RpcOK`), which is the hazard of the read before the `await`; an active session
  stands on an open or timed out channel (`StateOK`).
* `PaidInv`: what the chain paid out is the price of pieces that arrived.

None of the four theorems is inductive without the others: a settlement is
bounded because the claim is signed, a claim is signed because the session kept
only signed checks, and these are bounded by the leecher's count.

`SeedPayWireProofs` proves, under the same assumptions, `NoUnexpectedMessage`
(`NoProtocolErrors`, an action property) and `HonestChecksAreGood`
(`RefusedOnlyOverDeposit`). Both are about messages that cross, so the invariant
`WireInv` describes what is in flight:

* `QueueInv`: the types of the two queues. Nobody sends `channel_closed`, and a
  rejected check was above the deposit.
* `PhaseInv`: which messages that only one state takes can be on their way to a
  leecher in each state of its session (`Awaits`), which to a seeder that still
  serves (`Expects`), and how the two states, the awaited `openChannel` and the
  two queues go together while both ends live (`Together`). Messages outlive their
  sender, so `Awaits` and `Expects` are stated apart from `Together`; a side that is
  gone or has ended takes nothing, and nothing is said of its queue.
* `CheckInv`: the checks in flight are signed, have rising nonces and amounts that
  do not fall, and all are newer than the seeder's best (`InOrder`). This is why
  the deposit is the only reason for a refusal.

The step proof does not go through the code's actions one by one for each conjunct.
`LeecherEffect` and `SeederEffect` list what an action can do to what the other
side can see (take a message, answer, end, ...), one lemma shows that every action
has one of these effects, and the invariant is shown for each effect.

`SeedPayCountProofs` proves `AgreedCounts` (`CountsAgree`) and `TypeCorrect`
(`TypeOK`). `CountInv` is about how many messages of a kind are in flight:

* `PieceInv`: what has arrived and what is on its way was sent.
* `NonceInv`: a piece and the demand that may follow it make the leecher sign at
  most two checks, so twice the pieces sent bounds the nonce, with every piece and
  demand in flight counted once; there are no more signed checks than nonces.
* `ByteInv`: the seeder has counted what the leecher has counted and what it will
  count (`Coming`: pieces that arrive while it is active, or behind the
  confirmation that makes it active). Without the second kind the claim fails
  when the confirmation and the first pieces are in flight together.

`SystemRunsProgram` shows `Spec => Chain!Spec`: every behaviour of the system, with
its faults, is a behaviour of `SeedPayProgram` for the one channel of the wire,
each action a program's step or a stutter. The instance lets every natural number
be an amount, which TLC cannot enumerate, so this is proved only. The theorems of
`SeedPayProgramProofs` cannot be cited for the instance (the prover does not take
proofs through `INSTANCE`); that they hold of the system's channel is therefore
read off, not machine-checked, and needs a `Timeout` of at least 1, which the
instance's `TimeoutAssumption` asks for and the other theorems do not.

`AnyLeecherProofs` proves `ClaimableUnlessProved` and `PaidOnceInFullProved` for any
number of openings, signed checks and messages, any width, ids, amounts, nonces and
durations, with no assumption on what the leecher does. The assumptions are that
amounts are words of the width, that checks have a known id and integers as numbers,
and those of the session and of `NoAccount`. `Inv` says of the session that its
highest check is signed and within the deposit it remembers (`CheckOK`), that this
deposit is the account's as long as the account is the one that was read
(`DepositOK`, `Read`: no event since), what an awaited call leaves possible
(`RpcOK`), and that a claim that has landed is the only one, ended the session and
paid its check (`ClaimsOK`). The steps of the seeder are shown through what they can
do to a session (`Moves`), and the chain's through `Emitted`: an event outdates what
was read.

`CliProcessProofs` proves, for any finite set of wires and any number of signals,
peer ids that wires share or not, any prices, deposits and balances, and peers that
send any messages in any order, `channel_closed` included: `NoClaimForgottenProved`,
`OneClaimProved`, `OneOpeningProved`, `NoStaleControllersProved` and
`ClosedForGoodProved` (an action property). The assumptions are those of `Accounting` and the sessions; that the
wires are finitely many and `None` is no session (`ConnectionAssumption`); that
the size of a piece and balances are natural numbers, and checks have integers.
The invariants are:

* `CliInv`: per wire (`WireOK`), a seeder's session that holds a check is active, or
  has started its claim, or was given up at a `channel_closed`; it is ended once it
  has, and when its wire is closed or the process is; `verifyChannel` is awaited only while the session is
  `channel_pending` or closed, so that its answer revives nothing. A leecher's
  session opens a channel only after the handshake, which it leaves for good, so
  there is no second `open_channel` while one is awaited or has landed.
  `BalanceInv` sums what the wallet lost over the wires.
* `MapInv`: the keys of `activeControllers` are unique, and each entry is for an
  open wire under its peer id, or for one that was overtaken, whose session is closed
  (`LateInv`). It needs nothing of `CliInv`; a completed download
  needs it, since it closes the session of every entry.

`Disconnected`, `SeederHandled`, `Verified`, `LeecherHandled` and `PieceCounted` say
what the methods of the sessions do to one wire's part of the invariant, and
`LoopKeeps` covers a round of a shutdown loop, from wherever it starts and
whichever sessions it tells.

The module's second part adds `ShutdownSettlesProved` (`ShutdownSettles`) and
`CliTypeCorrect` (`TypeOK`), under the same assumptions and that the pieces of a file
are a natural number. For the first, the map's invariant is not enough: it is about
where a loop's cursor stands while callbacks insert into the map and delete from it.
`ShutdownInv` adds:

* `LoopInv`: a cursor stays within the map, there is one awaited claim or none per
  loop, and only wires that were open with a session are due.
* `RegisteredAt`: a session beyond `idle` has negotiated, and one that has, with a
  peer id no other wire has had (`Alone`), is in the map while its wire is open.
  Without `Alone` this is false, as one wire's entry replaces the other's.
* `SettledAt`: while the only loop runs, the entry of a wire that is due is either
  behind the cursor, and its claim has started (and returned, unless the loop awaits
  it), or ahead of it, and its session still has a check to claim or has been given
  up; once the
  process is gone, every such claim has returned.

The step proofs rest on `EntryKept`: an action that deletes another wire's entry
moves the cursor with the entries, so this one stays on its side of the cursor. A
round of a loop (`Round`, the choice of the next entry with something to claim) is
shown once and used for the signal, which starts it, and for the claim's return.
A second signal makes two loops, of which the property says nothing. `TypeInv`
needs `CliInv` only for what a claim that is awaited carries.

`CodecProofs` proves, for messages and metadata with any contents, of any length,
and for foreign buffers of any symbols, `CutRefused` (`CutIsRefused`),
`WholeDelivered` (`DeliveredAsSent`), `HandshakeDelivered` (`HandshakeSurvives`),
`ChangesStayLocal` (`ChangeStaysLocal`) and `CodecTypeCorrect` (`TypeOK`). The
assumptions are `BencodeAssumption` and `WireAssumption` (the bytes and words in use
are symbols, every key has a place in the order of keys) and `SentAssumption`: what
is sent is typed as the interfaces of `messages.ts` say, wallet and chain are not
empty, and changes are followed in messages without free text.

What encoder and decoder compute is recursive, over lengths, digits and parts of a
buffer. The library's induction theorems take an operator, which the provers cannot
instantiate; `Induction` and `Recursion` derive the same from `WFMin`, for sets
instead of operators, and every lemma on recursive data is an instance with a set of
the numbers for which it holds. On these rest `DecimalRoundTrip` (`parseInt` of a
printed number), `HexRoundTrip`, `ParseIntText` (`parseInt` stops at the colon or
the `e`), and `DictLayout`: in the encoding of a dictionary the entry `i` starts at
`Start(e, i)`, its value at `ValueStart(e, i)`, each holding the encoding of the
key and of the value. The four invariants are:

* `CutInv`: in a buffer that was cut the decoder stands at one of these places or
  has thrown. `indexOf` and `slice` may run into the end, but the position goes on by
  the announced length, so that the next byte is `undefined`.
* `ReadInv`: in a whole buffer what has been decoded at `Start(e, i)` are the entries
  before `i`, in the extended handshake with the nested dictionary of extension ids
  too; at the end `Property` finds what `EncodeMessage` put in (`LookUp`).
* `TypeInv`: on any buffer the stack holds lists and dictionaries with strings as
  keys, and what is decoded is typed as `IsValue` says, so that a message that is
  delivered has passed the checks of all its fields.
* `AlterInv`: after one changed symbol the decoder may stand anywhere, also inside of
  a string that was not one before. The words of the message all stand where they
  stood (`WordsStay`), which bounds what can be read, whatever lengths the buffer
  announces: a decoded value is the key of an entry only when the decoder then stands
  at that entry's value (`Fits`), and the only message type it can be is the one that
  was sent (`Typed`). So what was decoded under the key of an entry without the
  change is that entry's value (`Kept`): the type, its fields, and all values but one
  stay.

`DemoProofs` proves, for files, pieces and check intervals of any size, any price
and any tokens held before, `DemoTypeCorrect`, `UnpaidBounded` (`UnpaidIsBounded`),
`WholeFilePaid` (`WholeFileIsPaid`), `SummaryTrue` (`SummaryIsTrue`) and
`FailsOnlyOnCalls` (`FailsOnlyOnRpc`). The assumptions are `DemoAssumption` and
`WalletAssumption` of `Demo`, among them that the two wallets differ. `DemoInv` says
that the deposit covers the whole file at the price rounded up (`ConfigInv`), what
is unpaid within a check interval (`LoopInv`), that both roles hold the same check,
for what was downloaded when it was made (`CheckInv`), where the channel is in
each phase of the script (`PhaseInv`), and what was printed (`SummaryInv`). The
lemmas on rounding (`Ceil`, `Product`, `Cancel`, ...) are what the deposit's bound
and the number of pieces come from; the products of two variables in them are beyond
the prover's arithmetic and are reasoned about through monotonicity. For
`FailsOnlyOnCalls`, `SubmitInv` adds what the two transactions of the script need:
the wallet holds the deposit when the channel is opened, and when it is closed the
escrow account holds the deposit untouched and the check to claim is signed, so that
`MayOpen` and `MayClose` hold there (`OpenAccepted`, `CloseAccepted`). `OnlyCallsFail`
says that no other step than a call that throws ends a script early.

Only model-checked: liveness, as TLAPS proves nothing under fairness:
`HandshakeEnds`, `SeederIsPaid`, the end of a process (`ProcessEnds`), of a decoding
(`DecodeEnds`) and of a lock (`NeverLockedForever`).

## 5. Not modelled

* The program: overflow of `u64` (amounts are bounded by existing token balances;
  `refund` is a checked subtraction of a smaller amount) and of `created_at +
  timeout`; rent and lamports; the mint (all token accounts share one); account
  layouts.
* `ecdh.ts`: cryptography. Both ends of a wire derive one fresh channel id.
* `initiateClose` of the seeder session: only unit tests call it, so no state of
  a process is reached through it.
* A second extended handshake on one wire, which would replace the controller:
  webtorrent sends one.
* Reading options, environment and wallet files; printing; the generated IDL; the
  construction of instructions and accounts in the channel client.
* `e2e-test.ts`: a test script around the same controllers. It reports the whole
  file a second time to both sides after the transfer, which no other caller does.
* In the demonstration: creation of accounts and mint, SOL, rendering,
  `timeoutClose`, which no script calls.
* In `codec`: signs, blanks and other bases that `BigInt` accepts, letters of hex in
  capitals, and bytes that are not UTF-8.
* In `Bencode`, a list or dictionary in the place of a dictionary's key, which
  JavaScript turns into a text put together from its contents, becomes one fixed text.
* In the demonstration, a call that throws after its transaction landed, and the
  exits of the devnet script when SOL or a token account is missing.
* Recovery from a crash (`PROTOCOL.md` 6.5.6): there is no code for it; the crash
  is modelled in `SeedPaySystem`.

## 6. Plan

1. *(done)* The program, its ledger and their proofs; one download between two
   peers; the system's safety and liveness.
2. *(done)* The processes of the command line with several wires.
3. *(done)* Codec, negotiation and the demonstration.
4. *(done)* The inductive invariant of `SeedPaySystem` and what follows from it.
5. *(done)* The inductive invariant of `CliProcess` and what follows from it.
6. *(done)* The messages in flight and the counts of `SeedPaySystem`, the shutdown
   loops of `CliProcess`, the demonstration; the system as a refinement of the
   program.
7. *(done)* The encoding of the messages, with recursive functions instead of
   RECURSIVE operators, and the demonstration's transactions.
8. *(done)* A leecher of which nothing is assumed, with the width of its numbers; the
   late registration of a controller; `channel_closed` to a seeder.
9. Open: `Demo` as a refinement of the program; `GatedTransfer`, a caller that honours
   `onPieceRequested` as `PROTOCOL.md` 3.4.2 describes, once the code has one.
