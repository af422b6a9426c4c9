# A verification project for ln-gossip-sim

ln-gossip-sim is a daemon (`simd`) that connects to Lightning nodes, keeps the
connections alive and, on the command of a local client, sends them gossip about
channels it funds on a regtest bitcoind. These modules model its transport, its
messages, its connections, its peer table, its gossip commands and the life of the
process; TLC checks them on small instances, and TLAPS proves every safety property of
them for every instance: of the transport, the handshake, the connection, the message
codecs, the peer table, the gossip commands and the process.

Paths below are relative to the root of the repository.

## The system

| Part | State | Operations | Talks to |
|---|---|---|---|
| Transport ciphers, `noise/src/cipher.rs` | a key, a nonce and a chaining key for each direction; whole (`NoiseCipher`) or in halves (`SendCipher`, `RecvCipher`) | `encrypt`, `decrypt_length`, `decrypt_message`, key rotation, `split` | used by both connections |
| Handshake, `noise/src/handshake.rs` | role, state, static and ephemeral keys, `h`, `ck`, the temporary keys | `get_act_one`, `process_act_one/two/three`, `into_cipher` | the peer, 50 and 66 bytes at a time |
| Blocking connection, `noise/src/connection.rs` | a socket and a whole cipher | `connect`, `send_message`, `recv_message` | handshake, ciphers |
| Asynchronous connection, `ln-gossip-sim/src/conn.rs` | a socket half and a cipher half each | `connect` with the Init exchange, `NoiseWriter::send`, `NoiseReader::recv` | handshake, ciphers, tokio |
| Read task, `bin/simd.rs` 195-228 and `handle_peer_message` | its reader, a clone of the shared writer, a ping timer | receive, answer, ping, remove itself from the table | writer's mutex, peer table |
| Peer table and commands, `bin/simd.rs` | `peers`: node key to writer and task handle | `connect`, `disconnect`, `peers`, `info`, `stop` | read tasks, clients on the Unix socket |
| Gossip commands, `bin/simd.rs`, `bolt/src/channel_*.rs`, `node_announcement.rs` | none of their own | `sendchannelannouncement`, `-2`, `sendchannelupdate`, `sendnodeannouncement`, `sendmessage`, `mine` | peer table, bitcoind client |
| bitcoind client, `bitcoind.rs` | none; bitcoind has the chain, the wallet and the mempool | `new_funding_address`, `mine_to_funding`, `mine`, queries | bitcoind, over RPCs that may fail |
| Process, `main` in `bin/simd.rs` | the socket file, the stop flag | start, accept, Ctrl-C, `stop`, exit | bitcoind, clients, other daemons on the same path |
| Message codecs, `bolt/src/` | none | encode and decode | everything above |
| Client, `bin/cli.rs` | none | formats a command and prints the answer | the Unix socket |

What is hard about it:

* A cipher rotates its key after a thousand units, on two ends that only count.
  Every operation exists twice, for the whole cipher and for the halves, and a
  cipher may be split anywhere in the sequence.
* A handshake value is mutated before it verifies what it is given, so an error
  leaves it in a state of its own; many are under way with one static key.
* The read task races the reading of a frame against a timer and drops the loser;
  it shares its writer with commands and may be aborted at any await.
* The table is changed by commands and by ending tasks, by node key; connections
  have no identity of their own there.
* A funding command makes half a dozen RPCs while others mine, and may fail after
  each of them.
* The lengths of a message pass through a cast, an assertion and a check in three
  different crates; a field list exists three times for each announcement.
* Daemons share a path and a wallet that nobody locks, and end while their clients'
  commands wait for somebody.

What makes the parts correct is stated as properties in the modules; the list of
hazards in `PROJECT.json` says which line each of them is for.

## Modules

`A -> B` means that A relies on what B establishes.

    Control -> Gossip -> Daemon -> PeerConn -> NoiseCipher <- NoiseHandshake
    Codec -> Messages -> Wire
    NoiseCipher implements SecureChannel, PeerConn implements InterruptedChannel

**SecureChannel** is the promise of the transport: in each direction what comes
out is a prefix of what went in.

**InterruptedChannel** is the promise of a connection whose receive calls may be given
up half way, as the ping timer does. Until a call has been given up it is the in-order
channel. After that a receiver may be out of step, and a *bare* message, one of the size
of a length field, can be taken for one: it is passed over (`Skip`), and if what it says
is that size again (type 2), the header of the next message is handed on as a message
(`HandOnHeader`). Every other message comes out once, unaltered and in its turn, or not
at all because nothing more comes out.

**NoiseCipher** models `cipher.rs` for both ends of a connection, with the stream
between them. Operators keep the code's names (`SendCipher_encrypt` is
`SendCipher::encrypt`). Keys are symbolic: where a key comes from, how many
derivations it is away and the chaining key of the last one. A message becomes
two units, a header and a body. `Send` is `NoiseWriter::send` or
`NoiseConnection::send_message`; `RecvHeader` and `RecvBody` are the two halves of
a receive call, between which the body is awaited; `Split` is `split()`. `Lose`,
`Corrupt` and `Replay` disturb the stream (external). After a failed unit the
receiver may be called again, as the API allows, although the daemon hangs up.

**NoiseHandshake** models `handshake.rs` for any number of values of both roles.
Each method is an operator that returns the fields it leaves, the outcome
(`"ok"`, an error, or `"panic"` for an `expect` on `None`) and the message. Every
value may be given every message produced so far, whole or altered, at any time.
A shared secret is the set of the two key names, a hash and a chaining key are
what has been mixed into them.

**PeerConn** models one established connection at the level of TCP chunks: the
buffers of `NoiseReader::recv`, the `select!` against the ping timer (`Tick`),
`handle_peer_message` by the kind of answer it gives, the fair mutex around the
writer, the chunks of `write_all`, `abort` and a peer that may close. Ciphers
appear through what NoiseCipher establishes: a unit opens exactly when it is the
next one and whole. `Keep(s, S)`, the elements of a sequence that are in a set, is a
recursive function and not `SelectSeq`, which the prover knows nothing about; with it
an aborted task leaves the queue of the lock. The module instantiates InterruptedChannel:
what the peer sends and the daemon encrypts goes in, what `handle_peer_message` is given
(or finds too short) and what the peer can decrypt comes out. The messages the reader has
dealt with are half the units it has opened; that it is astray means that it waits for a
body while the next unit is a header, and for as many chunks as a header has. A length
field that is handed on is the message `Stray`, which the daemon only logs.

**Daemon** models the table and its users. Each critical section of the table is
one step, because none awaits inside; between them everything interleaves.
`ConnectSpawn` and `ConnectEnter` are the two ends of `cmd_connect`: the read task
exists from the first, its entry from the second. `RemoveSelf` is the removal by
key at the end of a read task. A cancelled task may still run past its removal
(`CancelTooLate`), because `abort()` does not stop a task that another thread is
polling. A command that sends goes through the code's waits: the lookup (`SendLookup`),
bitcoind for the two announcements (`Funded`, `FundingFails`), then the writer's mutex
and the write, which end (`SendEnds`) or, on a link that is up and a peer that does not
read, do not.

**Gossip** models the funding of channels and what is announced about them:
the RPCs of `new_funding_address` and `mine_to_funding`, each of which may fail or
lose its reply, the choice of keys in all four commands, the packing and parsing
of short channel ids, and other users who mine and pay at the same time.

**Wire** has the primitives of `wire.rs` and the record streams of `tlv.rs`. A byte
string is a sequence of digits; the base and the widths of the integers are
constants, so that casts, prefixes and limits are where they are in the code, but
within reach. A read returns a value and the rest of the input, or an error. `Uint(w)`
is a Rust integer of `w` bytes and `Bytes` a vector. Loops over bytes and records are
recursive functions, which can be reasoned about.

**Messages** has the twelve messages of `bolt/src/`. A layout, the list of a
message's fields with their forms, stands for the struct, the encoder and the
decoder, which in the code are three texts of the same list; `signature_hash` has a
list of its own, as in the code. On top of them are `Message::encode` and
`Message::decode` with the rules for unknown types and records, and the
constructors, among them the cap of a pong. `IsMessage` says what the Rust structs can
hold: each field a value of its form (`Value`), each option that is present one of its
form (`TlvValue`); a vector in a field may be longer than its prefix can say.

**Codec** puts the codecs to work: one action for each caller, which are the read
task, `recv_message`, the Init exchange of `conn::connect`, `sendmessage`, the ping
timer and the constructors, each with the size check of `NoiseWriter::send`. After
a send the other end decodes what it got. Three assumptions describe the inputs: bytes
are bytes and built messages are messages (`InputAssumption`, which is Rust's typing); no
type of record is added twice (`AddedAssumption`, which `TlvStream::add` asserts); and an
empty range reply, of 46 bytes in the code, fits a frame (`AnswerAssumption`).

**Control** models the life of the process: `BitcoindClient::new` with its choice of
the wallet, the removal and the binding of the socket, the accept loop, `stop` and
Ctrl-C, the end, and being killed at any point. Several daemons share the path and
the wallet. A client connects, its command runs in a task of its own, and it reads
until the daemon closes. Commands are told apart by what they wait for: nothing
(`Quick`: `stop`, `disconnect`, `peers` and whatever is refused), bitcoind (`info` with
three calls, `mine` with one), a peer that answers (`connect`), a peer that reads (the
commands that send), or bitcoind first and then the peer (the announcements).

`*Proofs` modules hold the theorems of the module they extend, and `MC_*` modules give
the constants their values. Definitions commented "Fault" are
deliberate errors; they are used by nothing, except in the mutants that
`PROJECT.json` lists, which show that each property can fail.

## Runs

| Run | Instance | Checks |
|---|---|---|
| `cipher` | rotation every 2 units, 3 messages one way and 1 the other, 2 disturbances, two sizes of body | `TypeOK`, `NoNonceReuse`, `KeyUseBounded`, `NoFalseReject`, `DeliveredIsPrefix`, `BodyLossIsFinal`, and that NoiseCipher implements SecureChannel |
| `handshake` | 2 dials for one key, 2 connections of its owner and 1 of a stranger, one failed tag each | `PanicsUnreachable`, `ResponderIsExpected`, `InitiatorIsKnown`, `CiphersMatch`, `GenuineActAccepted`, `BadTagIsFinal` |
| `peer_conn` | 2 inbound messages of five kinds, 2 pings, 1 command, headers of 2 chunks and bodies of 1, 2 or 3, a send buffer of one frame | `TypeOK`, `OutboundIntact`, `AnsweredInOrder`; that PeerConn implements InterruptedChannel (`ImplementsChannel`); live: `EventuallyHandled`, `CommandsFinish` |
| `daemon` | 2 nodes, 2 clients, 2 connections | `TypeOK`, `SoleConnectionListed`, `StaleEntryIsEarly`, `DisconnectIsFinal`; live: `DeadIsDelisted`, `DisconnectedIsDropped` |
| `gossip` | 2 clients, 1 peer, 3 commands, 2 outside blocks or payments | `TypeOK`, `AnnouncementFunded`, `AnnouncementConfirmed`, `UpdateNamesChannel`, `GossipFollows` |
| `codec` | bytes of 17 values, a `u16` up to 288, `u32` and `u64` of 3 and 4 bytes; all twelve messages, with and without optional records, whole, cut at every byte, with any byte changed in four ways, and with ten tails; all streams of up to 5 bytes over five values, all orders of up to 3 records | `UnderstoodAsMeant`, `AnswersFit`, `RelayedVerbatim`, `SignaturesCoverWire`, `StreamsCanonical` |
| `control` | 2 daemons, 2 clients, 1 new block, a wallet that is absent, unloaded or loaded | `WalletReady`, `InfoOrdered`; live: `ClientsEnd`, `StopEnds`, `StartRecovers` |

Why the bounds are enough to be interesting:

* `cipher`: three messages are six units and, at two units per key, two rotations
  in one direction, so a chaining key that is not carried over shows; rotation
  falls before headers. Splits fall anywhere. The theorems remove these bounds.
* `handshake`: two of each role is what it takes for acts of one exchange to be
  read by another; the stranger is an address that belongs to another node. The
  two dials are interchangeable, and so are the two connections of the owner,
  hence the symmetry, which is used with no liveness property.
* `peer_conn`: the timer can expire in every state of the buffers, twice; one
  command contends with the task for the lock; the buffer is full after a frame.
  Two of the messages are bare types, whose bodies are as long as a header and open as
  one when the stream is out of step; one then announces three chunks, the other, type
  2, the two of a header. Two messages are what it takes to hand on a header: the bare
  one and the next.
* `daemon`: two connections are a reconnect of one node or one connection each of
  two nodes; two clients are two commands at once.
* `gossip`: two commands interleave their RPCs and a third one follows up; no command
  mines more than six blocks (`MaxBlocks`), so that every height fits an scid. The
  widths of an scid's fields are small so that values outside them can be typed;
  the keys of `SEED` and `SEED_2` are in their real order.
* `codec`: 17 is the smallest base with which the type numbers, up to 264, fit two
  bytes and differ from each other as in the code (264 is 15, 9). One byte below and
  three above the largest vector and message are among the inputs, and so are both
  sides of each boundary of a BigSize.
* `control`: two daemons suffice for one to take the other's path, wallet or file;
  two clients for one command to wait behind another; one block for two tips.

`CHECK_DEADLOCK FALSE` is set where a system may come to rest because the bounds
are used up, or connections and commands are over: everywhere but in `codec`, where
a call always returns.

Fairness. In PeerConn the runtime polls a task whose socket or lock is ready
(tokio's scheduler and its FIFO mutex), TCP moves bytes, and the peer keeps
reading; nothing makes the peer send, the timer expire or a command start. In
Daemon a read task whose link is down breaks its loop, a task that wants the
table gets it, an aborted task is dropped, calls to bitcoind return, at the latest by
their timeout, and on a link that is down a write returns its error (`SendFails`).
Dialling, the Init exchange, the wait for the writer and a write on a link that is up
have no timeout in the code, so nothing is assumed of them: `DisconnectedIsDropped`
excepts a command that hangs for ever in such a write, and nothing else. In Control the
runtime polls `main` and the tasks, `select!` picks among its branches at random and so
sees a stop in the end, and calls to bitcoind return. Of peers, users and blocks nothing
is assumed: `Dial` and `SendEnds` may never come. `ClientsEnd` therefore excepts the
clients whose own command hangs for ever on a silent peer or in a send to one that does
not read; `StopEnds` needs no exception. NoiseCipher, NoiseHandshake, Gossip and Codec
assume no fairness.

### Where the code and what is said of it disagree

Five runs expect a violation; each is recorded under "findings".

* `keepalive`: when the ping timer wins the `select!` in the middle of a frame,
  `recv` is dropped with what it has read. The next call starts in the middle of
  the frame and fails to decrypt, and an intact connection ends. `ImplementsChannel`
  shows what else can follow and what cannot. A bare type can be passed over: a first
  expiry after its header, its body read as a header, a second expiry, and the stream is
  in step again. A bare type 2, read as a header, announces two bytes: the header of the
  next message then opens as a body, its length is handed on as a message, and the stream
  is in step again. No other message is skipped, repeated or made up.
* `reconnect`: connecting twice to a node overwrites the entry and detaches the
  first read task. A disconnect, or the end of either task, then removes the one
  entry, and a live connection is not listed. `SoleConnectionListed` shows that a
  second connection to the same node is the only way to get there.
* `early_exit`: a read task that ends before `cmd_connect` has entered its
  connection removes nothing, and the entry that follows stays.
  `StaleEntryIsEarly` shows that this is the only source of stale entries.
* `update_of_first_kind`: `sendchannelupdate` always signs with the lesser of the
  two node keys, which is `SEED_2`'s, while `sendchannelannouncement` announces
  `SEED`'s node on both sides. The scid that the README tells the user to pass is
  that of such a channel. `GossipFollows` shows that for channels of
  `sendchannelannouncement2` the signer is right.
* `takeover`: `main` removes the file at the socket path when it starts and when it
  ends, whoever bound it. A second daemon that starts and is then killed leaves the
  first one serving where no client finds it. `StartRecovers` shows that the removal
  does what it is for.

Two things the code gets right for reasons that are not where one looks for them.
`len as u16` in `wire.rs` does wrap, and `Error::for_channel` does accept texts that
no frame can hold; `UnderstoodAsMeant` holds because every message that long is
refused by `NoiseWriter::send`. `info` may mix two tips, but since the height is
asked for first it is never above the best block (`InfoOrdered`).

## Proofs

`NoiseCipherProofs` proves, for every threshold, set of messages, number of sends,
disturbance and moment of splitting:

| Theorem | States |
|---|---|
| `Invariance` | the inductive invariant `IInv` |
| `TypeCorrect` | `TypeOK`, with the bound on every nonce |
| `NonceUniqueness` | `NoNonceReuse` |
| `KeyUse` | `KeyUseBounded` |
| `CleanStream` | `NoFalseReject` |
| `PrefixDelivery` | `DeliveredIsPrefix` |
| `BodyLoss` | `BodyLossIsFinal` |
| `Refinement` | NoiseCipher implements SecureChannel |

Assumptions: the two endpoints differ, the threshold is positive, the bounds are
naturals, and no body is exactly two bytes long (`SizeAssumption`). The last one is
needed: a body of two bytes has the length of a header, so a receiver that had
lost step could read one as the other. Every message the codecs write has a
type and at least one more byte. A peer could send a bare type; that case is left
out here and is in PeerConn, where a bare type is a message like any other.

The argument. `DeliveredIsPrefix` alone is not inductive: it does not say which
unit the receiver would open next. The proof first shows that every operation of a
whole cipher acts on each direction as the operation of a half does (`EncryptView`,
`DecryptView`), so that `split` changes nothing. Then it reasons about positions,
a key generation and a nonce in lexicographic order. `IInv` says of each direction:

* `LogOK`: the units sealed so far stand at strictly increasing positions below
  the sender's, one rotation or one nonce apart, as headers and bodies of the
  messages sent;
* `RecvOK`: after the rotation it would make, the receiver stands exactly at the
  first unit it has not opened;
* `ReadOK`: the messages delivered, the phase of the pending call and the length
  it has read agree with the number of units opened;
* every unit of the stream that is intact is one of the log, and, while nobody has
  disturbed the stream, the stream is what is left of the log (`CleanOK`).

An intact unit that opens is then the next one of the log (`OpenIsNext`), which is
all that the other theorems need.

`DaemonProofs` proves, for any nodes, clients and number of connections:

| Theorem | States |
|---|---|
| `Invariance` | the inductive invariant `IInv` of the table |
| `TypeCorrect` | `TypeOK` |
| `SoleListed` | `SoleConnectionListed` |
| `StaleEntry` | `StaleEntryIsEarly` |
| `DisconnectFinal` | `DisconnectIsFinal` |

Assumptions: the number of connections is a natural, and `None` is neither a number
nor a node. The properties are not inductive, because removal goes by node key: to
know that a removal hits nobody else's entry one needs `TableOK` (an entry stands
under the node of its own connection and was never disconnected), and for that
`ClientOK` (a connection is entered by the command that made it, once). `EnteredOK`
(a connection that has not been entered cannot have been aborted) makes the early
end of a task the only cause of a stale entry.

`ControlProofs` proves, for any daemons, clients and number of blocks:

| Theorem | States |
|---|---|
| `WalletLoaded` | `WalletReady` |
| `InfoInOrder` | `InfoOrdered` |

Assumption: `None` is neither a daemon nor a number. `WalletReady` becomes inductive
when it is said of the daemons that have yet to bind as well (`WalletInv`);
`InfoOrdered` when it is said from the second call on, and that before it there is no
best block (`InfoInv`).

`NoiseHandshakeProofs` proves, for any number of initiators, responders, static keys
and failed tags:

| Theorem | States |
|---|---|
| `Invariance` | the inductive invariant `Inv` |
| `NeverPanics` | `PanicsUnreachable` |
| `ReachesExpected` | `ResponderIsExpected` |
| `LearnsInitiator` | `InitiatorIsKnown` |
| `CiphersFit` | `CiphersMatch` |
| `GenuineAccepted` | `GenuineActAccepted` |
| `BadTagStays` | `BadTagIsFinal` |

Assumptions: a value has one role, ephemeral and static keys differ, and the tokens for
no key and for bytes that are no key are not keys. None of the properties is
inductive, because the code compares hashes and keys and not the values they came
from. `Inv` therefore says what the fields are: while a value has seen no failed tag,
its state, `h`, `ck` and `temp_k2` are explicit terms in its own name and in that of its
partner (`InitiatorEarly`, `InitiatorDone`, `ResponderEarly`, `ResponderMet`), and so is
every act under way (`FiftyInv`, `SixtySixInv`). Once a tag has failed, all that is known
is how many secrets the value has absorbed: `mix_key` comes before the verification, so
`ck` is too long ever to open a ciphertext again, and the value seals nothing. That no
`expect` is reached with `None` follows from the fields of each state.

`PeerConnProofs` proves, for any messages, chunking, commands, number of expirations
and size of the send buffer:

| Theorem | States |
|---|---|
| `Invariance` | the inductive invariant `Inv` |
| `TypeCorrect` | `TypeOK` |
| `Intact` | `OutboundIntact` |
| `InOrder` | `AnsweredInOrder` |
| `IsChannel` | PeerConn implements InterruptedChannel (`ImplementsChannel`) |

Assumptions: bodies, headers and frames have at least one chunk, a body read as a header
announces at least one (no restriction, since a body of any length has a tag), and the read task
is not a command. `Inv` has one part for each reason why the properties hold:

* `LockInv`: whoever wants the writer is in the queue, and whoever writes is at its head,
  so that nobody encrypts between two chunks of a frame;
* `WriteInv`: the chunks written are those of the frames in nonce order, and only the
  frame that is being written is incomplete;
* `AnswerInv`: an answer that is due and not encrypted is the one the task waits to send;
* `StepInv`: a body is expected where the next unit is a header only after a dropped call
  that had taken bytes;
* `StreamInv`: a header is expected where the next unit is a body only after such a call,
  as long as the task runs, and no body was too short before the loop ended.

After a disconnect `WriteInv` is lost, since a frame may be cut short. The refinement
does not need it: a write adds nothing to what the peer has read, and reading one chunk
more completes at most one frame (`PeerReadRefines`). Inbound, each step of
the reader that opens a unit has its action of InterruptedChannel: a body in step is
`Deliver`, a body read as a header `Skip`, a header read as a body `HandOnHeader`, the
timer `Interrupt` (`ReadHeaderRefines`, `ReadBodyRefines`, `TickRefines`). The mapping
hides `Max`, and `AnswersGiven` and `AnswersDue` a filter; the lemmas `MaxIs` and
`KeepAppend` say what those compute. The latter needs an induction, which is made from a
least counterexample (`Least`).

`GossipProofs` proves, for any clients and peers and any number of commands, outside
blocks and payments:

| Theorem | States |
|---|---|
| `Invariance` | the inductive invariant `Inv` |
| `TypeCorrect` | `TypeOK` |
| `Funded` | `AnnouncementFunded` |
| `Confirmed` | `AnnouncementConfirmed` |
| `UpdateNamed` | `UpdateNamesChannel` |
| `Follows` | `GossipFollows` |

Assumptions: finitely many clients, two different node keys, a funding command mines at
least one block, and the chain stays below the height that fits an scid
(`HeightAssumption`): 24 bits in the code. `Inv` says what a command knows at each of its
RPCs (`CommandInv`: the address is of its sorted keys, the block it will name has a
coinbase to that address and enough blocks on top of it), that a block is held by one command
or named by one announcement (`ClaimInv`), and how many blocks the commands under way may still add
(`CountInv`), which is what keeps heights below the limit. The round trip of an scid
through `scid_str` and `parse_scid` is the lemma `ScidRoundTrip`.

`WireProofs` and `CodecProofs` prove, for any base from 4 on, any widths and sizes with
`1 < U16 < U32 < U64`, and any inputs as assumed, so in particular for the code's 256,
2, 4, 8, 32, 33 and 64:

| Theorem | States |
|---|---|
| `BigSizeOf`, `BigSizeIs` | reading a BigSize undoes writing it, and nothing else is read |
| `DecodeOf`, `DecodeIs` | an ordered stream decodes to itself, and what decodes is the encoding of an ordered stream |
| `MessageOf` | a message of any type whose encoding fits a frame decodes to itself |
| `MessageIs` | what decodes to a known type is that message's encoding, or longer |
| `Invariance` | the inductive invariant `Inv` of Codec |
| `Understood` | `UnderstoodAsMeant` |
| `Fit` | `AnswersFit` |
| `Relayed` | `RelayedVerbatim` |
| `SignedCovers` | `SignaturesCoverWire` |
| `Canonical` | `StreamsCanonical` |

Assumptions: those of Codec above, the order of the widths (`WidthAssumption`), that no
size is zero (`SizeAssumption`) and that the type numbers fit two bytes (`TypesFit`). The
proofs use nothing of which bytes are a point or a signature.

The argument. Every reader has two lemmas: `...Of`, what it returns for what the writer
wrote followed by anything, and `...Is`, that whatever it accepts the writer would have
written. The pairs are built from the bottom: digits and powers (`FromBytes`,
`ToFromBytes`), arrays, integers, keys and vectors, the four forms of a BigSize, a record,
a stream, a field of each form, a layout of fields, the options of a message, a message.
The code's loops are recursive functions; that such a function follows its equations, and
what it computes, are inductions over its index, made from a least counterexample
(`Least`, `Induction`, `Recursion`). Three places need more than the pairs:

* A length is written `as u16`, so `ReadVecOf` needs the vector to be short. `MessageOf`
  gets that from the size check in `NoiseWriter::send`: no field is longer than the whole.
* A decoder drops records of unknown odd types and, in messages without options, what
  follows the fields. `Thinner` compares the stream that is kept with the one that came:
  each record kept is not longer than the one it came from (`Below`), so the encoding is
  shorter or the same bytes, which is `RelayedVerbatim` and bounds the Init that is
  echoed.
* `TlvStream::add` inserts at a place found by search. `AddIs` says what that place is, and
  `BuildIs` that adding records of different types in any order makes the one ordered
  stream of them.

`Inv` itself is shallow, since a call is one step: what was sent is the encoding of
`meant` and fits a frame (`Sent`), what the other end hears is what was sent (`Heard`),
answers were not refused (`Answered`), and a stream is what it was made of (`Streamed`).

`Fit` also says that no body that is sent has two bytes, for any message and any sender:
it is what the assumption on bodies in NoiseCipher asks of the codecs.

What is only model-checked: liveness, which the prover does not handle, and the five
expected violations. Every invariant and every safety property of a passing run has a
theorem.

## Not modelled

* In NoiseCipher, bodies of two bytes (`SizeAssumption`); PeerConn has them.
* The socket timeouts of the blocking connection, which may cut `read_exact` and
  `write_all` short; nothing in the repository but its tests uses that connection.
  In NoiseCipher they appear as lost units.
* The text of commands and answers, `peers`, which only reads, and log output.
* In Control, the peer table and bitcoind's blocks beyond their number: these are in
  Daemon and Gossip. A reorganisation of the chain.
* In the run of Codec, the real sizes: 256 values of a byte, 32, 33 and 64 bytes for
  hashes, keys and signatures. Whether bytes are a point or a signature depends on the
  first one. The proofs are not bound to either.
* Cryptography: HKDF, ECDH, SHA-256, ChaCha20-Poly1305 and signatures are ideal.

## Plan

Done, in this order: NoiseCipher and its proofs, NoiseHandshake, PeerConn, Daemon
and its proofs, Gossip; then Wire, Messages and Codec, Control and its proofs, and
PeerConn as an implementation of a channel; then the proofs about NoiseHandshake,
Gossip and PeerConn; then those about Wire, Messages and Codec. Left: NoiseCipher with
bodies of two bytes, and which of its theorems remain.
