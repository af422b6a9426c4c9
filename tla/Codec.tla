-------------------------------- MODULE Codec --------------------------------
(***************************************************************************)
(* The codecs at work: every place where the program turns bytes into a    *)
(* message or a message into bytes, and what the program at the other end  *)
(* makes of the bytes.                                                     *)
(*                                                                         *)
(* Bytes come from a peer, who may send anything that fits a frame, or     *)
(* from a user, who may type anything.  The callers are the read task      *)
(* (handle_peer_message), conn::connect in its Init exchange, the API of   *)
(* NoiseReader::recv_message, the sendmessage command, and the code that   *)
(* builds messages of its own.  What they send goes through                *)
(* NoiseWriter::send, which refuses a body that is too large.              *)
(*                                                                         *)
(* One step is one call; the step after it is the peer's decoding of what  *)
(* was sent.                                                               *)
(***************************************************************************)
EXTENDS Messages

CONSTANTS
  Raw,        \* byte strings that a peer or a user gives
  Built,      \* messages that callers of the constructors build
  ScidLists,  \* lists of short channel ids to reply with
  Texts,      \* texts of errors and warnings
  StreamRaw,  \* byte strings given as a stream of records
  Added       \* sequences of records of different types, in the order of adding

\* What the Rust types of the callers' inputs hold.
ASSUME InputAssumption ==
  /\ Raw \subseteq Seq(Byte) /\ Texts \subseteq Seq(Byte) /\ StreamRaw \subseteq Seq(Byte)
  /\ ScidLists \subseteq Seq(Uint(U64))
  /\ \A m \in Built : IsMessage(m)

\* No type is added twice, as TlvStream::add asserts.
ASSUME AddedAssumption ==
  \A s \in Added :
    /\ s \in Seq([tlv_type : Uint(U64), value : Bytes])
    /\ \A i, j \in DOMAIN s : i # j => s[i].tlv_type # s[j].tlv_type

\* A range reply without ids, the longest answer whose length is fixed, fits.
ASSUME AnswerAssumption == 2 * U16 + 2 * U32 + HASH_SIZE + 2 <= MAX_MESSAGE_SIZE

VARIABLES
  caller,   \* who made the last call, "" when it is over
  given,    \* the bytes it was given
  outcome,  \* what became of it
  meant,    \* the message it sends
  wire,     \* the encoding of that message, or of a stream
  heard,    \* what the other end decodes
  listed    \* the ids or records that went into what is sent

vars == <<caller, given, outcome, meant, wire, heard, listed>>

NoMessage == Message(0, <<>>, NoTlvs)
NoResult == Err("none")

Init ==
  /\ caller = "" /\ given = <<>> /\ outcome = "" /\ meant = NoMessage
  /\ wire = <<>> /\ heard = NoResult /\ listed = <<>>

------------------------------------------------------------------------------
(* Sending.                                                                 *)

\* Fault: the size of the body is not checked.
sendUnchecked(m) ==
  /\ meant' = m
  /\ wire' = Message_encode(m)
  /\ outcome' = "sent"

\* Encode m and hand it to NoiseWriter::send.
send(m) ==
  /\ meant' = m
  /\ wire' = Message_encode(m)
  /\ outcome' = IF Len(wire') > MAX_MESSAGE_SIZE THEN "too large" ELSE "sent"

\* The call ends without sending anything.
end(why) == outcome' = why /\ meant' = NoMessage /\ wire' = <<>>

Begin(who, b) == caller = "" /\ caller' = who /\ given' = b

\* What a frame can carry.
Framed(b) == Len(b) <= MAX_MESSAGE_SIZE

------------------------------------------------------------------------------
(* Bytes from a peer.                                                       *)

\* The whole range is answered, with no ids.
reply_to(query) ==
  ReplyChannelRange_from_scids(query.fields.chain_hash, query.fields.first_blocknum,
                               query.fields.number_of_blocks, TRUE, <<>>)

\* The read task: a body without a type closes the connection, a ping and a range
\* query are answered, everything else is logged.
ReadTask(b) ==
  LET d  == Message_decode(b)
      is(t) == d.err = "" /\ d.val.msg_type = t
  IN  /\ Begin("read_task", b) /\ Framed(b)
      /\ \/ Len(b) < U16 /\ end("too short")
         \/ Len(b) >= U16 /\ is(PING) /\ send(Pong_respond_to(d.val))
         \/ Len(b) >= U16 /\ is(QUERY_CHANNEL_RANGE) /\ send(reply_to(d.val))
         \/ Len(b) >= U16 /\ ~is(PING) /\ ~is(QUERY_CHANNEL_RANGE) /\ end("logged")
      /\ UNCHANGED <<heard, listed>>

\* One turn of the loop of recv_message: a ping is answered, a pong or a warning
\* swallowed, and anything else returned, even what cannot be decoded.
RecvMessage(b) ==
  LET d  == Message_decode(b)
      is(T) == d.err = "" /\ d.val.msg_type \in T
  IN  /\ Begin("recv_message", b) /\ Framed(b)
      /\ \/ Len(b) < U16 /\ end("too short")
         \/ Len(b) >= U16 /\ is({PING}) /\ send(Pong_respond_to(d.val))
         \/ Len(b) >= U16 /\ is({PONG, WARNING}) /\ end("swallowed")
         \/ Len(b) >= U16 /\ ~is({PING, PONG, WARNING}) /\ end("returned")
      /\ UNCHANGED <<heard, listed>>

\* The Init exchange of conn::connect: the first body must be an Init.
InitExchange(b) ==
  LET d == Message_decode(b)
  IN  /\ Begin("connect", b) /\ Framed(b)
      /\ \/ d.err # "" /\ end("undecodable")
         \/ d.err = "" /\ d.val.msg_type # INIT /\ end("not init")
         \/ d.err = "" /\ d.val.msg_type = INIT /\ send(Init_echo(d.val))
      /\ UNCHANGED <<heard, listed>>

------------------------------------------------------------------------------
(* Bytes from a user, and messages of our own.                              *)

\* sendmessage: decode, reject what has no codec, and send it encoded again.
SendMessage(b) ==
  LET d == Message_decode(b)
      unknown == d.err = "UnknownEvenType" \/ (d.err = "" /\ IsUnknown(d.val))
  IN  /\ Begin("sendmessage", b)
      /\ \/ unknown /\ end("unknown type")
         \/ ~unknown /\ d.err # "" /\ end("undecodable")
         \/ ~unknown /\ d.err = "" /\ send(d.val)
      /\ UNCHANGED <<heard, listed>>

SendBuilt(m) ==
  /\ Begin("built", <<>>)
  /\ send(m)
  /\ UNCHANGED <<heard, listed>>

\* The ping of the read task's timer.
SendPing ==
  /\ Begin("ticker", <<>>)
  /\ send(Ping_new(1))
  /\ UNCHANGED <<heard, listed>>

SendScids(scids) ==
  /\ Begin("scids", <<>>)
  /\ send(ReplyChannelRange_from_scids(Zeros(HASH_SIZE), 0, 1, TRUE, scids))
  /\ listed' = scids
  /\ UNCHANGED heard

SendError(t, text) ==
  /\ Begin("error", <<>>)
  /\ \/ ~for_channel_asserts(text) /\ end("panic")
     \/ for_channel_asserts(text) /\ send(for_channel(t, Zeros(HASH_SIZE), text))
  /\ UNCHANGED <<heard, listed>>

------------------------------------------------------------------------------
(* Streams of records by themselves.                                        *)

\* TlvStream::decode of bytes.
DecodeStream(b) ==
  /\ Begin("stream", b)
  /\ outcome' = "given" /\ wire' = b
  /\ UNCHANGED <<meant, heard, listed>>

\* TlvStream::add for each record, then encode.
EncodeStream(records) ==
  LET built[i \in 0..Len(records)] ==
        IF i = 0 THEN <<>>
        ELSE TlvStream_add(built[i - 1], records[i].tlv_type, records[i].value)
  IN  /\ Begin("stream", <<>>)
      /\ outcome' = "added" /\ listed' = records
      /\ wire' = TlvStream_encode(built[Len(records)])
      /\ UNCHANGED <<meant, heard>>

------------------------------------------------------------------------------
\* The program at the other end decodes what was sent.
PeerDecodes ==
  /\ outcome = "sent" /\ heard = NoResult
  /\ heard' = Message_decode(wire)
  /\ UNCHANGED <<caller, given, outcome, meant, wire, listed>>

\* The call is over.
Return ==
  /\ caller # "" /\ (outcome = "sent" => heard # NoResult)
  /\ caller' = "" /\ given' = <<>> /\ outcome' = "" /\ meant' = NoMessage
  /\ wire' = <<>> /\ heard' = NoResult /\ listed' = <<>>

Next ==
  \/ \E b \in Raw : ReadTask(b) \/ RecvMessage(b) \/ InitExchange(b) \/ SendMessage(b)
  \/ \E m \in Built : SendBuilt(m)
  \/ SendPing
  \/ \E s \in ScidLists : SendScids(s)
  \/ \E x \in Texts, t \in {ERROR, WARNING} : SendError(t, x)
  \/ \E b \in StreamRaw : DecodeStream(b)
  \/ \E r \in Added : EncodeStream(r)
  \/ PeerDecodes
  \/ Return

Spec == Init /\ [][Next]_vars

------------------------------------------------------------------------------
(* Properties.                                                              *)

\* Whatever leaves the program is decoded at the other end as the message that
\* was meant, with the same ids in a range reply: although a length prefix wraps
\* around for a vector that is too long, no such vector ever passes send.
UnderstoodAsMeant ==
  heard # NoResult =>
    /\ heard.err = "" /\ heard.val = meant
    /\ caller = "scids" => short_channel_ids(heard.val) = Ok(listed, <<>>)

\* Every answer the program owes a peer can be sent, whatever the peer asked
\* for, and no body has the length of a header's two bytes.
AnswersFit ==
  /\ caller \in {"read_task", "recv_message", "connect", "ticker"} => outcome # "too large"
  /\ outcome = "sent" => Len(wire) > U16

\* sendmessage sends what the user typed, byte for byte, unless it drops a part
\* it does not know: what it sends is never longer, and of the same length only
\* if it is the same.
RelayedVerbatim ==
  caller = "sendmessage" /\ outcome = "sent" =>
    Len(wire) < Len(given) \/ wire = given

\* Signatures are made over exactly the bytes that a receiver of the message
\* finds after them: channel_announcement has four, the others one.
SignaturesCoverWire ==
  (outcome = "sent" /\ meant.msg_type \in {CHANNEL_ANNOUNCEMENT, NODE_ANNOUNCEMENT, CHANNEL_UPDATE})
    => LET n == IF meant.msg_type = CHANNEL_ANNOUNCEMENT THEN 4 ELSE 1
       IN  signature_hash(meant)
             = SubSeq(wire, U16 + n * COMPACT_SIGNATURE_SIZE + 1, Len(wire))

\* A stream that decodes is the one encoding of its records: they increase, even
\* types are known, and encoding them gives the bytes back.  A stream that was
\* built by adding records in any order decodes to these records.
StreamsCanonical ==
  caller = "stream" =>
    \A known \in {{}, {0}, {0, 2}} :
      LET d == TlvStream_decode_with_known(wire, known)
          legal(s) == /\ \A i \in 2..Len(s) : s[i - 1].tlv_type < s[i].tlv_type
                      /\ \A i \in 1..Len(s) : s[i].tlv_type % 2 = 1 \/ s[i].tlv_type \in known
      IN  /\ d.err = "" => legal(d.val) /\ TlvStream_encode(d.val) = wire
          /\ outcome = "added" =>
               IF \A i \in 1..Len(listed) : listed[i].tlv_type % 2 = 1 \/ listed[i].tlv_type \in known
                 THEN d.err = "" /\ ToSet(d.val) = ToSet(listed)
                 ELSE d.err # ""
==============================================================================
