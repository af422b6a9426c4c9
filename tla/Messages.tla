------------------------------ MODULE Messages -------------------------------
(***************************************************************************)
(* The BOLT messages of bolt/src/: their layouts, Message::encode and      *)
(* Message::decode, and the constructors.                                  *)
(*                                                                         *)
(* In the code every message has an encode that writes its fields one by   *)
(* one, a decode that reads them back in the same order and stops at the   *)
(* first error, and a struct.  Here a message is its type, its fields by   *)
(* name and, by type, the optional records that are present; the order and *)
(* the form of the fields are the message's layout.  What is left after    *)
(* the last field is the stream of optional records, for the messages that *)
(* have one, and is ignored for the others.                                *)
(***************************************************************************)
EXTENDS Wire

WARNING == 1
INIT == 16
ERROR == 17
PING == 18
PONG == 19
OPEN_CHANNEL == 32
FUNDING_CREATED == 34
CHANNEL_ANNOUNCEMENT == 256
NODE_ANNOUNCEMENT == 257
CHANNEL_UPDATE == 258
QUERY_CHANNEL_RANGE == 263
REPLY_CHANNEL_RANGE == 264

msg_type ==
  {WARNING, INIT, ERROR, PING, PONG, OPEN_CHANNEL, FUNDING_CREATED, CHANNEL_ANNOUNCEMENT,
   NODE_ANNOUNCEMENT, CHANNEL_UPDATE, QUERY_CHANNEL_RANGE, REPLY_CHANNEL_RANGE}

\* The type is written in two bytes.
ASSUME TypesFit == \A t \in msg_type : t < pow[U16]

ENCODING_UNCOMPRESSED == 0

------------------------------------------------------------------------------
(* The forms a field has on the wire.                                       *)

read(form, data) ==
  CASE form = "u8"        -> read_int(1, data)
    [] form = "u16"       -> read_int(U16, data)
    [] form = "u32"       -> read_int(U32, data)
    [] form = "u64"       -> read_int(U64, data)
    [] form = "hash"      -> read_array(HASH_SIZE, data)
    [] form = "rgb"       -> read_array(3, data)
    [] form = "pubkey"    -> read_PublicKey(data)
    [] form = "signature" -> read_Signature(data)
    [] form = "bytes"     -> read_Vec(data)

write(form, v) ==
  CASE form = "u8"    -> to_be_bytes(1, v)
    [] form = "u16"   -> to_be_bytes(U16, v)
    [] form = "u32"   -> to_be_bytes(U32, v)
    [] form = "u64"   -> to_be_bytes(U64, v)
    [] form = "bytes" -> write_Vec(v)
    [] OTHER          -> v

\* The values of the struct's field.
Array(n) == {b \in Seq(Byte) : Len(b) = n}

Value(form) ==
  CASE form = "u8"        -> Uint(1)
    [] form = "u16"       -> Uint(U16)
    [] form = "u32"       -> Uint(U32)
    [] form = "u64"       -> Uint(U64)
    [] form = "hash"      -> Array(HASH_SIZE)
    [] form = "rgb"       -> Array(3)
    [] form = "pubkey"    -> {b \in Array(PUBLIC_KEY_SIZE) : PublicKey_from_slice(b)}
    [] form = "signature" -> {b \in Array(COMPACT_SIGNATURE_SIZE) : Signature_from_compact(b)}
    [] form = "bytes"     -> Seq(Byte)

------------------------------------------------------------------------------
(* Layouts: the fields of every message, <<name, form>>, in wire order.     *)

\* The names in a layout, and the form of the field of that name.
names_of(layout) == {layout[i][1] : i \in DOMAIN layout}
form_of(layout, name) == layout[CHOOSE i \in DOMAIN layout : layout[i][1] = name][2]

Error_fields == << <<"channel_id", "hash">>, <<"data", "bytes">> >>
Warning_fields == << <<"channel_id", "hash">>, <<"data", "bytes">> >>
Init_fields == << <<"globalfeatures", "bytes">>, <<"features", "bytes">> >>
Ping_fields == << <<"num_pong_bytes", "u16">>, <<"ignored", "bytes">> >>
Pong_fields == << <<"ignored", "bytes">> >>

OpenChannel_fields ==
  << <<"chain_hash", "hash">>, <<"temporary_channel_id", "hash">>,
     <<"funding_satoshis", "u64">>, <<"push_msat", "u64">>, <<"dust_limit_satoshis", "u64">>,
     <<"max_htlc_value_in_flight_msat", "u64">>, <<"channel_reserve_satoshis", "u64">>,
     <<"htlc_minimum_msat", "u64">>, <<"feerate_per_kw", "u32">>, <<"to_self_delay", "u16">>,
     <<"max_accepted_htlcs", "u16">>, <<"funding_pubkey", "pubkey">>,
     <<"revocation_basepoint", "pubkey">>, <<"payment_basepoint", "pubkey">>,
     <<"delayed_payment_basepoint", "pubkey">>, <<"htlc_basepoint", "pubkey">>,
     <<"first_per_commitment_point", "pubkey">>, <<"channel_flags", "u8">> >>

FundingCreated_fields ==
  << <<"temporary_channel_id", "hash">>, <<"funding_txid", "hash">>,
     <<"funding_output_index", "u16">>, <<"signature", "signature">> >>

ChannelAnnouncement_fields ==
  << <<"node_signature_1", "signature">>, <<"node_signature_2", "signature">>,
     <<"bitcoin_signature_1", "signature">>, <<"bitcoin_signature_2", "signature">>,
     <<"features", "bytes">>, <<"chain_hash", "hash">>, <<"short_channel_id", "u64">>,
     <<"node_id_1", "pubkey">>, <<"node_id_2", "pubkey">>,
     <<"bitcoin_key_1", "pubkey">>, <<"bitcoin_key_2", "pubkey">> >>

NodeAnnouncement_fields ==
  << <<"signature", "signature">>, <<"features", "bytes">>, <<"timestamp", "u32">>,
     <<"node_id", "pubkey">>, <<"rgb_color", "rgb">>, <<"alias", "hash">>,
     <<"addresses", "bytes">> >>

ChannelUpdate_fields ==
  << <<"signature", "signature">>, <<"chain_hash", "hash">>, <<"short_channel_id", "u64">>,
     <<"timestamp", "u32">>, <<"message_flags", "u8">>, <<"channel_flags", "u8">>,
     <<"cltv_expiry_delta", "u16">>, <<"htlc_minimum_msat", "u64">>, <<"fee_base_msat", "u32">>,
     <<"fee_proportional_millionths", "u32">>, <<"htlc_maximum_msat", "u64">> >>

QueryChannelRange_fields ==
  << <<"chain_hash", "hash">>, <<"first_blocknum", "u32">>, <<"number_of_blocks", "u32">> >>

ReplyChannelRange_fields ==
  << <<"chain_hash", "hash">>, <<"first_blocknum", "u32">>, <<"number_of_blocks", "u32">>,
     <<"sync_complete", "u8">>, <<"encoded_short_ids", "bytes">> >>

fields_of(t) ==
  CASE t = WARNING              -> Warning_fields
    [] t = INIT                 -> Init_fields
    [] t = ERROR                -> Error_fields
    [] t = PING                 -> Ping_fields
    [] t = PONG                 -> Pong_fields
    [] t = OPEN_CHANNEL         -> OpenChannel_fields
    [] t = FUNDING_CREATED      -> FundingCreated_fields
    [] t = CHANNEL_ANNOUNCEMENT -> ChannelAnnouncement_fields
    [] t = NODE_ANNOUNCEMENT    -> NodeAnnouncement_fields
    [] t = CHANNEL_UPDATE       -> ChannelUpdate_fields
    [] t = QUERY_CHANNEL_RANGE  -> QueryChannelRange_fields
    [] t = REPLY_CHANNEL_RANGE  -> ReplyChannelRange_fields

------------------------------------------------------------------------------
(* Optional records, <<type, form>>, in the order in which encode adds      *)
(* them.  networks is a list of hashes, query_option a BigSize, the others  *)
(* are kept as they are.                                                    *)

Init_tlvs == << <<1, "hashes">>, <<3, "raw">> >>
OpenChannel_tlvs == << <<0, "raw">>, <<1, "raw">> >>
QueryChannelRange_tlvs == << <<1, "bigsize">> >>
ReplyChannelRange_tlvs == << <<1, "raw">>, <<3, "raw">> >>

has_tlvs(t) == t \in {INIT, OPEN_CHANNEL, QUERY_CHANNEL_RANGE, REPLY_CHANNEL_RANGE}

tlvs_of(t) ==
  CASE t = INIT                -> Init_tlvs
    [] t = OPEN_CHANNEL        -> OpenChannel_tlvs
    [] t = QUERY_CHANNEL_RANGE -> QueryChannelRange_tlvs
    [] t = REPLY_CHANNEL_RANGE -> ReplyChannelRange_tlvs

\* Only open_channel names an even type as known.
known_even(t) == IF t = OPEN_CHANNEL THEN {0} ELSE {}

\* What a record's value means, and the value that means v.
read_tlv(form, value) ==
  CASE form = "raw"     -> Ok(value, <<>>)
    [] form = "bigsize" -> BigSize_read(value)
    [] form = "hashes"  ->
         IF Len(value) % HASH_SIZE # 0 THEN Err("Truncated")
         ELSE Ok([i \in 1..(Len(value) \div HASH_SIZE) |->
                    SubSeq(value, (i - 1) * HASH_SIZE + 1, i * HASH_SIZE)], <<>>)

write_tlv(form, v) ==
  CASE form = "raw"     -> v
    [] form = "bigsize" -> BigSize_write(v)
    [] form = "hashes"  -> FlattenSeq(v)

TlvValue(form) ==
  CASE form = "raw"     -> Bytes
    [] form = "bigsize" -> Uint(U64)
    [] form = "hashes"  -> {h \in Seq(Array(HASH_SIZE)) : Len(h) * HASH_SIZE \in Uint(U64)}

\* InitTlvs::from_stream and its like.  Records of other types are dropped.
from_stream(t, stream) ==
  LET there  == {n \in names_of(tlvs_of(t)) : TlvStream_has(stream, n)}
      value  == [n \in there |-> read_tlv(form_of(tlvs_of(t), n), TlvStream_get(stream, n))]
      errors == {value[n].err : n \in there} \ {""}
  IN  IF errors # {} THEN Err(CHOOSE e \in errors : TRUE)
      ELSE Ok([n \in there |-> value[n].val], <<>>)

\* The stream that encode builds, one add per record that is present.
to_stream(t, tlvs) ==
  LET layout == tlvs_of(t)
      built[i \in 0..Len(layout)] ==
        IF i = 0 THEN <<>>
        ELSE LET n == layout[i][1]
             IN  IF n \in DOMAIN tlvs
                   THEN TlvStream_add(built[i - 1], n, write_tlv(layout[i][2], tlvs[n]))
                   ELSE built[i - 1]
  IN  built[Len(layout)]

------------------------------------------------------------------------------
(* Message::encode and Message::decode.                                     *)

NoTlvs == <<>>
Message(t, fields, tlvs) == [msg_type |-> t, fields |-> fields, tlvs |-> tlvs]

\* A type without a codec; its payload is what follows the type.
Unknown(t, payload) == Message(t, [payload |-> payload], NoTlvs)
IsUnknown(m) == m.msg_type \notin msg_type

\* What the message's struct can hold.
FieldsFit(layout, fields) ==
  /\ fields = [n \in names_of(layout) |-> fields[n]]
  /\ \A n \in names_of(layout) : fields[n] \in Value(form_of(layout, n))

TlvsFit(layout, tlvs) ==
  /\ tlvs = [n \in DOMAIN tlvs |-> tlvs[n]] /\ DOMAIN tlvs \subseteq names_of(layout)
  /\ \A n \in DOMAIN tlvs : tlvs[n] \in TlvValue(form_of(layout, n))

IsMessage(m) ==
  /\ m = Message(m.msg_type, m.fields, m.tlvs) /\ m.msg_type \in msg_type
  /\ FieldsFit(fields_of(m.msg_type), m.fields)
  /\ IF has_tlvs(m.msg_type) THEN TlvsFit(tlvs_of(m.msg_type), m.tlvs) ELSE m.tlvs = NoTlvs

write_fields(layout, fields) ==
  FlattenSeq([i \in DOMAIN layout |-> write(layout[i][2], fields[layout[i][1]])])

\* The fields read so far with one more.
with_field(fields, name, v) ==
  [n \in DOMAIN fields \cup {name} |-> IF n = name THEN v ELSE fields[n]]

\* The fields in order, up to the first that cannot be read.
read_fields(layout, data) ==
  LET upto[i \in 0..Len(layout)] ==
        IF i = 0 THEN Ok(<<>>, data)
        ELSE AndThen(upto[i - 1], LAMBDA r :
               AndThen(read(layout[i][2], r.rest), LAMBDA f :
                 Ok(with_field(r.val, layout[i][1], f.val), f.rest)))
  IN  upto[Len(layout)]

Message_encode(m) ==
  to_be_bytes(U16, m.msg_type) \o
    IF IsUnknown(m) THEN m.fields.payload
    ELSE write_fields(fields_of(m.msg_type), m.fields)
           \o (IF has_tlvs(m.msg_type)
                 THEN TlvStream_encode(to_stream(m.msg_type, m.tlvs)) ELSE <<>>)

\* The fields of a message of type t, then its optional records.
decode_payload(t, payload) ==
  AndThen(read_fields(fields_of(t), payload), LAMBDA f :
    IF ~has_tlvs(t) THEN Ok(Message(t, f.val, NoTlvs), <<>>)
    ELSE AndThen(TlvStream_decode_with_known(f.rest, known_even(t)), LAMBDA s :
           AndThen(from_stream(t, s.val), LAMBDA o :
             Ok(Message(t, f.val, o.val), <<>>))))

Message_decode(data) ==
  AndThen(read_int(U16, data), LAMBDA t :
    CASE t.val \in msg_type -> decode_payload(t.val, t.rest)
      [] t.val \notin msg_type /\ t.val % 2 = 0 -> Err("UnknownEvenType")
      [] OTHER -> Ok(Unknown(t.val, t.rest), <<>>))

------------------------------------------------------------------------------
(* Constructors.                                                            *)

Zeros(n) == [i \in 1..n |-> 0]

Ping_new(n) == Message(PING, [num_pong_bytes |-> n, ignored |-> <<>>], NoTlvs)

\* Fault: as many bytes as the ping asks for.
Pong_respond_toUncapped(ping) ==
  Message(PONG, [ignored |-> Zeros(ping.fields.num_pong_bytes)], NoTlvs)

\* As many bytes as the ping asks for, capped so that with its type and its length
\* the message is no larger than MAX_MESSAGE_SIZE.
Pong_respond_to(ping) ==
  LET cap == MAX_MESSAGE_SIZE - 2 * U16
      n   == ping.fields.num_pong_bytes
  IN  Message(PONG, [ignored |-> Zeros(IF n < cap THEN n ELSE cap)], NoTlvs)

\* The features come back, the optional records do not.
Init_echo(received) == Message(INIT, received.fields, NoTlvs)

ReplyChannelRange_from_scids(chain_hash, first, number, complete, scids) ==
  Message(REPLY_CHANNEL_RANGE,
          [chain_hash |-> chain_hash, first_blocknum |-> first, number_of_blocks |-> number,
           sync_complete |-> IF complete THEN 1 ELSE 0,
           encoded_short_ids |->
             <<ENCODING_UNCOMPRESSED>>
               \o FlattenSeq([i \in DOMAIN scids |-> to_be_bytes(U64, scids[i])])],
          NoTlvs)

\* The ids of a reply, when they are uncompressed and whole.
short_channel_ids(m) ==
  AndThen(read_int(1, m.fields.encoded_short_ids), LAMBDA r :
    CASE r.val # ENCODING_UNCOMPRESSED -> Err("UnknownEncoding")
      [] r.val = ENCODING_UNCOMPRESSED /\ Len(r.rest) % U64 # 0 -> Err("Truncated")
      [] OTHER -> Ok([i \in 1..(Len(r.rest) \div U64) |->
                        from_be_bytes(SubSeq(r.rest, (i - 1) * U64 + 1, i * U64))], <<>>))

\* Error::for_channel and Warning::for_channel, which assert only that the text is
\* no longer than a message may be; all_channels is the id of zeros.
for_channel_asserts(msg) == Len(msg) <= MAX_MESSAGE_SIZE
for_channel(t, channel_id, msg) == Message(t, [channel_id |-> channel_id, data |-> msg], NoTlvs)

------------------------------------------------------------------------------
(* signature_hash: the fields that are written, in this order, into the     *)
(* bytes that are hashed and signed.                                        *)

ChannelAnnouncement_signed ==
  <<"features", "chain_hash", "short_channel_id", "node_id_1", "node_id_2", "bitcoin_key_1",
    "bitcoin_key_2">>

ChannelUpdate_signed ==
  <<"chain_hash", "short_channel_id", "timestamp", "message_flags", "channel_flags",
    "cltv_expiry_delta", "htlc_minimum_msat", "fee_base_msat", "fee_proportional_millionths",
    "htlc_maximum_msat">>

\* Fault: the color and the alias are hashed in the wrong order.
NodeAnnouncement_signedSwapped ==
  <<"features", "timestamp", "node_id", "alias", "rgb_color", "addresses">>

NodeAnnouncement_signed ==
  <<"features", "timestamp", "node_id", "rgb_color", "alias", "addresses">>

signed_of(t) ==
  CASE t = CHANNEL_ANNOUNCEMENT -> ChannelAnnouncement_signed
    [] t = NODE_ANNOUNCEMENT    -> NodeAnnouncement_signed
    [] t = CHANNEL_UPDATE       -> ChannelUpdate_signed

signature_hash(m) ==
  LET signed == signed_of(m.msg_type)
      layout == fields_of(m.msg_type)
  IN  write_fields([i \in DOMAIN signed |-> <<signed[i], form_of(layout, signed[i])>>], m.fields)
==============================================================================
