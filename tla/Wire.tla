-------------------------------- MODULE Wire ---------------------------------
(***************************************************************************)
(* The primitives of the wire format (bolt/src/wire.rs), and the streams   *)
(* of type-length-value records built from them (bolt/src/tlv.rs).         *)
(*                                                                         *)
(* A byte string is a sequence of numbers below Base, which is 256 in the  *)
(* code; the integer types are U16, U32 and U64 bytes wide.  Smaller       *)
(* values bring every boundary of the code within TLC's reach: the forms   *)
(* of a BigSize, the length prefix that wraps around, the largest message. *)
(*                                                                         *)
(* A read takes the cursor, the bytes that are left, and returns what the  *)
(* code's Result and its advanced cursor say: Ok(value, rest) or Err(e).   *)
(***************************************************************************)
EXTENDS Naturals, Sequences, SequencesExt

CONSTANTS
  Base,           \* values of a byte
  U16, U32, U64,  \* bytes of the integer types
  HASH_SIZE,      \* bytes of a chain hash, a channel id, a txid or an alias
  PUBLIC_KEY_SIZE,
  COMPACT_SIGNATURE_SIZE

ASSUME WidthAssumption ==
  /\ Base \in Nat /\ Base >= 4
  /\ {U16, U32, U64} \subseteq Nat /\ 1 < U16 /\ U16 < U32 /\ U32 < U64
ASSUME SizeAssumption ==
  {HASH_SIZE, PUBLIC_KEY_SIZE, COMPACT_SIGNATURE_SIZE} \subseteq Nat \ {0}

Byte == 0..(Base - 1)

\* Base to the power of n.
pow[n \in 0..U64] == IF n = 0 THEN 1 ELSE Base * pow[n - 1]

\* The values of an integer of w bytes, and those of a vector, whose length is one.
Uint(w) == 0..(pow[w] - 1)
Bytes == {b \in Seq(Byte) : Len(b) \in Uint(U64)}

\* The largest body whose length fits the two-byte prefix.
MAX_MESSAGE_SIZE == pow[U16] - 1

Ok(v, data) == [err |-> "", val |-> v, rest |-> data]
Err(e) == [err |-> e]

\* The ? operator: go on with a result unless it is an error.
AndThen(r, Use(_)) == IF r.err # "" THEN r ELSE Use(r)

\* Replace whatever error r is by e.
OrErr(r, e) == IF r.err # "" THEN Err(e) ELSE r

------------------------------------------------------------------------------
(* Byte arrays, integers, keys and signatures.                              *)

\* The n bytes at the cursor.
read_array(n, data) ==
  IF Len(data) < n
    THEN Err("Truncated")
    ELSE Ok(SubSeq(data, 1, n), SubSeq(data, n + 1, Len(data)))

\* to_be_bytes of v as an integer of w bytes; higher digits are cut off, as by
\* the cast before it.
to_be_bytes(w, v) == [i \in 1..w |-> (v \div pow[w - i]) % Base]

from_be_bytes(b) ==
  LET value[i \in 0..Len(b)] == IF i = 0 THEN 0 ELSE Base * value[i - 1] + b[i]
  IN  value[Len(b)]

read_int(w, data) ==
  AndThen(read_array(w, data), LAMBDA r : Ok(from_be_bytes(r.val), r.rest))

\* Whether the bytes are a compressed point, and whether they are a compact
\* signature: by their first byte, for want of a curve.
PublicKey_from_slice(b) == b[1] \in {2, 3}
Signature_from_compact(b) == b[1] # Base - 1

read_PublicKey(data) ==
  AndThen(read_array(PUBLIC_KEY_SIZE, data),
          LAMBDA r : IF PublicKey_from_slice(r.val) THEN r ELSE Err("InvalidPublicKey"))

read_Signature(data) ==
  AndThen(read_array(COMPACT_SIGNATURE_SIZE, data),
          LAMBDA r : IF Signature_from_compact(r.val) THEN r ELSE Err("InvalidSignature"))

------------------------------------------------------------------------------
(* BigSize.                                                                 *)

\* An integer that is too large for the shorter forms.
read_minimal(w, least, data) ==
  AndThen(OrErr(read_int(w, data), "BigSizeTruncated"),
          LAMBDA r : IF r.val < least THEN Err("BigSizeNotMinimal") ELSE r)

\* One byte, or a prefix and an integer.
BigSize_read(data) ==
  AndThen(OrErr(read_int(1, data), "BigSizeTruncated"), LAMBDA prefix :
    CASE prefix.val < Base - 3  -> prefix
      [] prefix.val = Base - 3  -> read_minimal(U16, Base - 3, prefix.rest)
      [] prefix.val = Base - 2  -> read_minimal(U32, pow[U16], prefix.rest)
      [] prefix.val = Base - 1  -> read_minimal(U64, pow[U32], prefix.rest))

BigSize_write(v) ==
  CASE v < Base - 3                     -> to_be_bytes(1, v)
    [] Base - 3 <= v /\ v < pow[U16]    -> <<Base - 3>> \o to_be_bytes(U16, v)
    [] pow[U16] <= v /\ v < pow[U32]    -> <<Base - 2>> \o to_be_bytes(U32, v)
    [] pow[U32] <= v                    -> <<Base - 1>> \o to_be_bytes(U64, v)

------------------------------------------------------------------------------
(* Vec<u8>: a two-byte length and the bytes.                                *)

read_Vec(data) == AndThen(read_int(U16, data), LAMBDA r : read_array(r.val, r.rest))

\* self.len() as u16: a length that does not fit is written modulo pow[U16].
write_Vec(b) == to_be_bytes(U16, Len(b)) \o b

------------------------------------------------------------------------------
(* TlvStream: a sequence of records.                                        *)

TlvRecord(t, v) == [tlv_type |-> t, value |-> v]

\* Fault: a record is appended wherever its type belongs.
TlvStream_addLast(stream, t, v) == Append(stream, TlvRecord(t, v))

\* Insert before the first record that is not smaller.  The caller must not add
\* a type twice: the code asserts that.
TlvStream_add(stream, t, v) ==
  LET later == {i \in DOMAIN stream : stream[i].tlv_type >= t}
      pos   == IF later = {} THEN Len(stream) + 1 ELSE Min(later)
  IN  InsertAt(stream, pos, TlvRecord(t, v))

TlvStream_has(stream, t) == \E i \in DOMAIN stream : stream[i].tlv_type = t

\* get, for a type that is there.
TlvStream_get(stream, t) ==
  stream[CHOOSE i \in DOMAIN stream : stream[i].tlv_type = t].value

TlvRecord_encode(r) ==
  BigSize_write(r.tlv_type) \o BigSize_write(Len(r.value)) \o r.value

TlvStream_encode(stream) ==
  FlattenSeq([i \in DOMAIN stream |-> TlvRecord_encode(stream[i])])

\* Fault: records may come in any order.
next_recordUnordered(stream, data, known_even) ==
  AndThen(BigSize_read(data), LAMBDA t :
    AndThen(BigSize_read(t.rest), LAMBDA len :
      CASE len.val > Len(len.rest) -> Err("TlvLengthOverflow")
        [] len.val <= Len(len.rest) /\ t.val % 2 = 0 /\ t.val \notin known_even ->
             Err("TlvUnknownEvenType")
        [] OTHER -> LET v == read_array(len.val, len.rest)
                    IN  Ok(Append(stream, TlvRecord(t.val, v.val)), v.rest)))

\* One turn of the loop of decode_with_known, with the checks in their order: the
\* type, that it increases, the length, that the value is there, the even rule.
next_record(stream, data, known_even) ==
  AndThen(BigSize_read(data), LAMBDA t :
    IF stream # <<>> /\ t.val <= Last(stream).tlv_type
      THEN Err("TlvNotIncreasing")
      ELSE AndThen(BigSize_read(t.rest), LAMBDA len :
        CASE len.val > Len(len.rest) -> Err("TlvLengthOverflow")
          [] len.val <= Len(len.rest) /\ t.val % 2 = 0 /\ t.val \notin known_even ->
               Err("TlvUnknownEvenType")
          [] OTHER -> LET v == read_array(len.val, len.rest)
                      IN  Ok(Append(stream, TlvRecord(t.val, v.val)), v.rest)))

\* The loop runs until the cursor is empty; no record is shorter than two bytes.
TlvStream_decode_with_known(data, known_even) ==
  LET turn[i \in 0..Len(data)] ==
        IF i = 0 THEN Ok(<<>>, data)
        ELSE AndThen(turn[i - 1], LAMBDA r :
               IF r.rest = <<>> THEN r ELSE next_record(r.val, r.rest, known_even))
  IN  turn[Len(data)]
==============================================================================
