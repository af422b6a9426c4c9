----------------------------- MODULE CodecProofs -----------------------------
(***************************************************************************)
(* The safety properties of Codec, for every base, every width and every   *)
(* input.  They rest on what Message_decode and Message_encode do to each  *)
(* other, which is proved here form by form, layout by layout and record   *)
(* by record from the facts of WireProofs.                                 *)
(***************************************************************************)
EXTENDS Codec, WireProofs

------------------------------------------------------------------------------
(* A power is larger than its exponent, so a length of a few bytes is one   *)
(* that can be written.                                                     *)

\* The powers of the base exceed their exponents.
LEMMA PowLarge ==
  ASSUME NEW w \in 1..U64
  PROVE  w + 2 <= pow[w] /\ pow[w] \in Nat
  <1>0. U64 \in Nat /\ Base \in Nat /\ Base >= 4
    BY Widths
  <1> DEFINE T == {k \in 0..U64 : k >= 1 => k + 2 <= pow[k]}
  <1>1. 0 \in T
    BY <1>0
  <1>2. ASSUME NEW k \in 0..(U64 - 1), k \in T PROVE k + 1 \in T
    <2>1. k + 1 \in 1..U64 /\ (k + 1) - 1 = k /\ k \in 0..U64 /\ k + 1 \in 0..U64
      BY <1>0
    <2>2. pow[k + 1] = Base * pow[k] /\ pow[k] \in Nat /\ pow[k + 1] \in Nat
      BY <2>1, PowDef
    <2>3. \A x \in Nat : 4 * x <= Base * x
      BY <1>0
    <2>4. 4 * pow[k] <= pow[k + 1]
      BY <2>2, <2>3
    <2>5. CASE k = 0
      <3>1. pow[k] = 1
        BY <2>5, PowDef
      <3>2. QED
        BY <2>1, <2>2, <2>4, <2>5, <3>1
    <2>6. CASE k # 0
      <3>1. k + 2 <= pow[k]
        BY <1>2, <2>6
      <3>2. QED
        BY <2>1, <2>2, <2>4, <3>1
    <2>7. QED
      BY <2>5, <2>6
  <1> HIDE DEF T
  <1>3. w \in T
    <2>1. \A k \in 0..U64 : k \in T
      BY <1>0, <1>1, <1>2, Induction
    <2>2. QED
      BY <1>0, <2>1
  <1>4. w \in 0..U64
    BY <1>0
  <1>5. QED
    BY <1>3, <1>4, PowDef DEF T

\* A BigSize is short enough to be the value of a record.
LEMMA BigSizeShort ==
  ASSUME NEW v \in Uint(U64)
  PROVE  Len(BigSize_write(v)) \in Uint(U64)
  <1>0. /\ U16 \in Nat /\ U32 \in Nat /\ U64 \in Nat /\ 1 < U16 /\ U16 < U32 /\ U32 < U64
    BY Widths
  <1>1. Len(BigSize_write(v)) \in {1, U16 + 1, U32 + 1, U64 + 1}
    <2>1. CASE v \in Byte /\ BigSize_write(v) = <<v>>
      BY <2>1
    <2>2. CASE v \in Nat /\ BigSize_write(v) = <<Base - 3>> \o to_be_bytes(U16, v)
      <3>1. Len(BigSize_write(v)) = U16 + 1
        BY <2>2, PrefixBytes, Prefixed, Zenon
      <3>2. QED
        BY <3>1
    <2>3. CASE v \in Nat /\ BigSize_write(v) = <<Base - 2>> \o to_be_bytes(U32, v)
      <3>1. Len(BigSize_write(v)) = U32 + 1
        BY <2>3, PrefixBytes, Prefixed, Zenon
      <3>2. QED
        BY <3>1
    <2>4. CASE v \in Nat /\ BigSize_write(v) = <<Base - 1>> \o to_be_bytes(U64, v)
      <3>1. Len(BigSize_write(v)) = U64 + 1
        BY <2>4, PrefixBytes, Prefixed, Zenon
      <3>2. QED
        BY <3>1
    <2>5. QED
      BY <2>1, <2>2, <2>3, <2>4, BigSizeForm
  <1>2. U64 + 2 <= pow[U64] /\ pow[U64] \in Nat
    <2>1. U64 \in 1..U64
      BY <1>0
    <2>2. QED
      BY <2>1, PowLarge
  <1>3. \A x \in {1, U16 + 1, U32 + 1, U64 + 1} : x \in 0..(pow[U64] - 1)
    BY <1>0, <1>2
  <1>4. QED
    BY <1>1, <1>3 DEF Uint

------------------------------------------------------------------------------
(* The forms of the fields.                                                 *)

Forms == {"u8", "u16", "u32", "u64", "hash", "rgb", "pubkey", "signature", "bytes"}

\* read, form by form.
LEMMA ReadForm ==
  ASSUME NEW d
  PROVE  /\ read("u8", d) = read_int(1, d) /\ read("u16", d) = read_int(U16, d)
         /\ read("u32", d) = read_int(U32, d) /\ read("u64", d) = read_int(U64, d)
         /\ read("hash", d) = read_array(HASH_SIZE, d) /\ read("rgb", d) = read_array(3, d)
         /\ read("pubkey", d) = read_PublicKey(d) /\ read("signature", d) = read_Signature(d)
         /\ read("bytes", d) = read_Vec(d)
  BY DEF read

\* write, form by form.
LEMMA WriteForm ==
  ASSUME NEW v
  PROVE  /\ write("u8", v) = to_be_bytes(1, v) /\ write("u16", v) = to_be_bytes(U16, v)
         /\ write("u32", v) = to_be_bytes(U32, v) /\ write("u64", v) = to_be_bytes(U64, v)
         /\ write("hash", v) = v /\ write("rgb", v) = v
         /\ write("pubkey", v) = v /\ write("signature", v) = v
         /\ write("bytes", v) = write_Vec(v)
  BY DEF write

\* Value, form by form.
LEMMA ValueForm ==
  /\ Value("u8") = Uint(1) /\ Value("u16") = Uint(U16)
  /\ Value("u32") = Uint(U32) /\ Value("u64") = Uint(U64)
  /\ \A v : v \in Value("hash") <=> v \in Str /\ Len(v) = HASH_SIZE
  /\ \A v : v \in Value("rgb") <=> v \in Str /\ Len(v) = 3
  /\ \A v : v \in Value("pubkey") <=>
              v \in Str /\ Len(v) = PUBLIC_KEY_SIZE /\ PublicKey_from_slice(v)
  /\ \A v : v \in Value("signature") <=>
              v \in Str /\ Len(v) = COMPACT_SIGNATURE_SIZE /\ Signature_from_compact(v)
  /\ Value("bytes") = Str
  BY DEF Value, Array, Str

\* A value that its field gives back: a vector whose length fits its prefix.
OnWire(form, v) == v \in Value(form) /\ (form = "bytes" => Len(v) \in Uint(U16))

\* The bytes of a value: one at least, and a vector's length before it.
LEMMA WriteIs ==
  ASSUME NEW form \in Forms, NEW v \in Value(form)
  PROVE  /\ write(form, v) \in Str /\ Len(write(form, v)) \in Nat /\ Len(write(form, v)) >= 1
         /\ form = "bytes" => Len(write(form, v)) = U16 + Len(v) /\ Len(v) \in Nat
  <1>0. /\ {1, U16, U32, U64} \subseteq 0..U64 /\ U16 \in Nat /\ U32 \in Nat /\ U64 \in Nat
        /\ U16 > 1 /\ U32 > 1 /\ U64 > 1
    BY Widths
  <1>s. /\ HASH_SIZE \in Nat \ {0} /\ PUBLIC_KEY_SIZE \in Nat \ {0}
        /\ COMPACT_SIGNATURE_SIZE \in Nat \ {0}
    BY SizeAssumption
  <1>1. ASSUME NEW w \in {1, U16, U32, U64}, NEW x \in Uint(w)
        PROVE  to_be_bytes(w, x) \in Str /\ Len(to_be_bytes(w, x)) = w
    <2>1. w \in 0..U64 /\ x \in Nat
      BY <1>0, PowDef DEF Uint
    <2>2. QED
      BY <2>1, ToBytes DEF Str
  <1>2. CASE form = "u8"
    BY <1>0, <1>1, <1>2, WriteForm, ValueForm
  <1>3. CASE form = "u16"
    BY <1>0, <1>1, <1>3, WriteForm, ValueForm
  <1>4. CASE form = "u32"
    BY <1>0, <1>1, <1>4, WriteForm, ValueForm
  <1>5. CASE form = "u64"
    BY <1>0, <1>1, <1>5, WriteForm, ValueForm
  <1>6. CASE form = "hash"
    BY <1>s, <1>6, WriteForm, ValueForm
  <1>7. CASE form = "rgb"
    BY <1>7, WriteForm, ValueForm
  <1>8. CASE form = "pubkey"
    BY <1>s, <1>8, WriteForm, ValueForm
  <1>9. CASE form = "signature"
    BY <1>s, <1>9, WriteForm, ValueForm
  <1>10. CASE form = "bytes"
    <2>1. v \in Str /\ write(form, v) = write_Vec(v)
      BY <1>10, WriteForm, ValueForm
    <2>2. Len(v) \in Nat /\ write_Vec(v) \in Str /\ Len(write_Vec(v)) = U16 + Len(v)
      BY <2>1, StrEmpty, WriteVec
    <2>3. QED
      BY <1>0, <2>1, <2>2
  <1>11. QED
    BY <1>2, <1>3, <1>4, <1>5, <1>6, <1>7, <1>8, <1>9, <1>10 DEF Forms

\* A field that was written is read back.
LEMMA ReadFormOf ==
  ASSUME NEW form \in Forms, NEW v, OnWire(form, v), NEW y \in Str
  PROVE  read(form, write(form, v) \o y) = Ok(v, y)
  <1>0. {1, U16, U32, U64} \subseteq 0..U64
    BY Widths
  <1>1. \A w \in {1, U16, U32, U64} : \A x \in Uint(w) : read_int(w, to_be_bytes(w, x) \o y) = Ok(x, y)
    BY <1>0, ReadIntOf
  <1>2. v \in Value(form)
    BY DEF OnWire
  <1>3. CASE form = "u8"
    BY <1>1, <1>2, <1>3, WriteForm, ReadForm, ValueForm
  <1>4. CASE form = "u16"
    BY <1>1, <1>2, <1>4, WriteForm, ReadForm, ValueForm
  <1>5. CASE form = "u32"
    BY <1>1, <1>2, <1>5, WriteForm, ReadForm, ValueForm
  <1>6. CASE form = "u64"
    BY <1>1, <1>2, <1>6, WriteForm, ReadForm, ValueForm
  <1>7. CASE form = "hash"
    <2>1. v \in Str /\ Len(v) = HASH_SIZE
      BY <1>2, <1>7, ValueForm
    <2>2. read_array(Len(v), v \o y) = Ok(v, y)
      BY <2>1, ReadArrayOf
    <2>3. QED
      BY <1>7, <2>1, <2>2, WriteForm, ReadForm
  <1>8. CASE form = "rgb"
    <2>1. v \in Str /\ Len(v) = 3
      BY <1>2, <1>8, ValueForm
    <2>2. read_array(Len(v), v \o y) = Ok(v, y)
      BY <2>1, ReadArrayOf
    <2>3. QED
      BY <1>8, <2>1, <2>2, WriteForm, ReadForm
  <1>9. CASE form = "pubkey"
    <2>1. v \in Str /\ Len(v) = PUBLIC_KEY_SIZE /\ PublicKey_from_slice(v)
      BY <1>2, <1>9, ValueForm
    <2>2. read_PublicKey(v \o y) = Ok(v, y)
      BY <2>1, ReadKeyOf
    <2>3. QED
      BY <1>9, <2>2, WriteForm, ReadForm
  <1>10. CASE form = "signature"
    <2>1. v \in Str /\ Len(v) = COMPACT_SIGNATURE_SIZE /\ Signature_from_compact(v)
      BY <1>2, <1>10, ValueForm
    <2>2. read_Signature(v \o y) = Ok(v, y)
      BY <2>1, ReadSignatureOf
    <2>3. QED
      BY <1>10, <2>2, WriteForm, ReadForm
  <1>11. CASE form = "bytes"
    <2>1. v \in Str /\ Len(v) \in Uint(U16)
      BY <1>11, ValueForm DEF OnWire
    <2>2. read_Vec(write_Vec(v) \o y) = Ok(v, y)
      BY <2>1, ReadVecOf
    <2>3. QED
      BY <1>11, <2>2, WriteForm, ReadForm
  <1>12. QED
    BY <1>3, <1>4, <1>5, <1>6, <1>7, <1>8, <1>9, <1>10, <1>11 DEF Forms

\* What is read was written by the field's value.
ReadAs(form, d, v, y) ==
  /\ OnWire(form, v) /\ y \in Str
  /\ d = write(form, v) \o y /\ read(form, d) = Ok(v, y)

\* A value that is read belongs to its form, and was written in front.
LEMMA ReadFormIs ==
  ASSUME NEW form \in Forms, NEW d \in Str, Good(read(form, d))
  PROVE  \E v, y : ReadAs(form, d, v, y)
  <1>0. {1, U16, U32, U64} \subseteq 0..U64
    BY Widths
  <1>1. ASSUME NEW w \in {1, U16, U32, U64}, Good(read_int(w, d))
        PROVE  \E v \in Uint(w), y \in Str : d = to_be_bytes(w, v) \o y /\ read_int(w, d) = Ok(v, y)
    BY <1>0, <1>1, ReadIntIs
  <1>3. CASE form = "u8"
    <2>1. PICK v \in Uint(1), y \in Str : d = to_be_bytes(1, v) \o y /\ read_int(1, d) = Ok(v, y)
      BY <1>1, <1>3, ReadForm
    <2>2. QED
      BY <1>3, <2>1, ReadForm, WriteForm, ValueForm DEF ReadAs, OnWire
  <1>4. CASE form = "u16"
    <2>1. PICK v \in Uint(U16), y \in Str : d = to_be_bytes(U16, v) \o y /\ read_int(U16, d) = Ok(v, y)
      BY <1>1, <1>4, ReadForm
    <2>2. QED
      BY <1>4, <2>1, ReadForm, WriteForm, ValueForm DEF ReadAs, OnWire
  <1>5. CASE form = "u32"
    <2>1. PICK v \in Uint(U32), y \in Str : d = to_be_bytes(U32, v) \o y /\ read_int(U32, d) = Ok(v, y)
      BY <1>1, <1>5, ReadForm
    <2>2. QED
      BY <1>5, <2>1, ReadForm, WriteForm, ValueForm DEF ReadAs, OnWire
  <1>6. CASE form = "u64"
    <2>1. PICK v \in Uint(U64), y \in Str : d = to_be_bytes(U64, v) \o y /\ read_int(U64, d) = Ok(v, y)
      BY <1>1, <1>6, ReadForm
    <2>2. QED
      BY <1>6, <2>1, ReadForm, WriteForm, ValueForm DEF ReadAs, OnWire
  <1>7. CASE form = "hash"
    <2>0. HASH_SIZE \in Nat /\ Good(read_array(HASH_SIZE, d))
      BY <1>7, ReadForm, SizeAssumption
    <2>1. PICK v, y \in Str : Len(v) = HASH_SIZE /\ d = v \o y /\ read_array(HASH_SIZE, d) = Ok(v, y)
      BY <2>0, ReadArrayIs
    <2>2. QED
      BY <1>7, <2>1, ReadForm, WriteForm, ValueForm DEF ReadAs, OnWire
  <1>8. CASE form = "rgb"
    <2>0. Good(read_array(3, d))
      BY <1>8, ReadForm
    <2>1. PICK v, y \in Str : Len(v) = 3 /\ d = v \o y /\ read_array(3, d) = Ok(v, y)
      BY <2>0, ReadArrayIs
    <2>2. QED
      BY <1>8, <2>1, ReadForm, WriteForm, ValueForm DEF ReadAs, OnWire
  <1>9. CASE form = "pubkey"
    <2>1. PICK v, y \in Str : /\ Len(v) = PUBLIC_KEY_SIZE /\ PublicKey_from_slice(v)
                              /\ d = v \o y /\ read_PublicKey(d) = Ok(v, y)
      BY <1>9, ReadForm, ReadKeyIs
    <2>2. QED
      BY <1>9, <2>1, ReadForm, WriteForm, ValueForm DEF ReadAs, OnWire
  <1>10. CASE form = "signature"
    <2>1. PICK v, y \in Str : /\ Len(v) = COMPACT_SIGNATURE_SIZE /\ Signature_from_compact(v)
                              /\ d = v \o y /\ read_Signature(d) = Ok(v, y)
      BY <1>10, ReadForm, ReadSignatureIs
    <2>2. QED
      BY <1>10, <2>1, ReadForm, WriteForm, ValueForm DEF ReadAs, OnWire
  <1>11. CASE form = "bytes"
    <2>1. PICK v, y \in Str : /\ Len(v) \in Uint(U16) /\ d = write_Vec(v) \o y
                              /\ read_Vec(d) = Ok(v, y)
      BY <1>11, ReadForm, ReadVecIs
    <2>2. QED
      BY <1>11, <2>1, ReadForm, WriteForm, ValueForm DEF ReadAs, OnWire
  <1>12. QED
    BY <1>3, <1>4, <1>5, <1>6, <1>7, <1>8, <1>9, <1>10, <1>11 DEF Forms

------------------------------------------------------------------------------
(* The layouts.                                                             *)

\* A layout of n fields whose forms are in F, no two of the same name.
IsLayout(l, n, F) ==
  /\ n \in Nat /\ n >= 1 /\ DOMAIN l = 1..n /\ Len(l) = n
  /\ \A i \in 1..n : l[i][2] \in F
  /\ \A i, j \in 1..n : i # j => l[i][1] # l[j][1]

\* The layout of open_channel: its names differ, and its forms are known.
LEMMA OpenChannelLayout == IsLayout(OpenChannel_fields, 18, Forms)
  BY DEF IsLayout, Forms, OpenChannel_fields

\* The layout of channel_announcement.
LEMMA ChannelAnnouncementLayout == IsLayout(ChannelAnnouncement_fields, 11, Forms)
  BY DEF IsLayout, Forms, ChannelAnnouncement_fields

\* The layout of channel_update.
LEMMA ChannelUpdateLayout == IsLayout(ChannelUpdate_fields, 11, Forms)
  BY DEF IsLayout, Forms, ChannelUpdate_fields

\* The layout of node_announcement.
LEMMA NodeAnnouncementLayout == IsLayout(NodeAnnouncement_fields, 7, Forms)
  BY DEF IsLayout, Forms, NodeAnnouncement_fields

\* The layouts of the other messages.
LEMMA ShortLayouts ==
  /\ IsLayout(Error_fields, 2, Forms) /\ IsLayout(Warning_fields, 2, Forms)
  /\ IsLayout(Init_fields, 2, Forms) /\ IsLayout(Ping_fields, 2, Forms)
  /\ IsLayout(Pong_fields, 1, Forms) /\ IsLayout(FundingCreated_fields, 4, Forms)
  /\ IsLayout(QueryChannelRange_fields, 3, Forms) /\ IsLayout(ReplyChannelRange_fields, 5, Forms)
  <1>1. IsLayout(Error_fields, 2, Forms) /\ IsLayout(Warning_fields, 2, Forms)
    BY DEF IsLayout, Forms, Error_fields, Warning_fields
  <1>2. IsLayout(Init_fields, 2, Forms) /\ IsLayout(Ping_fields, 2, Forms)
    BY DEF IsLayout, Forms, Init_fields, Ping_fields
  <1>3. IsLayout(Pong_fields, 1, Forms) /\ IsLayout(FundingCreated_fields, 4, Forms)
    BY DEF IsLayout, Forms, Pong_fields, FundingCreated_fields
  <1>4. IsLayout(QueryChannelRange_fields, 3, Forms)
    BY DEF IsLayout, Forms, QueryChannelRange_fields
  <1>5. IsLayout(ReplyChannelRange_fields, 5, Forms)
    BY DEF IsLayout, Forms, ReplyChannelRange_fields
  <1>6. QED
    BY <1>1, <1>2, <1>3, <1>4, <1>5

\* The messages by type.
LEMMA LayoutOf ==
  /\ fields_of(WARNING) = Warning_fields /\ fields_of(INIT) = Init_fields
  /\ fields_of(ERROR) = Error_fields /\ fields_of(PING) = Ping_fields
  /\ fields_of(PONG) = Pong_fields /\ fields_of(OPEN_CHANNEL) = OpenChannel_fields
  /\ fields_of(FUNDING_CREATED) = FundingCreated_fields
  /\ fields_of(CHANNEL_ANNOUNCEMENT) = ChannelAnnouncement_fields
  /\ fields_of(NODE_ANNOUNCEMENT) = NodeAnnouncement_fields
  /\ fields_of(CHANNEL_UPDATE) = ChannelUpdate_fields
  /\ fields_of(QUERY_CHANNEL_RANGE) = QueryChannelRange_fields
  /\ fields_of(REPLY_CHANNEL_RANGE) = ReplyChannelRange_fields
  BY DEF fields_of, WARNING, INIT, ERROR, PING, PONG, OPEN_CHANNEL, FUNDING_CREATED,
         CHANNEL_ANNOUNCEMENT, NODE_ANNOUNCEMENT, CHANNEL_UPDATE, QUERY_CHANNEL_RANGE,
         REPLY_CHANNEL_RANGE

\* Every message with a codec has a layout.
LEMMA FieldLayout ==
  ASSUME NEW t \in msg_type
  PROVE  \E n : IsLayout(fields_of(t), n, Forms)
  BY LayoutOf, OpenChannelLayout, ChannelAnnouncementLayout, ChannelUpdateLayout,
     NodeAnnouncementLayout, ShortLayouts DEF msg_type

TlvForms == {"raw", "bigsize", "hashes"}

\* Every message with a stream of options has a layout of these.
LEMMA TlvLayout ==
  ASSUME NEW t, has_tlvs(t)
  PROVE  /\ \E n : IsLayout(tlvs_of(t), n, TlvForms)
         /\ \A i \in DOMAIN tlvs_of(t) : tlvs_of(t)[i][1] \in Uint(U64)
  <1>1. {0, 1, 3} \subseteq Uint(U64)
    <2>1. 3 < pow[U64] /\ pow[U64] \in Nat
      BY Widths
    <2>2. QED
      BY <2>1 DEF Uint
  <1>2. /\ IsLayout(Init_tlvs, 2, TlvForms) /\ DOMAIN Init_tlvs = {1, 2}
        /\ Init_tlvs[1][1] = 1 /\ Init_tlvs[2][1] = 3
    BY DEF IsLayout, TlvForms, Init_tlvs
  <1>3. /\ IsLayout(OpenChannel_tlvs, 2, TlvForms) /\ DOMAIN OpenChannel_tlvs = {1, 2}
        /\ OpenChannel_tlvs[1][1] = 0 /\ OpenChannel_tlvs[2][1] = 1
    BY DEF IsLayout, TlvForms, OpenChannel_tlvs
  <1>4. /\ IsLayout(QueryChannelRange_tlvs, 1, TlvForms) /\ DOMAIN QueryChannelRange_tlvs = {1}
        /\ QueryChannelRange_tlvs[1][1] = 1
    BY DEF IsLayout, TlvForms, QueryChannelRange_tlvs
  <1>5. /\ IsLayout(ReplyChannelRange_tlvs, 2, TlvForms) /\ DOMAIN ReplyChannelRange_tlvs = {1, 2}
        /\ ReplyChannelRange_tlvs[1][1] = 1 /\ ReplyChannelRange_tlvs[2][1] = 3
    BY DEF IsLayout, TlvForms, ReplyChannelRange_tlvs
  <1>6. tlvs_of(t) \in {Init_tlvs, OpenChannel_tlvs, QueryChannelRange_tlvs, ReplyChannelRange_tlvs}
    BY DEF has_tlvs, tlvs_of, INIT, OPEN_CHANNEL, QUERY_CHANNEL_RANGE, REPLY_CHANNEL_RANGE
  <1>7. QED
    BY <1>1, <1>2, <1>3, <1>4, <1>5, <1>6

\* A name stands for one field.
LEMMA NamesIs ==
  ASSUME NEW l, NEW n, NEW F, IsLayout(l, n, F)
  PROVE  /\ names_of(l) = {l[i][1] : i \in 1..n}
         /\ \A i \in 1..n : l[i][1] \in names_of(l) /\ form_of(l, l[i][1]) = l[i][2]
         /\ \A x \in names_of(l) : form_of(l, x) \in F
  <1>1. names_of(l) = {l[i][1] : i \in 1..n}
    BY DEF IsLayout, names_of
  <1>2. ASSUME NEW i \in 1..n
        PROVE  form_of(l, l[i][1]) = l[i][2]
    <2> DEFINE c == CHOOSE j \in DOMAIN l : l[j][1] = l[i][1]
    <2>1. c \in 1..n /\ l[c][1] = l[i][1]
      BY DEF IsLayout
    <2>2. form_of(l, l[i][1]) = l[c][2]
      BY DEF form_of
    <2> HIDE DEF c
    <2>3. c = i
      BY <2>1 DEF IsLayout
    <2>4. QED
      BY <2>2, <2>3
  <1>3. QED
    BY <1>1, <1>2 DEF IsLayout

------------------------------------------------------------------------------
(* The fields of a message, written and read.                               *)

\* No part is longer than the whole.
LEMMA FlatPart ==
  ASSUME NEW n \in Nat, NEW s \in [1..n -> Str], NEW i \in 1..n
  PROVE  Len(s[i]) <= Len(FlattenSeq(s)) /\ Len(s[i]) \in Nat /\ Len(FlattenSeq(s)) \in Nat
  <1> DEFINE a == [j \in 1..i |-> s[j]]
             z == [j \in 1..(n - i) |-> s[j + i]]
             p == [j \in 1..(i - 1) |-> a[j]]
  <1>1. i \in 0..n /\ i \in Nat /\ n - i \in Nat /\ i - 1 \in Nat /\ i > 0
    OBVIOUS
  <1>2. a \in [1..i -> Str] /\ z \in [1..(n - i) -> Str] /\ p \in [1..(i - 1) -> Str] /\ a[i] = s[i]
    OBVIOUS
  <1>3. FlattenSeq(s) = FlattenSeq(a) \o FlattenSeq(z)
    BY <1>1, FlatSplit
  <1> HIDE DEF z
  <1>4. FlattenSeq(a) = FlattenSeq(p) \o a[i]
    <2>1. a \in [1..i -> Str] /\ i > 0 /\ i \in Nat
      BY <1>1, <1>2
    <2> HIDE DEF a
    <2>2. FlattenSeq(a) = FlattenSeq([j \in 1..(i - 1) |-> a[j]]) \o a[i]
      BY <2>1, FlatLast, Zenon
    <2>3. QED
      BY <2>2
  <1> HIDE DEF a, p
  <1>5. FlattenSeq(a) \in Str /\ FlattenSeq(z) \in Str /\ FlattenSeq(p) \in Str /\ s[i] \in Str
    BY <1>1, <1>2, FlatIs
  <1>6. /\ Len(FlattenSeq(s)) = Len(FlattenSeq(a)) + Len(FlattenSeq(z))
        /\ Len(FlattenSeq(a)) = Len(FlattenSeq(p)) + Len(s[i])
        /\ Len(FlattenSeq(a)) \in Nat /\ Len(FlattenSeq(z)) \in Nat /\ Len(FlattenSeq(p)) \in Nat
        /\ Len(s[i]) \in Nat
    BY <1>2, <1>3, <1>4, <1>5, StrConcat
  <1>7. QED
    BY <1>6

\* The bytes of the fields, one by one.
Parts(l, f, n) == [i \in 1..n |-> write(l[i][2], f[l[i][1]])]

\* The fields of a message are written as the concatenation of their parts.
LEMMA PartsIs ==
  ASSUME NEW l, NEW n, IsLayout(l, n, Forms), NEW f, FieldsFit(l, f)
  PROVE  /\ \A i \in 1..n : f[l[i][1]] \in Value(l[i][2])
         /\ Parts(l, f, n) \in [1..n -> Str]
         /\ write_fields(l, f) = FlattenSeq(Parts(l, f, n)) /\ write_fields(l, f) \in Str
         /\ Len(write_fields(l, f)) \in Nat /\ Len(write_fields(l, f)) >= 1
         /\ \A i \in 1..n : Len(Parts(l, f, n)[i]) <= Len(write_fields(l, f))
  <1>0. n \in Nat /\ n >= 1 /\ DOMAIN l = 1..n /\ \A i \in 1..n : l[i][2] \in Forms
    BY DEF IsLayout
  <1>1. \A i \in 1..n : f[l[i][1]] \in Value(l[i][2])
    BY NamesIs DEF FieldsFit
  <1>2. \A i \in 1..n : /\ write(l[i][2], f[l[i][1]]) \in Str
                        /\ Len(write(l[i][2], f[l[i][1]])) >= 1
    BY <1>0, <1>1, WriteIs
  <1>3. Parts(l, f, n) \in [1..n -> Str] /\ \A i \in 1..n : Len(Parts(l, f, n)[i]) >= 1
    BY <1>2 DEF Parts
  <1>4. write_fields(l, f) = FlattenSeq(Parts(l, f, n))
    BY <1>0 DEF write_fields, Parts
  <1>5. write_fields(l, f) \in Str
    BY <1>0, <1>3, <1>4, FlatIs
  <1>6. \A i \in 1..n : /\ Len(Parts(l, f, n)[i]) <= Len(write_fields(l, f))
                        /\ Len(Parts(l, f, n)[i]) \in Nat /\ Len(write_fields(l, f)) \in Nat
    BY <1>0, <1>3, <1>4, FlatPart
  <1>7. 1 \in 1..n
    BY <1>0
  <1>8. QED
    BY <1>1, <1>3, <1>4, <1>5, <1>6, <1>7

\* One turn of read_fields.
FieldTurn(l, r, i) ==
  IF r.err # "" THEN r
  ELSE IF read(l[i][2], r.rest).err # "" THEN read(l[i][2], r.rest)
  ELSE Ok(with_field(r.val, l[i][1], read(l[i][2], r.rest).val), read(l[i][2], r.rest).rest)

IsReading(g, l, n, d) ==
  g[0] = Ok(<<>>, d) /\ \A i \in 1..n : g[i] = FieldTurn(l, g[i - 1], i)

\* The recursive function in read_fields satisfies its equations.
LEMMA ReadingIs ==
  ASSUME NEW l, NEW n \in Nat, Len(l) = n, NEW d
  PROVE  \E g : IsReading(g, l, n, d) /\ read_fields(l, d) = g[n]
  <1> DEFINE Eq(f, k) == f = [i \in 0..k |-> IF i = 0 THEN Ok(<<>>, d) ELSE FieldTurn(l, f[i - 1], i)]
             T == {k \in 0..n : \E f : Eq(f, k)}
             V == CHOOSE f : Eq(f, n)
  <1>1. read_fields(l, d) = V[n]
    <2>1. read_fields(l, d)
            = (CHOOSE f : f = [i \in 0..Len(l) |->
                 IF i = 0 THEN Ok(<<>>, d)
                 ELSE IF f[i - 1].err # "" THEN f[i - 1]
                 ELSE IF read(l[i][2], f[i - 1].rest).err # "" THEN read(l[i][2], f[i - 1].rest)
                 ELSE Ok(with_field(f[i - 1].val, l[i][1], read(l[i][2], f[i - 1].rest).val),
                         read(l[i][2], f[i - 1].rest).rest)])[Len(l)]
      BY Zenon DEF read_fields, AndThen
    <2>2. QED
      BY <2>1, Zenon DEF FieldTurn
  <1>2. 0 \in T
    <2>1. Eq([i \in 0..0 |-> Ok(<<>>, d)], 0)
      <3>1. \A i \in 0..0 : i = 0
        OBVIOUS
      <3>2. QED
        BY <3>1
    <2>2. 0 \in 0..n
      OBVIOUS
    <2> HIDE DEF Eq
    <2>3. QED
      BY <2>1, <2>2
  <1>3. ASSUME NEW k \in 0..(n - 1), k \in T
        PROVE  k + 1 \in T
    <2>1. PICK f : Eq(f, k)
      BY <1>3
    <2>2. \A i \in 0..k : f[i] = IF i = 0 THEN Ok(<<>>, d) ELSE FieldTurn(l, f[i - 1], i)
      BY <2>1
    <2> DEFINE g == [i \in 0..(k + 1) |-> IF i = k + 1 THEN FieldTurn(l, f[k], k + 1) ELSE f[i]]
    <2>3. ASSUME NEW i \in 0..(k + 1)
          PROVE  g[i] = IF i = 0 THEN Ok(<<>>, d) ELSE FieldTurn(l, g[i - 1], i)
      <3>1. CASE i = k + 1
        <4>1. i # 0 /\ i - 1 = k /\ k \in 0..(k + 1) /\ k # k + 1
          BY <3>1
        <4>2. QED
          BY <3>1, <4>1
      <3>2. CASE i # k + 1
        <4>1. i \in 0..k /\ (i # 0 => i - 1 \in 0..(k + 1) /\ i - 1 # k + 1)
          BY <3>2
        <4>2. QED
          BY <2>2, <3>2, <4>1
      <3>3. QED
        BY <3>1, <3>2
    <2>4. Eq(g, k + 1)
      BY <2>3
    <2>5. k + 1 \in 0..n
      OBVIOUS
    <2> HIDE DEF Eq
    <2>6. QED
      BY <2>4, <2>5
  <1> HIDE DEF T
  <1>4. \A k \in 0..n : k \in T
    BY <1>2, <1>3, Induction
  <1>5. Eq(V, n)
    <2>1. \E f : Eq(f, n)
      BY <1>4 DEF T
    <2> HIDE DEF Eq
    <2>2. QED
      BY <2>1
  <1> HIDE DEF V
  <1>6. IsReading(V, l, n, d)
    <2>1. \A i \in 0..n : V[i] = IF i = 0 THEN Ok(<<>>, d) ELSE FieldTurn(l, V[i - 1], i)
      BY <1>5
    <2>2. 0 \in 0..n /\ \A i \in 1..n : i \in 0..n /\ i # 0
      OBVIOUS
    <2>3. QED
      BY <2>1, <2>2 DEF IsReading
  <1>7. QED
    BY <1>1, <1>6

\* A turn on a result, by what the next field's bytes say.
LEMMA FieldTurnIs ==
  ASSUME NEW l, NEW i, NEW f, NEW y
  PROVE  /\ ~Good(read(l[i][2], y)) => ~Good(FieldTurn(l, Ok(f, y), i))
         /\ \A v, z : read(l[i][2], y) = Ok(v, z)
                        => FieldTurn(l, Ok(f, y), i) = Ok(with_field(f, l[i][1], v), z)
  <1> DEFINE r == Ok(f, y)
             q == read(l[i][2], y)
  <1>1. r.err = "" /\ r.val = f /\ r.rest = y
    BY OkIs
  <1>2. FieldTurn(l, r, i) = IF r.err # "" THEN r
                             ELSE IF read(l[i][2], r.rest).err # "" THEN read(l[i][2], r.rest)
                             ELSE Ok(with_field(r.val, l[i][1], read(l[i][2], r.rest).val),
                                     read(l[i][2], r.rest).rest)
    BY Zenon DEF FieldTurn
  <1> HIDE DEF r
  <1>3. FieldTurn(l, r, i) = IF q.err # "" THEN q ELSE Ok(with_field(f, l[i][1], q.val), q.rest)
    BY <1>1, <1>2
  <1> HIDE DEF q
  <1>4. ~Good(q) => ~Good(FieldTurn(l, r, i))
    BY <1>3 DEF Good
  <1>5. ASSUME NEW v, NEW z, q = Ok(v, z)
        PROVE  FieldTurn(l, r, i) = Ok(with_field(f, l[i][1], v), z)
    <2>1. Ok(v, z).err = "" /\ Ok(v, z).val = v /\ Ok(v, z).rest = z
      BY OkIs
    <2>2. q.err = "" /\ q.val = v /\ q.rest = z
      BY <1>5, <2>1, Zenon
    <2>3. QED
      BY <1>3, <2>2
  <1>6. QED
    BY <1>4, <1>5 DEF r, q

\* The names of the first i fields.
First(l, i) == {l[j][1] : j \in 1..i}

\* f has the first i fields.
HasFirst(f, l, i) == f = [x \in First(l, i) |-> f[x]]

\* The names of the first i fields, one more at a time.
LEMMA FirstIs ==
  ASSUME NEW l, NEW n, NEW F, IsLayout(l, n, F), NEW i \in 0..(n - 1)
  PROVE  /\ First(l, i + 1) = First(l, i) \cup {l[i + 1][1]}
         /\ l[i + 1][1] \notin First(l, i) /\ First(l, n) = names_of(l)
  <1>1. n \in Nat /\ i + 1 \in 1..n /\ \A j \in 1..i : j \in 1..n /\ j # i + 1
    BY DEF IsLayout
  <1>2. \A j : j \in 1..(i + 1) <=> j \in 1..i \/ j = i + 1
    BY <1>1
  <1>3. First(l, i + 1) = First(l, i) \cup {l[i + 1][1]}
    BY <1>2 DEF First
  <1>4. l[i + 1][1] \notin First(l, i)
    BY <1>1 DEF First, IsLayout
  <1>5. First(l, n) = names_of(l)
    BY NamesIs DEF First
  <1>6. QED
    BY <1>3, <1>4, <1>5

\* Before the first field nothing was read.
LEMMA NoFields ==
  ASSUME NEW l, NEW f
  PROVE  [x \in First(l, 0) |-> f[x]] = <<>> /\ HasFirst(<<>>, l, 0)
  <1>1. First(l, 0) = 1..0
    BY DEF First
  <1>2. \A g : [x \in 1..0 |-> g[x]] = <<>>
    OBVIOUS
  <1>3. QED
    BY <1>1, <1>2 DEF HasFirst

\* One field more.
LEMMA WithField ==
  ASSUME NEW l, NEW n, NEW F, IsLayout(l, n, F), NEW i \in 0..(n - 1), NEW f, HasFirst(f, l, i), NEW v
  PROVE  LET g == with_field(f, l[i + 1][1], v)
         IN  /\ HasFirst(g, l, i + 1) /\ g[l[i + 1][1]] = v
             /\ \A j \in 1..i : g[l[j][1]] = f[l[j][1]]
  <1> DEFINE x == l[i + 1][1]
             g == with_field(f, x, v)
  <1>1. DOMAIN f = First(l, i) /\ First(l, i + 1) = First(l, i) \cup {x} /\ x \notin First(l, i)
    BY FirstIs DEF HasFirst
  <1> HIDE DEF x
  <1>2. g = [y \in First(l, i + 1) |-> IF y = x THEN v ELSE f[y]]
    BY <1>1 DEF with_field
  <1>3. \A j \in 1..i : l[j][1] \in First(l, i)
    BY DEF First
  <1> HIDE DEF g
  <1>4. g = [y \in First(l, i + 1) |-> g[y]] /\ g[x] = v /\ \A j \in 1..i : g[l[j][1]] = f[l[j][1]]
    BY <1>1, <1>2, <1>3
  <1>5. QED
    BY <1>4 DEF HasFirst, g, x

\* The fields that were written are read back, and what follows them is left.
LEMMA FieldsOf ==
  ASSUME NEW l, NEW n, IsLayout(l, n, Forms), NEW f, FieldsFit(l, f),
         \A i \in 1..n : OnWire(l[i][2], f[l[i][1]]), NEW y \in Str
  PROVE  read_fields(l, write_fields(l, f) \o y) = Ok(f, y)
  <1> DEFINE s == Parts(l, f, n)
             d == write_fields(l, f) \o y
             Some(i) == [x \in First(l, i) |-> f[x]]
  <1>1. n \in Nat /\ n >= 1 /\ Len(l) = n /\ \A i \in 1..n : l[i][2] \in Forms
    BY DEF IsLayout
  <1>2. s \in [1..n -> Str] /\ write_fields(l, f) = FlattenSeq(s)
    BY PartsIs
  <1>3. \A i \in 1..n : s[i] = write(l[i][2], f[l[i][1]])
    BY DEF Parts
  <1> HIDE DEF s
  <1>4. PICK h : IsChain(h, s, n) /\ h[n] = y /\ h[0] = d
    BY <1>1, <1>2, ChainExists
  <1> HIDE DEF d
  <1>5. PICK g : IsReading(g, l, n, d) /\ read_fields(l, d) = g[n]
    BY <1>1, ReadingIs
  <1> DEFINE T == {i \in 0..n : g[i] = Ok(Some(i), h[i])}
  <1>6. 0 \in T
    <2>1. Some(0) = <<>>
      BY NoFields
    <2>2. g[0] = Ok(<<>>, d)
      BY <1>5 DEF IsReading
    <2>3. 0 \in 0..n
      BY <1>1
    <2> HIDE DEF Some
    <2>4. QED
      BY <1>4, <2>1, <2>2, <2>3
  <1>7. ASSUME NEW i \in 0..(n - 1), i \in T
        PROVE  i + 1 \in T
    <2>1. i + 1 \in 1..n /\ i + 1 \in 0..n /\ (i + 1) - 1 = i
      BY <1>1
    <2>2. h[i] = s[i + 1] \o h[i + 1] /\ h[i + 1] \in Str
      BY <1>4, <2>1 DEF IsChain
    <2> DEFINE x == l[i + 1][1]
               form == l[i + 1][2]
    <2>3. form \in Forms /\ OnWire(form, f[x]) /\ s[i + 1] = write(form, f[x])
      BY <1>1, <1>3, <2>1
    <2>4. read(form, h[i]) = Ok(f[x], h[i + 1])
      <3> HIDE DEF form, x
      <3>1. read(form, write(form, f[x]) \o h[i + 1]) = Ok(f[x], h[i + 1])
        BY <2>2, <2>3, ReadFormOf
      <3>2. QED
        BY <2>2, <2>3, <3>1
    <2>5. g[i] = Ok(Some(i), h[i]) /\ g[i + 1] = FieldTurn(l, g[i], i + 1)
      BY <1>5, <1>7, <2>1 DEF IsReading
    <2>6. with_field(Some(i), x, f[x]) = Some(i + 1)
      <3>1. First(l, i + 1) = First(l, i) \cup {x} /\ x \notin First(l, i)
        BY FirstIs
      <3> HIDE DEF x
      <3>2. QED
        BY <3>1 DEF with_field
    <2>7. FieldTurn(l, Ok(Some(i), h[i]), i + 1) = Ok(with_field(Some(i), x, f[x]), h[i + 1])
      <3> HIDE DEF Some
      <3>1. QED
        BY <2>4, FieldTurnIs
    <2> HIDE DEF Some, x
    <2>8. g[i + 1] = Ok(Some(i + 1), h[i + 1])
      BY <2>5, <2>6, <2>7
    <2>9. QED
      BY <2>1, <2>8
  <1> HIDE DEF T
  <1>8. n \in T
    <2>1. \A i \in 0..n : i \in T
      BY <1>1, <1>6, <1>7, Induction
    <2>2. QED
      BY <1>1, <2>1
  <1>9. Some(n) = f
    BY NamesIs DEF First, FieldsFit
  <1> HIDE DEF Some
  <1>10. QED
    BY <1>4, <1>5, <1>8, <1>9 DEF T, d

\* The first i fields of d are those of f, and y is what follows them.
FirstRead(f, y, l, i, d) ==
  /\ HasFirst(f, l, i) /\ y \in Str
  /\ \A j \in 1..i : OnWire(l[j][2], f[l[j][1]])
  /\ d = FlattenSeq(Parts(l, f, i)) \o y

\* The bytes of the first fields.
LEMMA FirstParts ==
  ASSUME NEW l, NEW n, IsLayout(l, n, Forms), NEW i \in 0..n, NEW f,
         \A j \in 1..i : OnWire(l[j][2], f[l[j][1]])
  PROVE  Parts(l, f, i) \in [1..i -> Str]
  <1>1. \A j \in 1..i : l[j][2] \in Forms /\ f[l[j][1]] \in Value(l[j][2])
    BY DEF IsLayout, OnWire
  <1>2. \A j \in 1..i : write(l[j][2], f[l[j][1]]) \in Str
    BY <1>1, WriteIs
  <1>3. QED
    BY <1>2 DEF Parts

\* One more field was read.
LEMMA FirstReadNext ==
  ASSUME NEW l, NEW n, IsLayout(l, n, Forms), NEW d \in Str, NEW i \in 0..(n - 1),
         NEW f, NEW y, FirstRead(f, y, l, i, d), NEW v, NEW z, ReadAs(l[i + 1][2], y, v, z)
  PROVE  FirstRead(with_field(f, l[i + 1][1], v), z, l, i + 1, d)
  <1> DEFINE x == l[i + 1][1]
             g == with_field(f, x, v)
             p == Parts(l, f, i)
             q == Parts(l, g, i + 1)
             w == write(l[i + 1][2], v)
  <1>1. /\ n \in Nat /\ i \in Nat /\ i + 1 \in Nat /\ i \in 0..n /\ i + 1 \in 0..n /\ i + 1 > 0
        /\ (i + 1) - 1 = i
        /\ \A j \in 1..(i + 1) : j \in 1..i \/ j = i + 1
    BY DEF IsLayout
  <1>2. HasFirst(g, l, i + 1) /\ g[x] = v /\ \A j \in 1..i : g[l[j][1]] = f[l[j][1]]
    <2>1. HasFirst(f, l, i)
      BY DEF FirstRead
    <2>2. QED
      BY <2>1, WithField
  <1>3. /\ y \in Str /\ d = FlattenSeq(p) \o y
        /\ \A j \in 1..i : OnWire(l[j][2], f[l[j][1]])
    BY DEF FirstRead
  <1>4. OnWire(l[i + 1][2], v) /\ z \in Str /\ y = w \o z
    BY DEF ReadAs
  <1> HIDE DEF g
  <1>5. ASSUME NEW j \in 1..(i + 1)
        PROVE  OnWire(l[j][2], g[l[j][1]])
    <2>1. CASE j = i + 1
      BY <1>2, <1>4, <2>1
    <2>2. CASE j \in 1..i
      BY <1>2, <1>3, <2>2
    <2>3. QED
      BY <1>1, <2>1, <2>2
  <1>6. p \in [1..i -> Str] /\ q \in [1..(i + 1) -> Str]
    <2> HIDE DEF p, q, x
    <2>1. p \in [1..i -> Str]
      BY <1>1, <1>3, FirstParts DEF p
    <2>2. q \in [1..(i + 1) -> Str]
      BY <1>1, <1>5, FirstParts DEF q
    <2>3. QED
      BY <2>1, <2>2
  <1>7. q[i + 1] = w /\ [j \in 1..i |-> q[j]] = p
    <2>1. i + 1 \in 1..(i + 1) /\ \A j \in 1..i : j \in 1..(i + 1)
      BY <1>1
    <2>2. \A j \in 1..i : q[j] = p[j]
      BY <1>2, <2>1 DEF Parts
    <2>3. q[i + 1] = w
      BY <1>2, <2>1 DEF Parts
    <2>4. p = [j \in 1..i |-> p[j]]
      BY DEF Parts
    <2> HIDE DEF p, q, w
    <2>5. QED
      BY <2>2, <2>3, <2>4
  <1> HIDE DEF p, q, w, x
  <1>8. FlattenSeq(q) = FlattenSeq(p) \o w
    <2>1. FlattenSeq(q) = FlattenSeq([j \in 1..((i + 1) - 1) |-> q[j]]) \o q[i + 1]
      BY <1>1, <1>6, FlatLast
    <2>2. [j \in 1..((i + 1) - 1) |-> q[j]] = p
      BY <1>1, <1>7
    <2>3. QED
      BY <1>7, <2>1, <2>2
  <1>9. FlattenSeq(p) \in Str /\ w \in Str
    <2>1. FlattenSeq(p) \in Str
      BY <1>1, <1>6, FlatIs
    <2>2. w = q[i + 1] /\ i + 1 \in 1..(i + 1)
      BY <1>1, <1>7
    <2>3. QED
      BY <1>6, <2>1, <2>2
  <1>10. d = FlattenSeq(q) \o z
    <2> DEFINE a == FlattenSeq(p)
    <2>1. a \in Str /\ w \in Str /\ z \in Str
      BY <1>4, <1>9
    <2>2. d = a \o (w \o z) /\ FlattenSeq(q) = a \o w
      BY <1>3, <1>4, <1>8
    <2> HIDE DEF a
    <2>3. (a \o w) \o z = a \o (w \o z)
      BY <2>1, StrAssoc
    <2>4. QED
      BY <2>2, <2>3
  <1>11. QED
    BY <1>2, <1>4, <1>5, <1>10 DEF FirstRead, g, x, q

\* Fields that are read are those of a message, and were written by it.
FieldsAs(l, n, d, f, y) ==
  /\ FieldsFit(l, f) /\ y \in Str
  /\ \A i \in 1..n : OnWire(l[i][2], f[l[i][1]])
  /\ d = write_fields(l, f) \o y /\ read_fields(l, d) = Ok(f, y)

\* Fields that are read are those that were written, and what is left follows them.
LEMMA FieldsIs ==
  ASSUME NEW l, NEW n, IsLayout(l, n, Forms), NEW d \in Str, Good(read_fields(l, d))
  PROVE  \E f, y : FieldsAs(l, n, d, f, y)
  <1>1. n \in Nat /\ n >= 1 /\ Len(l) = n /\ DOMAIN l = 1..n /\ \A i \in 1..n : l[i][2] \in Forms
    BY DEF IsLayout
  <1>2. PICK g : IsReading(g, l, n, d) /\ read_fields(l, d) = g[n]
    BY <1>1, ReadingIs
  <1> DEFINE P(i) == \E f, y : g[i] = Ok(f, y) /\ FirstRead(f, y, l, i, d)
             T == {i \in 0..n : Good(g[i]) => P(i)}
  <1>3. 0 \in T
    <2>1. g[0] = Ok(<<>>, d) /\ 0 \in 0..n
      BY <1>1, <1>2 DEF IsReading
    <2>2. FirstRead(<<>>, d, l, 0, d)
      <3>1. HasFirst(<<>>, l, 0) /\ \A j \in 1..0 : FALSE
        <4>1. \A j \in 1..0 : FALSE
          OBVIOUS
        <4>2. HasFirst(<<>>, l, 0)
          BY NoFields, Zenon
        <4>3. QED
          BY <4>1, <4>2
      <3>2. Parts(l, <<>>, 0) = <<>>
        BY DEF Parts
      <3>3. d = <<>> \o d
        BY StrEmpty
      <3>4. QED
        BY <3>1, <3>2, <3>3, FlatEmpty DEF FirstRead
    <2>3. P(0)
      BY <2>1, <2>2
    <2> HIDE DEF P
    <2>4. QED
      BY <2>1, <2>3
  <1>4. ASSUME NEW i \in 0..(n - 1), i \in T
        PROVE  i + 1 \in T
    <2>1. i + 1 \in 1..n /\ i + 1 \in 0..n /\ (i + 1) - 1 = i
      BY <1>1
    <2>2. g[i + 1] = FieldTurn(l, g[i], i + 1)
      BY <1>2, <2>1 DEF IsReading
    <2>3. ASSUME Good(g[i + 1])
          PROVE  P(i + 1)
      <3>1. Good(g[i])
        BY <2>2, <2>3 DEF FieldTurn, Good
      <3>2. PICK f, y : g[i] = Ok(f, y) /\ FirstRead(f, y, l, i, d)
        BY <1>4, <3>1
      <3>3. Good(read(l[i + 1][2], y))
        BY <2>2, <2>3, <3>2, FieldTurnIs
      <3>4. l[i + 1][2] \in Forms /\ y \in Str
        BY <1>1, <2>1, <3>2 DEF FirstRead
      <3>5. PICK v, z : ReadAs(l[i + 1][2], y, v, z)
        <4> HIDE DEF P
        <4>1. QED
          BY <3>3, <3>4, ReadFormIs
      <3>6. g[i + 1] = Ok(with_field(f, l[i + 1][1], v), z)
        <4>1. read(l[i + 1][2], y) = Ok(v, z)
          BY <3>5 DEF ReadAs
        <4>2. QED
          BY <2>2, <3>2, <4>1, FieldTurnIs
      <3>7. FirstRead(with_field(f, l[i + 1][1], v), z, l, i + 1, d)
        BY <3>2, <3>5, FirstReadNext
      <3>8. QED
        BY <3>6, <3>7
    <2> HIDE DEF P
    <2>4. QED
      BY <2>1, <2>3
  <1> HIDE DEF T
  <1>5. n \in T
    <2>1. \A i \in 0..n : i \in T
      BY <1>1, <1>3, <1>4, Induction
    <2>2. QED
      BY <1>1, <2>1
  <1>6. P(n)
    BY <1>2, <1>5 DEF T
  <1>7. PICK f, y : g[n] = Ok(f, y) /\ FirstRead(f, y, l, n, d)
    BY <1>6
  <1>8. FieldsFit(l, f)
    <2>1. First(l, n) = names_of(l) /\ names_of(l) = {l[i][1] : i \in 1..n}
      BY NamesIs DEF First
    <2>2. \A i \in 1..n : f[l[i][1]] \in Value(form_of(l, l[i][1]))
      BY <1>7, NamesIs DEF FirstRead, OnWire
    <2>3. QED
      BY <1>7, <2>1, <2>2 DEF FieldsFit, FirstRead, HasFirst
  <1>9. write_fields(l, f) = FlattenSeq(Parts(l, f, n))
    BY <1>8, PartsIs
  <1>10. QED
    BY <1>2, <1>7, <1>8, <1>9 DEF FieldsAs, FirstRead

------------------------------------------------------------------------------
(* The values of the optional records.                                      *)

\* The hashes in the bytes of a networks record.
Hashes(x) == [i \in 1..(Len(x) \div HASH_SIZE) |-> SubSeq(x, (i - 1) * HASH_SIZE + 1, i * HASH_SIZE)]

\* read_tlv and write_tlv, form by form.
LEMMA TlvForm ==
  ASSUME NEW v
  PROVE  /\ read_tlv("raw", v) = Ok(v, <<>>) /\ read_tlv("bigsize", v) = BigSize_read(v)
         /\ read_tlv("hashes", v) = IF Len(v) % HASH_SIZE # 0 THEN Err("Truncated")
                                    ELSE Ok(Hashes(v), <<>>)
         /\ write_tlv("raw", v) = v /\ write_tlv("bigsize", v) = BigSize_write(v)
         /\ write_tlv("hashes", v) = FlattenSeq(v)
         /\ v \in TlvValue("raw") <=> v \in Str /\ Len(v) \in Uint(U64)
         /\ v \in TlvValue("bigsize") <=> v \in Uint(U64)
         /\ v \in TlvValue("hashes") <=>
              v \in Seq(Array(HASH_SIZE)) /\ Len(v) * HASH_SIZE \in Uint(U64)
  <1>1. /\ read_tlv("raw", v) = Ok(v, <<>>) /\ read_tlv("bigsize", v) = BigSize_read(v)
        /\ read_tlv("hashes", v) = IF Len(v) % HASH_SIZE # 0 THEN Err("Truncated")
                                   ELSE Ok(Hashes(v), <<>>)
    BY DEF read_tlv, Hashes
  <1>2. /\ write_tlv("raw", v) = v /\ write_tlv("bigsize", v) = BigSize_write(v)
        /\ write_tlv("hashes", v) = FlattenSeq(v)
    BY DEF write_tlv
  <1>3. /\ v \in TlvValue("raw") <=> v \in Str /\ Len(v) \in Uint(U64)
        /\ v \in TlvValue("bigsize") <=> v \in Uint(U64)
        /\ v \in TlvValue("hashes") <=>
             v \in Seq(Array(HASH_SIZE)) /\ Len(v) * HASH_SIZE \in Uint(U64)
    BY DEF TlvValue, Bytes, Str
  <1>4. QED
    BY <1>1, <1>2, <1>3

\* A list of hashes and its bytes.
LEMMA HashesIs ==
  ASSUME NEW v \in Seq(Array(HASH_SIZE))
  PROVE  /\ FlattenSeq(v) \in Str /\ Len(FlattenSeq(v)) = Len(v) * HASH_SIZE
         /\ Len(FlattenSeq(v)) % HASH_SIZE = 0 /\ Hashes(FlattenSeq(v)) = v
  <1> DEFINE k == Len(v)
             m == HASH_SIZE
             x == FlattenSeq(v)
  <1>0. m \in Nat \ {0} /\ m \in Nat
    BY SizeAssumption
  <1>1. k \in Nat /\ v \in [1..k -> Str] /\ \A i \in 1..k : Len(v[i]) = m
    BY DEF Array, Str
  <1> HIDE DEF k, m
  <1>2. x \in Str
    BY <1>1, FlatIs
  <1>3. Len(x) = k * m
    BY <1>0, <1>1, FlatLen
  <1>4. (m * k + 0) \div m = k /\ (m * k + 0) % m = 0 /\ m * k + 0 = k * m
    <2>1. 0 \in 0..(m - 1)
      BY <1>0
    <2>2. (m * k + 0) \div m = k /\ (m * k + 0) % m = 0
      BY <1>0, <1>1, <2>1, DivMod
    <2>3. m * k + 0 = k * m
      BY <1>0, <1>1
    <2>4. QED
      BY <2>2, <2>3
  <1>5. Len(x) \div m = k /\ Len(x) % m = 0
    BY <1>3, <1>4
  <1>6. \A i \in 1..k : SubSeq(x, (i - 1) * m + 1, i * m) = v[i]
    BY <1>0, <1>1, FlatChunk
  <1> HIDE DEF x
  <1>7. Hashes(x) = [i \in 1..k |-> SubSeq(x, (i - 1) * m + 1, i * m)]
    BY <1>5, Zenon DEF Hashes, m
  <1>8. Hashes(x) = v
    BY <1>1, <1>6, <1>7
  <1>9. QED
    BY <1>2, <1>3, <1>5, <1>8 DEF k, m, x

\* A string is the concatenation of the hashes in it.
LEMMA HashesOf ==
  ASSUME NEW x \in Str, Len(x) % HASH_SIZE = 0
  PROVE  /\ Hashes(x) \in Seq(Array(HASH_SIZE)) /\ FlattenSeq(Hashes(x)) = x
         /\ Len(Hashes(x)) * HASH_SIZE = Len(x)
  <1> DEFINE m == HASH_SIZE
             n == Len(x) \div m
  <1>0. m \in Nat \ {0} /\ m \in Nat /\ Len(x) \in Nat
    BY SizeAssumption, StrEmpty
  <1>1. n \in Nat /\ Len(x) = n * m
    <2>1. Len(x) \div m \in Nat /\ Len(x) = m * (Len(x) \div m) + (Len(x) % m)
      BY <1>0, Quotient
    <2>2. \A a \in Nat : m * a + 0 = a * m
      BY <1>0
    <2>3. Len(x) % m = 0
      OBVIOUS
    <2> HIDE DEF m
    <2>4. n \in Nat /\ Len(x) = m * n + 0
      BY <2>1, <2>3
    <2> HIDE DEF n
    <2>5. QED
      BY <2>2, <2>4
  <1> HIDE DEF n, m
  <1> DEFINE c == Chunk(x, n, m)
  <1>2. Hashes(x) = c
    BY Zenon DEF Hashes, Chunk, n, m
  <1>3. c \in [1..n -> Str] /\ (\A i \in 1..n : Len(c[i]) = m) /\ FlattenSeq(c) = x
    BY <1>0, <1>1, Chunks
  <1> HIDE DEF c
  <1>4. c \in [1..n -> Array(m)]
    BY <1>3 DEF Array, Str
  <1>5. c \in Seq(Array(m)) /\ Len(c) = n
    BY <1>1, <1>4, FunctionIsSeq
  <1>6. QED
    BY <1>1, <1>2, <1>3, <1>5 DEF m

\* What a record's value was written for is what it means.
LEMMA TlvOf ==
  ASSUME NEW form \in TlvForms, NEW v \in TlvValue(form)
  PROVE  /\ write_tlv(form, v) \in Str /\ Len(write_tlv(form, v)) \in Uint(U64)
         /\ Good(read_tlv(form, write_tlv(form, v))) /\ read_tlv(form, write_tlv(form, v)).val = v
  <1>1. CASE form = "raw"
    <2>1. v \in Str /\ Len(v) \in Uint(U64) /\ write_tlv(form, v) = v
      BY <1>1, TlvForm
    <2>2. read_tlv(form, v) = Ok(v, <<>>)
      BY <1>1, TlvForm
    <2>3. Good(Ok(v, <<>>)) /\ Ok(v, <<>>).val = v
      BY OkIs
    <2>4. QED
      BY <2>1, <2>2, <2>3
  <1>2. CASE form = "bigsize"
    <2>1. v \in Uint(U64) /\ write_tlv(form, v) = BigSize_write(v)
      BY <1>2, TlvForm
    <2>2. BigSize_write(v) \in Str /\ Len(BigSize_write(v)) \in Uint(U64)
      BY <2>1, BigSizeStr, BigSizeShort
    <2>3. BigSize_read(BigSize_write(v) \o <<>>) = Ok(v, <<>>)
      BY <2>1, BigSizeOf, StrEmpty
    <2>4. read_tlv(form, BigSize_write(v)) = Ok(v, <<>>)
      BY <1>2, <2>2, <2>3, TlvForm, StrEmpty
    <2>5. Good(Ok(v, <<>>)) /\ Ok(v, <<>>).val = v
      BY OkIs
    <2>6. QED
      BY <2>1, <2>2, <2>4, <2>5
  <1>3. CASE form = "hashes"
    <2> DEFINE x == FlattenSeq(v)
    <2>1. v \in Seq(Array(HASH_SIZE)) /\ Len(v) * HASH_SIZE \in Uint(U64) /\ write_tlv(form, v) = x
      BY <1>3, TlvForm
    <2>2. x \in Str /\ Len(x) \in Uint(U64) /\ Len(x) % HASH_SIZE = 0 /\ Hashes(x) = v
      BY <2>1, HashesIs
    <2> HIDE DEF x
    <2>3. read_tlv(form, x) = Ok(v, <<>>)
      BY <1>3, <2>2, TlvForm
    <2>4. Good(Ok(v, <<>>)) /\ Ok(v, <<>>).val = v
      BY OkIs
    <2>5. QED
      BY <2>1, <2>2, <2>3, <2>4
  <1>4. QED
    BY <1>1, <1>2, <1>3 DEF TlvForms

\* A record's value that can be read is what its meaning is written as, or longer.
LEMMA TlvIs ==
  ASSUME NEW form \in TlvForms, NEW x \in Str, Len(x) \in Uint(U64), Good(read_tlv(form, x))
  PROVE  \E v \in TlvValue(form) :
           /\ read_tlv(form, x).val = v
           /\ write_tlv(form, v) = x \/ Len(write_tlv(form, v)) < Len(x)
  <1>1. CASE form = "raw"
    <2>1. x \in TlvValue(form) /\ write_tlv(form, x) = x /\ read_tlv(form, x) = Ok(x, <<>>)
      BY <1>1, TlvForm
    <2>2. Ok(x, <<>>).val = x
      BY OkIs
    <2>3. read_tlv(form, x).val = x
      BY <2>1, <2>2
    <2>4. QED
      BY <2>1, <2>3
  <1>2. CASE form = "bigsize"
    <2>1. read_tlv(form, x) = BigSize_read(x)
      BY <1>2, TlvForm
    <2>2. PICK v \in Uint(U64), y \in Str : x = BigSize_write(v) \o y /\ BigSize_read(x) = Ok(v, y)
      BY <2>1, BigSizeIs
    <2>3. v \in TlvValue(form) /\ write_tlv(form, v) = BigSize_write(v)
      BY <1>2, TlvForm
    <2>4. Ok(v, y).val = v
      BY OkIs
    <2>5. read_tlv(form, x).val = v
      BY <2>1, <2>2, <2>4
    <2>6. BigSize_write(v) = x \/ Len(BigSize_write(v)) < Len(x)
      <3>1. BigSize_write(v) \in Str /\ y \in Str
        BY BigSizeStr
      <3>2. /\ Len(x) = Len(BigSize_write(v)) + Len(y)
            /\ Len(y) \in Nat /\ Len(BigSize_write(v)) \in Nat
        BY <2>2, <3>1, StrConcat
      <3>3. Len(y) = 0 => x = BigSize_write(v)
        BY <2>2, <3>1, StrEmpty
      <3>4. QED
        BY <3>2, <3>3
    <2>7. QED
      BY <2>3, <2>5, <2>6
  <1>3. CASE form = "hashes"
    <2> DEFINE v == Hashes(x)
    <2>1. read_tlv(form, x) = IF Len(x) % HASH_SIZE # 0 THEN Err("Truncated") ELSE Ok(v, <<>>)
      BY <1>3, TlvForm
    <2>2. Len(x) % HASH_SIZE = 0
      <3>1. ~Good(Err("Truncated"))
        BY ErrIs
      <3> HIDE DEF v
      <3>2. QED
        BY <2>1, <3>1
    <2>3. v \in Seq(Array(HASH_SIZE)) /\ FlattenSeq(v) = x /\ Len(v) * HASH_SIZE = Len(x)
      BY <2>2, HashesOf
    <2> HIDE DEF v
    <2>4. v \in TlvValue(form) /\ write_tlv(form, v) = x
      BY <1>3, <2>3, TlvForm
    <2>5. Ok(v, <<>>).val = v
      BY OkIs
    <2>6. read_tlv(form, x).val = v
      BY <2>1, <2>2, <2>5
    <2>7. QED
      BY <2>4, <2>6
  <1>4. QED
    BY <1>1, <1>2, <1>3 DEF TlvForms

------------------------------------------------------------------------------
(* The stream of a message's optional records.                              *)

\* The records that are present.
TlvRecs(l, o) == {TlvRecord(k, write_tlv(form_of(l, k), o[k])) : k \in DOMAIN o}

\* The record of a type that is present.
LEMMA TlvRec ==
  ASSUME NEW t, has_tlvs(t), NEW o, TlvsFit(tlvs_of(t), o), NEW k \in DOMAIN o
  PROVE  LET form == form_of(tlvs_of(t), k)
             r == TlvRecord(k, write_tlv(form, o[k]))
         IN  /\ form \in TlvForms /\ o[k] \in TlvValue(form) /\ r \in Rec
             /\ r.tlv_type = k /\ r.value = write_tlv(form, o[k]) /\ k \in names_of(tlvs_of(t))
  <1> DEFINE l == tlvs_of(t)
             form == form_of(l, k)
             v == write_tlv(form, o[k])
  <1>1. PICK n : IsLayout(l, n, TlvForms)
    BY TlvLayout
  <1>2. \A i \in DOMAIN l : l[i][1] \in Uint(U64)
    BY TlvLayout
  <1>3. k \in names_of(l) /\ o[k] \in TlvValue(form)
    BY DEF TlvsFit
  <1> HIDE DEF l
  <1>4. form \in TlvForms /\ k \in Uint(U64)
    BY <1>1, <1>2, <1>3, NamesIs DEF names_of
  <1> HIDE DEF form
  <1>5. v \in Str /\ Len(v) \in Uint(U64)
    BY <1>3, <1>4, TlvOf
  <1> HIDE DEF v
  <1>6. TlvRecord(k, v) \in Rec /\ TlvRecord(k, v).tlv_type = k /\ TlvRecord(k, v).value = v
    BY <1>4, <1>5, IsRec
  <1>7. QED
    BY <1>3, <1>4, <1>6 DEF l, form, v

\* to_stream builds the ordered stream of the records that are present.
LEMMA ToStream ==
  ASSUME NEW t, has_tlvs(t), NEW o, TlvsFit(tlvs_of(t), o)
  PROVE  \E m \in Nat : /\ to_stream(t, o) \in [1..m -> Rec] /\ Ordered(to_stream(t, o), m)
                        /\ Contents(to_stream(t, o), m) = TlvRecs(tlvs_of(t), o)
  <1> DEFINE l == tlvs_of(t)
             n == Len(l)
             rec(i) == TlvRecord(l[i][1], write_tlv(l[i][2], o[l[i][1]]))
             recs == [i \in 1..n |-> rec(i)]
             inc == {i \in 1..n : l[i][1] \in DOMAIN o}
             Eq(f) == f = [i \in 0..n |->
                        IF i = 0 THEN <<>>
                        ELSE IF l[i][1] \in DOMAIN o
                               THEN TlvStream_add(f[i - 1], l[i][1], write_tlv(l[i][2], o[l[i][1]]))
                               ELSE f[i - 1]]
             V == CHOOSE f : Eq(f)
  <1>1. to_stream(t, o) = V[n]
    BY Zenon DEF to_stream
  <1>2. IsLayout(l, n, TlvForms) /\ n \in Nat
    <2>1. PICK k : IsLayout(l, k, TlvForms)
      BY TlvLayout
    <2>2. k = n /\ k \in Nat
      BY <2>1 DEF IsLayout
    <2>3. QED
      BY <2>1, <2>2
  <1>3. \A i \in 1..n : form_of(l, l[i][1]) = l[i][2]
    <2> HIDE DEF l, n
    <2>1. QED
      BY <1>2, NamesIs
  <1>4. ASSUME NEW i \in inc
        PROVE  /\ recs[i] \in Rec /\ recs[i] = rec(i) /\ recs[i].tlv_type = l[i][1]
               /\ recs[i].value = write_tlv(l[i][2], o[l[i][1]])
    <2> DEFINE k == l[i][1]
    <2>1. i \in 1..n /\ k \in DOMAIN o
      OBVIOUS
    <2> DEFINE v == write_tlv(form_of(l, k), o[k])
               r == TlvRecord(k, v)
    <2>2. r \in Rec /\ r.tlv_type = k /\ r.value = v
      <3> HIDE DEF k
      <3>1. QED
        BY <2>1, TlvRec
    <2>3. v = write_tlv(l[i][2], o[k])
      BY <1>3, <2>1
    <2>4. recs[i] = TlvRecord(k, write_tlv(l[i][2], o[k]))
      <3> HIDE DEF n
      <3>1. QED
        BY <2>1
    <2> HIDE DEF l, v, n
    <2>5. r = TlvRecord(k, write_tlv(l[i][2], o[k]))
      BY <2>3
    <2> HIDE DEF r, recs
    <2>6. QED
      BY <2>2, <2>3, <2>4, <2>5
  <1>5. inc \in SUBSET (1..n)
    <2> HIDE DEF n
    <2>1. QED
      OBVIOUS
  <1>6. Different(recs, inc)
    <2>1. ASSUME NEW i \in inc, NEW j \in inc, i # j
          PROVE  recs[i].tlv_type # recs[j].tlv_type
      <3>1. l[i][1] # l[j][1]
        BY <1>2, <1>5, <2>1 DEF IsLayout
      <3> HIDE DEF recs, l
      <3>2. QED
        BY <1>4, <3>1
    <2> HIDE DEF recs, inc
    <2>2. QED
      BY <1>4, <2>1 DEF Different
  <1> HIDE DEF l, n, inc, recs
  <1>7. PICK b : b \in [0..n -> Seq(Rec)] /\ Building(b, recs, inc, n)
    BY <1>2, <1>6, BuildExists
  <1>8. \A i \in 1..n : i \in inc <=> l[i][1] \in DOMAIN o
    BY DEF inc
  <1>9. Eq(b)
    <2>1. b = [i \in 0..n |-> b[i]]
      BY <1>7
    <2>2. ASSUME NEW i \in 0..n
          PROVE  b[i] = IF i = 0 THEN <<>>
                        ELSE IF l[i][1] \in DOMAIN o
                               THEN TlvStream_add(b[i - 1], l[i][1], write_tlv(l[i][2], o[l[i][1]]))
                               ELSE b[i - 1]
      <3>1. CASE i = 0
        BY <1>7, <3>1 DEF Building
      <3>2. CASE i # 0
        <4>1. i \in 1..n
          BY <1>2, <3>2
        <4>2. b[i] = IF i \in inc THEN TlvStream_add(b[i - 1], recs[i].tlv_type, recs[i].value)
                     ELSE b[i - 1]
          BY <1>7, <4>1 DEF Building
        <4>3. i \in inc => /\ recs[i].tlv_type = l[i][1]
                           /\ recs[i].value = write_tlv(l[i][2], o[l[i][1]])
          BY <1>4
        <4>4. QED
          BY <1>8, <3>2, <4>1, <4>2, <4>3
      <3>3. QED
        BY <3>1, <3>2
    <2>3. QED
      BY <2>1, <2>2
  <1>10. Eq(V)
    <2> HIDE DEF Eq
    <2>1. QED
      BY <1>9
  <1> HIDE DEF V
  <1>11. Building(V, recs, inc, n)
    <2>1. \A i \in 0..n :
            V[i] = IF i = 0 THEN <<>>
                   ELSE IF l[i][1] \in DOMAIN o
                          THEN TlvStream_add(V[i - 1], l[i][1], write_tlv(l[i][2], o[l[i][1]]))
                          ELSE V[i - 1]
      BY <1>10
    <2>2. V[0] = <<>>
      BY <1>2, <2>1
    <2>3. ASSUME NEW i \in 1..n
          PROVE  V[i] = IF i \in inc THEN TlvStream_add(V[i - 1], recs[i].tlv_type, recs[i].value)
                        ELSE V[i - 1]
      <3>1. i \in 0..n /\ i # 0
        BY <1>2
      <3>2. V[i] = IF l[i][1] \in DOMAIN o
                     THEN TlvStream_add(V[i - 1], l[i][1], write_tlv(l[i][2], o[l[i][1]]))
                     ELSE V[i - 1]
        BY <2>1, <3>1
      <3>3. i \in inc => /\ recs[i].tlv_type = l[i][1]
                         /\ recs[i].value = write_tlv(l[i][2], o[l[i][1]])
        BY <1>4
      <3>4. QED
        BY <1>8, <3>2, <3>3
    <2>4. QED
      BY <2>2, <2>3 DEF Building
  <1>12. PICK m \in Nat : /\ V[n] \in [1..m -> Rec] /\ Ordered(V[n], m)
                          /\ Contents(V[n], m) = {recs[j] : j \in inc}
    <2>1. IsStreamOf(V[n], recs, inc)
      BY <1>2, <1>5, <1>6, <1>11, BuildIs
    <2>2. QED
      BY <2>1 DEF IsStreamOf
  <1>13. {recs[j] : j \in inc} = TlvRecs(l, o)
    <2>1. \A j \in inc : l[j][1] \in DOMAIN o /\ recs[j] = TlvRecord(l[j][1], write_tlv(form_of(l, l[j][1]), o[l[j][1]]))
      BY <1>3, <1>4, <1>5, <1>8
    <2>2. \A k \in DOMAIN o : \E j \in inc : l[j][1] = k
      <3>1. DOMAIN o \subseteq names_of(l)
        BY DEF TlvsFit, l
      <3>2. names_of(l) = {l[j][1] : j \in 1..n}
        BY <1>2, NamesIs
      <3>3. QED
        BY <1>8, <3>1, <3>2
    <2>3. QED
      BY <2>1, <2>2 DEF TlvRecs
  <1>14. QED
    BY <1>1, <1>12, <1>13 DEF l

\* The types a message knows that are in the stream, and what their records mean.
There(t, s) == {k \in names_of(tlvs_of(t)) : TlvStream_has(s, k)}
Meaning(t, s, k) == read_tlv(form_of(tlvs_of(t), k), TlvStream_get(s, k))

\* from_stream by the options that are there.
LEMMA FromStreamBy ==
  ASSUME NEW t, NEW s
  PROVE  /\ (\A k \in There(t, s) : Good(Meaning(t, s, k)))
              => from_stream(t, s) = Ok([k \in There(t, s) |-> Meaning(t, s, k).val], <<>>)
         /\ Good(from_stream(t, s)) => \A k \in There(t, s) : Good(Meaning(t, s, k))
  <1> DEFINE there == There(t, s)
             value == [k \in there |-> Meaning(t, s, k)]
             errors == {value[k].err : k \in there} \ {""}
             vals == [k \in there |-> value[k].val]
  <1>1. from_stream(t, s) = IF errors # {} THEN Err(CHOOSE e \in errors : TRUE) ELSE Ok(vals, <<>>)
    BY Zenon DEF from_stream, There, Meaning
  <1>2. \A k \in there : value[k] = Meaning(t, s, k)
    OBVIOUS
  <1>3. vals = [k \in there |-> Meaning(t, s, k).val]
    BY <1>2
  <1>4. ASSUME \A k \in there : Good(Meaning(t, s, k))
        PROVE  from_stream(t, s) = Ok([k \in there |-> Meaning(t, s, k).val], <<>>)
    <2>1. errors = {}
      BY <1>2, <1>4 DEF Good
    <2> HIDE DEF errors, vals, there
    <2>2. QED
      BY <1>1, <1>3, <2>1
  <1>5. ASSUME Good(from_stream(t, s)), NEW k \in there
        PROVE  Good(Meaning(t, s, k))
    <2>1. errors # {} => (CHOOSE e \in errors : TRUE) \in errors
      <3> HIDE DEF errors
      <3>1. QED
        OBVIOUS
    <2>2. errors # {} => (CHOOSE e \in errors : TRUE) # ""
      BY <2>1
    <2>3. errors = {}
      <3> HIDE DEF errors, vals
      <3>1. errors # {} => ~Good(Err(CHOOSE e \in errors : TRUE))
        BY <2>2, ErrIs
      <3>2. QED
        BY <1>1, <1>5, <3>1
    <2>4. value[k].err = ""
      BY <2>3
    <2>5. QED
      BY <1>2, <2>4 DEF Good
  <1> HIDE DEF value, errors, vals
  <1>6. QED
    BY <1>4, <1>5

\* A stream of the records that are present is understood as these.
LEMMA FromOf ==
  ASSUME NEW t, has_tlvs(t), NEW o, TlvsFit(tlvs_of(t), o),
         NEW m \in Nat, NEW s \in [1..m -> Rec], Ordered(s, m), Contents(s, m) = TlvRecs(tlvs_of(t), o)
  PROVE  from_stream(t, s) = Ok(o, <<>>)
  <1> DEFINE l == tlvs_of(t)
  <1>1. ASSUME NEW k \in DOMAIN o
        PROVE  /\ k \in names_of(l) /\ TlvStream_has(s, k)
               /\ Good(Meaning(t, s, k)) /\ Meaning(t, s, k).val = o[k]
    <2> DEFINE form == form_of(l, k)
               w == write_tlv(form, o[k])
               r == TlvRecord(k, w)
    <2>1. /\ form \in TlvForms /\ o[k] \in TlvValue(form) /\ r \in Rec /\ k \in names_of(l)
          /\ r.tlv_type = k /\ r.value = w
      BY TlvRec
    <2>2. r \in Contents(s, m)
      BY DEF TlvRecs
    <2> HIDE DEF form, w, r
    <2>3. TlvStream_has(s, k) /\ TlvStream_get(s, k) = w
      BY <2>1, <2>2, GetIs
    <2>4. Good(read_tlv(form, w)) /\ read_tlv(form, w).val = o[k]
      BY <2>1, TlvOf DEF w
    <2>5. QED
      BY <2>1, <2>3, <2>4 DEF Meaning, form
  <1>2. There(t, s) = DOMAIN o
    <2>1. ASSUME NEW k \in There(t, s)
          PROVE  k \in DOMAIN o
      <3>1. PICK r \in Contents(s, m) : r.tlv_type = k
        BY GetIs DEF There
      <3>2. PICK j \in DOMAIN o : r = TlvRecord(j, write_tlv(form_of(l, j), o[j]))
        BY <3>1 DEF TlvRecs
      <3>3. TlvRecord(j, write_tlv(form_of(l, j), o[j])).tlv_type = j
        BY TlvRec
      <3>4. QED
        BY <3>1, <3>2, <3>3
    <2>2. QED
      BY <1>1, <2>1 DEF There
  <1>3. o = [k \in DOMAIN o |-> o[k]]
    BY DEF TlvsFit
  <1>4. [k \in There(t, s) |-> Meaning(t, s, k).val] = o
    BY <1>1, <1>2, <1>3
  <1>5. \A k \in There(t, s) : Good(Meaning(t, s, k))
    BY <1>1, <1>2
  <1>6. from_stream(t, s) = Ok([k \in There(t, s) |-> Meaning(t, s, k).val], <<>>)
    BY <1>5, FromStreamBy
  <1>7. QED
    BY <1>4, <1>6

\* The records that are understood were in the stream, or shorter there by nothing.
FromAs(t, s, m, o) ==
  /\ TlvsFit(tlvs_of(t), o) /\ from_stream(t, s) = Ok(o, <<>>)
  /\ \A k \in TlvRecs(tlvs_of(t), o) : \E r \in Contents(s, m) : Below(k, r)

\* Options that are found in a stream are those of the message.
LEMMA FromIs ==
  ASSUME NEW t, has_tlvs(t), NEW m \in Nat, NEW s \in [1..m -> Rec], Ordered(s, m),
         Good(from_stream(t, s))
  PROVE  \E o : FromAs(t, s, m, o)
  <1> DEFINE l == tlvs_of(t)
             o == [k \in There(t, s) |-> Meaning(t, s, k).val]
  <1>1. from_stream(t, s) = Ok(o, <<>>) /\ \A k \in There(t, s) : Good(Meaning(t, s, k))
    <2>1. \A k \in There(t, s) : Good(Meaning(t, s, k))
      BY FromStreamBy
    <2>2. QED
      BY <2>1, FromStreamBy
  <1>2. PICK n : IsLayout(l, n, TlvForms)
    BY TlvLayout
  <1>3. ASSUME NEW k \in There(t, s)
        PROVE  /\ o[k] \in TlvValue(form_of(l, k)) /\ k \in names_of(l)
               /\ \E r \in Contents(s, m) : Below(TlvRecord(k, write_tlv(form_of(l, k), o[k])), r)
    <2> DEFINE form == form_of(l, k)
    <2>1. k \in names_of(l) /\ form \in TlvForms /\ TlvStream_has(s, k)
      BY <1>2, NamesIs DEF There
    <2>2. PICK r \in Contents(s, m) : r.tlv_type = k
      BY <2>1, GetIs
    <2>3. TlvStream_get(s, k) = r.value
      BY <2>2, GetIs
    <2>4. r \in Rec /\ r.value \in Str /\ Len(r.value) \in Uint(U64) /\ TlvRecord(k, r.value) = r
      BY <2>2, RecIs DEF Contents
    <2>5. Good(read_tlv(form, r.value)) /\ o[k] = read_tlv(form, r.value).val
      BY <1>1, <2>3 DEF Meaning
    <2> HIDE DEF o
    <2> DEFINE x == r.value
    <2>6. PICK v \in TlvValue(form) : /\ read_tlv(form, x).val = v
                                      /\ write_tlv(form, v) = x \/ Len(write_tlv(form, v)) < Len(x)
      <3>1. form \in TlvForms /\ x \in Str /\ Len(x) \in Uint(U64) /\ Good(read_tlv(form, x))
        BY <2>1, <2>4, <2>5
      <3> HIDE DEF form, x
      <3>2. QED
        BY <3>1, TlvIs
    <2> HIDE DEF form
    <2>7. o[k] = v
      BY <2>5, <2>6
    <2> DEFINE q == TlvRecord(k, write_tlv(form, v))
    <2>8. q.tlv_type = k /\ q.value = write_tlv(form, v)
      BY DEF TlvRecord
    <2>9. write_tlv(form, v) = x => q = r
      BY <2>4
    <2> HIDE DEF q
    <2>10. Below(q, r)
      BY <2>2, <2>6, <2>8, <2>9 DEF Below
    <2>11. QED
      BY <2>1, <2>2, <2>7, <2>10 DEF q, form
  <1>4. DOMAIN o = There(t, s) /\ o = [k \in DOMAIN o |-> o[k]]
    OBVIOUS
  <1> HIDE DEF o
  <1>5. TlvsFit(l, o)
    BY <1>3, <1>4 DEF TlvsFit
  <1>6. \A k \in TlvRecs(l, o) : \E r \in Contents(s, m) : Below(k, r)
    BY <1>3, <1>4 DEF TlvRecs
  <1>7. QED
    BY <1>1, <1>5, <1>6 DEF FromAs

------------------------------------------------------------------------------
(* Messages, encoded and decoded.                                           *)

\* The parts of a message.
LEMMA MessageParts ==
  ASSUME NEW t, NEW f, NEW o
  PROVE  /\ Message(t, f, o).msg_type = t /\ Message(t, f, o).fields = f
         /\ Message(t, f, o).tlvs = o
  BY DEF Message

\* The types have two bytes.
LEMMA TypeIs ==
  ASSUME NEW t \in msg_type
  PROVE  t \in Uint(U16) /\ t \in Nat
  <1>1. t \in Nat
    BY DEF msg_type, WARNING, INIT, ERROR, PING, PONG, OPEN_CHANNEL, FUNDING_CREATED,
           CHANNEL_ANNOUNCEMENT, NODE_ANNOUNCEMENT, CHANNEL_UPDATE, QUERY_CHANNEL_RANGE,
           REPLY_CHANNEL_RANGE
  <1>2. t < pow[U16] /\ pow[U16] \in Nat
    BY TypesFit, Widths
  <1>3. QED
    BY <1>1, <1>2 DEF Uint

\* A type of a message's own records is odd, or one that decode takes.
LEMMA KnownTypes ==
  ASSUME NEW t, has_tlvs(t), NEW k \in names_of(tlvs_of(t))
  PROVE  ~Refused(k, known_even(t))
  <1>1. 1 % 2 = 1 /\ 3 % 2 = 1
    OBVIOUS
  <1>2. names_of(Init_tlvs) = {1, 3} /\ names_of(ReplyChannelRange_tlvs) = {1, 3}
    BY DEF names_of, Init_tlvs, ReplyChannelRange_tlvs
  <1>3. names_of(QueryChannelRange_tlvs) = {1}
    BY DEF names_of, QueryChannelRange_tlvs
  <1>4. names_of(OpenChannel_tlvs) = {0, 1}
    BY DEF names_of, OpenChannel_tlvs
  <1>5. CASE t = OPEN_CHANNEL
    <2>1. tlvs_of(t) = OpenChannel_tlvs /\ known_even(t) = {0}
      BY <1>5 DEF tlvs_of, known_even, INIT, OPEN_CHANNEL, QUERY_CHANNEL_RANGE,
                  REPLY_CHANNEL_RANGE
    <2>2. QED
      BY <1>1, <1>4, <2>1 DEF Refused
  <1>6. CASE t # OPEN_CHANNEL
    <2>1. tlvs_of(t) \in {Init_tlvs, QueryChannelRange_tlvs, ReplyChannelRange_tlvs}
      <3>1. CASE t = INIT
        BY <3>1 DEF tlvs_of, INIT, OPEN_CHANNEL, QUERY_CHANNEL_RANGE, REPLY_CHANNEL_RANGE
      <3>2. CASE t = QUERY_CHANNEL_RANGE
        BY <3>2 DEF tlvs_of, INIT, OPEN_CHANNEL, QUERY_CHANNEL_RANGE, REPLY_CHANNEL_RANGE
      <3>3. CASE t = REPLY_CHANNEL_RANGE
        BY <3>3 DEF tlvs_of, INIT, OPEN_CHANNEL, QUERY_CHANNEL_RANGE, REPLY_CHANNEL_RANGE
      <3>4. QED
        BY <1>6, <3>1, <3>2, <3>3 DEF has_tlvs
    <2>2. k \in {1, 3}
      BY <1>2, <1>3, <2>1
    <2>3. QED
      BY <1>1, <2>2 DEF Refused
  <1>7. QED
    BY <1>5, <1>6

\* The bytes of a message after its fields.
Options(t, o) == IF has_tlvs(t) THEN TlvStream_encode(to_stream(t, o)) ELSE <<>>

\* The options are written as a byte string.
LEMMA OptionsIs ==
  ASSUME NEW m, IsMessage(m)
  PROVE  Options(m.msg_type, m.tlvs) \in Str
  <1>1. CASE has_tlvs(m.msg_type)
    <2>1. TlvsFit(tlvs_of(m.msg_type), m.tlvs)
      BY <1>1 DEF IsMessage
    <2>2. PICK n \in Nat : to_stream(m.msg_type, m.tlvs) \in [1..n -> Rec]
      BY <1>1, <2>1, ToStream
    <2>3. QED
      BY <1>1, <2>2, StreamEncode DEF Options
  <1>2. CASE ~has_tlvs(m.msg_type)
    BY <1>2, StrEmpty DEF Options
  <1>3. QED
    BY <1>1, <1>2

\* The encoding of a message: its type, its fields, its optional records.
LEMMA EncodeIs ==
  ASSUME NEW m, IsMessage(m)
  PROVE  LET ty == to_be_bytes(U16, m.msg_type)
             w == write_fields(fields_of(m.msg_type), m.fields)
             e == Options(m.msg_type, m.tlvs)
         IN  /\ Message_encode(m) = ty \o (w \o e) /\ Message_encode(m) \in Str
             /\ ty \in Str /\ w \in Str /\ e \in Str /\ w \o e \in Str /\ Len(ty) = U16
             /\ Len(Message_encode(m)) = U16 + Len(w) + Len(e)
             /\ Len(w) \in Nat /\ Len(w) >= 1 /\ Len(e) \in Nat
  <1> DEFINE ty == to_be_bytes(U16, m.msg_type)
             w == write_fields(fields_of(m.msg_type), m.fields)
             e == Options(m.msg_type, m.tlvs)
  <1>1. m.msg_type \in msg_type /\ FieldsFit(fields_of(m.msg_type), m.fields)
    BY DEF IsMessage
  <1>2. Message_encode(m) = ty \o (w \o e)
    BY <1>1, Zenon DEF Message_encode, IsUnknown, Options
  <1>3. ty \in Str /\ Len(ty) = U16
    BY <1>1, TypeIs, Widths, ToBytes DEF Str
  <1>4. PICK n : IsLayout(fields_of(m.msg_type), n, Forms)
    BY <1>1, FieldLayout
  <1>5. w \in Str /\ Len(w) \in Nat /\ Len(w) >= 1
    BY <1>1, <1>4, PartsIs
  <1>6. e \in Str
    BY OptionsIs
  <1> HIDE DEF ty, w, e
  <1>7. w \o e \in Str /\ Len(w \o e) = Len(w) + Len(e) /\ Len(e) \in Nat
    BY <1>5, <1>6, StrConcat
  <1>8. ty \o (w \o e) \in Str /\ Len(ty \o (w \o e)) = Len(ty) + Len(w \o e)
    BY <1>3, <1>7, StrConcat
  <1>9. U16 \in Nat
    BY Widths
  <1>10. Len(Message_encode(m)) = U16 + Len(w) + Len(e)
    BY <1>2, <1>3, <1>5, <1>7, <1>8, <1>9
  <1>11. QED
    BY <1>2, <1>3, <1>5, <1>6, <1>7, <1>8, <1>10 DEF ty, w, e

\* decode by what its parts say.
LEMMA PayloadBy ==
  ASSUME NEW t, NEW p, NEW f, NEW y, read_fields(fields_of(t), p) = Ok(f, y)
  PROVE  /\ ~has_tlvs(t) => decode_payload(t, p) = Ok(Message(t, f, NoTlvs), <<>>)
         /\ has_tlvs(t) /\ ~Good(TlvStream_decode_with_known(y, known_even(t)))
              => ~Good(decode_payload(t, p))
         /\ \A s, z : has_tlvs(t) /\ TlvStream_decode_with_known(y, known_even(t)) = Ok(s, z) =>
              /\ ~Good(from_stream(t, s)) => ~Good(decode_payload(t, p))
              /\ \A o, u : from_stream(t, s) = Ok(o, u)
                             => decode_payload(t, p) = Ok(Message(t, f, o), <<>>)
  <1> DEFINE r == read_fields(fields_of(t), p)
             q == TlvStream_decode_with_known(y, known_even(t))
  <1>1. Ok(f, y).err = "" /\ Ok(f, y).val = f /\ Ok(f, y).rest = y
    BY OkIs
  <1>2. r.err = "" /\ r.val = f /\ r.rest = y
    BY <1>1, Zenon
  <1>3. decode_payload(t, p)
          = IF r.err # "" THEN r
            ELSE IF ~has_tlvs(t) THEN Ok(Message(t, r.val, NoTlvs), <<>>)
            ELSE IF TlvStream_decode_with_known(r.rest, known_even(t)).err # ""
                   THEN TlvStream_decode_with_known(r.rest, known_even(t))
            ELSE IF from_stream(t, TlvStream_decode_with_known(r.rest, known_even(t)).val).err # ""
                   THEN from_stream(t, TlvStream_decode_with_known(r.rest, known_even(t)).val)
            ELSE Ok(Message(t, r.val,
                            from_stream(t, TlvStream_decode_with_known(r.rest, known_even(t)).val).val),
                    <<>>)
    BY Zenon DEF decode_payload, AndThen
  <1> HIDE DEF r
  <1>4. decode_payload(t, p)
          = IF ~has_tlvs(t) THEN Ok(Message(t, f, NoTlvs), <<>>)
            ELSE IF q.err # "" THEN q
            ELSE IF from_stream(t, q.val).err # "" THEN from_stream(t, q.val)
            ELSE Ok(Message(t, f, from_stream(t, q.val).val), <<>>)
    BY <1>2, <1>3
  <1> HIDE DEF q
  <1>5. ~has_tlvs(t) => decode_payload(t, p) = Ok(Message(t, f, NoTlvs), <<>>)
    BY <1>4
  <1>6. has_tlvs(t) /\ ~Good(q) => ~Good(decode_payload(t, p))
    BY <1>4 DEF Good
  <1>7. ASSUME NEW s, NEW z, has_tlvs(t), q = Ok(s, z)
        PROVE  /\ ~Good(from_stream(t, s)) => ~Good(decode_payload(t, p))
               /\ \A o, u : from_stream(t, s) = Ok(o, u)
                             => decode_payload(t, p) = Ok(Message(t, f, o), <<>>)
    <2> DEFINE g == from_stream(t, s)
    <2>1. Ok(s, z).err = "" /\ Ok(s, z).val = s
      BY OkIs
    <2>2. q.err = "" /\ q.val = s
      BY <1>7, <2>1, Zenon
    <2>3. decode_payload(t, p) = IF g.err # "" THEN g ELSE Ok(Message(t, f, g.val), <<>>)
      BY <1>4, <1>7, <2>2
    <2> HIDE DEF g
    <2>4. ~Good(g) => ~Good(decode_payload(t, p))
      BY <2>3 DEF Good
    <2>5. ASSUME NEW o, NEW u, g = Ok(o, u)
          PROVE  decode_payload(t, p) = Ok(Message(t, f, o), <<>>)
      <3>1. Ok(o, u).err = "" /\ Ok(o, u).val = o
        BY OkIs
      <3>2. g.err = "" /\ g.val = o
        BY <2>5, <3>1, Zenon
      <3>3. QED
        BY <2>3, <3>2
    <2>6. QED
      BY <2>4, <2>5 DEF g
  <1>8. QED
    BY <1>5, <1>6, <1>7 DEF q

\* Message_decode by the type that it reads.
LEMMA MessageBy ==
  ASSUME NEW d, NEW t, NEW p, read_int(U16, d) = Ok(t, p)
  PROVE  /\ t \in msg_type => Message_decode(d) = decode_payload(t, p)
         /\ t \notin msg_type /\ t % 2 = 0 => Message_decode(d) = Err("UnknownEvenType")
         /\ t \notin msg_type /\ ~(t % 2 = 0) => Message_decode(d) = Ok(Unknown(t, p), <<>>)
  <1> DEFINE r == read_int(U16, d)
  <1>1. Ok(t, p).err = "" /\ Ok(t, p).val = t /\ Ok(t, p).rest = p
    BY OkIs
  <1>2. r.err = "" /\ r.val = t /\ r.rest = p
    BY <1>1, Zenon
  <1>3. Message_decode(d)
          = IF r.err # "" THEN r
            ELSE CASE r.val \in msg_type -> decode_payload(r.val, r.rest)
                   [] r.val \notin msg_type /\ r.val % 2 = 0 -> Err("UnknownEvenType")
                   [] OTHER -> Ok(Unknown(r.val, r.rest), <<>>)
    BY Zenon DEF Message_decode, AndThen
  <1> HIDE DEF r
  <1>4. Message_decode(d)
          = CASE t \in msg_type -> decode_payload(t, p)
              [] t \notin msg_type /\ t % 2 = 0 -> Err("UnknownEvenType")
              [] OTHER -> Ok(Unknown(t, p), <<>>)
    BY <1>2, <1>3
  <1>5. CASE t \in msg_type
    BY <1>4, <1>5
  <1>6. CASE t \notin msg_type /\ t % 2 = 0
    BY <1>4, <1>6
  <1>7. CASE t \notin msg_type /\ ~(t % 2 = 0)
    BY <1>4, <1>7
  <1>8. QED
    BY <1>5, <1>6, <1>7

\* A message that can be sent is understood as it was meant: none of its vectors
\* is so long that its length wraps around (Message::encode and Message::decode).
THEOREM MessageOf ==
  ASSUME NEW m, IsMessage(m), Len(Message_encode(m)) <= MAX_MESSAGE_SIZE
  PROVE  Message_decode(Message_encode(m)) = Ok(m, <<>>)
  <1> DEFINE t == m.msg_type
             l == fields_of(t)
             f == m.fields
             o == m.tlvs
             ty == to_be_bytes(U16, t)
             w == write_fields(l, f)
             e == Options(t, o)
             d == Message_encode(m)
  <1>1. /\ t \in msg_type /\ m = Message(t, f, o) /\ FieldsFit(l, f)
        /\ has_tlvs(t) => TlvsFit(tlvs_of(t), o)
        /\ ~has_tlvs(t) => o = NoTlvs
    BY DEF IsMessage
  <1>2. /\ d = ty \o (w \o e) /\ d \in Str /\ w \in Str /\ e \in Str /\ w \o e \in Str
        /\ Len(d) = U16 + Len(w) + Len(e) /\ Len(w) \in Nat /\ Len(e) \in Nat
    BY EncodeIs
  <1>3. t \in Uint(U16) /\ U16 \in 0..U64 /\ U16 \in Nat /\ pow[U16] \in Nat
    BY <1>1, TypeIs, Widths
  <1>4. Len(w) <= pow[U16] - 1
    BY <1>2, <1>3 DEF MAX_MESSAGE_SIZE
  <1>5. PICK n : IsLayout(l, n, Forms)
    BY <1>1, FieldLayout
  <1>6. ASSUME NEW i \in 1..n
        PROVE  OnWire(l[i][2], f[l[i][1]])
    <2> DEFINE form == l[i][2]
               v == f[l[i][1]]
    <2>1. form \in Forms /\ v \in Value(form)
      BY <1>1, <1>5, PartsIs DEF IsLayout
    <2>2. Len(write(form, v)) <= Len(w)
      BY <1>1, <1>5, PartsIs DEF Parts
    <2> HIDE DEF form, v, w
    <2>3. ASSUME form = "bytes"
          PROVE  Len(v) \in Uint(U16)
      <3>1. Len(write(form, v)) = U16 + Len(v) /\ Len(v) \in Nat
        BY <2>1, <2>3, WriteIs
      <3>2. Len(v) <= pow[U16] - 1
        BY <1>2, <1>3, <1>4, <2>2, <3>1
      <3>3. QED
        BY <1>3, <3>1, <3>2 DEF Uint
    <2>4. QED
      BY <2>1, <2>3 DEF OnWire, form, v
  <1> HIDE DEF t, l, f, o, d, e, ty
  <1>7. read_int(U16, d) = Ok(t, w \o e)
    <2> HIDE DEF w
    <2>1. read_int(U16, ty \o (w \o e)) = Ok(t, w \o e)
      BY <1>2, <1>3, ReadIntOf DEF ty
    <2>2. QED
      BY <1>2, <2>1
  <1>8. Message_decode(d) = decode_payload(t, w \o e)
    BY <1>1, <1>7, MessageBy
  <1>9. read_fields(l, w \o e) = Ok(f, e)
    BY <1>1, <1>2, <1>5, <1>6, FieldsOf
  <1>10. read_fields(fields_of(t), w \o e) = Ok(f, e)
    BY <1>9 DEF l
  <1> HIDE DEF w
  <1>11. CASE ~has_tlvs(t)
    <2>1. decode_payload(t, w \o e) = Ok(Message(t, f, NoTlvs), <<>>)
      BY <1>10, <1>11, PayloadBy
    <2>2. QED
      BY <1>1, <1>8, <1>11, <2>1 DEF d
  <1>12. CASE has_tlvs(t)
    <2>1. TlvsFit(tlvs_of(t), o)
      BY <1>1, <1>12
    <2> DEFINE s == to_stream(t, o)
    <2>2. PICK k \in Nat : s \in [1..k -> Rec] /\ Ordered(s, k) /\ Contents(s, k) = TlvRecs(tlvs_of(t), o)
      BY <1>12, <2>1, ToStream
    <2>3. e = TlvStream_encode(s)
      BY <1>12 DEF e, Options
    <2> HIDE DEF s
    <2>4. ASSUME NEW i \in 1..k
          PROVE  ~Refused(s[i].tlv_type, known_even(t))
      <3>1. s[i] \in TlvRecs(tlvs_of(t), o)
        BY <2>2 DEF Contents
      <3>2. PICK j \in DOMAIN o : s[i] = TlvRecord(j, write_tlv(form_of(tlvs_of(t), j), o[j]))
        BY <3>1 DEF TlvRecs
      <3>3. /\ TlvRecord(j, write_tlv(form_of(tlvs_of(t), j), o[j])).tlv_type = j
            /\ j \in names_of(tlvs_of(t))
        BY <1>12, <2>1, TlvRec
      <3>4. QED
        BY <1>12, <3>2, <3>3, KnownTypes
    <2>5. TlvStream_decode_with_known(e, known_even(t)) = Ok(s, <<>>)
      BY <2>2, <2>3, <2>4, DecodeOf DEF Allowed
    <2>6. from_stream(t, s) = Ok(o, <<>>)
      BY <1>12, <2>1, <2>2, FromOf
    <2>7. decode_payload(t, w \o e) = Ok(Message(t, f, o), <<>>)
      BY <1>10, <1>12, <2>5, <2>6, PayloadBy
    <2>8. QED
      BY <1>1, <1>8, <2>7 DEF d
  <1>13. QED
    BY <1>11, <1>12

\* m is what d says, and is encoded as d or in fewer bytes.
DecodedFrom(m, d) ==
  /\ Message_decode(d) = Ok(m, <<>>) /\ IsMessage(m)
  /\ Message_encode(m) = d \/ Len(Message_encode(m)) < Len(d)

\* A payload that is decoded is what the message's fields and options were written as, or longer by
\* what the codec does not keep.
LEMMA PayloadIs ==
  ASSUME NEW t \in msg_type, NEW p \in Str, Good(decode_payload(t, p))
  PROVE  \E m : /\ decode_payload(t, p) = Ok(m, <<>>) /\ IsMessage(m) /\ m.msg_type = t
                /\ \/ Message_encode(m) = to_be_bytes(U16, t) \o p
                   \/ Len(Message_encode(m)) < U16 + Len(p)
  <1> DEFINE l == fields_of(t)
  <1>1. PICK n : IsLayout(l, n, Forms)
    BY FieldLayout
  <1>2. Good(read_fields(l, p))
    BY Zenon DEF decode_payload, AndThen, Good
  <1>3. PICK f, y : FieldsAs(l, n, p, f, y)
    <2> HIDE DEF l
    <2>1. QED
      BY <1>1, <1>2, FieldsIs
  <1>4. FieldsFit(l, f) /\ y \in Str /\ p = write_fields(l, f) \o y /\ read_fields(l, p) = Ok(f, y)
    BY <1>3 DEF FieldsAs
  <1> DEFINE ty == to_be_bytes(U16, t)
             w == write_fields(l, f)
  <1>5. U16 \in Nat
    BY Widths
  <1>6. ASSUME NEW o, IF has_tlvs(t) THEN TlvsFit(tlvs_of(t), o) ELSE o = NoTlvs,
               Options(t, o) = y \/ Len(Options(t, o)) < Len(y)
        PROVE  LET m == Message(t, f, o)
               IN  /\ IsMessage(m) /\ m.msg_type = t
                   /\ Message_encode(m) = ty \o p \/ Len(Message_encode(m)) < U16 + Len(p)
    <2> DEFINE m == Message(t, f, o)
               e == Options(t, o)
    <2>1. m.msg_type = t /\ m.fields = f /\ m.tlvs = o
      BY MessageParts
    <2>2. m = Message(m.msg_type, m.fields, m.tlvs)
      <3>1. Message(t, f, o) = Message(m.msg_type, m.fields, m.tlvs)
        <4> HIDE DEF m
        <4>1. QED
          BY <2>1
      <3>2. QED
        BY <3>1
    <2>3. IsMessage(m)
      <3> HIDE DEF m
      <3>1. QED
        BY <1>4, <1>6, <2>1, <2>2 DEF IsMessage
    <2> HIDE DEF m
    <2>4. /\ Message_encode(m) = ty \o (w \o e) /\ Len(Message_encode(m)) = U16 + Len(w) + Len(e)
          /\ w \in Str /\ e \in Str /\ Len(w) \in Nat /\ Len(e) \in Nat
      BY <2>1, <2>3, EncodeIs
    <2> HIDE DEF ty, w, e
    <2>5. p = w \o y
      BY <1>4 DEF w
    <2>6. Len(p) = Len(w) + Len(y) /\ Len(y) \in Nat
      BY <1>4, <2>4, <2>5, StrConcat
    <2>7. CASE e = y
      BY <2>1, <2>3, <2>4, <2>5, <2>7 DEF m
    <2>8. CASE Len(e) < Len(y)
      <3>1. Len(Message_encode(m)) < U16 + Len(p)
        BY <1>5, <2>4, <2>6, <2>8
      <3>2. QED
        BY <2>1, <2>3, <3>1 DEF m
    <2>9. QED
      BY <1>6, <2>7, <2>8 DEF e
  <1> HIDE DEF ty, w
  <1>7. CASE ~has_tlvs(t)
    <2>1. decode_payload(t, p) = Ok(Message(t, f, NoTlvs), <<>>)
      BY <1>4, <1>7, PayloadBy
    <2>2. Options(t, NoTlvs) = y \/ Len(Options(t, NoTlvs)) < Len(y)
      <3>1. Options(t, NoTlvs) = <<>>
        BY <1>7 DEF Options
      <3>2. Len(y) \in Nat /\ (Len(y) = 0 => y = <<>>) /\ Len(<<>>) = 0
        BY <1>4, StrEmpty
      <3>3. QED
        BY <3>1, <3>2
    <2>3. QED
      BY <1>6, <1>7, <2>1, <2>2 DEF ty
  <1>8. CASE has_tlvs(t)
    <2>1. read_fields(fields_of(t), p) = Ok(f, y)
      BY <1>4
    <2>2. Good(TlvStream_decode_with_known(y, known_even(t)))
      BY <1>8, <2>1, PayloadBy
    <2>3. PICK k \in Nat : \E s \in [1..k -> Rec] :
            /\ TlvStream_decode_with_known(y, known_even(t)) = Ok(s, <<>>)
            /\ Ordered(s, k) /\ TlvStream_encode(s) = y
      BY <1>4, <2>2, DecodeIs
    <2>4. PICK s \in [1..k -> Rec] :
            /\ TlvStream_decode_with_known(y, known_even(t)) = Ok(s, <<>>)
            /\ Ordered(s, k) /\ TlvStream_encode(s) = y
      BY <2>3
    <2>5. Good(from_stream(t, s))
      BY <1>8, <2>1, <2>4, PayloadBy
    <2>6. PICK o : FromAs(t, s, k, o)
      BY <1>8, <2>4, <2>5, FromIs
    <2>7. /\ TlvsFit(tlvs_of(t), o) /\ from_stream(t, s) = Ok(o, <<>>)
          /\ \A q \in TlvRecs(tlvs_of(t), o) : \E r \in Contents(s, k) : Below(q, r)
      BY <2>6 DEF FromAs
    <2> DEFINE u == to_stream(t, o)
    <2>8. PICK j \in Nat : u \in [1..j -> Rec] /\ Ordered(u, j) /\ Contents(u, j) = TlvRecs(tlvs_of(t), o)
      BY <1>8, <2>7, ToStream
    <2>9. Options(t, o) = TlvStream_encode(u)
      BY <1>8 DEF Options
    <2> HIDE DEF u
    <2>10. \/ Len(TlvStream_encode(u)) < Len(TlvStream_encode(s))
           \/ TlvStream_encode(u) = TlvStream_encode(s)
      BY <2>4, <2>7, <2>8, Thinner
    <2>11. Options(t, o) = y \/ Len(Options(t, o)) < Len(y)
      BY <2>4, <2>9, <2>10
    <2>12. decode_payload(t, p) = Ok(Message(t, f, o), <<>>)
      BY <1>8, <2>1, <2>4, <2>7, PayloadBy
    <2>13. QED
      BY <1>6, <1>8, <2>7, <2>11, <2>12 DEF ty
  <1>9. QED
    BY <1>7, <1>8

\* What is decoded is a message, whose encoding is the bytes or shorter, or its
\* type has no codec (Message::decode and Message::encode).
THEOREM MessageIs ==
  ASSUME NEW d \in Str, Good(Message_decode(d))
  PROVE  \/ \E t, p : t \notin msg_type /\ Message_decode(d) = Ok(Unknown(t, p), <<>>)
         \/ \E m : DecodedFrom(m, d)
  <1>1. U16 \in 0..U64 /\ U16 \in Nat
    BY Widths
  <1>2. Good(read_int(U16, d))
    BY Zenon DEF Message_decode, AndThen, Good
  <1>3. PICK t \in Uint(U16), p \in Str : d = to_be_bytes(U16, t) \o p /\ read_int(U16, d) = Ok(t, p)
    BY <1>1, <1>2, ReadIntIs
  <1>4. CASE t \in msg_type
    <2>1. Message_decode(d) = decode_payload(t, p)
      BY <1>3, <1>4, MessageBy
    <2>2. PICK m : /\ decode_payload(t, p) = Ok(m, <<>>) /\ IsMessage(m) /\ m.msg_type = t
                   /\ \/ Message_encode(m) = to_be_bytes(U16, t) \o p
                      \/ Len(Message_encode(m)) < U16 + Len(p)
      BY <1>4, <2>1, PayloadIs
    <2>3. Len(d) = U16 + Len(p)
      <3>1. t \in Nat
        BY <1>4, TypeIs
      <3>2. to_be_bytes(U16, t) \in Str /\ Len(to_be_bytes(U16, t)) = U16
        BY <1>1, <3>1, ToBytes DEF Str
      <3>3. QED
        BY <1>3, <3>2, StrConcat
    <2>4. DecodedFrom(m, d)
      BY <1>3, <2>1, <2>2, <2>3 DEF DecodedFrom
    <2>5. QED
      BY <2>4
  <1>5. CASE t \notin msg_type
    <2>1. CASE t % 2 = 0
      <3>1. Message_decode(d) = Err("UnknownEvenType")
        BY <1>3, <1>5, <2>1, MessageBy
      <3>2. QED
        BY <3>1, ErrIs
    <2>2. CASE ~(t % 2 = 0)
      BY <1>3, <1>5, <2>2, MessageBy
    <2>3. QED
      BY <2>1, <2>2
  <1>6. QED
    BY <1>4, <1>5

------------------------------------------------------------------------------
(* Messages without optional records, and the constructors.                 *)

\* The lengths of the parts add up.
Adds(g, s, n) ==
  /\ g \in [0..n -> Nat] /\ g[0] = 0 /\ Len(FlattenSeq(s)) = g[n]
  /\ \A i \in 1..n : g[i] = g[i - 1] + Len(s[i])

\* Lengths of the partial concatenations.
LEMMA FlatLens ==
  ASSUME NEW n \in Nat, NEW s \in [1..n -> Str]
  PROVE  \E g : Adds(g, s, n)
  <1>1. PICK h : IsFlat(h, s, n) /\ FlattenSeq(s) = h[n]
    BY FlatIs
  <1>2. h \in [0..n -> Str] /\ h[0] = <<>> /\ \A i \in 1..n : h[i] = h[i - 1] \o s[i]
    BY <1>1 DEF IsFlat
  <1> DEFINE g == [i \in 0..n |-> Len(h[i])]
  <1>3. g \in [0..n -> Nat]
    BY <1>2, StrEmpty
  <1>4. ASSUME NEW i \in 1..n
        PROVE  g[i] = g[i - 1] + Len(s[i])
    <2>1. i \in 0..n /\ i - 1 \in 0..n
      OBVIOUS
    <2>2. h[i] = h[i - 1] \o s[i] /\ h[i - 1] \in Str /\ s[i] \in Str
      BY <1>2, <2>1
    <2>3. Len(h[i]) = Len(h[i - 1]) + Len(s[i])
      BY <2>2, StrConcat
    <2>4. QED
      BY <2>1, <2>3
  <1>5. g[0] = 0 /\ g[n] = Len(h[n])
    <2>1. 0 \in 0..n /\ n \in 0..n
      OBVIOUS
    <2>2. QED
      BY <1>2, <2>1, StrEmpty
  <1> HIDE DEF g
  <1>6. QED
    BY <1>1, <1>3, <1>4, <1>5 DEF Adds

\* Values that fit their forms make fields that fit their layout.
LEMMA FitBy ==
  ASSUME NEW l, NEW n, IsLayout(l, n, Forms), NEW f, f = [x \in names_of(l) |-> f[x]],
         \A i \in 1..n : f[l[i][1]] \in Value(l[i][2])
  PROVE  FieldsFit(l, f)
  <1>1. names_of(l) = {l[i][1] : i \in 1..n} /\ \A i \in 1..n : form_of(l, l[i][1]) = l[i][2]
    BY NamesIs
  <1>2. QED
    BY <1>1 DEF FieldsFit

\* A message without options, and its encoding.
LEMMA PlainIs ==
  ASSUME NEW t \in msg_type, NEW f, FieldsFit(fields_of(t), f)
  PROVE  LET m == Message(t, f, NoTlvs)
             w == write_fields(fields_of(t), f)
         IN  /\ IsMessage(m) /\ Message_encode(m) = to_be_bytes(U16, t) \o w
             /\ Len(Message_encode(m)) = U16 + Len(w) /\ Len(w) \in Nat /\ Len(w) >= 1
  <1> DEFINE m == Message(t, f, NoTlvs)
             w == write_fields(fields_of(t), f)
  <1>1. m.msg_type = t /\ m.fields = f /\ m.tlvs = NoTlvs
    BY MessageParts
  <1>2. m = Message(m.msg_type, m.fields, m.tlvs)
    <2>1. Message(t, f, NoTlvs) = Message(m.msg_type, m.fields, m.tlvs)
      <3> HIDE DEF m
      <3>1. QED
        BY <1>1
    <2>2. QED
      BY <2>1
  <1> HIDE DEF m
  <1>3. TlvsFit(tlvs_of(t), NoTlvs)
    <2>1. DOMAIN <<>> = {} /\ <<>> = [k \in DOMAIN <<>> |-> <<>>[k]]
      OBVIOUS
    <2>2. QED
      BY <2>1 DEF TlvsFit, NoTlvs
  <1>4. IsMessage(m)
    BY <1>1, <1>2, <1>3 DEF IsMessage
  <1>5. Options(t, NoTlvs) = <<>>
    <2>1. CASE ~has_tlvs(t)
      BY <2>1 DEF Options
    <2>2. CASE has_tlvs(t)
      <3> DEFINE s == to_stream(t, NoTlvs)
      <3>1. PICK k \in Nat : s \in [1..k -> Rec] /\ Contents(s, k) = TlvRecs(tlvs_of(t), NoTlvs)
        BY <1>3, <2>2, ToStream
      <3>2. TlvRecs(tlvs_of(t), NoTlvs) = {}
        BY DEF TlvRecs, NoTlvs
      <3> HIDE DEF s
      <3>3. k = 0
        <4>1. k # 0 => 1 \in 1..k
          OBVIOUS
        <4>2. QED
          BY <3>1, <3>2, <4>1 DEF Contents
      <3>4. s = <<>>
        BY <3>1, <3>3
      <3>5. TlvStream_encode(s) = <<>>
        <4>1. [i \in DOMAIN <<>> |-> TlvRecord_encode(<<>>[i])] = <<>>
          OBVIOUS
        <4>2. QED
          BY <3>4, <4>1, FlatEmpty DEF TlvStream_encode
      <3>6. QED
        BY <2>2, <3>5 DEF Options, s
    <2>3. QED
      BY <2>1, <2>2
  <1>6. /\ Message_encode(m) = to_be_bytes(U16, t) \o (w \o <<>>)
        /\ w \in Str /\ Len(Message_encode(m)) = U16 + Len(w) + Len(<<>>)
        /\ Len(w) \in Nat /\ Len(w) >= 1
    BY <1>1, <1>4, <1>5, EncodeIs
  <1>7. w \o <<>> = w /\ Len(<<>>) = 0 /\ U16 \in Nat
    BY <1>6, StrEmpty, Widths
  <1>8. QED
    BY <1>4, <1>6, <1>7 DEF m

\* A string of zeros.
LEMMA ZerosIs ==
  ASSUME NEW n \in Nat
  PROVE  Zeros(n) \in Str /\ Len(Zeros(n)) = n
  <1>1. 0 \in Byte
    BY Widths DEF Byte
  <1>2. Zeros(n) \in [1..n -> Byte]
    BY <1>1 DEF Zeros
  <1>3. QED
    BY <1>2, FunctionIsSeq DEF Str

\* The size of a message that can be sent, and of the largest that can.
LEMMA Sizes ==
  /\ MAX_MESSAGE_SIZE \in Nat /\ MAX_MESSAGE_SIZE = pow[U16] - 1
  /\ U16 \in Nat /\ U32 \in Nat /\ HASH_SIZE \in Nat /\ HASH_SIZE >= 1
  /\ 1 < U16 /\ U16 < U32
  /\ 2 * U16 + 2 * U32 + HASH_SIZE + 2 <= MAX_MESSAGE_SIZE
  BY Widths, SizeAssumption, AnswerAssumption DEF MAX_MESSAGE_SIZE

\* A pong and its length.
LEMMA PongIs ==
  ASSUME NEW z \in Str
  PROVE  LET m == Message(PONG, [ignored |-> z], NoTlvs)
         IN  IsMessage(m) /\ Len(Message_encode(m)) = 2 * U16 + Len(z)
  <1> DEFINE l == Pong_fields
             f == [ignored |-> z]
             w == write_fields(l, f)
  <1>1. IsLayout(l, 1, Forms) /\ fields_of(PONG) = l /\ PONG \in msg_type
    BY ShortLayouts, LayoutOf DEF msg_type
  <1>2. l[1][1] = "ignored" /\ l[1][2] = "bytes" /\ DOMAIN l = {1}
    BY DEF Pong_fields
  <1>3. names_of(l) = {"ignored"}
    BY <1>2 DEF names_of
  <1>4. f = [x \in {"ignored"} |-> f[x]] /\ f["ignored"] = z
    OBVIOUS
  <1> HIDE DEF f, l
  <1>5. \A i \in 1..1 : f[l[i][1]] \in Value(l[i][2])
    <2>1. \A i \in 1..1 : i = 1
      OBVIOUS
    <2>2. QED
      BY <1>2, <1>4, <2>1, ValueForm
  <1>6. FieldsFit(l, f)
    BY <1>1, <1>3, <1>4, <1>5, FitBy
  <1>7. /\ IsMessage(Message(PONG, f, NoTlvs))
        /\ Len(Message_encode(Message(PONG, f, NoTlvs))) = U16 + Len(w) /\ Len(w) \in Nat
    BY <1>1, <1>6, PlainIs
  <1>8. Len(w) = U16 + Len(z) /\ Len(z) \in Nat
    <2> DEFINE s == Parts(l, f, 1)
    <2>1. s \in [1..1 -> Str] /\ w = FlattenSeq(s)
      BY <1>1, <1>6, PartsIs
    <2>2. s[1] = write_Vec(z)
      BY <1>2, <1>4, WriteForm DEF Parts
    <2> HIDE DEF s, w
    <2>3. PICK g : Adds(g, s, 1)
      BY <2>1, FlatLens
    <2>4. g[1] = g[0] + Len(s[1]) /\ g[0] = 0 /\ Len(FlattenSeq(s)) = g[1]
      BY <2>3 DEF Adds
    <2>5. Len(s[1]) = U16 + Len(z) /\ Len(z) \in Nat /\ U16 \in Nat
      BY <2>2, WriteVec, StrEmpty, Sizes
    <2>6. QED
      BY <2>1, <2>4, <2>5
  <1>9. QED
    BY <1>7, <1>8, Sizes DEF f

\* The ping of the read task's timer and its length.
LEMMA PingIs ==
  /\ IsMessage(Ping_new(1)) /\ Len(Message_encode(Ping_new(1))) = 3 * U16
  <1> DEFINE l == Ping_fields
             f == [num_pong_bytes |-> 1, ignored |-> <<>>]
             w == write_fields(l, f)
             s == Parts(l, f, 2)
  <1>1. IsLayout(l, 2, Forms) /\ fields_of(PING) = l /\ PING \in msg_type
    BY ShortLayouts, LayoutOf DEF msg_type
  <1>2. /\ l[1][1] = "num_pong_bytes" /\ l[1][2] = "u16"
        /\ l[2][1] = "ignored" /\ l[2][2] = "bytes" /\ DOMAIN l = {1, 2}
    BY DEF Ping_fields
  <1>3. names_of(l) = {"num_pong_bytes", "ignored"}
    BY <1>2 DEF names_of
  <1>4. /\ f = [x \in {"num_pong_bytes", "ignored"} |-> f[x]]
        /\ f["num_pong_bytes"] = 1 /\ f["ignored"] = <<>>
    OBVIOUS
  <1> HIDE DEF f, l
  <1>5. 1 \in Uint(U16)
    BY Widths DEF Uint
  <1>6. FieldsFit(l, f)
    <2>1. \A i \in 1..2 : i = 1 \/ i = 2
      OBVIOUS
    <2>2. f[l[1][1]] \in Value(l[1][2]) /\ f[l[2][1]] \in Value(l[2][2])
      BY <1>2, <1>4, <1>5, ValueForm, StrEmpty
    <2>3. \A i \in 1..2 : f[l[i][1]] \in Value(l[i][2])
      BY <2>1, <2>2
    <2>4. QED
      BY <1>1, <1>3, <1>4, <2>3, FitBy
  <1>7. /\ IsMessage(Message(PING, f, NoTlvs))
        /\ Len(Message_encode(Message(PING, f, NoTlvs))) = U16 + Len(w) /\ Len(w) \in Nat
    BY <1>1, <1>6, PlainIs
  <1>8. s \in [1..2 -> Str] /\ w = FlattenSeq(s)
    BY <1>1, <1>6, PartsIs
  <1>9. s[1] = to_be_bytes(U16, 1) /\ s[2] = write_Vec(<<>>)
    BY <1>2, <1>4, WriteForm DEF Parts
  <1> HIDE DEF s, w
  <1>10. PICK g : Adds(g, s, 2)
    BY <1>8, FlatLens
  <1>11. g[0] = 0 /\ g[1] = g[0] + Len(s[1]) /\ g[2] = g[1] + Len(s[2]) /\ Len(FlattenSeq(s)) = g[2]
    BY <1>10 DEF Adds
  <1>12. Len(s[1]) = U16 /\ Len(s[2]) = U16 + 0
    BY <1>9, Widths, ToBytes, WriteVec, StrEmpty
  <1>13. Len(w) = 2 * U16
    BY <1>8, <1>11, <1>12, Sizes
  <1>14. QED
    BY <1>7, <1>13, Sizes DEF f, Ping_new

\* A range reply and its length.
LEMMA ReplyIs ==
  ASSUME NEW h \in Value("hash"), NEW a \in Uint(U32), NEW b \in Uint(U32), NEW c \in {0, 1},
         NEW e \in Str
  PROVE  LET m == Message(REPLY_CHANNEL_RANGE,
                          [chain_hash |-> h, first_blocknum |-> a, number_of_blocks |-> b,
                           sync_complete |-> c, encoded_short_ids |-> e], NoTlvs)
         IN  /\ IsMessage(m)
             /\ Len(Message_encode(m)) = 2 * U16 + 2 * U32 + HASH_SIZE + 1 + Len(e)
  <1> DEFINE l == ReplyChannelRange_fields
             f == [chain_hash |-> h, first_blocknum |-> a, number_of_blocks |-> b,
                   sync_complete |-> c, encoded_short_ids |-> e]
             w == write_fields(l, f)
             s == Parts(l, f, 5)
             names == {"chain_hash", "first_blocknum", "number_of_blocks", "sync_complete",
                       "encoded_short_ids"}
  <1>1. IsLayout(l, 5, Forms) /\ fields_of(REPLY_CHANNEL_RANGE) = l /\ REPLY_CHANNEL_RANGE \in msg_type
    BY ShortLayouts, LayoutOf DEF msg_type
  <1>2. /\ l[1][1] = "chain_hash" /\ l[1][2] = "hash"
        /\ l[2][1] = "first_blocknum" /\ l[2][2] = "u32"
        /\ l[3][1] = "number_of_blocks" /\ l[3][2] = "u32"
        /\ l[4][1] = "sync_complete" /\ l[4][2] = "u8"
        /\ l[5][1] = "encoded_short_ids" /\ l[5][2] = "bytes" /\ DOMAIN l = {1, 2, 3, 4, 5}
    BY DEF ReplyChannelRange_fields
  <1>3. names_of(l) = names
    BY <1>2 DEF names_of
  <1>4. /\ f = [x \in names |-> f[x]]
        /\ f["chain_hash"] = h /\ f["first_blocknum"] = a /\ f["number_of_blocks"] = b
        /\ f["sync_complete"] = c /\ f["encoded_short_ids"] = e
    OBVIOUS
  <1> HIDE DEF f, l
  <1>5. c \in Uint(1) /\ c \in Nat /\ a \in Nat /\ b \in Nat
    BY Widths DEF Uint
  <1>6. FieldsFit(l, f)
    <2>1. \A i \in 1..5 : i = 1 \/ i = 2 \/ i = 3 \/ i = 4 \/ i = 5
      OBVIOUS
    <2>2. /\ f[l[1][1]] \in Value(l[1][2]) /\ f[l[2][1]] \in Value(l[2][2])
          /\ f[l[3][1]] \in Value(l[3][2]) /\ f[l[4][1]] \in Value(l[4][2])
          /\ f[l[5][1]] \in Value(l[5][2])
      BY <1>2, <1>4, <1>5, ValueForm
    <2>3. \A i \in 1..5 : f[l[i][1]] \in Value(l[i][2])
      BY <2>1, <2>2
    <2>4. f = [x \in names_of(l) |-> f[x]]
      BY <1>3, <1>4
    <2>5. QED
      BY <1>1, <2>3, <2>4, FitBy
  <1>7. /\ IsMessage(Message(REPLY_CHANNEL_RANGE, f, NoTlvs))
        /\ Len(Message_encode(Message(REPLY_CHANNEL_RANGE, f, NoTlvs))) = U16 + Len(w)
        /\ Len(w) \in Nat
    BY <1>1, <1>6, PlainIs
  <1>8. s \in [1..5 -> Str] /\ w = FlattenSeq(s)
    BY <1>1, <1>6, PartsIs
  <1>9. /\ s[1] = h /\ s[2] = to_be_bytes(U32, a) /\ s[3] = to_be_bytes(U32, b)
        /\ s[4] = to_be_bytes(1, c) /\ s[5] = write_Vec(e)
    BY <1>2, <1>4, WriteForm DEF Parts
  <1> HIDE DEF s, w
  <1>10. PICK g : Adds(g, s, 5)
    BY <1>8, FlatLens
  <1>11. /\ g[0] = 0 /\ g[1] = g[0] + Len(s[1]) /\ g[2] = g[1] + Len(s[2]) /\ g[3] = g[2] + Len(s[3])
         /\ g[4] = g[3] + Len(s[4]) /\ g[5] = g[4] + Len(s[5]) /\ Len(FlattenSeq(s)) = g[5]
    <2>1. g[0] = 0 /\ Len(FlattenSeq(s)) = g[5] /\ \A i \in 1..5 : g[i] = g[i - 1] + Len(s[i])
      BY <1>10 DEF Adds
    <2>2. g[1] = g[1 - 1] + Len(s[1]) /\ 1 - 1 = 0
      BY <2>1
    <2>3. g[2] = g[2 - 1] + Len(s[2]) /\ 2 - 1 = 1
      BY <2>1
    <2>4. g[3] = g[3 - 1] + Len(s[3]) /\ 3 - 1 = 2
      BY <2>1
    <2>5. g[4] = g[4 - 1] + Len(s[4]) /\ 4 - 1 = 3
      BY <2>1
    <2>6. g[5] = g[5 - 1] + Len(s[5]) /\ 5 - 1 = 4
      BY <2>1
    <2>7. QED
      BY <2>1, <2>2, <2>3, <2>4, <2>5, <2>6
  <1>12. Len(s[2]) = U32 /\ Len(s[3]) = U32 /\ Len(s[4]) = 1
    <2>1. U32 \in 0..U64 /\ 1 \in 0..U64
      BY Widths
    <2>2. \A x \in Nat : Len(to_be_bytes(U32, x)) = U32
      BY <2>1, ToBytes
    <2>3. \A x \in Nat : Len(to_be_bytes(1, x)) = 1
      BY <2>1, ToBytes
    <2>4. QED
      BY <1>5, <1>9, <2>2, <2>3
  <1>13. Len(s[1]) = HASH_SIZE
    BY <1>9, ValueForm
  <1>14. Len(s[5]) = U16 + Len(e) /\ Len(e) \in Nat
    BY <1>9, WriteVec, StrEmpty
  <1>15. Len(w) = HASH_SIZE + 2 * U32 + 1 + U16 + Len(e)
    BY <1>8, <1>11, <1>12, <1>13, <1>14, Sizes
  <1>16. QED
    BY <1>7, <1>14, <1>15, Sizes DEF f

\* Error::for_channel and Warning::for_channel make messages.
LEMMA ErrorIs ==
  ASSUME NEW t \in {ERROR, WARNING}, NEW h \in Value("hash"), NEW x \in Str
  PROVE  IsMessage(for_channel(t, h, x))
  <1> DEFINE l == fields_of(t)
             f == [channel_id |-> h, data |-> x]
  <1>1. IsLayout(l, 2, Forms) /\ t \in msg_type
    BY ShortLayouts, LayoutOf DEF msg_type
  <1>2. /\ l[1][1] = "channel_id" /\ l[1][2] = "hash"
        /\ l[2][1] = "data" /\ l[2][2] = "bytes" /\ DOMAIN l = {1, 2}
    BY LayoutOf DEF Error_fields, Warning_fields
  <1>3. names_of(l) = {"channel_id", "data"}
    BY <1>2 DEF names_of
  <1>4. f = [y \in {"channel_id", "data"} |-> f[y]] /\ f["channel_id"] = h /\ f["data"] = x
    OBVIOUS
  <1> HIDE DEF f, l
  <1>5. FieldsFit(l, f)
    <2>1. \A i \in 1..2 : i = 1 \/ i = 2
      OBVIOUS
    <2>2. f[l[1][1]] \in Value(l[1][2]) /\ f[l[2][1]] \in Value(l[2][2])
      BY <1>2, <1>4, ValueForm
    <2>3. \A i \in 1..2 : f[l[i][1]] \in Value(l[i][2])
      BY <2>1, <2>2
    <2>4. QED
      BY <1>1, <1>3, <1>4, <2>3, FitBy
  <1>6. FieldsFit(fields_of(t), f)
    BY <1>5 DEF l
  <1>7. IsMessage(Message(t, f, NoTlvs))
    BY <1>1, <1>6, PlainIs
  <1>8. QED
    BY <1>7 DEF f, for_channel

\* What a field of a message holds.
LEMMA FieldIs ==
  ASSUME NEW m, IsMessage(m), NEW n, IsLayout(fields_of(m.msg_type), n, Forms), NEW i \in 1..n
  PROVE  m.fields[fields_of(m.msg_type)[i][1]] \in Value(fields_of(m.msg_type)[i][2])
  <1>1. FieldsFit(fields_of(m.msg_type), m.fields)
    BY DEF IsMessage
  <1>2. QED
    BY <1>1, PartsIs

\* The answer to a ping is never too large, whatever the ping asks for.
LEMMA AnswerPing ==
  ASSUME NEW m, IsMessage(m), m.msg_type = PING
  PROVE  /\ IsMessage(Pong_respond_to(m))
         /\ Len(Message_encode(Pong_respond_to(m))) <= MAX_MESSAGE_SIZE
  <1> DEFINE n == m.fields.num_pong_bytes
             cap == MAX_MESSAGE_SIZE - 2 * U16
             k == IF n < cap THEN n ELSE cap
  <1>1. n \in Uint(U16)
    <2>1. IsLayout(Ping_fields, 2, Forms) /\ fields_of(PING) = Ping_fields
      BY ShortLayouts, LayoutOf
    <2>2. Ping_fields[1][1] = "num_pong_bytes" /\ Ping_fields[1][2] = "u16" /\ 1 \in 1..2
      BY DEF Ping_fields
    <2>3. m.fields["num_pong_bytes"] \in Value("u16")
      BY <2>1, <2>2, FieldIs
    <2>4. QED
      BY <2>3, ValueForm
  <1>2. n \in Nat /\ cap \in Nat /\ cap + 2 * U16 = MAX_MESSAGE_SIZE
    BY <1>1, Sizes DEF Uint
  <1>3. k \in Nat /\ k <= cap
    BY <1>2
  <1>4. Pong_respond_to(m) = Message(PONG, [ignored |-> Zeros(k)], NoTlvs)
    BY DEF Pong_respond_to
  <1> HIDE DEF k
  <1>5. Zeros(k) \in Str /\ Len(Zeros(k)) = k
    BY <1>3, ZerosIs
  <1> DEFINE p == Message(PONG, [ignored |-> Zeros(k)], NoTlvs)
  <1>6. IsMessage(p) /\ Len(Message_encode(p)) = 2 * U16 + Len(Zeros(k))
    BY <1>5, PongIs
  <1> HIDE DEF p
  <1>7. Len(Message_encode(p)) <= MAX_MESSAGE_SIZE
    BY <1>2, <1>3, <1>5, <1>6, Sizes
  <1>8. QED
    BY <1>4, <1>6, <1>7 DEF p

\* The list of ids in a range reply.
Ids(scids) ==
  <<ENCODING_UNCOMPRESSED>> \o FlattenSeq([i \in DOMAIN scids |-> to_be_bytes(U64, scids[i])])

\* Short channel ids are read back from the bytes they are written as.
LEMMA IdsIs ==
  ASSUME NEW scids \in Seq(Uint(U64))
  PROVE  /\ Ids(scids) \in Str /\ (scids = <<>> => Len(Ids(scids)) = 1)
         /\ \A m : m.fields.encoded_short_ids = Ids(scids) => short_channel_ids(m) = Ok(scids, <<>>)
  <1> DEFINE k == Len(scids)
             s == [i \in 1..k |-> to_be_bytes(U64, scids[i])]
             x == FlattenSeq(s)
             zero == <<ENCODING_UNCOMPRESSED>>
  <1>0. U64 \in 0..U64 /\ U64 \in Nat \ {0} /\ U64 \in Nat
    BY Widths
  <1>1. k \in Nat /\ DOMAIN scids = 1..k /\ \A i \in 1..k : scids[i] \in Uint(U64)
    OBVIOUS
  <1> HIDE DEF k
  <1>2. ASSUME NEW i \in 1..k
        PROVE  to_be_bytes(U64, scids[i]) \in Str /\ Len(to_be_bytes(U64, scids[i])) = U64
    <2>1. scids[i] \in Nat
      BY <1>0, <1>1, PowDef DEF Uint
    <2>2. QED
      BY <1>0, <2>1, ToBytes DEF Str
  <1>3. s \in [1..k -> Str] /\ \A i \in 1..k : Len(s[i]) = U64 /\ s[i] = to_be_bytes(U64, scids[i])
    BY <1>2
  <1>4. Ids(scids) = zero \o x
    BY <1>1 DEF Ids
  <1> HIDE DEF s
  <1>5. x \in Str /\ Len(x) = k * U64
    BY <1>0, <1>1, <1>3, FlatIs, FlatLen
  <1>6. zero = to_be_bytes(1, 0) /\ zero \in Str /\ Len(zero) = 1 /\ 0 \in Uint(1) /\ 1 \in 0..U64
    <2>1. 0 \in Byte
      BY Widths DEF Byte
    <2>2. QED
      BY <2>1, OneByte, Widths DEF ENCODING_UNCOMPRESSED
  <1>7. Len(x) \div U64 = k /\ Len(x) % U64 = 0
    <2>1. 0 \in 0..(U64 - 1)
      BY <1>0
    <2>2. (U64 * k + 0) \div U64 = k /\ (U64 * k + 0) % U64 = 0
      BY <1>0, <1>1, <2>1, DivMod
    <2>3. U64 * k + 0 = k * U64
      BY <1>0, <1>1
    <2> HIDE DEF x
    <2>4. QED
      BY <1>5, <2>2, <2>3
  <1>8. \A i \in 1..k : SubSeq(x, (i - 1) * U64 + 1, i * U64) = s[i]
    BY <1>0, <1>1, <1>3, FlatChunk
  <1> HIDE DEF x, zero
  <1>9. ASSUME NEW i \in 1..k
        PROVE  from_be_bytes(SubSeq(x, (i - 1) * U64 + 1, i * U64)) = scids[i]
    BY <1>0, <1>1, <1>3, <1>8, ToFromBytes
  <1>10. [i \in 1..(Len(x) \div U64) |-> from_be_bytes(SubSeq(x, (i - 1) * U64 + 1, i * U64))] = scids
    <2>1. [i \in 1..k |-> from_be_bytes(SubSeq(x, (i - 1) * U64 + 1, i * U64))] = [i \in 1..k |-> scids[i]]
      BY <1>9
    <2>2. [i \in 1..k |-> scids[i]] = scids
      BY <1>1
    <2>3. QED
      BY <1>7, <2>1, <2>2
  <1>11. read_int(1, zero \o x) = Ok(0, x)
    BY <1>5, <1>6, ReadIntOf
  <1>12. ASSUME NEW m, m.fields.encoded_short_ids = Ids(scids)
         PROVE  short_channel_ids(m) = Ok(scids, <<>>)
    <2> DEFINE r == read_int(1, m.fields.encoded_short_ids)
    <2>1. Ok(0, x).err = "" /\ Ok(0, x).val = 0 /\ Ok(0, x).rest = x
      BY OkIs
    <2>2. r = Ok(0, x)
      BY <1>4, <1>11, <1>12
    <2>3. r.err = "" /\ r.val = 0 /\ r.rest = x
      BY <2>1, <2>2, Zenon
    <2>4. short_channel_ids(m)
            = IF r.err # "" THEN r
              ELSE CASE r.val # ENCODING_UNCOMPRESSED -> Err("UnknownEncoding")
                     [] r.val = ENCODING_UNCOMPRESSED /\ Len(r.rest) % U64 # 0 -> Err("Truncated")
                     [] OTHER -> Ok([i \in 1..(Len(r.rest) \div U64) |->
                                  from_be_bytes(SubSeq(r.rest, (i - 1) * U64 + 1, i * U64))], <<>>)
      BY Zenon DEF short_channel_ids, AndThen
    <2> HIDE DEF r
    <2> DEFINE v == [i \in 1..(Len(x) \div U64) |->
                       from_be_bytes(SubSeq(x, (i - 1) * U64 + 1, i * U64))]
    <2>5. short_channel_ids(m)
            = CASE r.val # ENCODING_UNCOMPRESSED -> Err("UnknownEncoding")
                [] r.val = ENCODING_UNCOMPRESSED /\ Len(r.rest) % U64 # 0 -> Err("Truncated")
                [] OTHER -> Ok(v, <<>>)
      BY <2>3, <2>4
    <2>6. ~(r.val # ENCODING_UNCOMPRESSED) /\ ~(Len(r.rest) % U64 # 0)
      BY <1>7, <2>3 DEF ENCODING_UNCOMPRESSED
    <2> HIDE DEF v
    <2>7. short_channel_ids(m) = Ok(v, <<>>)
      BY <2>5, <2>6
    <2>8. v = scids
      BY <1>10 DEF v
    <2>9. QED
      BY <2>7, <2>8
  <1>13. Ids(scids) \in Str /\ (scids = <<>> => Len(Ids(scids)) = 1)
    <2>1. Ids(scids) \in Str /\ Len(Ids(scids)) = 1 + k * U64
      BY <1>4, <1>5, <1>6, StrConcat, ZenonT(60)
    <2>2. scids = <<>> => k = 0
      BY DEF k
    <2>3. k = 0 => k * U64 = 0
      BY <1>0
    <2>4. QED
      BY <2>1, <2>2, <2>3
  <1>14. QED
    BY <1>12, <1>13

\* A reply with a list of ids, and what its receiver makes of the list.
LEMMA ScidsIs ==
  ASSUME NEW h \in Value("hash"), NEW a \in Uint(U32), NEW b \in Uint(U32), NEW scids \in Seq(Uint(U64))
  PROVE  LET m == ReplyChannelRange_from_scids(h, a, b, TRUE, scids)
         IN  /\ IsMessage(m) /\ short_channel_ids(m) = Ok(scids, <<>>)
             /\ scids = <<>> => Len(Message_encode(m)) <= MAX_MESSAGE_SIZE
  <1> DEFINE e == Ids(scids)
             f == [chain_hash |-> h, first_blocknum |-> a, number_of_blocks |-> b,
                   sync_complete |-> 1, encoded_short_ids |-> e]
             m == Message(REPLY_CHANNEL_RANGE, f, NoTlvs)
  <1>1. ReplyChannelRange_from_scids(h, a, b, TRUE, scids) = m
    BY DEF ReplyChannelRange_from_scids, Ids
  <1>2. e \in Str /\ (scids = <<>> => Len(e) = 1)
    BY IdsIs
  <1> HIDE DEF e
  <1>3. IsMessage(m) /\ Len(Message_encode(m)) = 2 * U16 + 2 * U32 + HASH_SIZE + 1 + Len(e)
    BY <1>2, ReplyIs
  <1>4. m.fields = f
    BY MessageParts
  <1>5. f.encoded_short_ids = e
    OBVIOUS
  <1> HIDE DEF f, m
  <1>6. m.fields.encoded_short_ids = e
    BY <1>4, <1>5
  <1>7. short_channel_ids(m) = Ok(scids, <<>>)
    BY <1>6, IdsIs DEF e
  <1>8. ASSUME scids = <<>>
        PROVE  Len(Message_encode(m)) <= MAX_MESSAGE_SIZE
    <2>1. Len(Message_encode(m)) = 2 * U16 + 2 * U32 + HASH_SIZE + 2
      <3>1. Len(e) = 1
        BY <1>2, <1>8
      <3>2. QED
        BY <1>3, <3>1, Sizes
    <2>2. QED
      BY <2>1, Sizes
  <1>9. QED
    BY <1>1, <1>3, <1>7, <1>8

\* The answer to a range query.
LEMMA AnswerQuery ==
  ASSUME NEW m, IsMessage(m), m.msg_type = QUERY_CHANNEL_RANGE
  PROVE  /\ IsMessage(reply_to(m))
         /\ Len(Message_encode(reply_to(m))) <= MAX_MESSAGE_SIZE
  <1> DEFINE h == m.fields.chain_hash
             a == m.fields.first_blocknum
             b == m.fields.number_of_blocks
  <1>1. h \in Value("hash") /\ a \in Uint(U32) /\ b \in Uint(U32)
    <2>1. IsLayout(QueryChannelRange_fields, 3, Forms)
          /\ fields_of(QUERY_CHANNEL_RANGE) = QueryChannelRange_fields
      BY ShortLayouts, LayoutOf
    <2>2. /\ QueryChannelRange_fields[1][1] = "chain_hash" /\ QueryChannelRange_fields[1][2] = "hash"
          /\ QueryChannelRange_fields[2][1] = "first_blocknum" /\ QueryChannelRange_fields[2][2] = "u32"
          /\ QueryChannelRange_fields[3][1] = "number_of_blocks" /\ QueryChannelRange_fields[3][2] = "u32"
      BY DEF QueryChannelRange_fields
    <2>3. 1 \in 1..3 /\ 2 \in 1..3 /\ 3 \in 1..3
      OBVIOUS
    <2>4. \A i \in 1..3 : m.fields[QueryChannelRange_fields[i][1]] \in Value(QueryChannelRange_fields[i][2])
      BY <2>1, FieldIs
    <2>5. /\ m.fields["chain_hash"] \in Value("hash") /\ m.fields["first_blocknum"] \in Value("u32")
          /\ m.fields["number_of_blocks"] \in Value("u32")
      BY <2>2, <2>3, <2>4
    <2>6. QED
      BY <2>5, ValueForm
  <1>2. reply_to(m) = ReplyChannelRange_from_scids(h, a, b, TRUE, <<>>)
    BY DEF reply_to
  <1> HIDE DEF h, a, b
  <1>3. <<>> \in Seq(Uint(U64))
    OBVIOUS
  <1> DEFINE none == <<>>
             p == ReplyChannelRange_from_scids(h, a, b, TRUE, none)
  <1>4. none \in Seq(Uint(U64)) /\ none = <<>> /\ reply_to(m) = p
    BY <1>2, <1>3
  <1> HIDE DEF none
  <1>5. IsMessage(p) /\ (none = <<>> => Len(Message_encode(p)) <= MAX_MESSAGE_SIZE)
    BY <1>1, <1>4, ScidsIs
  <1> HIDE DEF p
  <1>6. QED
    BY <1>4, <1>5

\* The echo of an Init is never longer than what was received.
LEMMA AnswerInit ==
  ASSUME NEW m, IsMessage(m), m.msg_type = INIT
  PROVE  /\ IsMessage(Init_echo(m))
         /\ Len(Message_encode(Init_echo(m))) <= Len(Message_encode(m))
  <1> DEFINE w == write_fields(fields_of(INIT), m.fields)
             e == Options(INIT, m.tlvs)
  <1>1. INIT \in msg_type /\ FieldsFit(fields_of(INIT), m.fields)
    BY DEF IsMessage, msg_type
  <1>2. Init_echo(m) = Message(INIT, m.fields, NoTlvs)
    BY DEF Init_echo
  <1> DEFINE p == Message(INIT, m.fields, NoTlvs)
  <1>3. IsMessage(p) /\ Len(Message_encode(p)) = U16 + Len(w)
    BY <1>1, PlainIs
  <1> HIDE DEF p
  <1>4. Len(Message_encode(m)) = U16 + Len(w) + Len(e) /\ Len(w) \in Nat /\ Len(e) \in Nat
    BY EncodeIs
  <1> HIDE DEF w, e
  <1>5. Len(Message_encode(p)) <= Len(Message_encode(m))
    BY <1>3, <1>4, Sizes
  <1>6. QED
    BY <1>2, <1>3, <1>5 DEF p

------------------------------------------------------------------------------
(* What is signed.                                                          *)

\* The bytes of the fields that sig names.
Signed(l, f, sig) == write_fields([i \in DOMAIN sig |-> <<sig[i], form_of(l, sig[i])>>], f)

\* They come after k signatures.
AfterSignatures(l, f, sig, k) ==
  \E a \in Str : /\ write_fields(l, f) = a \o Signed(l, f, sig) /\ Signed(l, f, sig) \in Str
                 /\ Len(a) = k * COMPACT_SIGNATURE_SIZE

\* They do if k signatures are the first fields, and sig names the others.
LEMMA SignedBy ==
  ASSUME NEW l, NEW n, IsLayout(l, n, Forms), NEW f, FieldsFit(l, f), NEW k \in 0..n,
         \A i \in 1..k : l[i][2] = "signature",
         NEW sig, DOMAIN sig = 1..(n - k), \A i \in 1..(n - k) : sig[i] = l[i + k][1]
  PROVE  AfterSignatures(l, f, sig, k)
  <1> DEFINE s == Parts(l, f, n)
             x == [i \in 1..k |-> s[i]]
             y == [i \in 1..(n - k) |-> s[i + k]]
             g == [i \in DOMAIN sig |-> <<sig[i], form_of(l, sig[i])>>]
  <1>0. n \in Nat /\ k \in Nat /\ n - k \in Nat /\ COMPACT_SIGNATURE_SIZE \in Nat
    BY SizeAssumption DEF IsLayout
  <1>1. s \in [1..n -> Str] /\ write_fields(l, f) = FlattenSeq(s)
        /\ \A i \in 1..n : f[l[i][1]] \in Value(l[i][2])
    BY PartsIs
  <1>2. \A i \in 1..n : s[i] = write(l[i][2], f[l[i][1]])
    BY DEF Parts
  <1> HIDE DEF s
  <1>3. FlattenSeq(s) = FlattenSeq(x) \o FlattenSeq(y)
    BY <1>0, <1>1, FlatSplit
  <1>4. \A i \in 1..k : i \in 1..n
    BY <1>0
  <1>5. \A i \in 1..(n - k) : i + k \in 1..n
    BY <1>0
  <1>6. x \in [1..k -> Str] /\ y \in [1..(n - k) -> Str]
    BY <1>1, <1>4, <1>5
  <1>7. ASSUME NEW i \in 1..k
        PROVE  Len(x[i]) = COMPACT_SIGNATURE_SIZE
    <2>1. f[l[i][1]] \in Value("signature") /\ s[i] = write("signature", f[l[i][1]])
      BY <1>1, <1>2, <1>4
    <2>2. QED
      BY <2>1, WriteForm, ValueForm
  <1>8. write_fields(g, f) = FlattenSeq(y)
    <2>1. DOMAIN g = 1..(n - k)
      OBVIOUS
    <2>2. ASSUME NEW i \in 1..(n - k)
          PROVE  write(g[i][2], f[g[i][1]]) = y[i]
      <3>1. g[i][1] = l[i + k][1] /\ g[i][2] = form_of(l, l[i + k][1])
        OBVIOUS
      <3>2. form_of(l, l[i + k][1]) = l[i + k][2]
        BY <1>5, NamesIs
      <3>3. QED
        BY <1>2, <1>5, <3>1, <3>2
    <2>3. [i \in DOMAIN g |-> write(g[i][2], f[g[i][1]])] = y
      BY <2>1, <2>2
    <2> HIDE DEF g, y
    <2>4. QED
      BY <2>3 DEF write_fields
  <1> HIDE DEF x, y, g
  <1>9. FlattenSeq(x) \in Str /\ FlattenSeq(y) \in Str /\ Len(FlattenSeq(x)) = k * COMPACT_SIGNATURE_SIZE
    BY <1>0, <1>6, <1>7, FlatIs, FlatLen
  <1>10. QED
    BY <1>1, <1>3, <1>8, <1>9 DEF g, Signed, AfterSignatures

\* The number of signatures at the head of an announcement or an update.
Signatures(t) == IF t = CHANNEL_ANNOUNCEMENT THEN 4 ELSE 1

\* signature_hash covers what follows the signatures in the encoding of the message.
LEMMA SignedIs ==
  ASSUME NEW m, IsMessage(m),
         m.msg_type \in {CHANNEL_ANNOUNCEMENT, NODE_ANNOUNCEMENT, CHANNEL_UPDATE}
  PROVE  LET d == Message_encode(m)
         IN  signature_hash(m)
               = SubSeq(d, U16 + Signatures(m.msg_type) * COMPACT_SIGNATURE_SIZE + 1, Len(d))
  <1> DEFINE t == m.msg_type
             l == fields_of(t)
             sig == signed_of(t)
             k == Signatures(t)
             z == Signed(l, m.fields, sig)
             d == Message_encode(m)
             ty == to_be_bytes(U16, t)
  <1>1. FieldsFit(l, m.fields)
    BY DEF IsMessage
  <1>2. CHANNEL_ANNOUNCEMENT = 256 /\ NODE_ANNOUNCEMENT = 257 /\ CHANNEL_UPDATE = 258
    BY DEF CHANNEL_ANNOUNCEMENT, NODE_ANNOUNCEMENT, CHANNEL_UPDATE
  <1>3. \E n : /\ IsLayout(l, n, Forms) /\ k \in 0..n
               /\ \A i \in 1..k : l[i][2] = "signature"
               /\ DOMAIN sig = 1..(n - k) /\ \A i \in 1..(n - k) : sig[i] = l[i + k][1]
    <2>1. CASE t = CHANNEL_ANNOUNCEMENT
      <3>1. l = ChannelAnnouncement_fields /\ sig = ChannelAnnouncement_signed /\ k = 4
        BY <1>2, <2>1, LayoutOf DEF signed_of, Signatures
      <3> HIDE DEF l, sig, k
      <3>2. /\ \A i \in 1..4 : ChannelAnnouncement_fields[i][2] = "signature"
            /\ DOMAIN ChannelAnnouncement_signed = 1..(11 - 4)
            /\ \A i \in 1..(11 - 4) : ChannelAnnouncement_signed[i] = ChannelAnnouncement_fields[i + 4][1]
        BY DEF ChannelAnnouncement_fields, ChannelAnnouncement_signed
      <3>3. 4 \in 0..11
        OBVIOUS
      <3>4. QED
        BY <3>1, <3>2, <3>3, ChannelAnnouncementLayout
    <2>2. CASE t = NODE_ANNOUNCEMENT
      <3>1. l = NodeAnnouncement_fields /\ sig = NodeAnnouncement_signed /\ k = 1
        BY <1>2, <2>2, LayoutOf DEF signed_of, Signatures
      <3> HIDE DEF l, sig, k
      <3>2. /\ \A i \in 1..1 : NodeAnnouncement_fields[i][2] = "signature"
            /\ DOMAIN NodeAnnouncement_signed = 1..(7 - 1)
            /\ \A i \in 1..(7 - 1) : NodeAnnouncement_signed[i] = NodeAnnouncement_fields[i + 1][1]
        BY DEF NodeAnnouncement_fields, NodeAnnouncement_signed
      <3>3. 1 \in 0..7
        OBVIOUS
      <3>4. QED
        BY <3>1, <3>2, <3>3, NodeAnnouncementLayout
    <2>3. CASE t = CHANNEL_UPDATE
      <3>1. l = ChannelUpdate_fields /\ sig = ChannelUpdate_signed /\ k = 1
        BY <1>2, <2>3, LayoutOf DEF signed_of, Signatures
      <3> HIDE DEF l, sig, k
      <3>2. /\ \A i \in 1..1 : ChannelUpdate_fields[i][2] = "signature"
            /\ DOMAIN ChannelUpdate_signed = 1..(11 - 1)
            /\ \A i \in 1..(11 - 1) : ChannelUpdate_signed[i] = ChannelUpdate_fields[i + 1][1]
        BY DEF ChannelUpdate_fields, ChannelUpdate_signed
      <3>3. 1 \in 0..11
        OBVIOUS
      <3>4. QED
        BY <3>1, <3>2, <3>3, ChannelUpdateLayout
    <2>4. QED
      BY <2>1, <2>2, <2>3
  <1>4. ~has_tlvs(t)
    BY <1>2 DEF has_tlvs, INIT, OPEN_CHANNEL, QUERY_CHANNEL_RANGE, REPLY_CHANNEL_RANGE
  <1>5. signature_hash(m) = z
    BY DEF signature_hash, Signed
  <1> DEFINE w == write_fields(l, m.fields)
             e == Options(t, m.tlvs)
  <1>6. d = ty \o (w \o e) /\ ty \in Str /\ Len(ty) = U16 /\ w \in Str
    BY EncodeIs
  <1>7. e = <<>>
    BY <1>4 DEF Options
  <1> HIDE DEF t, l, sig, k, z, d, ty, w, e
  <1>8. PICK a \in Str : w = a \o z /\ z \in Str /\ Len(a) = k * COMPACT_SIGNATURE_SIZE
    <2>1. PICK n : /\ IsLayout(l, n, Forms) /\ k \in 0..n
                   /\ \A i \in 1..k : l[i][2] = "signature"
                   /\ DOMAIN sig = 1..(n - k) /\ \A i \in 1..(n - k) : sig[i] = l[i + k][1]
      BY <1>3
    <2>2. AfterSignatures(l, m.fields, sig, k)
      BY <1>1, <2>1, SignedBy
    <2>3. QED
      BY <2>2 DEF AfterSignatures, w, z
  <1>9. d = (ty \o a) \o z
    <2>1. w \o e = w
      BY <1>6, <1>7, StrEmpty
    <2>2. ty \in Str /\ a \in Str /\ z \in Str
      BY <1>6, <1>8
    <2>3. (ty \o a) \o z = ty \o (a \o z)
      BY <2>2, StrAssoc
    <2>4. QED
      BY <1>6, <1>8, <2>1, <2>3
  <1>10. ty \o a \in Str /\ Len(ty \o a) = U16 + k * COMPACT_SIGNATURE_SIZE
    <2>1. ty \in Str /\ a \in Str
      BY <1>6, <1>8
    <2>2. ty \o a \in Str /\ Len(ty \o a) = Len(ty) + Len(a)
      BY <2>1, StrConcat
    <2>3. QED
      BY <1>6, <1>8, <2>2
  <1>11. SubSeq(d, Len(ty \o a) + 1, Len(d)) = z
    BY <1>8, <1>9, <1>10, StrTake
  <1>12. QED
    BY <1>5, <1>10, <1>11 DEF d, k, t

------------------------------------------------------------------------------
(* The inductive invariant.                                                 *)

\* wire is the ordered stream of the records.
Assembled(records) ==
  /\ DOMAIN records = 1..Len(records)
  /\ \E m \in Nat : \E u \in [1..m -> Rec] :
       /\ wire = TlvStream_encode(u) /\ Ordered(u, m) /\ Contents(u, m) = ToSet(records)

Answers == {"read_task", "recv_message", "connect", "ticker"}

Idle == caller = "" => outcome = ""

\* The other end hears nothing but what was sent.
Heard == heard # NoResult => outcome = "sent" /\ heard = Message_decode(wire)

\* What is sent is the encoding of a message, and no longer than a frame's body.
Sent ==
  outcome = "sent" =>
    IsMessage(meant) /\ wire = Message_encode(meant) /\ Len(wire) <= MAX_MESSAGE_SIZE

Answered == caller \in Answers => outcome # "too large"

Listed == caller = "scids" /\ outcome = "sent" => short_channel_ids(meant) = Ok(listed, <<>>)

Streamed ==
  caller = "stream" => \/ outcome = "given" /\ wire \in Str
                       \/ outcome = "added" /\ Assembled(listed)

Inv == Idle /\ Heard /\ Sent /\ Answered /\ RelayedVerbatim /\ Listed /\ Streamed

\* Nothing was sent yet.
LEMMA InitInv == Init => Inv
  BY DEF Init, Inv, Idle, Heard, Sent, Answered, Answers, RelayedVerbatim, Listed, Streamed

\* What a call that is not about a stream is named.
Calls(who) == who \notin {"", "stream"}

\* The callers are no streams.
LEMMA Callers ==
  /\ Calls("read_task") /\ Calls("recv_message") /\ Calls("connect") /\ Calls("sendmessage")
  /\ Calls("built") /\ Calls("ticker") /\ Calls("scids") /\ Calls("error")
  BY DEF Calls

\* A call that sends nothing.
LEMMA EndStep ==
  ASSUME Inv, NEW who, NEW b, NEW why, Begin(who, b), Calls(who),
         why \notin {"sent", "too large"}, end(why), UNCHANGED heard
  PROVE  Inv'
  <1>0. who # "" /\ who # "stream"
    BY DEF Calls
  <1>1. caller = "" /\ caller' = who /\ outcome' = why /\ wire' = <<>> /\ heard' = heard
    BY DEF Begin, end
  <1>2. heard = NoResult
    BY <1>1 DEF Inv, Idle, Heard
  <1>3. QED
    BY <1>0, <1>1, <1>2 DEF Inv, Idle, Heard, Sent, Answered, RelayedVerbatim, Listed, Streamed

\* A call that encodes a message and hands it to NoiseWriter::send.
LEMMA SendStep ==
  ASSUME Inv, NEW who, NEW b, NEW m, Begin(who, b), Calls(who), IsMessage(m), send(m),
         UNCHANGED heard,
         who \in Answers => Len(Message_encode(m)) <= MAX_MESSAGE_SIZE,
         who = "sendmessage" => Message_encode(m) = b \/ Len(Message_encode(m)) < Len(b),
         who = "scids" => short_channel_ids(m) = Ok(listed', <<>>)
  PROVE  Inv'
  <1> DEFINE d == Message_encode(m)
  <1>1. /\ caller = "" /\ caller' = who /\ given' = b /\ heard' = heard /\ meant' = m /\ wire' = d
        /\ outcome' = IF Len(d) > MAX_MESSAGE_SIZE THEN "too large" ELSE "sent"
    BY DEF Begin, send
  <1>2. heard = NoResult
    BY <1>1 DEF Inv, Idle, Heard
  <1>3. Len(d) \in Nat /\ MAX_MESSAGE_SIZE \in Nat
    BY EncodeIs, StrEmpty, Sizes
  <1>a. who \in Answers => Len(d) <= MAX_MESSAGE_SIZE
    OBVIOUS
  <1> HIDE DEF d
  <1>b. /\ Len(d) > MAX_MESSAGE_SIZE => ~(Len(d) <= MAX_MESSAGE_SIZE)
        /\ ~(Len(d) > MAX_MESSAGE_SIZE) => Len(d) <= MAX_MESSAGE_SIZE
    BY <1>3
  <1>c. outcome' = IF Len(d) <= MAX_MESSAGE_SIZE THEN "sent" ELSE "too large"
    BY <1>1, <1>b, Zenon
  <1>4. outcome' = "sent" => Len(d) <= MAX_MESSAGE_SIZE
    BY <1>c
  <1>5. who \in Answers => outcome' = "sent"
    BY <1>a, <1>c
  <1>6. Idle' /\ Heard' /\ Answered' /\ Streamed'
    BY <1>1, <1>2, <1>5 DEF Calls, Idle, Heard, Answered, Streamed
  <1>7. Sent'
    BY <1>1, <1>4 DEF Sent, d
  <1>8. RelayedVerbatim' /\ Listed'
    BY <1>1 DEF RelayedVerbatim, Listed, d
  <1>9. QED
    BY <1>6, <1>7, <1>8 DEF Inv

\* What a caller finds when the bytes are those of a message with a codec.
LEMMA Received ==
  ASSUME NEW b \in Str, Good(Message_decode(b)), Message_decode(b).val.msg_type \in msg_type
  PROVE  DecodedFrom(Message_decode(b).val, b)
  <1> DEFINE d == Message_decode(b)
  <1>1. Good(d)
    OBVIOUS
  <1>2. CASE \E t, p : t \notin msg_type /\ d = Ok(Unknown(t, p), <<>>)
    <2>1. PICK t, p : t \notin msg_type /\ d = Ok(Unknown(t, p), <<>>)
      BY <1>2
    <2>2. Ok(Unknown(t, p), <<>>).val = Unknown(t, p)
      BY OkIs
    <2>3. Unknown(t, p).msg_type = t
      <3> DEFINE f == [payload |-> p]
      <3>1. Unknown(t, p) = Message(t, f, NoTlvs)
        BY DEF Unknown
      <3> HIDE DEF f
      <3>2. Message(t, f, NoTlvs).msg_type = t
        BY DEF Message
      <3>3. QED
        BY <3>1, <3>2
    <2>4. QED
      BY <2>1, <2>2, <2>3
  <1>3. CASE \E m : DecodedFrom(m, b)
    <2>1. PICK m : DecodedFrom(m, b)
      BY <1>3
    <2>2. d = Ok(m, <<>>)
      BY <2>1 DEF DecodedFrom
    <2>3. Ok(m, <<>>).val = m
      BY OkIs
    <2>4. QED
      BY <2>1, <2>2, <2>3
  <1>4. QED
    BY <1>1, <1>2, <1>3, MessageIs

\* A message that was received is no longer when it is encoded again.
LEMMA DecodedLen ==
  ASSUME NEW b \in Str, NEW m, DecodedFrom(m, b)
  PROVE  /\ IsMessage(m) /\ Len(Message_encode(m)) <= Len(b)
         /\ Len(Message_encode(m)) \in Nat /\ Len(b) \in Nat
  <1>1. IsMessage(m) /\ (Message_encode(m) = b \/ Len(Message_encode(m)) < Len(b))
    BY DEF DecodedFrom
  <1>2. Len(Message_encode(m)) \in Nat /\ Len(b) \in Nat
    BY <1>1, EncodeIs, StrEmpty
  <1>3. QED
    BY <1>1, <1>2

\* The read task answers a ping or a query with what fits.
LEMMA ReadTaskStep ==
  ASSUME Inv, NEW b \in Raw, ReadTask(b)
  PROVE  Inv'
  <1> DEFINE d == Message_decode(b)
  <1>1. b \in Str /\ Begin("read_task", b) /\ UNCHANGED heard
    BY InputAssumption DEF ReadTask, Str
  <1>2. PING \in msg_type /\ QUERY_CHANNEL_RANGE \in msg_type
    BY DEF msg_type
  <1>3. CASE end("too short")
    BY <1>1, <1>3, Callers, EndStep
  <1>4. CASE end("logged")
    BY <1>1, <1>4, Callers, EndStep
  <1>5. CASE d.err = "" /\ d.val.msg_type = PING /\ send(Pong_respond_to(d.val))
    <2>1. IsMessage(d.val)
      BY <1>1, <1>2, <1>5, Received, DecodedLen DEF Good
    <2> DEFINE p == Pong_respond_to(d.val)
    <2>2. IsMessage(p) /\ Len(Message_encode(p)) <= MAX_MESSAGE_SIZE
      BY <1>5, <2>1, AnswerPing
    <2>3. send(p)
      BY <1>5
    <2> HIDE DEF p
    <2>4. QED
      BY <1>1, <2>2, <2>3, Callers, SendStep
  <1>6. CASE d.err = "" /\ d.val.msg_type = QUERY_CHANNEL_RANGE /\ send(reply_to(d.val))
    <2>1. IsMessage(d.val)
      BY <1>1, <1>2, <1>6, Received, DecodedLen DEF Good
    <2> DEFINE p == reply_to(d.val)
    <2>2. IsMessage(p) /\ Len(Message_encode(p)) <= MAX_MESSAGE_SIZE
      BY <1>6, <2>1, AnswerQuery
    <2>3. send(p)
      BY <1>6
    <2> HIDE DEF p
    <2>4. QED
      BY <1>1, <2>2, <2>3, Callers, SendStep
  <1>7. QED
    BY <1>3, <1>4, <1>5, <1>6 DEF ReadTask

\* recv_message answers a ping with what fits.
LEMMA RecvMessageStep ==
  ASSUME Inv, NEW b \in Raw, RecvMessage(b)
  PROVE  Inv'
  <1> DEFINE d == Message_decode(b)
  <1>1. b \in Str /\ Begin("recv_message", b) /\ UNCHANGED heard
    BY InputAssumption DEF RecvMessage, Str
  <1>2. PING \in msg_type
    BY DEF msg_type
  <1>3. CASE end("too short")
    BY <1>1, <1>3, Callers, EndStep
  <1>4. CASE end("swallowed")
    BY <1>1, <1>4, Callers, EndStep
  <1>5. CASE end("returned")
    BY <1>1, <1>5, Callers, EndStep
  <1>6. CASE d.err = "" /\ d.val.msg_type = PING /\ send(Pong_respond_to(d.val))
    <2>1. IsMessage(d.val)
      BY <1>1, <1>2, <1>6, Received, DecodedLen DEF Good
    <2> DEFINE p == Pong_respond_to(d.val)
    <2>2. IsMessage(p) /\ Len(Message_encode(p)) <= MAX_MESSAGE_SIZE
      BY <1>6, <2>1, AnswerPing
    <2>3. send(p)
      BY <1>6
    <2> HIDE DEF p
    <2>4. QED
      BY <1>1, <2>2, <2>3, Callers, SendStep
  <1>7. QED
    BY <1>3, <1>4, <1>5, <1>6 DEF RecvMessage

\* connect answers an Init with one that is no longer.
LEMMA InitExchangeStep ==
  ASSUME Inv, NEW b \in Raw, InitExchange(b)
  PROVE  Inv'
  <1> DEFINE d == Message_decode(b)
  <1>1. b \in Str /\ Begin("connect", b) /\ Len(b) <= MAX_MESSAGE_SIZE /\ UNCHANGED heard
    BY InputAssumption DEF InitExchange, Str, Framed
  <1>2. INIT \in msg_type
    BY DEF msg_type
  <1>3. CASE end("undecodable")
    BY <1>1, <1>3, Callers, EndStep
  <1>4. CASE end("not init")
    BY <1>1, <1>4, Callers, EndStep
  <1>5. CASE d.err = "" /\ d.val.msg_type = INIT /\ send(Init_echo(d.val))
    <2>1. /\ IsMessage(d.val) /\ Len(Message_encode(d.val)) <= Len(b)
          /\ Len(Message_encode(d.val)) \in Nat /\ Len(b) \in Nat
      BY <1>1, <1>2, <1>5, Received, DecodedLen DEF Good
    <2> DEFINE p == Init_echo(d.val)
    <2>2. IsMessage(p) /\ Len(Message_encode(p)) <= Len(Message_encode(d.val))
      BY <1>5, <2>1, AnswerInit
    <2>3. send(p)
      BY <1>5
    <2> HIDE DEF p
    <2>4. Len(Message_encode(p)) \in Nat
      BY <2>2, EncodeIs, StrEmpty
    <2>5. Len(Message_encode(p)) <= MAX_MESSAGE_SIZE
      BY <1>1, <2>1, <2>2, <2>4, Sizes
    <2>6. QED
      BY <1>1, <2>2, <2>3, <2>5, Callers, SendStep
  <1>6. QED
    BY <1>3, <1>4, <1>5 DEF InitExchange

\* sendmessage sends what was decoded from the user's bytes.
LEMMA SendMessageStep ==
  ASSUME Inv, NEW b \in Raw, SendMessage(b)
  PROVE  Inv'
  <1> DEFINE d == Message_decode(b)
  <1>1. b \in Str /\ Begin("sendmessage", b) /\ UNCHANGED heard
    BY InputAssumption DEF SendMessage, Str
  <1>2. CASE end("unknown type")
    BY <1>1, <1>2, Callers, EndStep
  <1>3. CASE end("undecodable")
    BY <1>1, <1>3, Callers, EndStep
  <1>4. CASE d.err = "" /\ ~IsUnknown(d.val) /\ send(d.val)
    <2> DEFINE m == d.val
    <2>1. DecodedFrom(m, b) /\ send(m)
      BY <1>1, <1>4, Received DEF Good, IsUnknown
    <2> HIDE DEF m
    <2>2. IsMessage(m) /\ (Message_encode(m) = b \/ Len(Message_encode(m)) < Len(b))
      BY <2>1 DEF DecodedFrom
    <2>3. QED
      BY <1>1, <2>1, <2>2, Callers, SendStep DEF Answers
  <1>5. QED
    BY <1>2, <1>3, <1>4 DEF SendMessage

\* A message that a caller built is sent.
LEMMA SendBuiltStep ==
  ASSUME Inv, NEW m \in Built, SendBuilt(m)
  PROVE  Inv'
  <1> DEFINE e == <<>>
  <1>1. Begin("built", e) /\ send(m) /\ UNCHANGED heard /\ IsMessage(m)
    BY InputAssumption DEF SendBuilt
  <1> HIDE DEF e
  <1>2. QED
    BY <1>1, Callers, SendStep DEF Answers

\* The timer's ping fits.
LEMMA SendPingStep ==
  ASSUME Inv, SendPing
  PROVE  Inv'
  <1> DEFINE e == <<>>
             m == Ping_new(1)
  <1>1. Begin("ticker", e) /\ send(m) /\ UNCHANGED heard
    BY DEF SendPing
  <1>2. IsMessage(m) /\ Len(Message_encode(m)) = 3 * U16
    BY PingIs
  <1> HIDE DEF e, m
  <1>3. 3 * U16 <= MAX_MESSAGE_SIZE
    BY Sizes
  <1>4. Len(Message_encode(m)) <= MAX_MESSAGE_SIZE
    BY <1>2, <1>3
  <1>5. QED
    BY <1>1, <1>2, <1>4, Callers, SendStep

\* Zeros are a hash.
LEMMA ZeroHash == Zeros(HASH_SIZE) \in Value("hash")
  BY Sizes, ZerosIs, ValueForm

\* The ids of a range reply are read back by short_channel_ids.
LEMMA SendScidsStep ==
  ASSUME Inv, NEW scids \in ScidLists, SendScids(scids)
  PROVE  Inv'
  <1> DEFINE e == <<>>
             h == Zeros(HASH_SIZE)
             m == ReplyChannelRange_from_scids(h, 0, 1, TRUE, scids)
  <1>1. Begin("scids", e) /\ send(m) /\ UNCHANGED heard /\ listed' = scids
    BY DEF SendScids
  <1>2. scids \in Seq(Uint(U64))
    BY InputAssumption
  <1>3. 0 \in Uint(U32) /\ 1 \in Uint(U32)
    BY Widths DEF Uint
  <1>4. h \in Value("hash")
    BY ZeroHash
  <1> HIDE DEF h
  <1>5. IsMessage(m) /\ short_channel_ids(m) = Ok(scids, <<>>)
    BY <1>2, <1>3, <1>4, ScidsIs
  <1> HIDE DEF e, m
  <1>6. short_channel_ids(m) = Ok(listed', <<>>)
    BY <1>1, <1>5
  <1>7. QED
    BY <1>1, <1>5, <1>6, Callers, SendStep DEF Answers

\* An error or a warning is sent, or its constructor panics.
LEMMA SendErrorStep ==
  ASSUME Inv, NEW t \in {ERROR, WARNING}, NEW x \in Texts, SendError(t, x)
  PROVE  Inv'
  <1> DEFINE e == <<>>
             h == Zeros(HASH_SIZE)
             m == for_channel(t, h, x)
  <1>1. Begin("error", e) /\ UNCHANGED heard /\ (end("panic") \/ send(m))
    BY DEF SendError
  <1>2. IsMessage(m)
    BY InputAssumption, ZeroHash, ErrorIs DEF Str
  <1> HIDE DEF e, m
  <1>3. CASE end("panic")
    BY <1>1, <1>3, Callers, EndStep
  <1>4. CASE send(m)
    BY <1>1, <1>2, <1>4, Callers, SendStep DEF Answers
  <1>5. QED
    BY <1>1, <1>3, <1>4

\* A stream that was given is bytes.
LEMMA DecodeStreamStep ==
  ASSUME Inv, NEW b \in StreamRaw, DecodeStream(b)
  PROVE  Inv'
  <1>1. caller = "" /\ caller' = "stream" /\ outcome' = "given" /\ wire' = b /\ heard' = heard
    BY DEF DecodeStream, Begin
  <1>2. heard = NoResult
    BY <1>1 DEF Inv, Idle, Heard
  <1>3. b \in Str
    BY InputAssumption DEF Str
  <1>4. QED
    BY <1>1, <1>2, <1>3 DEF Inv, Idle, Heard, Sent, Answered, Answers, RelayedVerbatim, Listed, Streamed

\* Records of different types, added in any order, make an ordered stream.
LEMMA AddedIs ==
  ASSUME NEW records \in Added
  PROVE  LET built[i \in 0..Len(records)] ==
               IF i = 0 THEN <<>>
               ELSE TlvStream_add(built[i - 1], records[i].tlv_type, records[i].value)
         IN  IsStreamOf(built[Len(records)], records, 1..Len(records))
  <1> DEFINE n == Len(records)
             inc == 1..n
             Eq(f) == f = [i \in 0..n |->
                        IF i = 0 THEN <<>>
                        ELSE TlvStream_add(f[i - 1], records[i].tlv_type, records[i].value)]
             V == CHOOSE f : Eq(f)
  <1>1. n \in Nat /\ \A i \in inc : records[i] \in Rec
    <2>1. records \in Seq(Rec)
      BY AddedAssumption DEF Rec
    <2>2. QED
      BY <2>1
  <1>2. inc = DOMAIN records
    BY AddedAssumption
  <1>3. Different(records, inc)
    BY <1>1, <1>2, AddedAssumption DEF Different
  <1> HIDE DEF n
  <1>4. \A i \in 1..n : i \in inc
    OBVIOUS
  <1>5. inc \in SUBSET (1..n)
    OBVIOUS
  <1> HIDE DEF inc
  <1>6. PICK b : b \in [0..n -> Seq(Rec)] /\ Building(b, records, inc, n)
    BY <1>1, <1>3, BuildExists
  <1>7. Eq(b)
    <2>1. b = [i \in 0..n |-> b[i]]
      BY <1>6
    <2>2. ASSUME NEW i \in 0..n
          PROVE  b[i] = IF i = 0 THEN <<>>
                        ELSE TlvStream_add(b[i - 1], records[i].tlv_type, records[i].value)
      <3>1. CASE i = 0
        BY <1>6, <3>1 DEF Building
      <3>2. CASE i # 0
        <4>1. i \in 1..n
          BY <1>1, <3>2
        <4>2. QED
          BY <1>4, <1>6, <3>2, <4>1 DEF Building
      <3>3. QED
        BY <3>1, <3>2
    <2>3. QED
      BY <2>1, <2>2
  <1>8. Eq(V)
    <2> HIDE DEF Eq
    <2>1. QED
      BY <1>7
  <1> HIDE DEF V
  <1>9. Building(V, records, inc, n)
    <2>1. \A i \in 0..n :
            V[i] = IF i = 0 THEN <<>>
                   ELSE TlvStream_add(V[i - 1], records[i].tlv_type, records[i].value)
      BY <1>8
    <2>2. V[0] = <<>>
      <3>1. 0 \in 0..n
        BY <1>1
      <3>2. QED
        BY <2>1, <3>1, Zenon
    <2>3. ASSUME NEW i \in 1..n
          PROVE  V[i] = IF i \in inc THEN TlvStream_add(V[i - 1], records[i].tlv_type, records[i].value)
                        ELSE V[i - 1]
      <3>1. i \in 0..n /\ i # 0
        BY <1>1
      <3>2. QED
        BY <1>4, <2>1, <3>1
    <2>4. QED
      BY <2>2, <2>3 DEF Building
  <1>10. IsStreamOf(V[n], records, inc)
    BY <1>1, <1>3, <1>5, <1>9, BuildIs
  <1>11. QED
    BY <1>10, Zenon DEF V, n, inc

\* A stream that was built is the ordered stream of its records.
LEMMA EncodeStreamStep ==
  ASSUME Inv, NEW records \in Added, EncodeStream(records)
  PROVE  Inv'
  <1> DEFINE n == Len(records)
             Eq(f) == f = [i \in 0..n |->
                        IF i = 0 THEN <<>>
                        ELSE TlvStream_add(f[i - 1], records[i].tlv_type, records[i].value)]
             V == CHOOSE f : Eq(f)
             s == V[n]
  <1>1. /\ caller = "" /\ caller' = "stream" /\ outcome' = "added" /\ listed' = records
        /\ wire' = TlvStream_encode(s) /\ heard' = heard
    BY Zenon DEF EncodeStream, Begin
  <1>2. IsStreamOf(s, records, 1..n)
    BY AddedIs, Zenon
  <1>3. heard = NoResult
    BY <1>1 DEF Inv, Idle, Heard
  <1> HIDE DEF s
  <1>4. PICK m \in Nat : /\ s \in [1..m -> Rec] /\ Ordered(s, m)
                         /\ Contents(s, m) = {records[j] : j \in 1..n}
    BY <1>2 DEF IsStreamOf
  <1>5. DOMAIN records = 1..n
    BY AddedAssumption
  <1>6. {records[j] : j \in 1..n} = ToSet(records)
    BY <1>5 DEF ToSet
  <1>7. Assembled(listed)'
    BY <1>1, <1>4, <1>5, <1>6 DEF Assembled
  <1>8. QED
    BY <1>1, <1>3, <1>7 DEF Inv, Idle, Heard, Sent, Answered, Answers, RelayedVerbatim, Listed, Streamed

\* The other end decodes what was sent.
LEMMA PeerDecodesStep ==
  ASSUME Inv, PeerDecodes
  PROVE  Inv'
  BY DEF PeerDecodes, Inv, Idle, Heard, Sent, Answered, Answers, RelayedVerbatim, Listed, Streamed,
         Assembled

\* A call that is over leaves nothing behind.
LEMMA ReturnStep ==
  ASSUME Inv, Return
  PROVE  Inv'
  BY DEF Return, Inv, Idle, Heard, Sent, Answered, Answers, RelayedVerbatim, Listed, Streamed

\* Nothing changes.
LEMMA StutterStep ==
  ASSUME Inv, UNCHANGED vars
  PROVE  Inv'
  BY DEF vars, Inv, Idle, Heard, Sent, Answered, Answers, RelayedVerbatim, Listed, Streamed, Assembled

\* The invariant holds in every state of every behaviour: no call leaves behind bytes that
\* are not the encoding of what was meant, or that the other end understands otherwise.
THEOREM Invariance == Spec => []Inv
  <1>1. Init => Inv
    BY InitInv
  <1>2. Inv /\ [Next]_vars => Inv'
    <2> SUFFICES ASSUME Inv, [Next]_vars
                 PROVE  Inv'
      OBVIOUS
    <2>1. ASSUME NEW b \in Raw, ReadTask(b)
          PROVE  Inv'
      BY <2>1, ReadTaskStep
    <2>2. ASSUME NEW b \in Raw, RecvMessage(b)
          PROVE  Inv'
      BY <2>2, RecvMessageStep
    <2>3. ASSUME NEW b \in Raw, InitExchange(b)
          PROVE  Inv'
      BY <2>3, InitExchangeStep
    <2>4. ASSUME NEW b \in Raw, SendMessage(b)
          PROVE  Inv'
      BY <2>4, SendMessageStep
    <2>5. ASSUME NEW m \in Built, SendBuilt(m)
          PROVE  Inv'
      BY <2>5, SendBuiltStep
    <2>6. CASE SendPing
      BY <2>6, SendPingStep
    <2>7. ASSUME NEW s \in ScidLists, SendScids(s)
          PROVE  Inv'
      BY <2>7, SendScidsStep
    <2>8. ASSUME NEW x \in Texts, NEW t \in {ERROR, WARNING}, SendError(t, x)
          PROVE  Inv'
      BY <2>8, SendErrorStep
    <2>9. ASSUME NEW b \in StreamRaw, DecodeStream(b)
          PROVE  Inv'
      BY <2>9, DecodeStreamStep
    <2>10. ASSUME NEW r \in Added, EncodeStream(r)
           PROVE  Inv'
      BY <2>10, EncodeStreamStep
    <2>11. CASE PeerDecodes
      BY <2>11, PeerDecodesStep
    <2>12. CASE Return
      BY <2>12, ReturnStep
    <2>13. CASE UNCHANGED vars
      BY <2>13, StutterStep
    <2>14. QED
      BY <2>1, <2>2, <2>3, <2>4, <2>5, <2>6, <2>7, <2>8, <2>9, <2>10, <2>11, <2>12, <2>13 DEF Next
  <1>3. QED
    BY <1>1, <1>2, PTL DEF Spec

------------------------------------------------------------------------------
(* What a caller relies on.                                                 *)

\* Whatever leaves the program is decoded by the program at the other end as the message
\* that was meant, of whatever type, with the same ids in a range reply.
THEOREM Understood == Spec => []UnderstoodAsMeant
  <1>1. ASSUME Inv, heard # NoResult
        PROVE  /\ heard = Ok(meant, <<>>)
               /\ caller = "scids" => short_channel_ids(meant) = Ok(listed, <<>>)
    <2>1. outcome = "sent" /\ heard = Message_decode(wire)
      BY <1>1 DEF Inv, Heard
    <2>2. IsMessage(meant) /\ wire = Message_encode(meant) /\ Len(wire) <= MAX_MESSAGE_SIZE
      BY <1>1, <2>1 DEF Inv, Sent
    <2>3. Message_decode(Message_encode(meant)) = Ok(meant, <<>>)
      BY <2>2, MessageOf
    <2>4. QED
      BY <1>1, <2>1, <2>2, <2>3 DEF Inv, Listed
  <1>2. Inv => UnderstoodAsMeant
    <2>1. Ok(meant, <<>>).err = "" /\ Ok(meant, <<>>).val = meant
      BY OkIs
    <2>2. QED
      BY <1>1, <2>1, Zenon DEF UnderstoodAsMeant
  <1>3. QED
    BY <1>2, Invariance, PTL

\* Every answer that the read task, recv_message, the Init exchange and the ping timer owe a
\* peer passes the size check of NoiseWriter::send, whatever the peer sent.
THEOREM Fit == Spec => []AnswersFit
  <1>1. Inv => AnswersFit
    <2> SUFFICES ASSUME Inv
                 PROVE  AnswersFit
      OBVIOUS
    <2>1. caller \in {"read_task", "recv_message", "connect", "ticker"} => outcome # "too large"
      BY DEF Inv, Answered, Answers
    <2>2. ASSUME outcome = "sent"
          PROVE  Len(wire) > U16
      <3>1. IsMessage(meant) /\ wire = Message_encode(meant)
        BY <2>2 DEF Inv, Sent
      <3> DEFINE w == write_fields(fields_of(meant.msg_type), meant.fields)
                 e == Options(meant.msg_type, meant.tlvs)
      <3>2. Len(wire) = U16 + Len(w) + Len(e) /\ Len(w) \in Nat /\ Len(w) >= 1 /\ Len(e) \in Nat
        BY <3>1, EncodeIs
      <3>3. U16 \in Nat
        BY Widths
      <3> HIDE DEF w, e
      <3>4. QED
        BY <3>2, <3>3
    <2>3. QED
      BY <2>1, <2>2 DEF AnswersFit
  <1>2. QED
    BY <1>1, Invariance, PTL

\* What sendmessage sends is what the user typed, or shorter by what the codec dropped.
THEOREM Relayed == Spec => []RelayedVerbatim
  <1>1. Inv => RelayedVerbatim
    BY DEF Inv
  <1>2. QED
    BY <1>1, Invariance, PTL

\* A signature covers exactly the bytes that follow the signatures on the wire.
THEOREM SignedCovers == Spec => []SignaturesCoverWire
  <1>1. Inv => SignaturesCoverWire
    <2> SUFFICES ASSUME Inv, outcome = "sent",
                        meant.msg_type \in {CHANNEL_ANNOUNCEMENT, NODE_ANNOUNCEMENT, CHANNEL_UPDATE}
                 PROVE  LET n == IF meant.msg_type = CHANNEL_ANNOUNCEMENT THEN 4 ELSE 1
                        IN  signature_hash(meant)
                              = SubSeq(wire, U16 + n * COMPACT_SIGNATURE_SIZE + 1, Len(wire))
      BY DEF SignaturesCoverWire
    <2>1. IsMessage(meant) /\ wire = Message_encode(meant)
      BY DEF Inv, Sent
    <2>2. QED
      BY <2>1, SignedIs DEF Signatures
  <1>2. QED
    BY <1>1, Invariance, PTL

\* TlvStream::decode of any bytes: what it accepts is the one encoding of its records.
LEMMA GivenCanonical ==
  ASSUME NEW d \in Str, NEW known, Good(TlvStream_decode_with_known(d, known))
  PROVE  LET s == TlvStream_decode_with_known(d, known).val
         IN  /\ \A i \in 2..Len(s) : s[i - 1].tlv_type < s[i].tlv_type
             /\ \A i \in 1..Len(s) : s[i].tlv_type % 2 = 1 \/ s[i].tlv_type \in known
             /\ TlvStream_encode(s) = d
  <1> DEFINE r == TlvStream_decode_with_known(d, known)
             v == r.val
  <1>1. PICK n \in Nat : \E s \in [1..n -> Rec] :
           /\ r = Ok(s, <<>>) /\ Ordered(s, n) /\ Allowed(s, n, known) /\ TlvStream_encode(s) = d
    BY DecodeIs
  <1>2. PICK s \in [1..n -> Rec] :
           /\ r = Ok(s, <<>>) /\ Ordered(s, n) /\ Allowed(s, n, known) /\ TlvStream_encode(s) = d
    BY <1>1
  <1> HIDE DEF r
  <1>3. v = s
    BY <1>2, OkIs
  <1> HIDE DEF v
  <1>4. Len(s) = n
    OBVIOUS
  <1>5. \A i \in 2..n : s[i - 1].tlv_type < s[i].tlv_type
    BY <1>2 DEF Ordered
  <1>6. ASSUME NEW i \in 1..n
        PROVE  s[i].tlv_type % 2 = 1 \/ s[i].tlv_type \in known
    <2> DEFINE t == s[i].tlv_type
    <2>1. t \in Nat
      BY RecIs
    <2>2. ~(t % 2 = 0 /\ t \notin known)
      BY <1>2 DEF Allowed, Refused
    <2> HIDE DEF t
    <2>3. t % 2 = 0 \/ t % 2 = 1
      BY <2>1
    <2>4. QED
      BY <2>2, <2>3 DEF t
  <1>7. QED
    BY <1>2, <1>3, <1>4, <1>5, <1>6 DEF v, r

\* A stream that was made by adding records decodes to these records, unless a receiver has to
\* refuse one of them.
LEMMA AddedCanonical ==
  ASSUME NEW records, Assembled(records), NEW known
  PROVE  LET r == TlvStream_decode_with_known(wire, known)
         IN  IF \A i \in 1..Len(records) : records[i].tlv_type % 2 = 1 \/ records[i].tlv_type \in known
               THEN Good(r) /\ ToSet(r.val) = ToSet(records)
               ELSE ~Good(r)
  <1> DEFINE r == TlvStream_decode_with_known(wire, known)
             n == Len(records)
             fine(x) == x.tlv_type % 2 = 1 \/ x.tlv_type \in known
  <1>1. DOMAIN records = 1..n
    BY DEF Assembled
  <1>2. PICK m \in Nat : \E u \in [1..m -> Rec] :
           wire = TlvStream_encode(u) /\ Ordered(u, m) /\ Contents(u, m) = ToSet(records)
    BY DEF Assembled
  <1>3. PICK u \in [1..m -> Rec] :
           wire = TlvStream_encode(u) /\ Ordered(u, m) /\ Contents(u, m) = ToSet(records)
    BY <1>2
  <1>4. \A i \in 1..m : u[i].tlv_type \in Nat
    BY RecIs
  <1>5. ASSUME NEW t \in Nat
        PROVE  Refused(t, known) <=> ~(t % 2 = 1 \/ t \in known)
    <2>1. (t % 2 = 0 /\ ~(t % 2 = 1)) \/ (t % 2 = 1 /\ ~(t % 2 = 0))
      OBVIOUS
    <2>2. QED
      BY <2>1 DEF Refused
  <1>6. Allowed(u, m, known) <=> \A i \in 1..m : fine(u[i])
    BY <1>4, <1>5 DEF Allowed
  <1>7. (\A i \in 1..m : fine(u[i])) <=> \A x \in ToSet(records) : fine(x)
    <2> HIDE DEF fine
    <2>1. \A x : x \in Contents(u, m) <=> \E i \in 1..m : x = u[i]
      BY DEF Contents
    <2>2. QED
      BY <1>3, <2>1
  <1>8. (\A i \in 1..n : fine(records[i])) <=> \A x \in ToSet(records) : fine(x)
    <2> HIDE DEF fine
    <2>1. \A x : x \in ToSet(records) <=> \E i \in 1..n : x = records[i]
      BY <1>1 DEF ToSet
    <2> HIDE DEF n
    <2>2. QED
      BY <2>1
  <1>9. CASE \A i \in 1..n : fine(records[i])
    <2>1. Allowed(u, m, known)
      BY <1>6, <1>7, <1>8, <1>9
    <2>2. r = Ok(u, <<>>)
      BY <1>3, <2>1, DecodeOf
    <2>3. ToSet(u) = Contents(u, m)
      BY DEF ToSet, Contents
    <2>4. Good(Ok(u, <<>>)) /\ Ok(u, <<>>).val = u
      BY OkIs
    <2> HIDE DEF r
    <2>5. Good(r) /\ r.val = u
      BY <2>2, <2>4
    <2>6. Good(r) /\ ToSet(r.val) = ToSet(records)
      BY <1>3, <2>3, <2>5
    <2>7. QED
      BY <1>9, <2>6, Zenon DEF r
  <1>10. CASE ~ \A i \in 1..n : fine(records[i])
    <2>1. ~Allowed(u, m, known)
      BY <1>6, <1>7, <1>8, <1>10
    <2>2. ~Good(r)
      BY <1>3, <2>1, DecodeRefused
    <2>3. QED
      BY <1>10, <2>2, Zenon
  <1>11. QED
    BY <1>9, <1>10, Zenon

\* Streams are canonical: no two byte strings decode to the same records, and the order in
\* which records were added does not show.
THEOREM Canonical == Spec => []StreamsCanonical
  <1>1. ASSUME Inv, caller = "stream", NEW known
        PROVE  LET d == TlvStream_decode_with_known(wire, known)
                   legal(s) == /\ \A i \in 2..Len(s) : s[i - 1].tlv_type < s[i].tlv_type
                               /\ \A i \in 1..Len(s) : s[i].tlv_type % 2 = 1 \/ s[i].tlv_type \in known
               IN  /\ Good(d) => legal(d.val) /\ TlvStream_encode(d.val) = wire
                   /\ outcome = "added" =>
                        IF \A i \in 1..Len(listed) : listed[i].tlv_type % 2 = 1 \/ listed[i].tlv_type \in known
                          THEN Good(d) /\ ToSet(d.val) = ToSet(listed)
                          ELSE ~Good(d)
    <2>1. (outcome = "given" /\ wire \in Str) \/ (outcome = "added" /\ Assembled(listed))
      BY <1>1 DEF Inv, Streamed
    <2>2. outcome = "added" => Assembled(listed)
      BY <2>1
    <2>3. wire \in Str
      <3>1. CASE outcome = "given" /\ wire \in Str
        BY <3>1
      <3>2. CASE Assembled(listed)
        BY <3>2, StreamEncode DEF Assembled
      <3>3. QED
        BY <2>1, <3>1, <3>2
    <2>4. QED
      BY <2>2, <2>3, GivenCanonical, AddedCanonical, Zenon
  <1>2. Inv => StreamsCanonical
    BY <1>1, Zenon DEF StreamsCanonical, Good
  <1>3. QED
    BY <1>2, Invariance, PTL
==============================================================================
