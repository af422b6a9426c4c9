------------------------------ MODULE MC_Codec -------------------------------
(* A byte has 17 values, so that the message types keep their numbers; a    *)
(* u16 counts to 288, a u32 has three bytes and a u64 four.  What a peer or *)
(* a user gives is the encoding of a message of every type, whole, cut      *)
(* anywhere, with any one byte changed, or with something after it.         *)
EXTENDS Codec

Hash == Zeros(HASH_SIZE)
Key == [i \in 1..PUBLIC_KEY_SIZE |-> 2]
Sig == [i \in 1..COMPACT_SIGNATURE_SIZE |-> i]
Digits(n) == [i \in 1..n |-> i % Base]

\* A message whose fields have the value the sample gives for their form.
Sample(t, vec, tlvs) ==
  LET value(form) ==
        CASE form = "u8" -> 1 [] form = "u16" -> Base + 1 [] form = "u32" -> Base^2
          [] form = "u64" -> Base^3 + 5 [] form = "hash" -> Hash [] form = "rgb" -> <<7, 8, 9>>
          [] form = "pubkey" -> Key [] form = "signature" -> Sig [] form = "bytes" -> vec
  IN  Message(t, [n \in names_of(fields_of(t)) |-> value(form_of(fields_of(t), n))], tlvs)

NoOptions == {Sample(t, Digits(2), NoTlvs) : t \in msg_type}
Options ==
  {Sample(INIT, <<>>, 1 :> <<Hash, Hash>> @@ 3 :> <<5>>),
   Sample(OPEN_CHANNEL, <<>>, 0 :> <<>> @@ 1 :> <<4>>),
   Sample(QUERY_CHANNEL_RANGE, <<>>, 1 :> Base^U16),
   Sample(REPLY_CHANNEL_RANGE, <<0>>, 1 :> <<0>> @@ 3 :> <<>>)}

\* Pings that ask for as much as a pong can hold, and for more.
Pings == {Ping_new(n) : n \in {MAX_MESSAGE_SIZE - 4, MAX_MESSAGE_SIZE - 3, MAX_MESSAGE_SIZE}}

\* Vectors around the largest that fits, alone and with the rest of a message.
Long ==
  {Sample(t, Digits(n), NoTlvs) : t \in {INIT, PONG, PING, ERROR, NODE_ANNOUNCEMENT},
                                 n \in {MAX_MESSAGE_SIZE - 4, MAX_MESSAGE_SIZE,
                                        MAX_MESSAGE_SIZE + 1, MAX_MESSAGE_SIZE + 3}}

MCBuilt == NoOptions \cup Options \cup Long

Tails ==
  {<<0>>, <<3, 0>>, <<1, 1, 3>>, <<5, 1, 6>>, <<2, 0>>, <<5, 0, 3, 0>>, <<3, 0, 1, 0>>,
   <<Base - 3, 0, 5, 0>>, <<Base - 3, 1, 2, 0>>, <<1, 2, 3, 4>>}

Variants(m) ==
  LET e == Message_encode(m)
  IN  {e} \cup {SubSeq(e, 1, i) : i \in 0..(Len(e) - 1)}
          \cup {ReplaceAt(e, i, x) : i \in 1..Len(e), x \in {0, 3, Base - 3, Base - 1}}
          \cup {e \o x : x \in Tails}

MCRaw ==
  UNION {Variants(m) : m \in NoOptions \cup Options}
    \cup {Message_encode(m) : m \in Long \cup Pings} \cup {to_be_bytes(U16, 35) \o <<1>>}

MCScidLists == {<<>>, <<5, Base^3>>} \cup {[i \in 1..n |-> i] : n \in {68, 69, 70, 72, 73}}
MCTexts == {Digits(n) : n \in {0, 3, MAX_MESSAGE_SIZE - 6, MAX_MESSAGE_SIZE - 5,
                              MAX_MESSAGE_SIZE, MAX_MESSAGE_SIZE + 1}}

MCStreamRaw == BoundedSeq({0, 1, 2, 3, Base - 3}, 5)

MCAdded ==
  {s \in BoundedSeq({TlvRecord(t, v) : t \in {0, 1, 2, 3, Base - 3, Base^U16},
                                       v \in {<<>>, <<1, 2>>}}, 3) :
     \A i, j \in 1..Len(s) : i # j => s[i].tlv_type # s[j].tlv_type}
==============================================================================
