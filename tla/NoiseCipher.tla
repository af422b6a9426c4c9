----------------------------- MODULE NoiseCipher -----------------------------
(***************************************************************************)
(* The transport ciphers of noise/src/cipher.rs on the two ends of one     *)
(* connection, and the byte stream between them.                           *)
(*                                                                         *)
(* Every endpoint starts with the NoiseCipher that a completed handshake   *)
(* hands out and may split it, at any moment, into a SendCipher and a      *)
(* RecvCipher; the code keeps two copies of every operation, one for the   *)
(* whole cipher and one for the halves, and so does this module.  A        *)
(* message becomes two AEAD units, its length header and its body, each    *)
(* under its own nonce.  The key is replaced before a unit whenever the    *)
(* nonce has reached KEY_ROTATION_THRESHOLD.                               *)
(*                                                                         *)
(* Keys are symbolic.  A key is the direction it was first derived for,    *)
(* how many HKDF steps it is away from the handshake and the chaining key  *)
(* used in the last of these steps; a chaining key is the number of steps  *)
(* it has been through.  A unit opens exactly under the key and the nonce  *)
(* that sealed it, untouched, and read as the number of bytes it has.      *)
(***************************************************************************)
EXTENDS Integers, Sequences

CONSTANTS
  Initiator, Responder,     \* the two endpoints
  Message,                  \* message bodies
  Size,                     \* Size[m]: bytes of a body
  KEY_ROTATION_THRESHOLD,   \* units per key
  MaxSends,                 \* bound: MaxSends[e] messages are encrypted by e
  MaxFaults                 \* bound: times the stream is disturbed

Endpoint == {Initiator, Responder}

Other(e) == IF e = Initiator THEN Responder ELSE Initiator

MAC_SIZE == 16
MAX_MESSAGE_SIZE == 65535
ENCRYPTED_LENGTH_SIZE == 2 + MAC_SIZE

ASSUME EndpointAssumption == Initiator # Responder

\* A body is a 2-byte type followed by a payload, and every codec of the bolt
\* crate writes a non-empty payload: no body is as short as a length field.
ASSUME SizeAssumption == Size \in [Message -> Nat \ {2}]

ASSUME ThresholdAssumption == KEY_ROTATION_THRESHOLD \in Nat \ {0}

ASSUME BoundAssumption == MaxSends \in [Endpoint -> Nat] /\ MaxFaults \in Nat

VARIABLES
  cipher,     \* cipher[e]: a whole NoiseCipher, or the two halves of a split one
  phase,      \* phase[e]: what e's receive call reads next, "header" or "body"
  msg_len,    \* msg_len[e]: the length that e's receive call has just decrypted
  wire,       \* wire[e]: units of e that the other end has not read yet
  faults,     \* number of disturbances of the stream so far
  \* History.
  sent,       \* sent[e]: messages e encrypted
  log,        \* log[e]: units e sealed
  taken,      \* taken[e]: how many units of e opened at the other end
  delivered,  \* delivered[e]: messages of e the other end decrypted
  failed      \* failed[e]: a unit read at the other end of e failed to open

vars == <<cipher, phase, msg_len, wire, faults,
          sent, log, taken, delivered, failed>>

------------------------------------------------------------------------------
(* Keys and AEAD units.                                                     *)

RootKey(e) == [root |-> e, gen |-> 0, salt |-> 0]

\* Fault: a derivation that hands back the key it was given.
hkdf_two_keys_same(salt, ikm) == [ck |-> salt + 1, key |-> ikm]

hkdf_two_keys(salt, ikm) ==
  [ck |-> salt + 1, key |-> [root |-> ikm.root, gen |-> ikm.gen + 1, salt |-> salt]]

\* The plaintext of a unit: the length field of m, or m itself.
encrypt_with_ad(key, nonce, kind, m) ==
  [key |-> key, nonce |-> nonce, kind |-> kind, msg |-> m, intact |-> TRUE]

UnitSize(u) ==
  IF u.kind = "header" THEN ENCRYPTED_LENGTH_SIZE ELSE Size[u.msg] + MAC_SIZE

\* u opens when read as a unit of `size` bytes.
decrypt_with_ad(key, nonce, size, u) ==
  u.intact /\ u.key = key /\ u.nonce = nonce /\ UnitSize(u) = size

------------------------------------------------------------------------------
(* SendCipher and RecvCipher: the halves of a split cipher.                 *)

\* Fault: the key is replaced and the nonce is not reset.
SendCipher_maybe_rotate_unreset(h) ==
  IF h.nonce >= KEY_ROTATION_THRESHOLD
    THEN LET new == hkdf_two_keys(h.ck, h.key)
         IN  [key |-> new.key, nonce |-> h.nonce, ck |-> new.ck]
    ELSE h

SendCipher_maybe_rotate(h) ==
  IF h.nonce >= KEY_ROTATION_THRESHOLD
    THEN LET new == hkdf_two_keys(h.ck, h.key)
         IN  [key |-> new.key, nonce |-> 0, ck |-> new.ck]
    ELSE h

SendCipher_encrypt_length(h, m) ==
  LET r == SendCipher_maybe_rotate(h)
  IN  [cipher |-> [key |-> r.key, nonce |-> r.nonce + 1, ck |-> r.ck],
       unit   |-> encrypt_with_ad(r.key, r.nonce, "header", m)]

SendCipher_encrypt(h, m) ==
  LET header == SendCipher_encrypt_length(h, m)
      r      == SendCipher_maybe_rotate(header.cipher)
  IN  [cipher |-> [key |-> r.key, nonce |-> r.nonce + 1, ck |-> r.ck],
       header |-> header.unit,
       body   |-> encrypt_with_ad(r.key, r.nonce, "body", m)]

\* Fault: the chaining key is not carried over.
RecvCipher_maybe_rotate_stale(h) ==
  IF h.nonce >= KEY_ROTATION_THRESHOLD
    THEN [key |-> hkdf_two_keys(h.ck, h.key).key, nonce |-> 0, ck |-> h.ck]
    ELSE h

RecvCipher_maybe_rotate(h) ==
  IF h.nonce >= KEY_ROTATION_THRESHOLD
    THEN LET new == hkdf_two_keys(h.ck, h.key)
         IN  [key |-> new.key, nonce |-> 0, ck |-> new.ck]
    ELSE h

\* Fault: the nonce advances whether or not the unit opens.
RecvCipher_decrypt_skipping(h, size, u) ==
  LET r == RecvCipher_maybe_rotate(h)
  IN  [cipher |-> [key |-> r.key, nonce |-> r.nonce + 1, ck |-> r.ck],
       ok     |-> decrypt_with_ad(r.key, r.nonce, size, u)]

\* Opens a unit that was read as `size` bytes.  A failed attempt keeps the
\* rotation it may have made and does not advance the nonce.
RecvCipher_decrypt(h, size, u) ==
  LET r  == RecvCipher_maybe_rotate(h)
      ok == decrypt_with_ad(r.key, r.nonce, size, u)
  IN  [cipher |-> IF ok THEN [key |-> r.key, nonce |-> r.nonce + 1, ck |-> r.ck]
                        ELSE r,
       ok     |-> ok]

RecvCipher_decrypt_length(h, u) == RecvCipher_decrypt(h, ENCRYPTED_LENGTH_SIZE, u)
RecvCipher_decrypt_message(h, n, u) == RecvCipher_decrypt(h, n + MAC_SIZE, u)

------------------------------------------------------------------------------
(* NoiseCipher: both directions in one value.                               *)

NoiseCipher_new(send_key, recv_key, chaining_key) ==
  [form |-> "whole",
   send_key |-> send_key, recv_key |-> recv_key,
   send_nonce |-> 0, recv_nonce |-> 0,
   send_ck |-> chaining_key, recv_ck |-> chaining_key]

\* Fault: off by one.
maybe_rotate_send_key_late(c) ==
  IF c.send_nonce > KEY_ROTATION_THRESHOLD
    THEN LET new == hkdf_two_keys(c.send_ck, c.send_key)
         IN  [c EXCEPT !.send_ck = new.ck, !.send_key = new.key, !.send_nonce = 0]
    ELSE c

maybe_rotate_send_key(c) ==
  IF c.send_nonce >= KEY_ROTATION_THRESHOLD
    THEN LET new == hkdf_two_keys(c.send_ck, c.send_key)
         IN  [c EXCEPT !.send_ck = new.ck, !.send_key = new.key, !.send_nonce = 0]
    ELSE c

maybe_rotate_recv_key(c) ==
  IF c.recv_nonce >= KEY_ROTATION_THRESHOLD
    THEN LET new == hkdf_two_keys(c.recv_ck, c.recv_key)
         IN  [c EXCEPT !.recv_ck = new.ck, !.recv_key = new.key, !.recv_nonce = 0]
    ELSE c

NoiseCipher_encrypt_length(c, m) ==
  LET r == maybe_rotate_send_key(c)
  IN  [cipher |-> [r EXCEPT !.send_nonce = @ + 1],
       unit   |-> encrypt_with_ad(r.send_key, r.send_nonce, "header", m)]

NoiseCipher_encrypt(c, m) ==
  LET header == NoiseCipher_encrypt_length(c, m)
      r      == maybe_rotate_send_key(header.cipher)
  IN  [cipher |-> [r EXCEPT !.send_nonce = @ + 1],
       header |-> header.unit,
       body   |-> encrypt_with_ad(r.send_key, r.send_nonce, "body", m)]

\* Fault: the nonce advances whether or not the unit opens.
NoiseCipher_decrypt_skipping(c, size, u) ==
  LET r == maybe_rotate_recv_key(c)
  IN  [cipher |-> [r EXCEPT !.recv_nonce = @ + 1],
       ok     |-> decrypt_with_ad(r.recv_key, r.recv_nonce, size, u)]

NoiseCipher_decrypt(c, size, u) ==
  LET r  == maybe_rotate_recv_key(c)
      ok == decrypt_with_ad(r.recv_key, r.recv_nonce, size, u)
  IN  [cipher |-> IF ok THEN [r EXCEPT !.recv_nonce = @ + 1] ELSE r,
       ok     |-> ok]

NoiseCipher_decrypt_length(c, u) == NoiseCipher_decrypt(c, ENCRYPTED_LENGTH_SIZE, u)
NoiseCipher_decrypt_message(c, n, u) == NoiseCipher_decrypt(c, n + MAC_SIZE, u)

\* Fault: the halves start counting afresh.
NoiseCipher_split_afresh(c) ==
  [form |-> "split",
   send  |-> [key |-> c.send_key, nonce |-> 0, ck |-> c.send_ck],
   recv  |-> [key |-> c.recv_key, nonce |-> 0, ck |-> c.recv_ck]]

NoiseCipher_split(c) ==
  [form |-> "split",
   send  |-> [key |-> c.send_key, nonce |-> c.send_nonce, ck |-> c.send_ck],
   recv  |-> [key |-> c.recv_key, nonce |-> c.recv_nonce, ck |-> c.recv_ck]]

------------------------------------------------------------------------------
(* The operations of an endpoint.                                           *)

\* The handshake leaves the two ends with the same two keys, swapped.
Init ==
  /\ cipher = [e \in Endpoint |-> NoiseCipher_new(RootKey(e), RootKey(Other(e)), 0)]
  /\ phase = [e \in Endpoint |-> "header"]
  /\ msg_len = [e \in Endpoint |-> 0]
  /\ wire = [e \in Endpoint |-> <<>>]
  /\ faults = 0
  /\ sent = [e \in Endpoint |-> <<>>]
  /\ log = [e \in Endpoint |-> <<>>]
  /\ taken = [e \in Endpoint |-> 0]
  /\ delivered = [e \in Endpoint |-> <<>>]
  /\ failed = [e \in Endpoint |-> FALSE]

Split(e) ==
  /\ cipher[e].form = "whole"
  /\ cipher' = [cipher EXCEPT ![e] = NoiseCipher_split(@)]
  /\ UNCHANGED <<phase, msg_len, wire, faults, sent, log, taken, delivered, failed>>

\* Encrypt with whichever cipher e owns.
Encrypted(e, m) ==
  IF cipher[e].form = "whole"
    THEN NoiseCipher_encrypt(cipher[e], m)
    ELSE LET r == SendCipher_encrypt(cipher[e].send, m)
         IN  [cipher |-> [cipher[e] EXCEPT !.send = r.cipher],
              header |-> r.header, body |-> r.body]

\* NoiseWriter::send and NoiseConnection::send_message.  A message over
\* MAX_MESSAGE_SIZE is refused before anything is encrypted.
Send(e, m) ==
  /\ Len(sent[e]) < MaxSends[e]
  /\ Size[m] <= MAX_MESSAGE_SIZE
  /\ LET r     == Encrypted(e, m)
         units == <<r.header, r.body>>
     IN  /\ cipher' = [cipher EXCEPT ![e] = r.cipher]
         /\ wire' = [wire EXCEPT ![e] = @ \o units]
         /\ log' = [log EXCEPT ![e] = @ \o units]
  /\ sent' = [sent EXCEPT ![e] = Append(@, m)]
  /\ UNCHANGED <<phase, msg_len, faults, taken, delivered, failed>>

\* Decrypt with whichever cipher e owns; `size` is what the call has read.
OpenedLength(e, u) ==
  IF cipher[e].form = "whole"
    THEN NoiseCipher_decrypt_length(cipher[e], u)
    ELSE LET r == RecvCipher_decrypt_length(cipher[e].recv, u)
         IN  [cipher |-> [cipher[e] EXCEPT !.recv = r.cipher], ok |-> r.ok]

OpenedMessage(e, n, u) ==
  IF cipher[e].form = "whole"
    THEN NoiseCipher_decrypt_message(cipher[e], n, u)
    ELSE LET r == RecvCipher_decrypt_message(cipher[e].recv, n, u)
         IN  [cipher |-> [cipher[e] EXCEPT !.recv = r.cipher], ok |-> r.ok]

\* The first half of NoiseReader::recv and NoiseConnection::recv_message, by the
\* endpoint that reads what d wrote.  On failure the call returns its error and
\* a later call starts with a header again.
RecvHeader(d) ==
  LET e == Other(d)
      u == Head(wire[d])
      r == OpenedLength(e, u)
  IN  /\ phase[e] = "header"
      /\ wire[d] # <<>>
      /\ wire' = [wire EXCEPT ![d] = Tail(@)]
      /\ cipher' = [cipher EXCEPT ![e] = r.cipher]
      /\ \/ /\ r.ok
            /\ msg_len' = [msg_len EXCEPT ![e] = Size[u.msg]]
            /\ phase' = [phase EXCEPT ![e] = "body"]
            /\ taken' = [taken EXCEPT ![d] = @ + 1]
            /\ UNCHANGED failed
         \/ /\ ~r.ok
            /\ failed' = [failed EXCEPT ![d] = TRUE]
            /\ UNCHANGED <<msg_len, phase, taken>>
      /\ UNCHANGED <<faults, sent, log, delivered>>

\* The second half: the body, read as the decrypted length plus its MAC.
RecvBody(d) ==
  LET e == Other(d)
      u == Head(wire[d])
      r == OpenedMessage(e, msg_len[e], u)
  IN  /\ phase[e] = "body"
      /\ wire[d] # <<>>
      /\ wire' = [wire EXCEPT ![d] = Tail(@)]
      /\ cipher' = [cipher EXCEPT ![e] = r.cipher]
      /\ phase' = [phase EXCEPT ![e] = "header"]
      /\ \/ /\ r.ok
            /\ delivered' = [delivered EXCEPT ![d] = Append(@, u.msg)]
            /\ taken' = [taken EXCEPT ![d] = @ + 1]
            /\ UNCHANGED failed
         \/ /\ ~r.ok
            /\ failed' = [failed EXCEPT ![d] = TRUE]
            /\ UNCHANGED <<delivered, taken>>
      /\ UNCHANGED <<msg_len, faults, sent, log>>

------------------------------------------------------------------------------
(* Disturbances of the stream, always of the unit that is read next.  The   *)
(* code meets the first one on its own (a read cancelled half way, a write  *)
(* aborted half way); the MAC is there for the others.                      *)

Disturb(d, w) ==
  /\ faults < MaxFaults
  /\ faults' = faults + 1
  /\ wire' = [wire EXCEPT ![d] = w]
  /\ UNCHANGED <<cipher, phase, msg_len, sent, log, taken, delivered, failed>>

Lose(d) == wire[d] # <<>> /\ Disturb(d, Tail(wire[d]))

Corrupt(d) ==
  /\ wire[d] # <<>>
  /\ Disturb(d, <<[Head(wire[d]) EXCEPT !.intact = FALSE]>> \o Tail(wire[d]))

\* An old unit, of either direction, turns up again or out of its turn.
Replay(d) ==
  \E o \in Endpoint : \E i \in 1..Len(log[o]) :
    Disturb(d, <<log[o][i]>> \o wire[d])

------------------------------------------------------------------------------
Next ==
  \E e \in Endpoint :
    \/ Split(e)
    \/ \E m \in Message : Send(e, m)
    \/ RecvHeader(e)
    \/ RecvBody(e)
    \/ Lose(e)
    \/ Corrupt(e)
    \/ Replay(e)

Spec == Init /\ [][Next]_vars

------------------------------------------------------------------------------
(* Properties.                                                              *)

KeyType == [root : Endpoint, gen : Nat, salt : Nat]
HalfType == [key : KeyType, nonce : Nat, ck : Nat]
WholeType == [form : {"whole"}, send_key : KeyType, recv_key : KeyType,
              send_nonce : Nat, recv_nonce : Nat, send_ck : Nat, recv_ck : Nat]
SplitType == [form : {"split"}, send : HalfType, recv : HalfType]
UnitType == [key : KeyType, nonce : Nat, kind : {"header", "body"},
             msg : Message, intact : BOOLEAN]

\* Every variable has the type of the state it stands for: a cipher is either a
\* whole NoiseCipher or the pair of halves that split() makes of it.
Types ==
  /\ cipher \in [Endpoint -> WholeType \cup SplitType]
  /\ phase \in [Endpoint -> {"header", "body"}]
  /\ msg_len \in [Endpoint -> Nat]
  /\ wire \in [Endpoint -> Seq(UnitType)]
  /\ faults \in Nat
  /\ sent \in [Endpoint -> Seq(Message)]
  /\ log \in [Endpoint -> Seq(UnitType)]
  /\ taken \in [Endpoint -> Nat]
  /\ delivered \in [Endpoint -> Seq(Message)]
  /\ failed \in [Endpoint -> BOOLEAN]

NoncesOf(c) ==
  IF c.form = "whole" THEN {c.send_nonce, c.recv_nonce} ELSE {c.send.nonce, c.recv.nonce}

\* Every variable has its type, and no nonce, the sender's or the receiver's, of a
\* whole cipher or of a half, ever runs past the value at which the next operation
\* rotates the key and resets it.
TypeOK ==
  /\ Types
  /\ \A e \in Endpoint : \A n \in NoncesOf(cipher[e]) : n <= KEY_ROTATION_THRESHOLD

\* No two units of the connection are ever sealed under the same key and nonce:
\* not in one direction across rotations and a split, and not across directions.
NoNonceReuse ==
  \A d, o \in Endpoint : \A i \in 1..Len(log[d]) : \A j \in 1..Len(log[o]) :
    log[d][i].key = log[o][j].key /\ log[d][i].nonce = log[o][j].nonce
      => d = o /\ i = j

\* No key seals more than KEY_ROTATION_THRESHOLD units ("rotate after 1000
\* encryptions"): with NoNonceReuse, all nonces in use lie below the threshold.
KeyUseBounded ==
  \A d \in Endpoint : \A i \in 1..Len(log[d]) :
    log[d][i].nonce < KEY_ROTATION_THRESHOLD

\* On a stream that nobody disturbs every unit opens, wherever the two ends
\* rotate and whenever either of them splits its cipher.
NoFalseReject ==
  faults = 0 => \A d \in Endpoint : ~failed[d]

\* Whatever happens to the stream, what the receive calls return is a prefix of
\* what the other end sent.
DeliveredIsPrefix ==
  \A d \in Endpoint :
    /\ Len(delivered[d]) <= Len(sent[d])
    /\ \A k \in 1..Len(delivered[d]) : delivered[d][k] = sent[d][k]

\* The header of the next message was opened and its body was not.
BodyLost(d) == phase[Other(d)] = "header" /\ taken[d] = 2 * Len(delivered[d]) + 1

\* Once a header has opened and its body has failed, no later receive call
\* returns a message: the length field of the next one cannot be opened.
BodyLossIsFinal ==
  [][\A d \in Endpoint :
       BodyLost(d) => BodyLost(d)' /\ delivered'[d] = delivered[d]]_vars

\* The ciphers implement the in-order channel of SecureChannel.
Channel == INSTANCE SecureChannel
ChannelSpec == Channel!Spec
==============================================================================
