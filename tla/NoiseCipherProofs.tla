-------------------------- MODULE NoiseCipherProofs --------------------------
(***************************************************************************)
(* Proofs about NoiseCipher, for any rotation threshold, any messages and  *)
(* any number of sends, splits and disturbances.                           *)
(*                                                                         *)
(* The argument is about positions.  A half of a cipher stands at a        *)
(* generation of its key and a nonce; sealing or opening a unit moves it   *)
(* to the next position in lexicographic order, through a rotation when    *)
(* the nonce is used up.  The inductive invariant says that the units      *)
(* sealed so far stand at strictly increasing positions, all below the     *)
(* sender's, each followed immediately by the next, and that the receiver, *)
(* after the rotation it would make, stands exactly at the first unit it   *)
(* has not opened.  Hence an intact unit that opens can only be that one.  *)
(***************************************************************************)
EXTENDS NoiseCipher, SequenceTheorems, TLAPS

T == KEY_ROTATION_THRESHOLD

\* The two directions of a cipher, whole or split, as halves.
SendView(c) ==
  IF c.form = "whole" THEN [key |-> c.send_key, nonce |-> c.send_nonce, ck |-> c.send_ck]
             ELSE c.send

RecvView(c) ==
  IF c.form = "whole" THEN [key |-> c.recv_key, nonce |-> c.recv_nonce, ck |-> c.recv_ck]
             ELSE c.recv

Rotate(h) == SendCipher_maybe_rotate(h)
Advance(h) == [key |-> h.key, nonce |-> h.nonce + 1, ck |-> h.ck]
Seal(h, kind, m) == encrypt_with_ad(h.key, h.nonce, kind, m)

------------------------------------------------------------------------------
(* Every operation of a whole cipher acts on its views as the operation of  *)
(* the halves does.                                                         *)

CipherType == WholeType \cup SplitType

\* Both directions of a cipher, in either form, are halves.
LEMMA ViewType ==
  ASSUME NEW c \in CipherType
  PROVE  SendView(c) \in HalfType /\ RecvView(c) \in HalfType
BY DEF CipherType, WholeType, SplitType, HalfType, SendView, RecvView

\* maybe_rotate keeps a half a half.
LEMMA RotateType ==
  ASSUME NEW h \in HalfType
  PROVE  Rotate(h) \in HalfType
BY DEF HalfType, KeyType, Rotate, SendCipher_maybe_rotate, hkdf_two_keys

\* encrypt() of a whole cipher: two units, one position after the other, and the
\* receive direction untouched.
LEMMA EncryptWhole ==
  ASSUME NEW c \in WholeType, NEW m \in Message
  PROVE  LET r  == NoiseCipher_encrypt(c, m)
             h1 == Rotate(SendView(c))
             h2 == Rotate(Advance(h1))
         IN  /\ r.cipher \in WholeType
             /\ r.header = Seal(h1, "header", m)
             /\ r.body = Seal(h2, "body", m)
             /\ SendView(r.cipher) = Advance(h2)
             /\ RecvView(r.cipher) = RecvView(c)
<1> DEFINE h1 == Rotate(SendView(c))
           h2 == Rotate(Advance(h1))
           c1 == maybe_rotate_send_key(c)
           c2 == [c1 EXCEPT !.send_nonce = @ + 1]
           c3 == maybe_rotate_send_key(c2)
           c4 == [c3 EXCEPT !.send_nonce = @ + 1]
<1>1. ASSUME NEW w \in WholeType
      PROVE  /\ maybe_rotate_send_key(w) \in WholeType
             /\ SendView(maybe_rotate_send_key(w)) = Rotate(SendView(w))
             /\ RecvView(maybe_rotate_send_key(w)) = RecvView(w)
  <2>1. CASE w.send_nonce >= T
    <3> DEFINE new == hkdf_two_keys(w.send_ck, w.send_key)
               v == [w EXCEPT !.send_ck = new.ck, !.send_key = new.key, !.send_nonce = 0]
    <3>1. new.ck \in Nat /\ new.key \in KeyType
      BY DEF WholeType, KeyType, hkdf_two_keys
    <3>2. maybe_rotate_send_key(w) = v
      BY <2>1 DEF maybe_rotate_send_key, T
    <3>3. Rotate(SendView(w)) = [key |-> new.key, nonce |-> 0, ck |-> new.ck]
      BY <2>1 DEF Rotate, SendCipher_maybe_rotate, SendView, WholeType, T
    <3> HIDE DEF new
    <3>4. /\ v \in WholeType
          /\ v.send_key = new.key /\ v.send_nonce = 0 /\ v.send_ck = new.ck
          /\ v.form = "whole" /\ w.form = "whole" /\ v.recv_key = w.recv_key
          /\ v.recv_nonce = w.recv_nonce /\ v.recv_ck = w.recv_ck
      BY <3>1 DEF WholeType
    <3> HIDE DEF v
    <3> QED BY <3>2, <3>3, <3>4 DEF SendView, RecvView
  <2>2. CASE ~(w.send_nonce >= T)
    BY <2>2 DEF WholeType, SendView, RecvView, Rotate, maybe_rotate_send_key,
                SendCipher_maybe_rotate, T
  <2> QED BY <2>1, <2>2
<1>2. ASSUME NEW w \in WholeType
      PROVE  /\ [w EXCEPT !.send_nonce = @ + 1] \in WholeType
             /\ SendView([w EXCEPT !.send_nonce = @ + 1]) = Advance(SendView(w))
             /\ RecvView([w EXCEPT !.send_nonce = @ + 1]) = RecvView(w)
  BY DEF WholeType, SendView, RecvView, Advance
<1>3. ASSUME NEW w \in WholeType
      PROVE  SendView(w).key = w.send_key /\ SendView(w).nonce = w.send_nonce
  BY DEF WholeType, SendView
<1>4. /\ c1 \in WholeType /\ SendView(c1) = h1 /\ RecvView(c1) = RecvView(c)
      /\ c2 \in WholeType /\ SendView(c2) = Advance(h1) /\ RecvView(c2) = RecvView(c)
  <2>1. c1 \in WholeType /\ SendView(c1) = h1 /\ RecvView(c1) = RecvView(c)
    BY <1>1
  <2>2. c2 \in WholeType /\ SendView(c2) = Advance(h1) /\ RecvView(c2) = RecvView(c)
    <3> HIDE DEF c1, h1
    <3> QED BY <1>2, <2>1
  <2> QED BY <2>1, <2>2
<1>5. /\ c3 \in WholeType /\ SendView(c3) = h2 /\ RecvView(c3) = RecvView(c)
      /\ c4 \in WholeType /\ SendView(c4) = Advance(h2) /\ RecvView(c4) = RecvView(c)
  <2>1. c3 \in WholeType /\ SendView(c3) = h2 /\ RecvView(c3) = RecvView(c)
    <3> HIDE DEF c2, h1
    <3> QED BY <1>1, <1>4
  <2>2. c4 \in WholeType /\ SendView(c4) = Advance(h2) /\ RecvView(c4) = RecvView(c)
    <3> HIDE DEF c3, h2
    <3> QED BY <1>2, <2>1
  <2> QED BY <2>1, <2>2
<1>6. /\ h1.key = c1.send_key /\ h1.nonce = c1.send_nonce
      /\ h2.key = c3.send_key /\ h2.nonce = c3.send_nonce
  <2> HIDE DEF c1, c3, h1, h2
  <2> QED BY <1>3, <1>4, <1>5
<1>7. LET r == NoiseCipher_encrypt(c, m)
      IN  /\ r.cipher = c4
          /\ r.header = encrypt_with_ad(c1.send_key, c1.send_nonce, "header", m)
          /\ r.body = encrypt_with_ad(c3.send_key, c3.send_nonce, "body", m)
  BY DEF NoiseCipher_encrypt, NoiseCipher_encrypt_length
<1> HIDE DEF c1, c2, c3, c4, h1, h2
<1>8. LET r == NoiseCipher_encrypt(c, m)
      IN  /\ r.cipher \in WholeType
          /\ r.header = Seal(h1, "header", m)
          /\ r.body = Seal(h2, "body", m)
          /\ SendView(r.cipher) = Advance(h2)
          /\ RecvView(r.cipher) = RecvView(c)
  BY <1>5, <1>6, <1>7 DEF Seal
<1> QED BY <1>8 DEF h1, h2

\* decrypt_length() and decrypt_message() of a whole cipher: the receive
\* direction rotates if it has to, moves on when the unit opens, and the send
\* direction is untouched.
LEMMA DecryptWhole ==
  ASSUME NEW c \in WholeType, NEW size, NEW u
  PROVE  LET r  == NoiseCipher_decrypt(c, size, u)
             h  == Rotate(RecvView(c))
             ok == decrypt_with_ad(h.key, h.nonce, size, u)
         IN  /\ r.cipher \in WholeType
             /\ r.ok = ok
             /\ RecvView(r.cipher) = IF ok THEN Advance(h) ELSE h
             /\ SendView(r.cipher) = SendView(c)
<1> DEFINE h  == Rotate(RecvView(c))
           ok == decrypt_with_ad(h.key, h.nonce, size, u)
           c1 == maybe_rotate_recv_key(c)
           c2 == [c1 EXCEPT !.recv_nonce = @ + 1]
<1>1. c1 \in WholeType /\ RecvView(c1) = h /\ SendView(c1) = SendView(c)
  <2>1. CASE c.recv_nonce >= T
    <3> DEFINE new == hkdf_two_keys(c.recv_ck, c.recv_key)
               v == [c EXCEPT !.recv_ck = new.ck, !.recv_key = new.key, !.recv_nonce = 0]
    <3>1. new.ck \in Nat /\ new.key \in KeyType
      BY DEF WholeType, KeyType, hkdf_two_keys
    <3>2. c1 = v
      BY <2>1 DEF maybe_rotate_recv_key, T
    <3>3. h = [key |-> new.key, nonce |-> 0, ck |-> new.ck]
      BY <2>1 DEF Rotate, SendCipher_maybe_rotate, RecvView, WholeType, T
    <3> HIDE DEF new
    <3>4. /\ v \in WholeType
          /\ v.recv_key = new.key /\ v.recv_nonce = 0 /\ v.recv_ck = new.ck
          /\ v.form = "whole" /\ c.form = "whole" /\ v.send_key = c.send_key
          /\ v.send_nonce = c.send_nonce /\ v.send_ck = c.send_ck
      BY <3>1 DEF WholeType
    <3> HIDE DEF v, c1, h
    <3> QED BY <3>2, <3>3, <3>4 DEF SendView, RecvView
  <2>2. CASE ~(c.recv_nonce >= T)
    BY <2>2 DEF WholeType, SendView, RecvView, Rotate, maybe_rotate_recv_key,
                SendCipher_maybe_rotate, T
  <2> QED BY <2>1, <2>2
<1>2. c1.recv_key = h.key /\ c1.recv_nonce = h.nonce
  <2> HIDE DEF c1, h
  <2> QED BY <1>1 DEF WholeType, RecvView
<1>3. c2 \in WholeType /\ RecvView(c2) = Advance(h) /\ SendView(c2) = SendView(c)
  <2> HIDE DEF c1, h
  <2> QED BY <1>1 DEF WholeType, SendView, RecvView, Advance
<1>4. LET r == NoiseCipher_decrypt(c, size, u)
      IN  r.cipher = (IF ok THEN c2 ELSE c1) /\ r.ok = ok
  <2> DEFINE ok1 == decrypt_with_ad(c1.recv_key, c1.recv_nonce, size, u)
  <2>1. ok1 = ok
    <3> HIDE DEF c1, h
    <3> QED BY <1>2
  <2>2. LET r == NoiseCipher_decrypt(c, size, u)
        IN  r.cipher = (IF ok1 THEN c2 ELSE c1) /\ r.ok = ok1
    BY Zenon DEF NoiseCipher_decrypt
  <2> HIDE DEF ok1, ok, c1, c2
  <2> QED BY <2>1, <2>2
<1> HIDE DEF c1, c2
<1>5. CASE ok
  <2> HIDE DEF h, ok
  <2>1. LET r == NoiseCipher_decrypt(c, size, u)
        IN  /\ r.cipher \in WholeType
            /\ r.ok = ok
            /\ RecvView(r.cipher) = IF ok THEN Advance(h) ELSE h
            /\ SendView(r.cipher) = SendView(c)
    BY <1>3, <1>4, <1>5
  <2> QED BY <2>1 DEF h, ok
<1>6. CASE ~ok
  <2> HIDE DEF h, ok
  <2>1. LET r == NoiseCipher_decrypt(c, size, u)
        IN  /\ r.cipher \in WholeType
            /\ r.ok = ok
            /\ RecvView(r.cipher) = IF ok THEN Advance(h) ELSE h
            /\ SendView(r.cipher) = SendView(c)
    BY <1>1, <1>4, <1>6
  <2> QED BY <2>1 DEF h, ok
<1> QED BY <1>5, <1>6

\* A half is what WholeType is for a whole cipher: encrypting advances only it.
LEMMA EncryptHalf ==
  ASSUME NEW h \in HalfType, NEW m \in Message
  PROVE  LET r  == SendCipher_encrypt(h, m)
             h1 == Rotate(h)
             h2 == Rotate(Advance(h1))
         IN  /\ r.cipher = Advance(h2)
             /\ r.header = Seal(h1, "header", m)
             /\ r.body = Seal(h2, "body", m)
BY DEF SendCipher_encrypt, SendCipher_encrypt_length, Rotate, Advance, Seal

\* Advancing a half keeps it a half.
LEMMA AdvanceType ==
  ASSUME NEW h \in HalfType
  PROVE  Advance(h) \in HalfType
BY DEF HalfType, Advance

\* Send: whichever form the cipher has, the send direction seals a header and a
\* body at its next two positions and the receive direction stays.
LEMMA EncryptView ==
  ASSUME NEW e \in Endpoint, NEW m \in Message, cipher[e] \in CipherType
  PROVE  LET r  == Encrypted(e, m)
             h1 == Rotate(SendView(cipher[e]))
             h2 == Rotate(Advance(h1))
         IN  /\ r.cipher \in CipherType
             /\ r.header = Seal(h1, "header", m)
             /\ r.body = Seal(h2, "body", m)
             /\ SendView(r.cipher) = Advance(h2)
             /\ RecvView(r.cipher) = RecvView(cipher[e])
<1>1. CASE cipher[e] \in WholeType
  <2>1. cipher[e].form = "whole"
    BY <1>1 DEF WholeType
  <2>2. Encrypted(e, m) = NoiseCipher_encrypt(cipher[e], m)
    BY <2>1 DEF Encrypted
  <2> QED BY <1>1, <2>2, EncryptWhole DEF CipherType
<1>2. CASE cipher[e] \in SplitType
  <2> DEFINE h == cipher[e].send
             h1 == Rotate(h)
             h2 == Rotate(Advance(h1))
             r == SendCipher_encrypt(h, m)
             c == [cipher[e] EXCEPT !.send = r.cipher]
  <2>1. cipher[e].form = "split" /\ h \in HalfType
    BY <1>2 DEF SplitType
  <2>2. SendView(cipher[e]) = h
    BY <2>1 DEF SendView
  <2>3. r.cipher = Advance(h2) /\ r.header = Seal(h1, "header", m) /\ r.body = Seal(h2, "body", m)
    BY <2>1, EncryptHalf
  <2>4. Advance(h2) \in HalfType
    BY <2>1, AdvanceType, RotateType
  <2>5. Encrypted(e, m) = [cipher |-> c, header |-> r.header, body |-> r.body]
    BY <2>1 DEF Encrypted
  <2> HIDE DEF h, r, h1, h2
  <2>6. c \in SplitType /\ SendView(c) = r.cipher /\ RecvView(c) = RecvView(cipher[e])
    BY <1>2, <2>3, <2>4 DEF SplitType, SendView, RecvView
  <2> HIDE DEF c
  <2>7. LET q == Encrypted(e, m)
        IN  /\ q.cipher \in CipherType
            /\ q.header = Seal(h1, "header", m)
            /\ q.body = Seal(h2, "body", m)
            /\ SendView(q.cipher) = Advance(h2)
            /\ RecvView(q.cipher) = RecvView(cipher[e])
    BY <2>3, <2>5, <2>6 DEF CipherType
  <2> QED BY <2>2, <2>7 DEF h1, h2
<1> QED BY <1>1, <1>2 DEF CipherType

\* Opening a unit in either form: see DecryptWhole.
Opens(e, size, u, r) ==
  LET h  == Rotate(RecvView(cipher[e]))
      ok == decrypt_with_ad(h.key, h.nonce, size, u)
  IN  /\ r.cipher \in CipherType
      /\ r.ok = ok
      /\ RecvView(r.cipher) = IF ok THEN Advance(h) ELSE h
      /\ SendView(r.cipher) = SendView(cipher[e])

\* Both receive steps act on the receive direction alone.
LEMMA DecryptView ==
  ASSUME NEW e \in Endpoint, cipher[e] \in CipherType, NEW u, NEW n
  PROVE  /\ Opens(e, ENCRYPTED_LENGTH_SIZE, u, OpenedLength(e, u))
         /\ Opens(e, n + MAC_SIZE, u, OpenedMessage(e, n, u))
<1>1. CASE cipher[e] \in WholeType
  <2>1. cipher[e].form = "whole"
    BY <1>1 DEF WholeType
  <2>2. ASSUME NEW size PROVE Opens(e, size, u, NoiseCipher_decrypt(cipher[e], size, u))
    BY <1>1, DecryptWhole DEF Opens, CipherType
  <2>3. /\ OpenedLength(e, u) = NoiseCipher_decrypt(cipher[e], ENCRYPTED_LENGTH_SIZE, u)
        /\ OpenedMessage(e, n, u) = NoiseCipher_decrypt(cipher[e], n + MAC_SIZE, u)
    BY <2>1 DEF OpenedLength, OpenedMessage, NoiseCipher_decrypt_length,
                NoiseCipher_decrypt_message
  <2> QED BY <2>2, <2>3
<1>2. CASE cipher[e] \in SplitType
  <2> DEFINE h == cipher[e].recv
             r(size) == RecvCipher_decrypt(h, size, u)
             q(size) == [cipher |-> [cipher[e] EXCEPT !.recv = r(size).cipher],
                         ok |-> r(size).ok]
  <2>1. /\ cipher[e].form = "split" /\ h \in HalfType
        /\ cipher[e] = [form |-> "split", send |-> cipher[e].send, recv |-> h]
        /\ cipher[e].send \in HalfType
    BY <1>2 DEF SplitType
  <2>2. RecvView(cipher[e]) = h
    BY <2>1 DEF RecvView
  <2>3. Rotate(h) \in HalfType /\ Advance(Rotate(h)) \in HalfType
    BY <2>1, AdvanceType, RotateType
  <2>4. ASSUME NEW size PROVE Opens(e, size, u, q(size))
    <3> DEFINE ok == decrypt_with_ad(Rotate(h).key, Rotate(h).nonce, size, u)
    <3>1. RecvCipher_maybe_rotate(h) = Rotate(h)
      BY DEF RecvCipher_maybe_rotate, Rotate, SendCipher_maybe_rotate
    <3>2. r(size) = [cipher |-> IF ok THEN Advance(Rotate(h)) ELSE Rotate(h), ok |-> ok]
      BY <3>1, Zenon DEF RecvCipher_decrypt, Advance
    <3>3. r(size).ok = ok
      <4> HIDE DEF ok, r
      <4> QED BY <3>2
    <3>4. r(size).cipher = IF ok THEN Advance(Rotate(h)) ELSE Rotate(h)
      <4> HIDE DEF ok, r
      <4> QED BY <3>2
    <3>5. r(size).cipher \in HalfType
      <4> HIDE DEF ok, r
      <4> QED BY <2>3, <3>4
    <3> DEFINE c == [cipher[e] EXCEPT !.recv = r(size).cipher]
    <3>6. c \in SplitType /\ RecvView(c) = r(size).cipher /\ SendView(c) = SendView(cipher[e])
      <4> HIDE DEF r
      <4> QED BY <1>2, <3>5 DEF SplitType, SendView, RecvView
    <3>7. q(size).cipher = c /\ q(size).ok = ok
      <4> HIDE DEF r, ok
      <4> QED BY <3>3, Zenon
    <3> HIDE DEF q, r, c
    <3> QED BY <2>2, <3>4, <3>6, <3>7 DEF Opens, CipherType
  <2>5. /\ OpenedLength(e, u) = q(ENCRYPTED_LENGTH_SIZE)
        /\ OpenedMessage(e, n, u) = q(n + MAC_SIZE)
    <3>1. "split" # "whole"
      OBVIOUS
    <3> QED BY <2>1, <3>1, Zenon DEF OpenedLength, OpenedMessage, RecvCipher_decrypt_length,
                RecvCipher_decrypt_message
  <2> HIDE DEF q
  <2> QED BY <2>4, <2>5
<1> QED BY <1>1, <1>2 DEF CipherType

------------------------------------------------------------------------------
(* Positions.                                                               *)

\* The key of direction d after g rotations, each with the chaining key that the
\* one before it left.
KeyAt(d, g) == [root |-> d, gen |-> g, salt |-> IF g = 0 THEN 0 ELSE g - 1]

WellKeyed(d, h) ==
  /\ h \in HalfType
  /\ h.key = KeyAt(d, h.key.gen)
  /\ h.ck = h.key.gen
  /\ h.nonce <= T

\* Position order of two halves or units.
Before(a, b) ==
  \/ a.key.gen < b.key.gen
  \/ a.key.gen = b.key.gen /\ a.nonce < b.nonce

\* A rotation keeps a half well keyed, leaves room for a unit, passes over no
\* position, and is not due again before the half advances.
LEMMA RotateWellKeyed ==
  ASSUME NEW d \in Endpoint, NEW h, WellKeyed(d, h)
  PROVE  /\ WellKeyed(d, Rotate(h))
         /\ Rotate(h).nonce < T
         /\ Rotate(Rotate(h)) = Rotate(h)
         /\ \A a \in HalfType \cup UnitType :
              a.nonce < T /\ Before(a, h) => Before(a, Rotate(h))
<1> USE ThresholdAssumption DEF T
<1>1. CASE h.nonce >= T
  <2> DEFINE g == h.key.gen
             r == [key |-> [root |-> d, gen |-> g + 1, salt |-> g], nonce |-> 0, ck |-> g + 1]
  <2>1. g \in Nat /\ h.key.root = d /\ h.ck = g /\ h.nonce \in Nat
    BY DEF WellKeyed, KeyAt, HalfType, KeyType
  <2>2. Rotate(h) = r
    BY <1>1, <2>1 DEF Rotate, SendCipher_maybe_rotate, hkdf_two_keys
  <2>3. WellKeyed(d, r)
    BY <2>1 DEF WellKeyed, KeyAt, HalfType, KeyType
  <2>4. Rotate(r) = r
    BY DEF Rotate, SendCipher_maybe_rotate
  <2>5. ASSUME NEW a \in HalfType \cup UnitType, Before(a, h)
        PROVE  Before(a, r)
    BY <2>1, <2>5 DEF Before, HalfType, UnitType, KeyType
  <2> QED BY <2>2, <2>3, <2>4, <2>5
<1>2. CASE ~(h.nonce >= T)
  <2>1. Rotate(h) = h
    BY <1>2 DEF Rotate, SendCipher_maybe_rotate
  <2>2. h.nonce < T
    BY <1>2 DEF WellKeyed, HalfType
  <2> QED BY <2>1, <2>2
<1> QED BY <1>1, <1>2

\* Using up a position moves a half strictly forward.
LEMMA AdvanceWellKeyed ==
  ASSUME NEW d \in Endpoint, NEW h, WellKeyed(d, h), h.nonce < T
  PROVE  /\ WellKeyed(d, Advance(h))
         /\ Before(h, Advance(h))
         /\ Advance(h).key = h.key
BY ThresholdAssumption DEF WellKeyed, Advance, Before, HalfType, KeyType, T

\* The order of positions is transitive and strict.
LEMMA BeforeOrder ==
  /\ \A a, b, c \in HalfType \cup UnitType : Before(a, b) /\ Before(b, c) => Before(a, c)
  /\ \A a, b \in HalfType \cup UnitType :
       Before(a, b) => ~(a.key = b.key /\ a.nonce = b.nonce)
BY DEF Before, HalfType, UnitType, KeyType

\* A sealed unit stands where the half stood.
LEMMA SealUnit ==
  ASSUME NEW h \in HalfType, NEW kind \in {"header", "body"}, NEW m \in Message
  PROVE  LET u == Seal(h, kind, m)
         IN  /\ u \in UnitType /\ u.key = h.key /\ u.nonce = h.nonce
             /\ u.kind = kind /\ u.msg = m /\ u.intact = TRUE
BY DEF Seal, encrypt_with_ad, UnitType, HalfType

------------------------------------------------------------------------------
(* The units sealed in direction d: L, by a sender whose half is S, for the *)
(* messages M.                                                              *)

Spot(u) == [key |-> u.key, nonce |-> u.nonce, ck |-> u.key.gen]

\* Where a receiver that has opened i - 1 units has to stand.
Expect(L, S, i) == IF i <= Len(L) THEN Spot(L[i]) ELSE Rotate(S)

UnitsKeyed(d, L, S) ==
  \A i \in 1..Len(L) : /\ L[i].intact = TRUE
                       /\ L[i].key = KeyAt(d, L[i].key.gen)
                       /\ L[i].nonce < T
                       /\ Before(L[i], S)
UnitsFramed(L, M) ==
  \A k \in 1..Len(M) : /\ L[2 * k - 1].kind = "header" /\ L[2 * k - 1].msg = M[k]
                       /\ L[2 * k].kind = "body" /\ L[2 * k].msg = M[k]
UnitsIncrease(L) == \A i, j \in 1..Len(L) : i < j => Before(L[i], L[j])
UnitsAdjacent(L, S) ==
  \A i \in 1..Len(L) : Expect(L, S, i + 1) = Rotate(Advance(Spot(L[i])))

LogOK(d, L, S, M) ==
  /\ L \in Seq(UnitType)
  /\ M \in Seq(Message)
  /\ Len(L) = 2 * Len(M)
  /\ WellKeyed(d, S)
  /\ UnitsKeyed(d, L, S)
  /\ UnitsFramed(L, M)
  /\ UnitsIncrease(L)
  /\ UnitsAdjacent(L, S)

\* The sender's half, the log and the messages after sending m.
HalfAfter(S) == Advance(Rotate(Advance(Rotate(S))))
LogAfter(L, S, m) ==
  L \o <<Seal(Rotate(S), "header", m), Seal(Rotate(Advance(Rotate(S))), "body", m)>>
SentAfter(M, m) == Append(M, m)

\* Sending a message keeps the log in order, and nobody's expectation changes.
LEMMA LogSend ==
  ASSUME NEW d \in Endpoint, NEW L, NEW S, NEW M, LogOK(d, L, S, M), NEW m \in Message
  PROVE  /\ LogOK(d, LogAfter(L, S, m), HalfAfter(S), SentAfter(M, m))
         /\ \A i \in 1..(Len(L) + 1) :
              Expect(LogAfter(L, S, m), HalfAfter(S), i) = Expect(L, S, i)
<1> DEFINE h1 == Rotate(S)
           h2 == Rotate(Advance(h1))
           u1 == Seal(h1, "header", m)
           u2 == Seal(h2, "body", m)
           N  == L \o <<u1, u2>>
           S2 == Advance(h2)
           M2 == Append(M, m)
           HU == HalfType \cup UnitType
<1>1. /\ WellKeyed(d, h1) /\ h1.nonce < T
      /\ \A a \in HU : a.nonce < T /\ Before(a, S) => Before(a, h1)
  BY RotateWellKeyed DEF LogOK
<1>2. WellKeyed(d, Advance(h1)) /\ Before(h1, Advance(h1))
  <2> HIDE DEF h1
  <2> QED BY <1>1, AdvanceWellKeyed
<1>3. /\ WellKeyed(d, h2) /\ h2.nonce < T
      /\ \A a \in HU : a.nonce < T /\ Before(a, Advance(h1)) => Before(a, h2)
  <2> HIDE DEF h1
  <2> QED BY <1>2, RotateWellKeyed
<1>4. WellKeyed(d, S2) /\ Before(h2, S2)
  <2> HIDE DEF h2
  <2> QED BY <1>3, AdvanceWellKeyed
<1>5. /\ u1 \in UnitType /\ u1.key = h1.key /\ u1.nonce = h1.nonce
      /\ u1.kind = "header" /\ u1.msg = m /\ u1.intact = TRUE
  <2> HIDE DEF h1
  <2> QED BY <1>1, SealUnit DEF WellKeyed
<1>6. /\ u2 \in UnitType /\ u2.key = h2.key /\ u2.nonce = h2.nonce
      /\ u2.kind = "body" /\ u2.msg = m /\ u2.intact = TRUE
  <2> HIDE DEF h2
  <2> QED BY <1>3, SealUnit DEF WellKeyed
<1>7. h1 \in HalfType /\ h2 \in HalfType /\ S \in HalfType /\ S2 \in HalfType
  BY <1>1, <1>3, <1>4 DEF WellKeyed, LogOK
<1>8. /\ N \in Seq(UnitType) /\ Len(N) = Len(L) + 2 /\ Len(L) \in Nat
      /\ \A i \in 1..Len(L) : N[i] = L[i] /\ L[i] \in UnitType
      /\ N[Len(L) + 1] = u1 /\ N[Len(L) + 2] = u2
  <2> HIDE DEF u1, u2
  <2>1. L \in Seq(UnitType) /\ <<u1, u2>> \in Seq(UnitType) /\ Len(<<u1, u2>>) = 2
    BY <1>5, <1>6 DEF LogOK
  <2>2. /\ N \in Seq(UnitType) /\ Len(N) = Len(L) + 2
        /\ \A i \in 1..(Len(L) + 2) :
             N[i] = IF i <= Len(L) THEN L[i] ELSE <<u1, u2>>[i - Len(L)]
    BY <2>1, ConcatProperties
  <2>3. Len(L) \in Nat /\ \A i \in 1..Len(L) : L[i] \in UnitType
    BY <2>1, LenProperties
  <2> HIDE DEF N
  <2> QED BY <2>2, <2>3
<1>9. /\ M2 \in Seq(Message) /\ Len(M2) = Len(M) + 1 /\ Len(M) \in Nat
      /\ \A k \in 1..Len(M) : M2[k] = M[k]
      /\ M2[Len(M) + 1] = m
  BY AppendProperties, LenProperties DEF LogOK
<1>10. Spot(u1) = h1 /\ Spot(u2) = h2
  <2> HIDE DEF h1, h2, u1, u2
  <2> QED BY <1>1, <1>3, <1>5, <1>6, <1>7 DEF Spot, WellKeyed, HalfType
<1>11. Before(u1, u2) /\ Before(u1, S2) /\ Before(u2, S2)
  <2> HIDE DEF h1, h2, u1, u2, S2
  <2>1. Before(h1, h2)
    BY <1>1, <1>2, <1>3, <1>7
  <2>2. Before(h1, S2)
    BY <2>1, <1>4, <1>7, BeforeOrder
  <2> QED BY <2>1, <2>2, <1>4, <1>5, <1>6 DEF Before
<1>12. \A i \in 1..Len(L) : Before(L[i], u1) /\ Before(L[i], u2) /\ Before(L[i], S2)
  <2> SUFFICES ASSUME NEW i \in 1..Len(L)
               PROVE  Before(L[i], u1) /\ Before(L[i], u2) /\ Before(L[i], S2)
    OBVIOUS
  <2> HIDE DEF h1, h2, u1, u2, S2, N
  <2>1. Before(L[i], h1)
    BY <1>1, <1>8 DEF LogOK, UnitsKeyed
  <2>2. Before(L[i], u1)
    BY <2>1, <1>5 DEF Before
  <2>3. Before(L[i], u2) /\ Before(L[i], S2)
    BY <2>2, <1>5, <1>6, <1>7, <1>8, <1>11, BeforeOrder
  <2> QED BY <2>2, <2>3
<1>13. Len(L) = 2 * Len(M)
  BY DEF LogOK
<1>14. \A i \in 1..(Len(L) + 1) : Expect(N, S2, i) = Expect(L, S, i)
  <2> SUFFICES ASSUME NEW i \in 1..(Len(L) + 1)
               PROVE  Expect(N, S2, i) = Expect(L, S, i)
    OBVIOUS
  <2>1. CASE i <= Len(L)
    <3> HIDE DEF N, S2
    <3> QED BY <2>1, <1>8 DEF Expect
  <2>2. CASE i = Len(L) + 1
    <3> HIDE DEF N, S2, u1, u2
    <3> QED BY <2>2, <1>8, <1>10 DEF Expect
  <2> HIDE DEF N, S2
  <2> QED BY <2>1, <2>2, <1>8
<1>15. UnitsKeyed(d, N, S2)
  <2> SUFFICES ASSUME NEW i \in 1..Len(N)
               PROVE  /\ N[i].intact = TRUE
                      /\ N[i].key = KeyAt(d, N[i].key.gen)
                      /\ N[i].nonce < T
                      /\ Before(N[i], S2)
    BY DEF UnitsKeyed
  <2> HIDE DEF N, S2, u1, u2, h1, h2
  <2>1. CASE i <= Len(L)
    BY <2>1, <1>8, <1>12 DEF LogOK, UnitsKeyed
  <2>2. CASE i = Len(L) + 1
    BY <2>2, <1>1, <1>5, <1>8, <1>11 DEF WellKeyed
  <2>3. CASE i = Len(L) + 2
    BY <2>3, <1>3, <1>6, <1>8, <1>11 DEF WellKeyed
  <2>4. i <= Len(L) \/ i = Len(L) + 1 \/ i = Len(L) + 2
    BY <1>8
  <2> QED BY <2>1, <2>2, <2>3, <2>4, Zenon
<1>16. UnitsFramed(N, M2)
  <2> SUFFICES ASSUME NEW k \in 1..Len(M2)
               PROVE  /\ N[2 * k - 1].kind = "header" /\ N[2 * k - 1].msg = M2[k]
                      /\ N[2 * k].kind = "body" /\ N[2 * k].msg = M2[k]
    BY DEF UnitsFramed
  <2> HIDE DEF N, M2, u1, u2, h1, h2
  <2>1. CASE k <= Len(M)
    <3>1. k \in 1..Len(M) /\ 2 * k - 1 \in 1..Len(L) /\ 2 * k \in 1..Len(L)
      BY <2>1, <1>9, <1>13
    <3> QED BY <3>1, <1>8, <1>9 DEF LogOK, UnitsFramed
  <2>2. CASE k = Len(M) + 1
    <3>1. 2 * k - 1 = Len(L) + 1 /\ 2 * k = Len(L) + 2
      BY <2>2, <1>9, <1>13
    <3> QED BY <3>1, <2>2, <1>5, <1>6, <1>8, <1>9
  <2> QED BY <2>1, <2>2, <1>9
<1>17. UnitsIncrease(N)
  <2> SUFFICES ASSUME NEW i \in 1..Len(N), NEW j \in 1..Len(N), i < j
               PROVE  Before(N[i], N[j])
    BY DEF UnitsIncrease
  <2> HIDE DEF N, S2, u1, u2, h1, h2
  <2>1. CASE j <= Len(L)
    BY <2>1, <1>8 DEF LogOK, UnitsIncrease
  <2>2. CASE i <= Len(L) /\ j > Len(L)
    BY <2>2, <1>8, <1>12
  <2>3. CASE i > Len(L)
    <3>1. i = Len(L) + 1 /\ j = Len(L) + 2
      BY <2>3, <1>8
    <3> QED BY <3>1, <1>8, <1>11
  <2> QED BY <2>1, <2>2, <2>3, <1>8
<1>18. UnitsAdjacent(N, S2)
  <2> SUFFICES ASSUME NEW i \in 1..Len(N)
               PROVE  Expect(N, S2, i + 1) = Rotate(Advance(Spot(N[i])))
    BY DEF UnitsAdjacent
  <2>1. CASE i <= Len(L)
    <3> HIDE DEF N, S2, u1, u2, h1, h2
    <3>1. i \in 1..Len(L) /\ i + 1 \in 1..(Len(L) + 1) /\ N[i] = L[i]
      BY <2>1, <1>8
    <3> QED BY <3>1, <1>14 DEF LogOK, UnitsAdjacent
  <2>2. CASE i = Len(L) + 1
    <3> HIDE DEF N, S2, u1, u2, h1
    <3> QED BY <2>2, <1>8, <1>10 DEF Expect, h2
  <2>3. CASE i = Len(L) + 2
    <3> HIDE DEF N, u1, u2, h1, h2
    <3> QED BY <2>3, <1>8, <1>10 DEF Expect
  <2> HIDE DEF N, S2
  <2> QED BY <2>1, <2>2, <2>3, <1>8
<1>19. Len(N) = 2 * Len(M2)
  <2> HIDE DEF N, M2
  <2> QED BY <1>8, <1>9, <1>13
<1>20. LogOK(d, N, S2, M2)
  BY <1>4, <1>8, <1>9, <1>15, <1>16, <1>17, <1>18, <1>19 DEF LogOK
<1> QED BY <1>14, <1>20 DEF LogAfter, HalfAfter, SentAfter

------------------------------------------------------------------------------
(* The receiver of direction d: R is its half, t the number of units it has *)
(* opened, D the messages it has delivered, ph and ml its receive call.     *)

RecvOK(d, L, S, R, t) ==
  /\ WellKeyed(d, R)
  /\ t \in 0..Len(L)
  /\ Rotate(R) = Expect(L, S, t + 1)

ReadOK(M, D, t, ph, ml) ==
  /\ D \in Seq(Message)
  /\ Len(D) <= Len(M)
  /\ \A k \in 1..Len(D) : D[k] = M[k]
  /\ ph = "header" => t = 2 * Len(D) \/ t = 2 * Len(D) + 1
  /\ ph = "body" => t = 2 * Len(D) + 1 /\ ml = Size[M[Len(D) + 1]]

\* An intact unit on the stream was sealed by one of the two endpoints.
Authentic(u, G) == u.intact = TRUE => \E o \in Endpoint : \E i \in 1..Len(G[o]) : u = G[o][i]

WireOK(d) == \A i \in 1..Len(wire[d]) : Authentic(wire[d][i], log)

\* As long as nothing disturbed the stream it holds exactly what was sealed and
\* not yet opened, and the receiver is at a message boundary between two calls.
CleanOK(d) ==
  faults = 0 =>
    /\ failed[d] = FALSE
    /\ Len(wire[d]) = Len(log[d]) - taken[d]
    /\ \A i \in 1..Len(wire[d]) : wire[d][i] = log[d][taken[d] + i]
    /\ phase[Other(d)] = "header" => taken[d] = 2 * Len(delivered[d])

EndsOK(d) ==
  /\ LogOK(d, log[d], SendView(cipher[d]), sent[d])
  /\ RecvOK(d, log[d], SendView(cipher[d]), RecvView(cipher[Other(d)]), taken[d])
  /\ ReadOK(sent[d], delivered[d], taken[d], phase[Other(d)], msg_len[Other(d)])

DirOK(d) == EndsOK(d) /\ WireOK(d) /\ CleanOK(d)

IInv == Types /\ \A d \in Endpoint : DirOK(d)

\* What the receiver can open is the next sealed unit and nothing else.
LEMMA OpenIsNext ==
  ASSUME IInv, NEW d \in Endpoint, NEW u \in UnitType, Authentic(u, log), u.intact = TRUE,
         u.key = Rotate(RecvView(cipher[Other(d)])).key,
         u.nonce = Rotate(RecvView(cipher[Other(d)])).nonce
  PROVE  /\ taken[d] + 1 \in 1..Len(log[d])
         /\ u = log[d][taken[d] + 1]
<1> DEFINE L == log[d]
           S == SendView(cipher[d])
           R == RecvView(cipher[Other(d)])
           t == taken[d]
<1>1. LogOK(d, L, S, sent[d]) /\ RecvOK(d, L, S, R, t)
  BY DEF IInv, DirOK, EndsOK
<1>2. PICK o \in Endpoint : \E i \in 1..Len(log[o]) : u = log[o][i]
  BY DEF Authentic
<1>3. PICK i \in 1..Len(log[o]) : u = log[o][i]
  BY <1>2
<1>4. o = d
  <2>1. u.key.root = o
    <3>1. LogOK(o, log[o], SendView(cipher[o]), sent[o])
      BY DEF IInv, DirOK, EndsOK
    <3>2. u.key = KeyAt(o, u.key.gen)
      BY <1>3, <3>1 DEF LogOK, UnitsKeyed
    <3> QED BY <3>2 DEF KeyAt
  <2>2. WellKeyed(d, Rotate(R))
    BY <1>1, RotateWellKeyed DEF RecvOK
  <2>3. Rotate(R).key.root = d
    <3>1. Rotate(R).key = KeyAt(d, Rotate(R).key.gen)
      BY <2>2 DEF WellKeyed
    <3> QED BY <3>1 DEF KeyAt
  <2> QED BY <2>1, <2>3
<1>5. i \in 1..Len(L) /\ u = L[i]
  BY <1>3, <1>4
<1>6. Len(L) \in Nat /\ t \in 0..Len(L) /\ \A j \in 1..Len(L) : L[j] \in UnitType
  BY <1>1, LenProperties DEF LogOK, RecvOK
<1>7. t # Len(L)
  <2> SUFFICES ASSUME t = Len(L) PROVE FALSE
    OBVIOUS
  <2>1. Rotate(R) = Rotate(S)
    BY <1>1, <1>6 DEF RecvOK, Expect
  <2>2. WellKeyed(d, S) /\ Before(u, S) /\ u.nonce < T
    BY <1>1, <1>5 DEF LogOK, UnitsKeyed
  <2>3. Before(u, Rotate(S)) /\ Rotate(S) \in HalfType
    BY <2>2, RotateWellKeyed DEF WellKeyed
  <2> QED BY <2>1, <2>3, BeforeOrder
<1>8. t + 1 \in 1..Len(L)
  BY <1>6, <1>7
<1>9. u.key = L[t + 1].key /\ u.nonce = L[t + 1].nonce
  BY <1>1, <1>6, <1>8 DEF RecvOK, Expect, Spot
<1>10. i = t + 1
  <2>1. CASE i < t + 1
    BY <2>1, <1>1, <1>5, <1>6, <1>8, <1>9, BeforeOrder DEF LogOK, UnitsIncrease
  <2>2. CASE t + 1 < i
    BY <2>2, <1>1, <1>5, <1>6, <1>8, <1>9, BeforeOrder DEF LogOK, UnitsIncrease
  <2> HIDE DEF L, t
  <2> QED BY <2>1, <2>2, <1>5, <1>6
<1> QED BY <1>5, <1>8, <1>10

\* The stream carries units, so its first element and its rest are typed.
LEMMA WireHead ==
  ASSUME Types, NEW d \in Endpoint, wire[d] # <<>>
  PROVE  /\ Head(wire[d]) \in UnitType
         /\ Head(wire[d]) = wire[d][1]
         /\ Tail(wire[d]) \in Seq(UnitType)
         /\ Len(wire[d]) \in Nat /\ Len(wire[d]) >= 1
         /\ Len(Tail(wire[d])) = Len(wire[d]) - 1
         /\ \A i \in 1..Len(Tail(wire[d])) : Tail(wire[d])[i] = wire[d][i + 1]
<1>1. wire[d] \in Seq(UnitType)
  BY DEF Types
<1> QED BY <1>1, HeadTailProperties, EmptySeq, LenProperties

\* The two ends are each other's other end.
LEMMA OtherEnd ==
  ASSUME NEW d \in Endpoint
  PROVE  Other(d) \in Endpoint /\ Other(d) # d /\ Other(Other(d)) = d
         /\ \A c \in Endpoint : c = d \/ c = Other(d)
BY EndpointAssumption DEF Endpoint, Other

\* Opening the next unit moves the receiver to the one after it; failing to
\* open one leaves it where it is.
LEMMA RecvMoves ==
  ASSUME IInv, NEW d \in Endpoint, NEW size, wire[d] # <<>>
  PROVE  LET L == log[d]
             S == SendView(cipher[d])
             h == Rotate(RecvView(cipher[Other(d)]))
             t == taken[d]
             u == Head(wire[d])
         IN  /\ RecvOK(d, L, S, h, t)
             /\ decrypt_with_ad(h.key, h.nonce, size, u) =>
                  /\ t + 1 \in 1..Len(L)
                  /\ u = L[t + 1]
                  /\ UnitSize(u) = size
                  /\ RecvOK(d, L, S, Advance(h), t + 1)
<1> DEFINE L == log[d]
           S == SendView(cipher[d])
           R == RecvView(cipher[Other(d)])
           h == Rotate(R)
           t == taken[d]
           u == Head(wire[d])
<1>1. LogOK(d, L, S, sent[d]) /\ RecvOK(d, L, S, R, t)
  BY DEF IInv, DirOK, EndsOK
<1>2. WellKeyed(d, h) /\ h.nonce < T /\ Rotate(h) = h
  BY <1>1, RotateWellKeyed DEF RecvOK
<1>3. RecvOK(d, L, S, h, t)
  <2> HIDE DEF L, S, R, t
  <2> QED BY <1>1, <1>2 DEF RecvOK
<1>4. ASSUME decrypt_with_ad(h.key, h.nonce, size, u)
      PROVE  /\ t + 1 \in 1..Len(L)
             /\ u = L[t + 1]
             /\ UnitSize(u) = size
             /\ RecvOK(d, L, S, Advance(h), t + 1)
  <2>1. u \in UnitType /\ Authentic(u, log)
    BY WireHead DEF IInv, DirOK, WireOK
  <2>2. u.intact = TRUE
    <3>1. u.intact
      BY <1>4, Zenon DEF decrypt_with_ad
    <3>2. u.intact \in BOOLEAN
      BY <2>1 DEF UnitType
    <3> QED BY <3>1, <3>2
  <2>3. u.key = h.key /\ u.nonce = h.nonce /\ UnitSize(u) = size
    BY <1>4, Zenon DEF decrypt_with_ad
  <2>4. t + 1 \in 1..Len(L) /\ u = L[t + 1]
    BY <2>1, <2>2, <2>3, OpenIsNext
  <2>5. WellKeyed(d, Advance(h))
    BY <1>2, AdvanceWellKeyed
  <2>6. h = Spot(L[t + 1])
    BY <1>1, <2>4 DEF RecvOK, Expect
  <2>7. Rotate(Advance(h)) = Expect(L, S, t + 2)
    <3>1. Expect(L, S, (t + 1) + 1) = Rotate(Advance(Spot(L[t + 1])))
      BY <1>1, <2>4 DEF LogOK, UnitsAdjacent
    <3>2. (t + 1) + 1 = t + 2
      BY <1>1 DEF RecvOK
    <3> QED BY <2>6, <3>1, <3>2
  <2>8. (t + 1) + 1 = t + 2 /\ t + 1 \in 0..Len(L)
    BY <1>1, <2>4 DEF RecvOK
  <2> QED BY <2>3, <2>4, <2>5, <2>7, <2>8 DEF RecvOK
<1> QED BY <1>3, <1>4

------------------------------------------------------------------------------
(* The invariant holds initially.                                           *)

\* The ciphers that a completed handshake hands out, on an empty stream, satisfy the
\* invariant.
LEMMA InitIInv == Init => IInv
<1> SUFFICES ASSUME Init PROVE IInv
  OBVIOUS
<1> USE EndpointAssumption, ThresholdAssumption
<1>1. ASSUME NEW e \in Endpoint
      PROVE  /\ cipher[e] \in WholeType
             /\ SendView(cipher[e]) = [key |-> RootKey(e), nonce |-> 0, ck |-> 0]
             /\ RecvView(cipher[e]) = [key |-> RootKey(Other(e)), nonce |-> 0, ck |-> 0]
  <2> DEFINE c == NoiseCipher_new(RootKey(e), RootKey(Other(e)), 0)
  <2>1. cipher[e] = c
    BY DEF Init
  <2>2. c \in WholeType
    BY OtherEnd DEF NoiseCipher_new, WholeType, RootKey, KeyType
  <2>3. SendView(c) = [key |-> RootKey(e), nonce |-> 0, ck |-> 0]
    BY DEF NoiseCipher_new, SendView
  <2>4. RecvView(c) = [key |-> RootKey(Other(e)), nonce |-> 0, ck |-> 0]
    BY DEF NoiseCipher_new, RecvView
  <2> HIDE DEF c
  <2> QED BY <2>1, <2>2, <2>3, <2>4
<1>2. Types
  <2>1. cipher \in [Endpoint -> WholeType \cup SplitType]
    BY <1>1 DEF Init
  <2> QED BY <2>1 DEF Init, Types
<1>3. ASSUME NEW d \in Endpoint PROVE DirOK(d)
  <2> DEFINE h == [key |-> RootKey(d), nonce |-> 0, ck |-> 0]
  <2>1. SendView(cipher[d]) = h /\ RecvView(cipher[Other(d)]) = h
    BY <1>1, OtherEnd
  <2>2. WellKeyed(d, h)
    BY DEF WellKeyed, RootKey, KeyAt, HalfType, KeyType, T
  <2>3. /\ log[d] = <<>> /\ sent[d] = <<>> /\ delivered[d] = <<>> /\ taken[d] = 0
        /\ wire[d] = <<>> /\ phase[Other(d)] = "header" /\ failed[d] = FALSE
    BY OtherEnd DEF Init
  <2> HIDE DEF h
  <2>4. LogOK(d, log[d], h, sent[d])
    BY <2>2, <2>3 DEF LogOK, UnitsKeyed, UnitsFramed, UnitsIncrease, UnitsAdjacent
  <2>5. RecvOK(d, log[d], h, h, taken[d])
    BY <2>2, <2>3 DEF RecvOK, Expect
  <2>6. ReadOK(sent[d], delivered[d], taken[d], phase[Other(d)], msg_len[Other(d)])
    BY <2>3 DEF ReadOK
  <2>7. WireOK(d) /\ CleanOK(d)
    BY <2>3 DEF WireOK, CleanOK
  <2> QED BY <2>1, <2>4, <2>5, <2>6, <2>7 DEF DirOK, EndsOK
<1> QED BY <1>2, <1>3 DEF IInv

------------------------------------------------------------------------------
(* Every action preserves the invariant.                                    *)

\* A direction none of whose two halves moved keeps its part of the invariant.
LEMMA EndsFrame ==
  ASSUME IInv, NEW d \in Endpoint,
         log'[d] = log[d], sent'[d] = sent[d],
         taken'[d] = taken[d], delivered'[d] = delivered[d],
         SendView(cipher'[d]) = SendView(cipher[d]),
         RecvView(cipher'[Other(d)]) = RecvView(cipher[Other(d)]),
         phase'[Other(d)] = phase[Other(d)], msg_len'[Other(d)] = msg_len[Other(d)]
  PROVE  EndsOK(d)'
<1>1. EndsOK(d)
  BY DEF IInv, DirOK
<1> QED BY <1>1 DEF EndsOK

\* split() moves nothing.
LEMMA SplitStep ==
  ASSUME IInv, NEW e \in Endpoint, Split(e)
  PROVE  IInv'
<1>1. cipher[e] \in WholeType
  BY DEF IInv, Types, Split, WholeType, SplitType
<1>2. /\ NoiseCipher_split(cipher[e]) \in SplitType
      /\ SendView(NoiseCipher_split(cipher[e])) = SendView(cipher[e])
      /\ RecvView(NoiseCipher_split(cipher[e])) = RecvView(cipher[e])
  BY <1>1 DEF WholeType, SplitType, HalfType, NoiseCipher_split, SendView, RecvView
<1>3. Types'
  BY <1>2 DEF IInv, Types, Split
<1>4. ASSUME NEW c \in Endpoint
      PROVE  SendView(cipher'[c]) = SendView(cipher[c]) /\ RecvView(cipher'[c]) = RecvView(cipher[c])
  BY <1>2 DEF Split, IInv, Types
<1>5. ASSUME NEW d \in Endpoint PROVE DirOK(d)'
  <2>1. EndsOK(d)'
    BY <1>4, OtherEnd, EndsFrame DEF Split
  <2>2. WireOK(d)' /\ CleanOK(d)'
    BY DEF IInv, DirOK, WireOK, Authentic, CleanOK, Split
  <2> QED BY <2>1, <2>2 DEF DirOK
<1> QED BY <1>3, <1>5 DEF IInv

\* A disturbance of the stream of d that keeps every intact unit authentic.
LEMMA DisturbStep ==
  ASSUME IInv, NEW d \in Endpoint, NEW w \in Seq(UnitType), Disturb(d, w),
         \A i \in 1..Len(w) : Authentic(w[i], log)
  PROVE  IInv'
<1>1. Types'
  BY DEF IInv, Types, Disturb
<1>2. ASSUME NEW c \in Endpoint PROVE DirOK(c)'
  <2>1. EndsOK(c)'
    BY EndsFrame DEF Disturb
  <2>2. WireOK(c)'
    <3>1. log' = log /\ wire'[c] = IF c = d THEN w ELSE wire[c]
      BY DEF IInv, Types, Disturb
    <3>2. \A i \in 1..Len(wire[c]) : Authentic(wire[c][i], log)
      BY DEF IInv, DirOK, WireOK
    <3> QED BY <3>1, <3>2 DEF WireOK
  <2>3. CleanOK(c)'
    BY DEF IInv, Types, CleanOK, Disturb
  <2> QED BY <2>1, <2>2, <2>3 DEF DirOK
<1> QED BY <1>1, <1>2 DEF IInv

\* A unit that never arrives: what is left of the stream is still authentic.
LEMMA LoseStep ==
  ASSUME IInv, NEW d \in Endpoint, Lose(d)
  PROVE  IInv'
<1> DEFINE w == Tail(wire[d])
<1>1. wire[d] # <<>> /\ Disturb(d, w)
  BY DEF Lose
<1>2. /\ w \in Seq(UnitType) /\ Len(w) = Len(wire[d]) - 1 /\ Len(wire[d]) \in Nat
      /\ \A i \in 1..Len(w) : w[i] = wire[d][i + 1]
  BY <1>1, WireHead DEF IInv
<1> HIDE DEF w
<1>3. \A i \in 1..Len(w) : Authentic(w[i], log)
  <2> SUFFICES ASSUME NEW i \in 1..Len(w) PROVE Authentic(w[i], log)
    OBVIOUS
  <2>1. i + 1 \in 1..Len(wire[d]) /\ w[i] = wire[d][i + 1]
    BY <1>2
  <2> QED BY <2>1 DEF IInv, DirOK, WireOK
<1> QED BY <1>1, <1>2, <1>3, DisturbStep

\* Putting one typed unit in front of a stream.
LEMMA PutFront ==
  ASSUME NEW x \in UnitType, NEW q \in Seq(UnitType)
  PROVE  /\ <<x>> \o q \in Seq(UnitType)
         /\ Len(<<x>> \o q) = Len(q) + 1 /\ Len(q) \in Nat
         /\ (<<x>> \o q)[1] = x
         /\ \A i \in 1..Len(q) : (<<x>> \o q)[i + 1] = q[i]
<1>1. <<x>> \in Seq(UnitType) /\ Len(<<x>>) = 1 /\ <<x>>[1] = x
  OBVIOUS
<1>2. Len(q) \in Nat
  BY LenProperties
<1>3. /\ <<x>> \o q \in Seq(UnitType)
      /\ Len(<<x>> \o q) = 1 + Len(q)
      /\ \A i \in 1..(1 + Len(q)) : (<<x>> \o q)[i] = IF i <= 1 THEN <<x>>[i] ELSE q[i - 1]
  BY <1>1, ConcatProperties
<1> DEFINE p == <<x>> \o q
<1> HIDE DEF p
<1>4. \A i \in 1..Len(q) : p[i + 1] = q[i]
  BY <1>2, <1>3 DEF p
<1>5. p[1] = x
  BY <1>1, <1>2, <1>3 DEF p
<1> QED BY <1>2, <1>3, <1>4, <1>5 DEF p

\* A unit whose bytes were changed counts as authentic no longer, and the others
\* stay as they were.
LEMMA CorruptStep ==
  ASSUME IInv, NEW d \in Endpoint, Corrupt(d)
  PROVE  IInv'
<1> DEFINE q == Tail(wire[d])
           x == [Head(wire[d]) EXCEPT !.intact = FALSE]
           w == <<x>> \o q
<1>1. wire[d] # <<>> /\ Disturb(d, w)
  BY DEF Corrupt
<1>2. /\ Head(wire[d]) \in UnitType
      /\ q \in Seq(UnitType) /\ Len(q) = Len(wire[d]) - 1 /\ Len(wire[d]) \in Nat
      /\ \A i \in 1..Len(q) : q[i] = wire[d][i + 1]
  BY <1>1, WireHead DEF IInv
<1>3. x \in UnitType /\ x.intact = FALSE
  <2> HIDE DEF q
  <2> QED BY <1>2 DEF UnitType
<1> HIDE DEF x, q
<1>4. /\ w \in Seq(UnitType) /\ Len(w) = Len(q) + 1 /\ w[1] = x
      /\ \A i \in 1..Len(q) : w[i + 1] = q[i]
  BY <1>2, <1>3, PutFront
<1> HIDE DEF w
<1>5. \A i \in 1..Len(w) : Authentic(w[i], log)
  <2> SUFFICES ASSUME NEW i \in 1..Len(w) PROVE Authentic(w[i], log)
    OBVIOUS
  <2>1. CASE i = 1
    BY <2>1, <1>3, <1>4 DEF Authentic
  <2>2. CASE i # 1
    <3>1. i - 1 \in 1..Len(q) /\ (i - 1) + 1 = i /\ i \in 1..Len(wire[d])
      BY <2>2, <1>2, <1>4
    <3>2. w[i] = wire[d][i]
      BY <3>1, <1>2, <1>4
    <3> QED BY <3>1, <3>2 DEF IInv, DirOK, WireOK
  <2> QED BY <2>1, <2>2
<1> QED BY <1>1, <1>4, <1>5, DisturbStep

\* A unit that turns up again comes from the log, so it is authentic.
LEMMA ReplayStep ==
  ASSUME IInv, NEW d \in Endpoint, Replay(d)
  PROVE  IInv'
<1>1. PICK o \in Endpoint : \E i \in 1..Len(log[o]) : Disturb(d, <<log[o][i]>> \o wire[d])
  BY DEF Replay
<1>2. PICK k \in 1..Len(log[o]) : Disturb(d, <<log[o][k]>> \o wire[d])
  BY <1>1
<1> DEFINE x == log[o][k]
           q == wire[d]
           w == <<x>> \o q
<1>3. q \in Seq(UnitType) /\ Len(q) \in Nat
  BY LenProperties DEF IInv, Types
<1>4. x \in UnitType /\ Authentic(x, log)
  <2>1. log[o] \in Seq(UnitType)
    BY DEF IInv, Types
  <2> QED BY <2>1, ElementOfSeq DEF Authentic
<1> HIDE DEF x
<1>5. /\ w \in Seq(UnitType) /\ Len(w) = Len(q) + 1 /\ w[1] = x
      /\ \A i \in 1..Len(q) : w[i + 1] = q[i]
  BY <1>3, <1>4, PutFront
<1>6. Disturb(d, w)
  BY <1>2 DEF x
<1> HIDE DEF w
<1>7. \A i \in 1..Len(w) : Authentic(w[i], log)
  <2> SUFFICES ASSUME NEW i \in 1..Len(w) PROVE Authentic(w[i], log)
    OBVIOUS
  <2>1. CASE i = 1
    BY <2>1, <1>4, <1>5
  <2>2. CASE i # 1
    <3>1. i - 1 \in 1..Len(q) /\ (i - 1) + 1 = i
      BY <2>2, <1>3, <1>5
    <3>2. w[i] = wire[d][i - 1]
      BY <3>1, <1>5
    <3> QED BY <3>1, <3>2 DEF IInv, DirOK, WireOK
  <2> QED BY <2>1, <2>2
<1> QED BY <1>5, <1>6, <1>7, DisturbStep

\* Appending two units to a stream or to the log.
LEMMA PutTwo ==
  ASSUME NEW q \in Seq(UnitType), NEW x \in UnitType, NEW y \in UnitType
  PROVE  /\ q \o <<x, y>> \in Seq(UnitType)
         /\ Len(q \o <<x, y>>) = Len(q) + 2 /\ Len(q) \in Nat
         /\ \A i \in 1..Len(q) : (q \o <<x, y>>)[i] = q[i]
         /\ (q \o <<x, y>>)[Len(q) + 1] = x
         /\ (q \o <<x, y>>)[Len(q) + 2] = y
<1> DEFINE p == q \o <<x, y>>
<1>1. <<x, y>> \in Seq(UnitType) /\ Len(<<x, y>>) = 2 /\ <<x, y>>[1] = x /\ <<x, y>>[2] = y
  OBVIOUS
<1>2. Len(q) \in Nat
  BY LenProperties
<1>3. /\ p \in Seq(UnitType) /\ Len(p) = Len(q) + 2
      /\ \A i \in 1..(Len(q) + 2) : p[i] = IF i <= Len(q) THEN q[i] ELSE <<x, y>>[i - Len(q)]
  BY <1>1, ConcatProperties
<1> HIDE DEF p
<1>4. \A i \in 1..Len(q) : p[i] = q[i]
  BY <1>2, <1>3
<1>5. p[Len(q) + 1] = x /\ p[Len(q) + 2] = y
  BY <1>1, <1>2, <1>3
<1> QED BY <1>2, <1>3, <1>4, <1>5 DEF p

\* Sending a message (NoiseWriter::send, NoiseConnection::send_message) extends the
\* log and the stream of its direction by the same two units.
LEMMA SendStep ==
  ASSUME IInv, NEW e \in Endpoint, NEW m \in Message, Send(e, m)
  PROVE  IInv'
<1> DEFINE r  == Encrypted(e, m)
           h1 == Rotate(SendView(cipher[e]))
           h2 == Rotate(Advance(h1))
           u1 == Seal(h1, "header", m)
           u2 == Seal(h2, "body", m)
           L  == log[e]
           N  == L \o <<u1, u2>>
           W  == wire[e]
           V  == W \o <<u1, u2>>
           M  == sent[e]
           M2 == Append(M, m)
<1> USE DEF IInv, Types
<1>1. /\ r.cipher \in CipherType /\ r.header = u1 /\ r.body = u2
      /\ SendView(r.cipher) = Advance(h2)
      /\ RecvView(r.cipher) = RecvView(cipher[e])
  <2>1. cipher[e] \in CipherType
    BY DEF CipherType
  <2> QED BY <2>1, EncryptView
<1>2. u1 \in UnitType /\ u2 \in UnitType
  <2>1. h1 \in HalfType
    BY ViewType, RotateType DEF CipherType
  <2>2. h2 \in HalfType
    <3> HIDE DEF h1
    <3> QED BY <2>1, AdvanceType, RotateType
  <2> QED BY <2>1, <2>2, SealUnit
<1>3. /\ cipher' = [cipher EXCEPT ![e] = r.cipher]
      /\ wire' = [wire EXCEPT ![e] = V]
      /\ log' = [log EXCEPT ![e] = N]
      /\ sent' = [sent EXCEPT ![e] = M2]
      /\ UNCHANGED <<phase, msg_len, faults, taken, delivered, failed>>
  BY <1>1 DEF Send
<1>4. /\ N \in Seq(UnitType) /\ Len(N) = Len(L) + 2 /\ Len(L) \in Nat
      /\ \A i \in 1..Len(L) : N[i] = L[i]
      /\ N[Len(L) + 1] = u1 /\ N[Len(L) + 2] = u2
  <2>1. L \in Seq(UnitType)
    OBVIOUS
  <2> HIDE DEF u1, u2, L
  <2> QED BY <1>2, <2>1, PutTwo
<1>5. /\ V \in Seq(UnitType) /\ Len(V) = Len(W) + 2 /\ Len(W) \in Nat
      /\ \A i \in 1..Len(W) : V[i] = W[i]
      /\ V[Len(W) + 1] = u1 /\ V[Len(W) + 2] = u2
  <2>1. W \in Seq(UnitType)
    OBVIOUS
  <2> HIDE DEF u1, u2, W
  <2> QED BY <1>2, <2>1, PutTwo
<1>6. M2 \in Seq(Message) /\ Len(M2) = Len(M) + 1 /\ Len(M) \in Nat
      /\ \A k \in 1..Len(M) : M2[k] = M[k]
  <2>1. M \in Seq(Message)
    OBVIOUS
  <2> QED BY <2>1, AppendProperties, LenProperties
<1>7. Types'
  <2> HIDE DEF r, N, V, M2
  <2> QED BY <1>1, <1>3, <1>4, <1>5, <1>6 DEF CipherType
<1>8. /\ LogOK(e, N, Advance(h2), M2)
      /\ \A i \in 1..(Len(L) + 1) : Expect(N, Advance(h2), i) = Expect(L, SendView(cipher[e]), i)
  <2>1. LogOK(e, L, SendView(cipher[e]), M)
    BY DEF DirOK, EndsOK
  <2> DEFINE S == SendView(cipher[e])
  <2>2. N = LogAfter(L, S, m) /\ Advance(h2) = HalfAfter(S) /\ M2 = SentAfter(M, m)
    BY DEF LogAfter, HalfAfter, SentAfter
  <2> HIDE DEF L, M, N, M2, h2, S
  <2>3. /\ LogOK(e, LogAfter(L, S, m), HalfAfter(S), SentAfter(M, m))
        /\ \A i \in 1..(Len(L) + 1) :
             Expect(LogAfter(L, S, m), HalfAfter(S), i) = Expect(L, S, i)
    BY <2>1, LogSend DEF S
  <2> QED BY <2>2, <2>3 DEF S
<1>9. EndsOK(e)'
  <2> DEFINE R == RecvView(cipher[Other(e)])
             t == taken[e]
             D == delivered[e]
  <2>1. /\ log'[e] = N /\ sent'[e] = M2 /\ cipher'[e] = r.cipher
        /\ cipher'[Other(e)] = cipher[Other(e)] /\ taken'[e] = t /\ delivered'[e] = D
        /\ phase' = phase /\ msg_len' = msg_len
    <3> HIDE DEF N, M2, r
    <3> QED BY <1>3, OtherEnd
  <2>2. /\ RecvOK(e, L, SendView(cipher[e]), R, t)
        /\ ReadOK(M, D, t, phase[Other(e)], msg_len[Other(e)])
        /\ Len(L) = 2 * Len(M) /\ D \in Seq(Message) /\ Len(D) \in Nat
    BY LenProperties DEF DirOK, EndsOK, LogOK
  <2> HIDE DEF N, M2, r, h2, L, M, R, t, D
  <2>3. RecvOK(e, N, Advance(h2), R, t)
    <3>1. t \in 0..Len(L) /\ t \in 0..Len(N) /\ t + 1 \in 1..(Len(L) + 1)
      <4> HIDE DEF IInv, Types
      <4>1. t \in 0..Len(L)
        BY <2>2 DEF RecvOK
      <4>2. Len(N) = Len(L) + 2 /\ Len(L) \in Nat
        BY <1>4
      <4> QED BY <4>1, <4>2
    <3>2. WellKeyed(e, R) /\ Rotate(R) = Expect(L, SendView(cipher[e]), t + 1)
      BY <2>2 DEF RecvOK
    <3>3. Expect(N, Advance(h2), t + 1) = Expect(L, SendView(cipher[e]), t + 1)
      BY <3>1, <1>8
    <3> HIDE DEF IInv, Types
    <3> QED BY <3>1, <3>2, <3>3 DEF RecvOK
  <2>4. ReadOK(M2, D, t, phase[Other(e)], msg_len[Other(e)])
    <3>1. Len(D) <= Len(M2) /\ \A k \in 1..Len(D) : k \in 1..Len(M)
      <4> HIDE DEF IInv, Types
      <4>1. Len(D) <= Len(M) /\ Len(D) \in Nat
        BY <2>2 DEF ReadOK
      <4>2. Len(M2) = Len(M) + 1 /\ Len(M) \in Nat
        BY <1>6
      <4> QED BY <4>1, <4>2
    <3>2. phase[Other(e)] = "body" => Len(D) + 1 \in 1..Len(M)
      <4>1. phase[Other(e)] = "body" => t = 2 * Len(D) + 1
        BY <2>2 DEF ReadOK
      <4>2. t \in 0..Len(L) /\ Len(L) = 2 * Len(M) /\ Len(L) \in Nat /\ Len(M) \in Nat
            /\ Len(D) \in Nat
        BY <2>2, <1>4, <1>6 DEF RecvOK
      <4> HIDE DEF IInv
      <4> QED BY <4>1, <4>2
    <3> QED BY <3>1, <3>2, <2>2, <1>6 DEF ReadOK
  <2> QED BY <2>1, <2>3, <2>4, <1>1, <1>8 DEF EndsOK, R
<1>10. ASSUME NEW o \in Endpoint, NEW j \in 1..Len(log[o])
       PROVE  j \in 1..Len(log'[o]) /\ log'[o][j] = log[o][j]
  <2>1. CASE o = e
    <3> HIDE DEF N
    <3> QED BY <2>1, <1>3, <1>4
  <2>2. CASE o # e
    <3> HIDE DEF N
    <3> QED BY <2>2, <1>3
  <2> QED BY <2>1, <2>2
<1>11. ASSUME NEW u, Authentic(u, log) PROVE Authentic(u, log')
  <2> SUFFICES ASSUME u.intact = TRUE
               PROVE  \E o \in Endpoint : \E j \in 1..Len(log'[o]) : u = log'[o][j]
    BY DEF Authentic
  <2>1. PICK o \in Endpoint : \E j \in 1..Len(log[o]) : u = log[o][j]
    BY <1>11 DEF Authentic
  <2>2. PICK j \in 1..Len(log[o]) : u = log[o][j]
    BY <2>1
  <2>3. j \in 1..Len(log'[o]) /\ u = log'[o][j]
    BY <1>10, <2>2
  <2> QED BY <2>3
<1>12. Authentic(u1, log') /\ Authentic(u2, log')
  <2>1. Len(L) + 1 \in 1..Len(log'[e]) /\ log'[e][Len(L) + 1] = u1
    <3> HIDE DEF N, u1
    <3> QED BY <1>3, <1>4
  <2>2. Len(L) + 2 \in 1..Len(log'[e]) /\ log'[e][Len(L) + 2] = u2
    <3> HIDE DEF N, u2
    <3> QED BY <1>3, <1>4
  <2> HIDE DEF u1, u2, L
  <2> QED BY <2>1, <2>2 DEF Authentic
<1>13. ASSUME NEW i \in 1..Len(wire[e]) PROVE Authentic(wire[e][i], log')
  <2>1. Authentic(wire[e][i], log)
    BY DEF DirOK, WireOK
  <2> QED BY <1>11, <2>1
<1>14. WireOK(e)'
  <2> SUFFICES ASSUME NEW i \in 1..Len(wire'[e]) PROVE Authentic(wire'[e][i], log')
    BY DEF WireOK
  <2>1. wire'[e] = V
    BY <1>3
  <2> HIDE DEF V, u1, u2
  <2>2. CASE i <= Len(W)
    <3> HIDE DEF IInv, Types
    <3>1. i \in 1..Len(W)
      BY <2>1, <2>2, <1>5
    <3>2. V[i] = W[i]
      BY <3>1, <1>5
    <3>3. Authentic(W[i], log')
      BY <3>1, <1>13
    <3> QED BY <2>1, <3>2, <3>3
  <2>3. CASE i = Len(W) + 1
    BY <2>1, <2>3, <1>5, <1>12
  <2>4. CASE i = Len(W) + 2
    BY <2>1, <2>4, <1>5, <1>12
  <2>5. i <= Len(W) \/ i = Len(W) + 1 \/ i = Len(W) + 2
    BY <2>1, <1>5
  <2> QED BY <2>2, <2>3, <2>4, <2>5
<1>15. CleanOK(e)'
  <2> DEFINE t == taken[e]
  <2> SUFFICES ASSUME faults = 0
               PROVE  /\ failed[e] = FALSE
                      /\ Len(V) = Len(N) - t
                      /\ \A i \in 1..Len(V) : V[i] = N[t + i]
                      /\ phase[Other(e)] = "header" => t = 2 * Len(delivered[e])
    <3> HIDE DEF V, N
    <3> QED BY <1>3 DEF CleanOK
  <2>1. /\ failed[e] = FALSE /\ Len(W) = Len(L) - t
        /\ \A i \in 1..Len(W) : W[i] = L[t + i]
        /\ phase[Other(e)] = "header" => t = 2 * Len(delivered[e])
    BY DEF DirOK, CleanOK
  <2>2. t \in Nat
    OBVIOUS
  <2> HIDE DEF V, N, W, L, t, u1, u2
  <2>3. \A i \in 1..Len(V) : V[i] = N[t + i]
    <3> SUFFICES ASSUME NEW i \in 1..Len(V) PROVE V[i] = N[t + i]
      OBVIOUS
    <3> HIDE DEF IInv
    <3>0. /\ Len(W) \in Nat /\ Len(L) \in Nat /\ Len(V) = Len(W) + 2
          /\ Len(W) = Len(L) - t /\ t \in Nat
      BY <2>1, <2>2, <1>4, <1>5
    <3>1. CASE i <= Len(W)
      <4>1. i \in 1..Len(W) /\ t + i \in 1..Len(L)
        BY <3>0, <3>1
      <4> QED BY <4>1, <2>1, <1>4, <1>5
    <3>2. CASE i = Len(W) + 1
      <4>1. t + i = Len(L) + 1
        BY <3>2, <2>1, <2>2, <1>4, <1>5
      <4> QED BY <4>1, <3>2, <1>4, <1>5
    <3>3. CASE i = Len(W) + 2
      <4>1. t + i = Len(L) + 2
        BY <3>3, <2>1, <2>2, <1>4, <1>5
      <4> QED BY <4>1, <3>3, <1>4, <1>5
    <3>4. i <= Len(W) \/ i = Len(W) + 1 \/ i = Len(W) + 2
      BY <3>0
    <3> QED BY <3>1, <3>2, <3>3, <3>4
  <2> QED BY <2>1, <2>2, <2>3, <1>4, <1>5
<1>16. ASSUME NEW d \in Endpoint, d # e PROVE DirOK(d)'
  <2>1. d = Other(e) /\ Other(d) = e
    BY <1>16, OtherEnd
  <2>2. /\ log'[d] = log[d] /\ sent'[d] = sent[d] /\ wire'[d] = wire[d]
        /\ cipher'[d] = cipher[d] /\ cipher'[e] = r.cipher
        /\ UNCHANGED <<phase, msg_len, faults, taken, delivered, failed>>
    <3> HIDE DEF r, N, V, M2
    <3> QED BY <1>3, <1>16
  <2> HIDE DEF r
  <2>3. EndsOK(d)'
    BY <1>1, <2>1, <2>2, EndsFrame
  <2>4. WireOK(d)'
    <3> SUFFICES ASSUME NEW i \in 1..Len(wire[d]) PROVE Authentic(wire[d][i], log')
      BY <2>2 DEF WireOK
    <3>1. Authentic(wire[d][i], log)
      BY DEF DirOK, WireOK
    <3> QED BY <1>11, <3>1
  <2>5. CleanOK(d)'
    BY <2>2 DEF DirOK, CleanOK
  <2> QED BY <2>3, <2>4, <2>5 DEF DirOK
<1>17. DirOK(e)'
  BY <1>9, <1>14, <1>15 DEF DirOK
<1> QED BY <1>7, <1>16, <1>17

\* On a clean stream the unit read next is the one the receiver stands at, so it
\* opens if the call reads as many bytes as it has.
LEMMA CleanOpens ==
  ASSUME IInv, NEW d \in Endpoint, wire[d] # <<>>, faults = 0
  PROVE  LET h == Rotate(RecvView(cipher[Other(d)]))
             u == Head(wire[d])
         IN  /\ taken[d] + 1 \in 1..Len(log[d])
             /\ u = log[d][taken[d] + 1]
             /\ decrypt_with_ad(h.key, h.nonce, UnitSize(u), u)
<1> DEFINE L == log[d]
           S == SendView(cipher[d])
           R == RecvView(cipher[Other(d)])
           h == Rotate(R)
           t == taken[d]
           u == Head(wire[d])
<1>1. /\ u = wire[d][1] /\ Len(wire[d]) \in Nat /\ Len(wire[d]) >= 1
  BY WireHead DEF IInv
<1>2. /\ Len(wire[d]) = Len(L) - t
      /\ \A i \in 1..Len(wire[d]) : wire[d][i] = L[t + i]
  BY DEF IInv, DirOK, CleanOK
<1>3. LogOK(d, L, S, sent[d]) /\ RecvOK(d, L, S, R, t) /\ L \in Seq(UnitType) /\ t \in Nat
  BY DEF IInv, Types, DirOK, EndsOK
<1>4. t + 1 \in 1..Len(L)
  <2>1. Len(L) \in Nat
    BY <1>3, LenProperties
  <2> HIDE DEF L, t
  <2> QED BY <2>1, <1>1, <1>2, <1>3
<1>5. u = L[t + 1]
  BY <1>1, <1>2
<1>6. h = Spot(u)
  BY <1>3, <1>4, <1>5 DEF RecvOK, Expect
<1>7. u.intact = TRUE
  BY <1>3, <1>4, <1>5 DEF LogOK, UnitsKeyed
<1>8. h.key = u.key /\ h.nonce = u.nonce
  <2> HIDE DEF h, u
  <2> QED BY <1>6 DEF Spot
<1>9. decrypt_with_ad(h.key, h.nonce, UnitSize(u), u)
  <2> HIDE DEF h, u
  <2> QED BY <1>7, <1>8, Zenon DEF decrypt_with_ad
<1> QED BY <1>4, <1>5, <1>9

\* Reading from the stream of d: what the step does to everything but the
\* receiver's own direction.
LEMMA ReadFrame ==
  ASSUME IInv, NEW d \in Endpoint, NEW size, NEW r, wire[d] # <<>>,
         Opens(Other(d), size, Head(wire[d]), r),
         wire' = [wire EXCEPT ![d] = Tail(@)],
         cipher' = [cipher EXCEPT ![Other(d)] = r.cipher],
         UNCHANGED <<faults, sent, log>>,
         taken'[Other(d)] = taken[Other(d)], delivered'[Other(d)] = delivered[Other(d)],
         failed'[Other(d)] = failed[Other(d)],
         phase'[d] = phase[d], msg_len'[d] = msg_len[d]
  PROVE  /\ cipher' \in [Endpoint -> CipherType]
         /\ wire' \in [Endpoint -> Seq(UnitType)]
         /\ SendView(cipher'[d]) = SendView(cipher[d])
         /\ cipher'[Other(d)] = r.cipher
         /\ DirOK(Other(d))'
         /\ WireOK(d)'
<1> DEFINE e == Other(d)
<1>1. e \in Endpoint /\ e # d /\ Other(e) = d
  BY OtherEnd
<1>2. r.cipher \in CipherType /\ SendView(r.cipher) = SendView(cipher[e])
  BY DEF Opens
<1>3. cipher' \in [Endpoint -> CipherType]
  BY <1>2 DEF IInv, Types, CipherType
<1>4. /\ Tail(wire[d]) \in Seq(UnitType) /\ Len(wire[d]) \in Nat
      /\ Len(Tail(wire[d])) = Len(wire[d]) - 1
      /\ \A i \in 1..Len(Tail(wire[d])) : Tail(wire[d])[i] = wire[d][i + 1]
  BY WireHead DEF IInv
<1>5. wire' \in [Endpoint -> Seq(UnitType)]
  BY <1>4 DEF IInv, Types
<1>6. cipher'[d] = cipher[d] /\ cipher'[e] = r.cipher /\ wire'[e] = wire[e]
      /\ wire'[d] = Tail(wire[d])
  BY <1>1 DEF IInv, Types
<1>7. DirOK(e)'
  <2> HIDE DEF e
  <2>1. EndsOK(e)'
    BY <1>1, <1>2, <1>6, EndsFrame DEF e
  <2>2. WireOK(e)' /\ CleanOK(e)'
    <3>1. WireOK(e) /\ CleanOK(e)
      BY <1>1 DEF IInv, DirOK
    <3> QED BY <3>1, <1>1, <1>6 DEF WireOK, CleanOK, e
  <2> QED BY <2>1, <2>2 DEF DirOK
<1>8. WireOK(d)'
  <2> DEFINE w == Tail(wire[d])
  <2> SUFFICES ASSUME NEW i \in 1..Len(w) PROVE Authentic(w[i], log)
    BY <1>6 DEF WireOK
  <2>1. i + 1 \in 1..Len(wire[d]) /\ w[i] = wire[d][i + 1]
    <3> HIDE DEF w
    <3> QED BY <1>4 DEF w
  <2> QED BY <2>1 DEF IInv, DirOK, WireOK
<1> QED BY <1>3, <1>5, <1>6, <1>7, <1>8

\* After the first unit of a clean stream has been opened the rest is clean.
LEMMA CleanTail ==
  ASSUME IInv, NEW d \in Endpoint, wire[d] # <<>>, faults = 0,
         wire' = [wire EXCEPT ![d] = Tail(@)],
         log' = log, taken' = [taken EXCEPT ![d] = @ + 1]
  PROVE  /\ Len(wire'[d]) = Len(log'[d]) - taken'[d]
         /\ \A i \in 1..Len(wire'[d]) : wire'[d][i] = log'[d][taken'[d] + i]
<1> DEFINE w == Tail(wire[d])
           t == taken[d]
<1>1. /\ Len(wire[d]) \in Nat /\ Len(w) = Len(wire[d]) - 1
      /\ \A i \in 1..Len(w) : w[i] = wire[d][i + 1]
  BY WireHead DEF IInv
<1>2. /\ Len(wire[d]) = Len(log[d]) - t
      /\ \A i \in 1..Len(wire[d]) : wire[d][i] = log[d][t + i]
  BY DEF IInv, DirOK, CleanOK
<1>3. wire'[d] = w /\ taken'[d] = t + 1 /\ t \in Nat
  BY DEF IInv, Types
<1>4. Len(log[d]) \in Nat
  BY LenProperties DEF IInv, Types
<1> HIDE DEF w, t, IInv
<1>5. Len(w) = Len(log[d]) - (t + 1)
  BY <1>1, <1>2, <1>3, <1>4
<1>6. ASSUME NEW i \in 1..Len(w) PROVE w[i] = log[d][(t + 1) + i]
  <2>1. i + 1 \in 1..Len(wire[d]) /\ t + (i + 1) = (t + 1) + i
    BY <1>1, <1>3
  <2> QED BY <2>1, <1>1, <1>2
<1> QED BY <1>3, <1>5, <1>6

\* A header read: the unit that opens is the header of the next message.
LEMMA HeaderStep ==
  ASSUME IInv, NEW d \in Endpoint, RecvHeader(d)
  PROVE  /\ IInv'
         /\ \/ UNCHANGED <<phase, taken>>
            \/ taken[d] = 2 * Len(delivered[d])
<1> DEFINE e == Other(d)
           u == Head(wire[d])
           r == OpenedLength(e, u)
           h == Rotate(RecvView(cipher[e]))
           L == log[d]
           S == SendView(cipher[d])
           M == sent[d]
           D == delivered[d]
           t == taken[d]
           ok == decrypt_with_ad(h.key, h.nonce, ENCRYPTED_LENGTH_SIZE, u)
<1>1. e \in Endpoint /\ e # d /\ Other(e) = d
  BY OtherEnd
<1>2. /\ phase[e] = "header" /\ wire[d] # <<>>
      /\ wire' = [wire EXCEPT ![d] = Tail(@)]
      /\ cipher' = [cipher EXCEPT ![e] = r.cipher]
      /\ UNCHANGED <<faults, sent, log, delivered>>
  BY DEF RecvHeader
<1>3. Opens(e, ENCRYPTED_LENGTH_SIZE, u, r)
  <2>1. cipher[e] \in CipherType
    BY <1>1 DEF IInv, Types, CipherType
  <2> QED BY <1>1, <2>1, DecryptView
<1>4. /\ LogOK(d, L, S, M)
      /\ ReadOK(M, D, t, "header", msg_len[e])
      /\ t \in Nat /\ Len(M) \in Nat /\ Len(D) \in Nat /\ Len(L) = 2 * Len(M)
  <2>1. EndsOK(d) /\ M \in Seq(Message) /\ D \in Seq(Message) /\ t \in Nat
    BY DEF IInv, DirOK, Types
  <2> QED BY <1>2, <2>1, LenProperties DEF EndsOK, LogOK
<1>5. u \in UnitType
  BY <1>2, WireHead DEF IInv
<1>6. CASE r.ok
  <2>1. /\ msg_len' = [msg_len EXCEPT ![e] = Size[u.msg]]
        /\ phase' = [phase EXCEPT ![e] = "body"]
        /\ taken' = [taken EXCEPT ![d] = @ + 1]
        /\ failed' = failed
    BY <1>6, Zenon DEF RecvHeader
  <2>2. ok /\ RecvView(r.cipher) = Advance(h)
    <3> HIDE DEF r
    <3> QED BY <1>3, <1>6, Zenon DEF Opens
  <2>3. /\ t + 1 \in 1..Len(L) /\ u = L[t + 1] /\ UnitSize(u) = ENCRYPTED_LENGTH_SIZE
        /\ RecvOK(d, L, S, Advance(h), t + 1)
    BY <1>2, <2>2, RecvMoves
  <2>4. t = 2 * Len(D) /\ Len(D) + 1 \in 1..Len(M) /\ u.msg = M[Len(D) + 1]
    <3> DEFINE k == Len(D) + 1
    <3>1. t = 2 * Len(D) \/ t = 2 * Len(D) + 1
      BY <1>4 DEF ReadOK
    <3>2. k \in 1..Len(M)
      <4> HIDE DEF t, L, M, D
      <4> QED BY <3>1, <1>4, <2>3
    <3>3. t # 2 * Len(D) + 1
      <4> SUFFICES ASSUME t = 2 * Len(D) + 1 PROVE FALSE
        OBVIOUS
      <4>1. t + 1 = 2 * k
        <5> HIDE DEF t, D
        <5> QED BY <1>4
      <4>2. u.kind = "body"
        <5>1. UnitsFramed(L, M)
          BY <1>4 DEF LogOK
        <5> HIDE DEF L, M, u, t, D
        <5> QED BY <4>1, <3>2, <2>3, <5>1 DEF UnitsFramed
      <4>3. Size[u.msg] \in Nat /\ Size[u.msg] # 2
        BY <1>5, SizeAssumption DEF UnitType
      <4> HIDE DEF u
      <4> QED BY <4>2, <4>3, <2>3 DEF UnitSize, ENCRYPTED_LENGTH_SIZE, MAC_SIZE
    <3>4. t = 2 * Len(D) /\ t + 1 = 2 * k - 1
      <4> HIDE DEF t, D
      <4> QED BY <3>1, <3>3, <1>4
    <3>5. u.msg = M[k]
      <4>1. UnitsFramed(L, M)
        BY <1>4 DEF LogOK
      <4> HIDE DEF L, M, u, t, k
      <4> QED BY <3>2, <3>4, <2>3, <4>1 DEF UnitsFramed
    <3> QED BY <3>2, <3>4, <3>5
  <2>5. /\ taken'[d] = t + 1 /\ taken'[e] = taken[e] /\ phase'[e] = "body"
        /\ phase'[d] = phase[d] /\ msg_len'[e] = Size[u.msg] /\ msg_len'[d] = msg_len[d]
    BY <1>1, <2>1 DEF IInv, Types
  <2>6. /\ cipher' \in [Endpoint -> CipherType]
        /\ wire' \in [Endpoint -> Seq(UnitType)]
        /\ SendView(cipher'[d]) = S
        /\ cipher'[e] = r.cipher
        /\ DirOK(e)'
        /\ WireOK(d)'
    BY <1>2, <1>3, <2>1, <2>5, ReadFrame
  <2>7. Types'
    <3>1. Size[u.msg] \in Nat
      BY <1>5, SizeAssumption DEF UnitType
    <3> HIDE DEF u, r, e
    <3>2. msg_len' \in [Endpoint -> Nat] /\ phase' \in [Endpoint -> {"header", "body"}]
          /\ taken' \in [Endpoint -> Nat]
      <4>1. /\ msg_len \in [Endpoint -> Nat] /\ taken \in [Endpoint -> Nat]
            /\ phase \in [Endpoint -> {"header", "body"}]
        BY DEF IInv, Types
      <4> QED BY <1>1, <2>1, <3>1, <4>1
    <3>3. faults' = faults /\ sent' = sent /\ log' = log /\ delivered' = delivered
          /\ failed' = failed
      BY <1>2, <2>1
    <3>4. /\ faults \in Nat /\ sent \in [Endpoint -> Seq(Message)]
          /\ log \in [Endpoint -> Seq(UnitType)]
          /\ delivered \in [Endpoint -> Seq(Message)] /\ failed \in [Endpoint -> BOOLEAN]
      BY DEF IInv, Types
    <3> QED BY <2>6, <3>2, <3>3, <3>4 DEF Types, CipherType
  <2>8. EndsOK(d)'
    <3>1. ReadOK(M, D, t + 1, "body", Size[u.msg])
      <4> HIDE DEF t, D, M, u
      <4> QED BY <1>4, <2>4 DEF ReadOK
    <3> HIDE DEF r, u
    <3> QED BY <1>2, <1>4, <2>2, <2>3, <2>5, <2>6, <3>1 DEF EndsOK
  <2>9. CleanOK(d)'
    <3> SUFFICES ASSUME faults = 0
                 PROVE  /\ failed'[d] = FALSE
                        /\ Len(wire'[d]) = Len(log'[d]) - taken'[d]
                        /\ \A i \in 1..Len(wire'[d]) : wire'[d][i] = log'[d][taken'[d] + i]
                        /\ phase'[e] # "header"
      BY <1>2 DEF CleanOK
    <3>1. failed'[d] = FALSE
      BY <2>1 DEF IInv, DirOK, CleanOK
    <3> QED BY <3>1, <1>2, <2>1, <2>5, CleanTail
  <2>10. DirOK(d)'
    BY <2>6, <2>8, <2>9 DEF DirOK
  <2>11. IInv'
    BY <1>1, <2>6, <2>7, <2>10, OtherEnd DEF IInv
  <2> QED BY <2>4, <2>11
<1>7. CASE ~r.ok
  <2>1. failed' = [failed EXCEPT ![d] = TRUE] /\ UNCHANGED <<msg_len, phase, taken>>
    BY <1>7, Zenon DEF RecvHeader
  <2>2. ~ok /\ RecvView(r.cipher) = h
    <3> HIDE DEF r
    <3> QED BY <1>3, <1>7, Zenon DEF Opens
  <2>3. RecvOK(d, L, S, h, t)
    BY <1>2, RecvMoves
  <2>4. failed'[e] = failed[e]
    BY <1>1, <2>1 DEF IInv, Types
  <2>5. /\ cipher' \in [Endpoint -> CipherType]
        /\ wire' \in [Endpoint -> Seq(UnitType)]
        /\ SendView(cipher'[d]) = S
        /\ cipher'[e] = r.cipher
        /\ DirOK(e)'
        /\ WireOK(d)'
    BY <1>2, <1>3, <2>1, <2>4, ReadFrame
  <2>6. Types'
    BY <1>2, <2>1, <2>5 DEF IInv, Types, CipherType
  <2>7. EndsOK(d)'
    <3> HIDE DEF r
    <3> QED BY <1>2, <1>4, <2>1, <2>2, <2>3, <2>5 DEF EndsOK
  <2>8. faults # 0
    <3> SUFFICES ASSUME faults = 0 PROVE FALSE
      OBVIOUS
    <3>1. /\ t + 1 \in 1..Len(L) /\ u = L[t + 1]
          /\ decrypt_with_ad(h.key, h.nonce, UnitSize(u), u)
      BY <1>2, CleanOpens
    <3>2. t = 2 * Len(D)
      BY <1>2 DEF IInv, DirOK, CleanOK
    <3> DEFINE k == Len(D) + 1
    <3>3. k \in 1..Len(M) /\ t + 1 = 2 * k - 1
      <4> HIDE DEF t, L, M, D
      <4> QED BY <3>1, <3>2, <1>4
    <3>4. u.kind = "header"
      BY <3>1, <3>3, <1>4 DEF LogOK, UnitsFramed
    <3>5. UnitSize(u) = ENCRYPTED_LENGTH_SIZE
      BY <3>4 DEF UnitSize
    <3> QED BY <3>1, <3>5, <2>2
  <2>9. CleanOK(d)'
    BY <1>2, <2>8 DEF CleanOK
  <2>10. DirOK(d)'
    BY <2>5, <2>7, <2>9 DEF DirOK
  <2>11. IInv'
    BY <1>1, <2>5, <2>6, <2>10, OtherEnd DEF IInv
  <2> QED BY <2>1, <2>11
<1> QED BY <1>6, <1>7

\* A body read: the unit that opens is the body of the next message.
LEMMA BodyStep ==
  ASSUME IInv, NEW d \in Endpoint, RecvBody(d)
  PROVE  /\ IInv'
         /\ \/ delivered' = delivered
            \/ /\ Len(delivered[d]) < Len(sent[d])
               /\ delivered' = [delivered EXCEPT ![d] =
                                  Append(@, sent[d][Len(delivered[d]) + 1])]
<1> DEFINE e == Other(d)
           u == Head(wire[d])
           size == msg_len[e] + MAC_SIZE
           r == OpenedMessage(e, msg_len[e], u)
           h == Rotate(RecvView(cipher[e]))
           L == log[d]
           S == SendView(cipher[d])
           M == sent[d]
           D == delivered[d]
           t == taken[d]
           k == Len(D) + 1
           ok == decrypt_with_ad(h.key, h.nonce, size, u)
<1>1. e \in Endpoint /\ e # d /\ Other(e) = d
  BY OtherEnd
<1>2. /\ phase[e] = "body" /\ wire[d] # <<>>
      /\ wire' = [wire EXCEPT ![d] = Tail(@)]
      /\ cipher' = [cipher EXCEPT ![e] = r.cipher]
      /\ phase' = [phase EXCEPT ![e] = "header"]
      /\ UNCHANGED <<msg_len, faults, sent, log>>
  BY DEF RecvBody
<1>3. Opens(e, size, u, r)
  <2>1. cipher[e] \in CipherType
    BY <1>1 DEF IInv, Types, CipherType
  <2> QED BY <1>1, <2>1, DecryptView
<1>4. /\ LogOK(d, L, S, M)
      /\ ReadOK(M, D, t, "body", msg_len[e])
      /\ t \in 0..Len(L) /\ M \in Seq(Message) /\ D \in Seq(Message)
      /\ t \in Nat /\ Len(M) \in Nat /\ Len(D) \in Nat /\ Len(L) = 2 * Len(M)
  <2>1. EndsOK(d) /\ M \in Seq(Message) /\ D \in Seq(Message) /\ t \in Nat
    BY DEF IInv, DirOK, Types
  <2> QED BY <1>2, <2>1, LenProperties DEF EndsOK, LogOK, RecvOK
<1>5. t = 2 * Len(D) + 1 /\ msg_len[e] = Size[M[k]]
  BY <1>4 DEF ReadOK
<1>6. k \in 1..Len(M) /\ t + 1 = 2 * k
  <2> HIDE DEF t, L, M, D
  <2> QED BY <1>4, <1>5
<1>7. /\ phase'[e] = "header" /\ phase'[d] = phase[d]
      /\ phase' \in [Endpoint -> {"header", "body"}]
  BY <1>1, <1>2 DEF IInv, Types
<1>8. CASE r.ok
  <2>1. /\ delivered' = [delivered EXCEPT ![d] = Append(@, u.msg)]
        /\ taken' = [taken EXCEPT ![d] = @ + 1]
        /\ failed' = failed
    BY <1>8, Zenon DEF RecvBody
  <2>2. ok /\ RecvView(r.cipher) = Advance(h)
    <3> HIDE DEF r, size
    <3> QED BY <1>3, <1>8, Zenon DEF Opens
  <2>3. /\ t + 1 \in 1..Len(L) /\ u = L[t + 1]
        /\ RecvOK(d, L, S, Advance(h), t + 1)
    BY <1>2, <2>2, RecvMoves
  <2>4. u.msg = M[k] /\ M[k] \in Message
    <3>1. u.msg = M[k]
      <4>1. UnitsFramed(L, M)
        BY <1>4 DEF LogOK
      <4> HIDE DEF L, M, u, t, k
      <4> QED BY <1>6, <2>3, <4>1 DEF UnitsFramed
    <3>2. M[k] \in Message
      BY <1>4, <1>6, ElementOfSeq
    <3> QED BY <3>1, <3>2
  <2> DEFINE D2 == Append(D, M[k])
  <2>5. /\ D2 \in Seq(Message) /\ Len(D2) = Len(D) + 1 /\ D2[k] = M[k]
        /\ \A j \in 1..Len(D) : D2[j] = D[j]
    BY <1>4, <2>4, AppendProperties
  <2>6. /\ delivered' = [delivered EXCEPT ![d] = D2] /\ delivered'[d] = D2
        /\ delivered'[e] = delivered[e] /\ delivered' \in [Endpoint -> Seq(Message)]
        /\ taken'[d] = t + 1 /\ taken'[e] = taken[e] /\ taken' \in [Endpoint -> Nat]
    <3>1. delivered' = [delivered EXCEPT ![d] = D2]
      BY <2>1, <2>4
    <3>2. taken'[d] = t + 1 /\ taken'[e] = taken[e] /\ taken' \in [Endpoint -> Nat]
      <4>1. taken \in [Endpoint -> Nat]
        BY DEF IInv, Types
      <4> HIDE DEF e
      <4> QED BY <4>1, <1>1, <2>1
    <3> HIDE DEF D2, u
    <3>3. /\ delivered'[d] = D2 /\ delivered'[e] = delivered[e]
          /\ delivered' \in [Endpoint -> Seq(Message)]
      BY <1>1, <2>5, <3>1 DEF IInv, Types
    <3> QED BY <3>1, <3>2, <3>3
  <2> HIDE DEF D2
  <2>7. /\ cipher' \in [Endpoint -> CipherType]
        /\ wire' \in [Endpoint -> Seq(UnitType)]
        /\ SendView(cipher'[d]) = S
        /\ cipher'[e] = r.cipher
        /\ DirOK(e)'
        /\ WireOK(d)'
    <3> HIDE DEF size
    <3> QED BY <1>2, <1>3, <1>7, <2>1, <2>6, ReadFrame
  <2>8. Types'
    BY <1>2, <1>7, <2>1, <2>6, <2>7 DEF IInv, Types, CipherType
  <2>9. EndsOK(d)'
    <3>1. ReadOK(M, D2, t + 1, "header", msg_len[e])
      <4>1. Len(D2) <= Len(M) /\ t + 1 = 2 * Len(D2)
        <5> HIDE DEF t, M, D
        <5> QED BY <1>4, <1>5, <1>6, <2>5
      <4>2. \A j \in 1..Len(D2) : D2[j] = M[j]
        <5> SUFFICES ASSUME NEW j \in 1..Len(D2) PROVE D2[j] = M[j]
          OBVIOUS
        <5>1. CASE j = k
          BY <5>1, <2>5
        <5>2. CASE j # k
          <6>1. j \in 1..Len(D)
            <7> HIDE DEF D
            <7> QED BY <5>2, <1>4, <2>5
          <6> QED BY <6>1, <2>5, <1>4 DEF ReadOK
        <5> QED BY <5>1, <5>2
      <4> HIDE DEF t, M
      <4> QED BY <4>1, <4>2, <2>5 DEF ReadOK
    <3> HIDE DEF r, u
    <3> QED BY <1>2, <1>4, <1>7, <2>2, <2>3, <2>6, <2>7, <3>1 DEF EndsOK
  <2>10. CleanOK(d)'
    <3> SUFFICES ASSUME faults = 0
                 PROVE  /\ failed'[d] = FALSE
                        /\ Len(wire'[d]) = Len(log'[d]) - taken'[d]
                        /\ \A i \in 1..Len(wire'[d]) : wire'[d][i] = log'[d][taken'[d] + i]
                        /\ taken'[d] = 2 * Len(delivered'[d])
      BY <1>2 DEF CleanOK
    <3>1. failed'[d] = FALSE
      BY <2>1 DEF IInv, DirOK, CleanOK
    <3>2. taken'[d] = 2 * Len(delivered'[d])
      <4>1. taken'[d] = t + 1 /\ Len(delivered'[d]) = Len(D) + 1
        BY <2>5, <2>6
      <4>2. t = 2 * Len(D) + 1 /\ Len(D) \in Nat
        BY <1>4, <1>5
      <4> HIDE DEF t, D, IInv
      <4> QED BY <4>1, <4>2
    <3> QED BY <3>1, <3>2, <1>2, <2>1, CleanTail
  <2>11. DirOK(d)'
    BY <2>7, <2>9, <2>10 DEF DirOK
  <2>12. IInv'
    BY <1>1, <2>7, <2>8, <2>11, OtherEnd DEF IInv
  <2>13. Len(D) < Len(M)
    <3> HIDE DEF D, M
    <3> QED BY <1>4, <1>6
  <2> QED BY <2>6, <2>12, <2>13 DEF D2
<1>9. CASE ~r.ok
  <2>1. failed' = [failed EXCEPT ![d] = TRUE] /\ UNCHANGED <<delivered, taken>>
    BY <1>9, Zenon DEF RecvBody
  <2>2. ~ok /\ RecvView(r.cipher) = h
    <3> HIDE DEF r, size
    <3> QED BY <1>3, <1>9, Zenon DEF Opens
  <2>3. RecvOK(d, L, S, h, t)
    BY <1>2, RecvMoves
  <2>4. failed'[e] = failed[e]
    BY <1>1, <2>1 DEF IInv, Types
  <2>5. /\ cipher' \in [Endpoint -> CipherType]
        /\ wire' \in [Endpoint -> Seq(UnitType)]
        /\ SendView(cipher'[d]) = S
        /\ cipher'[e] = r.cipher
        /\ DirOK(e)'
        /\ WireOK(d)'
    <3> HIDE DEF size
    <3> QED BY <1>2, <1>3, <1>7, <2>1, <2>4, ReadFrame
  <2>6. Types'
    BY <1>2, <1>7, <2>1, <2>5 DEF IInv, Types, CipherType
  <2>7. EndsOK(d)'
    <3>1. ReadOK(M, D, t, "header", msg_len[e])
      BY <1>4, <1>5 DEF ReadOK
    <3> HIDE DEF r
    <3> QED BY <1>2, <1>4, <1>7, <2>1, <2>2, <2>3, <2>5, <3>1 DEF EndsOK
  <2>8. faults # 0
    <3> SUFFICES ASSUME faults = 0 PROVE FALSE
      OBVIOUS
    <3>1. /\ t + 1 \in 1..Len(L) /\ u = L[t + 1]
          /\ decrypt_with_ad(h.key, h.nonce, UnitSize(u), u)
      BY <1>2, CleanOpens
    <3>2. u.kind = "body" /\ u.msg = M[k]
      <4>1. UnitsFramed(L, M)
        BY <1>4 DEF LogOK
      <4> HIDE DEF L, M, u, t, k
      <4> QED BY <3>1, <1>6, <4>1 DEF UnitsFramed
    <3>3. UnitSize(u) = size
      <4> HIDE DEF u
      <4> QED BY <3>2, <1>5 DEF UnitSize
    <3> QED BY <3>1, <3>3, <2>2
  <2>9. CleanOK(d)'
    BY <1>2, <2>8 DEF CleanOK
  <2>10. DirOK(d)'
    BY <2>5, <2>7, <2>9 DEF DirOK
  <2>11. IInv'
    BY <1>1, <2>5, <2>6, <2>10, OtherEnd DEF IInv
  <2> QED BY <2>1, <2>11
<1> QED BY <1>8, <1>9

------------------------------------------------------------------------------
(* Theorems.                                                                *)

\* Every step of either endpoint, and every disturbance, keeps the invariant.
LEMMA NextIInv == IInv /\ [Next]_vars => IInv'
<1> SUFFICES ASSUME IInv, [Next]_vars PROVE IInv'
  OBVIOUS
<1>1. CASE UNCHANGED vars
  <2>1. Types'
    BY <1>1 DEF IInv, Types, vars
  <2>2. ASSUME NEW d \in Endpoint PROVE DirOK(d)'
    <3>1. DirOK(d)
      BY DEF IInv
    <3> QED BY <3>1, <1>1 DEF DirOK, EndsOK, WireOK, CleanOK, vars
  <2> QED BY <2>1, <2>2 DEF IInv
<1>2. ASSUME NEW e \in Endpoint, Split(e) PROVE IInv'
  BY <1>2, SplitStep
<1>3. ASSUME NEW e \in Endpoint, NEW m \in Message, Send(e, m) PROVE IInv'
  BY <1>3, SendStep
<1>4. ASSUME NEW e \in Endpoint, RecvHeader(e) PROVE IInv'
  BY <1>4, HeaderStep
<1>5. ASSUME NEW e \in Endpoint, RecvBody(e) PROVE IInv'
  BY <1>5, BodyStep
<1>6. ASSUME NEW e \in Endpoint, Lose(e) PROVE IInv'
  BY <1>6, LoseStep
<1>7. ASSUME NEW e \in Endpoint, Corrupt(e) PROVE IInv'
  BY <1>7, CorruptStep
<1>8. ASSUME NEW e \in Endpoint, Replay(e) PROVE IInv'
  BY <1>8, ReplayStep
<1> QED BY <1>1, <1>2, <1>3, <1>4, <1>5, <1>6, <1>7, <1>8 DEF Next

\* The inductive invariant holds in every reachable state.
THEOREM Invariance == Spec => []IInv
BY InitIInv, NextIInv, PTL DEF Spec

\* Every variable keeps its type, and no nonce of a sender or a receiver runs past
\* the threshold at which its key is replaced, however often that has happened.
THEOREM TypeCorrect == Spec => []TypeOK
<1>1. IInv => TypeOK
  <2> SUFFICES ASSUME IInv, NEW e \in Endpoint, NEW n \in NoncesOf(cipher[e])
               PROVE  n <= T
    BY DEF IInv, TypeOK, T
  <2>1. SendView(cipher[e]).nonce <= T
    BY DEF IInv, DirOK, EndsOK, LogOK, WellKeyed
  <2>2. RecvView(cipher[e]).nonce <= T
    <3>1. Other(e) \in Endpoint /\ Other(Other(e)) = e
      BY OtherEnd
    <3>2. EndsOK(Other(e))
      BY <3>1 DEF IInv, DirOK
    <3> QED BY <3>1, <3>2 DEF EndsOK, RecvOK, WellKeyed
  <2>3. n = SendView(cipher[e]).nonce \/ n = RecvView(cipher[e]).nonce
    BY DEF NoncesOf, SendView, RecvView
  <2> QED BY <2>1, <2>2, <2>3
<1> QED BY <1>1, Invariance, PTL

\* No key and nonce pair ever seals two units, in any number of messages and
\* rotations, before and after split(), in either direction.
THEOREM NonceUniqueness == Spec => []NoNonceReuse
<1>1. IInv => NoNonceReuse
  <2> SUFFICES ASSUME IInv, NEW d \in Endpoint, NEW o \in Endpoint,
                      NEW i \in 1..Len(log[d]), NEW j \in 1..Len(log[o]),
                      log[d][i].key = log[o][j].key, log[d][i].nonce = log[o][j].nonce
               PROVE  d = o /\ i = j
    BY DEF NoNonceReuse
  <2>1. ASSUME NEW c \in Endpoint, NEW n \in 1..Len(log[c])
        PROVE  /\ LogOK(c, log[c], SendView(cipher[c]), sent[c])
               /\ log[c][n] \in UnitType /\ log[c][n].key.root = c
    <3>1. LogOK(c, log[c], SendView(cipher[c]), sent[c]) /\ log[c] \in Seq(UnitType)
      BY DEF IInv, DirOK, EndsOK, Types
    <3>2. log[c][n].key = KeyAt(c, log[c][n].key.gen)
      BY <3>1 DEF LogOK, UnitsKeyed
    <3>3. log[c][n].key.root = c
      BY <3>2 DEF KeyAt
    <3> QED BY <3>1, <3>3, ElementOfSeq
  <2>2. d = o
    BY <2>1
  <2>3. Len(log[d]) \in Nat
    BY LenProperties DEF IInv, Types
  <2>4. UnitsIncrease(log[d])
    BY <2>1 DEF LogOK
  <2>5. ~(i < j)
    BY <2>1, <2>2, <2>4, BeforeOrder DEF UnitsIncrease
  <2>6. ~(j < i)
    BY <2>1, <2>2, <2>4, BeforeOrder DEF UnitsIncrease
  <2> HIDE DEF IInv
  <2> QED BY <2>2, <2>3, <2>5, <2>6
<1> QED BY <1>1, Invariance, PTL

\* No key seals a unit at or above the rotation threshold.
THEOREM KeyUse == Spec => []KeyUseBounded
<1>1. IInv => KeyUseBounded
  BY DEF IInv, DirOK, EndsOK, LogOK, UnitsKeyed, KeyUseBounded, T
<1> QED BY <1>1, Invariance, PTL

\* A stream nobody disturbs never makes a decryption fail.
THEOREM CleanStream == Spec => []NoFalseReject
<1>1. IInv => NoFalseReject
  BY DEF IInv, DirOK, CleanOK, NoFalseReject
<1> QED BY <1>1, Invariance, PTL

\* What comes out is a prefix of what went in, whatever happens to the stream.
THEOREM PrefixDelivery == Spec => []DeliveredIsPrefix
<1>1. IInv => DeliveredIsPrefix
  BY DEF IInv, DirOK, EndsOK, ReadOK, DeliveredIsPrefix
<1> QED BY <1>1, Invariance, PTL

\* A receive call that lost a body never lets a later call deliver anything.
THEOREM BodyLoss == Spec => BodyLossIsFinal
<1>1. ASSUME IInv, [Next]_vars, NEW d \in Endpoint, BodyLost(d)
      PROVE  BodyLost(d)' /\ delivered'[d] = delivered[d]
  <2> DEFINE e == Other(d)
  <2>1. e \in Endpoint /\ e # d /\ Other(e) = d /\ \A c \in Endpoint : c = d \/ c = e
    BY OtherEnd
  <2>2. phase[e] = "header" /\ taken[d] = 2 * Len(delivered[d]) + 1
    BY <1>1 DEF BodyLost
  <2>3. Len(delivered[d]) \in Nat
    BY <1>1, LenProperties DEF IInv, Types
  <2>4. phase \in [Endpoint -> {"header", "body"}] /\ taken \in [Endpoint -> Nat]
        /\ delivered \in [Endpoint -> Seq(Message)]
    BY <1>1 DEF IInv, Types
  <2> SUFFICES phase'[e] = phase[e] /\ taken'[d] = taken[d] /\ delivered'[d] = delivered[d]
    BY <1>1, <2>1, <2>2 DEF BodyLost
  <2>5. CASE UNCHANGED <<phase, taken, delivered>>
    BY <2>5
  <2>6. ASSUME RecvHeader(d) PROVE UNCHANGED <<phase, taken, delivered>>
    <3>1. taken[d] # 2 * Len(delivered[d])
      BY <2>2, <2>3
    <3>2. UNCHANGED <<phase, taken>>
      BY <1>1, <2>6, <3>1, HeaderStep
    <3> QED BY <2>6, <3>2 DEF RecvHeader
  <2>7. ~RecvBody(d)
    BY <2>2 DEF RecvBody
  <2>8. ASSUME RecvHeader(e)
        PROVE  phase'[e] = phase[e] /\ taken'[d] = taken[d] /\ delivered'[d] = delivered[d]
    <3>1. /\ \/ phase' = [phase EXCEPT ![d] = "body"] /\ taken' = [taken EXCEPT ![e] = @ + 1]
             \/ UNCHANGED <<phase, taken>>
          /\ UNCHANGED delivered
      BY <2>1, <2>8 DEF RecvHeader
    <3> QED BY <2>1, <2>4, <3>1
  <2>9. ASSUME RecvBody(e)
        PROVE  phase'[e] = phase[e] /\ taken'[d] = taken[d] /\ delivered'[d] = delivered[d]
    <3>1. /\ phase' = [phase EXCEPT ![d] = "header"]
          /\ \/ \E m : /\ delivered' = [delivered EXCEPT ![e] = Append(@, m)]
                       /\ taken' = [taken EXCEPT ![e] = @ + 1]
             \/ UNCHANGED <<delivered, taken>>
      BY <2>1, <2>9 DEF RecvBody
    <3> QED BY <2>1, <2>4, <3>1
  <2>10. ASSUME NEW c \in Endpoint, Split(c) PROVE UNCHANGED <<phase, taken, delivered>>
    BY <2>10 DEF Split
  <2>11. ASSUME NEW c \in Endpoint, NEW m \in Message, Send(c, m)
         PROVE  UNCHANGED <<phase, taken, delivered>>
    BY <2>11 DEF Send
  <2>12. ASSUME NEW c \in Endpoint, Lose(c) \/ Corrupt(c) \/ Replay(c)
         PROVE  UNCHANGED <<phase, taken, delivered>>
    BY <2>12 DEF Lose, Corrupt, Replay, Disturb
  <2>13. ASSUME UNCHANGED vars PROVE UNCHANGED <<phase, taken, delivered>>
    BY <2>13 DEF vars
  <2> QED BY <1>1, <2>1, <2>5, <2>6, <2>7, <2>8, <2>9, <2>10, <2>11, <2>12, <2>13 DEF Next
<1>2. IInv /\ [Next]_vars =>
        [\A d \in Endpoint : BodyLost(d) => BodyLost(d)' /\ delivered'[d] = delivered[d]]_vars
  BY <1>1
<1> QED BY <1>2, Invariance, PTL DEF Spec, BodyLossIsFinal

\* The two ciphers and the stream between them implement the in-order channel.
THEOREM Refinement == Spec => ChannelSpec
<1>1. Init => Channel!Init
  BY DEF Init, Channel!Init
<1>2. IInv /\ [Next]_vars => [Channel!Next]_(Channel!vars)
  <2> SUFFICES ASSUME IInv, [Next]_vars PROVE [Channel!Next]_(Channel!vars)
    OBVIOUS
  <2> USE DEF Channel!Next, Channel!vars
  <2>1. ASSUME NEW e \in Endpoint, NEW m \in Message, Send(e, m) PROVE Channel!Accept(e)
    BY <2>1 DEF Send, Channel!Accept
  <2>2. ASSUME NEW d \in Endpoint, RecvBody(d) PROVE [Channel!Deliver(d)]_(Channel!vars)
    <3>1. sent' = sent
      BY <2>2 DEF RecvBody
    <3> QED BY <2>2, <3>1, BodyStep DEF Channel!Deliver
  <2>3. ASSUME NEW d \in Endpoint,
               Split(d) \/ RecvHeader(d) \/ Lose(d) \/ Corrupt(d) \/ Replay(d)
        PROVE  UNCHANGED Channel!vars
    BY <2>3 DEF Split, RecvHeader, Lose, Corrupt, Replay, Disturb
  <2>4. ASSUME UNCHANGED vars PROVE UNCHANGED Channel!vars
    BY <2>4 DEF vars
  <2> QED BY <2>1, <2>2, <2>3, <2>4 DEF Next
<1> QED BY <1>1, <1>2, Invariance, PTL DEF Spec, ChannelSpec, Channel!Spec
==============================================================================
