--------------------------- MODULE NoiseHandshake ----------------------------
(***************************************************************************)
(* The Noise_XK handshake of noise/src/handshake.rs: any number of         *)
(* NoiseHandshake values, of either role, and the messages between them.   *)
(*                                                                         *)
(* The daemon dials an address that need not belong to the key it names,   *)
(* and has many handshakes under way with one static key.  So every value  *)
(* may be given, in any order and any number of times, every message       *)
(* that any of them has produced, and altered ones.  Acts one and two have *)
(* the same 50 bytes and are not told apart by their type.                 *)
(*                                                                         *)
(* Cryptography is symbolic.  A key pair is its name; the shared secret of *)
(* two pairs is the set of their names; a chaining key is the sequence of  *)
(* secrets mixed into it; the handshake hash is the sequence of values     *)
(* mixed into it; a ciphertext is the record of what sealed it.            *)
(***************************************************************************)
EXTENDS Naturals, Sequences

CONSTANTS
  Initiators, Responders,  \* the handshake values
  StaticKey,               \* static key pairs
  Static,                  \* Static[o]: the static key pair of o
  Expected,                \* Expected[i]: the key that initiator i was told to reach
  Malformed,               \* 33 bytes that are not a public key
  None,                    \* Option::None of a public key; an empty plaintext
  MaxBadTags               \* bound: failed tags per value

Object == Initiators \cup Responders

\* Every value is made with a fresh ephemeral key: it is named after the value.
PubKey == StaticKey \cup Object

ASSUME RoleAssumption == Initiators \cap Responders = {} /\ StaticKey \cap Object = {}
ASSUME StaticAssumption ==
  Static \in [Object -> StaticKey] /\ Expected \in [Initiators -> StaticKey]
ASSUME TokenAssumption ==
  /\ Malformed \notin PubKey /\ None \notin PubKey /\ Malformed # None
  /\ MaxBadTags \in Nat

VARIABLES
  hs,        \* hs[o]: the fields of handshake o
  cipher,    \* cipher[o]: what into_cipher returned, or None
  fifty,     \* acts one and two produced so far
  sixtySix,  \* acts three produced so far
  \* History.
  panicked,  \* a call has hit an expect() on None
  badTags    \* badTags[o]: calls on o that failed after they had mixed something in

vars == <<hs, cipher, fifty, sixtySix, panicked, badTags>>

------------------------------------------------------------------------------
(* Primitives.                                                              *)

VERSION == 0

\* Option::None of a key, told apart from the two outputs of a derivation.
NoKey == [out |-> 0, chain |-> <<>>]

ecdh(secret, public) == {secret, public}

\* The two outputs of one derivation.
hkdf_two_keys(salt, ikm) ==
  LET chain == Append(salt.chain, ikm)
  IN  <<[out |-> 1, chain |-> chain], [out |-> 2, chain |-> chain]>>

mix_hash(h, data) == Append(h, data)

encrypt_with_ad(key, nonce, ad, plain) ==
  [key |-> key, nonce |-> nonce, ad |-> ad, plain |-> plain]

decrypt_with_ad(key, nonce, ad, c) == c.key = key /\ c.nonce = nonce /\ c.ad = ad

\* A ciphertext that nobody sealed: no derivation gives its key.
Garbage == encrypt_with_ad(NoKey, 0, <<>>, None)

------------------------------------------------------------------------------
(* The methods.  Each takes the value's name (for its secrets) and fields,  *)
(* and returns the new fields, how it returned and the message it made, as  *)
(* a set of at most one.                                                    *)

Returns(s, how, made) == [fields |-> s, outcome |-> how, made |-> made]
Refused(s, why) == Returns(s, why, {})

\* The protocol name and the prologue are the same for everybody.
initialize_state(responder_static) ==
  [ck |-> [out |-> 1, chain |-> <<>>], h |-> <<responder_static>>]

new_initiator(i) ==
  LET start == initialize_state(Expected[i])
  IN  [state |-> "InitiatorStart", ck |-> start.ck, h |-> start.h,
       remote_static |-> Expected[i], remote_ephemeral |-> None, temp_k2 |-> NoKey]

new_responder(r) ==
  LET start == initialize_state(Static[r])
  IN  [state |-> "ResponderStart", ck |-> start.ck, h |-> start.h,
       remote_static |-> None, remote_ephemeral |-> None, temp_k2 |-> NoKey]

get_act_one(o, s) ==
  IF s.state # "InitiatorStart" THEN Refused(s, "InvalidState")
  ELSE IF s.remote_static = None THEN Refused(s, "panic")
  ELSE
    LET h  == mix_hash(s.h, o)
        k  == hkdf_two_keys(s.ck, ecdh(o, s.remote_static))
        c  == encrypt_with_ad(k[2], 0, h, None)
    IN  Returns([s EXCEPT !.ck = k[1], !.h = mix_hash(h, c),
                          !.state = "InitiatorAwaitingActTwo"],
                "ok", {[version |-> VERSION, e |-> o, c |-> c]})

build_act_three(o, s) ==
  IF s.temp_k2 = NoKey \/ s.remote_ephemeral = None THEN Refused(s, "panic")
  ELSE
    LET c == encrypt_with_ad(s.temp_k2, 1, s.h, Static[o])
        h == mix_hash(s.h, c)
        k == hkdf_two_keys(s.ck, ecdh(Static[o], s.remote_ephemeral))
        t == encrypt_with_ad(k[2], 0, h, None)
    IN  Returns([s EXCEPT !.h = h, !.ck = k[1], !.state = "Complete"],
                "ok", {[version |-> VERSION, c |-> c, t |-> t]})

\* Fault: the tag of act two is not verified.
process_act_two_unverified(o, s, m) ==
  IF s.state # "InitiatorAwaitingActTwo" THEN Refused(s, "InvalidState")
  ELSE IF m.version # VERSION THEN Refused(s, "BadVersion")
  ELSE IF m.e = Malformed THEN Refused(s, "BadPubkey")
  ELSE
    LET h == mix_hash(s.h, m.e)
        k == hkdf_two_keys(s.ck, ecdh(o, m.e))
    IN  build_act_three(o, [s EXCEPT !.remote_ephemeral = m.e, !.ck = k[1],
                                     !.temp_k2 = k[2], !.h = mix_hash(h, m.c)])

\* Fault: nothing is mixed in before the tag has been verified, so that a caller
\* may try again.
process_act_two_retried(o, s, m) ==
  IF s.state # "InitiatorAwaitingActTwo" THEN Refused(s, "InvalidState")
  ELSE IF m.version # VERSION THEN Refused(s, "BadVersion")
  ELSE IF m.e = Malformed THEN Refused(s, "BadPubkey")
  ELSE
    LET h == mix_hash(s.h, m.e)
        k == hkdf_two_keys(s.ck, ecdh(o, m.e))
    IN  IF decrypt_with_ad(k[2], 0, h, m.c)
          THEN build_act_three(o, [s EXCEPT !.remote_ephemeral = m.e, !.ck = k[1],
                                            !.temp_k2 = k[2], !.h = mix_hash(h, m.c)])
          ELSE Refused(s, "BadTag")

process_act_two(o, s, m) ==
  IF s.state # "InitiatorAwaitingActTwo" THEN Refused(s, "InvalidState")
  ELSE IF m.version # VERSION THEN Refused(s, "BadVersion")
  ELSE IF m.e = Malformed THEN Refused(s, "BadPubkey")
  ELSE
    LET h     == mix_hash(s.h, m.e)
        k     == hkdf_two_keys(s.ck, ecdh(o, m.e))
        mixed == [s EXCEPT !.remote_ephemeral = m.e, !.h = h, !.ck = k[1],
                           !.temp_k2 = k[2]]
    IN  IF decrypt_with_ad(k[2], 0, h, m.c)
          THEN build_act_three(o, [mixed EXCEPT !.h = mix_hash(h, m.c)])
          ELSE Refused(mixed, "BadTag")

\* Fault: the key for act three is not kept.
build_act_two_forgetful(o, s) ==
  LET h == mix_hash(s.h, o)
      k == hkdf_two_keys(s.ck, ecdh(o, s.remote_ephemeral))
      c == encrypt_with_ad(k[2], 0, h, None)
  IN  Returns([s EXCEPT !.h = mix_hash(h, c), !.ck = k[1],
                        !.state = "ResponderAwaitingActThree"],
              "ok", {[version |-> VERSION, e |-> o, c |-> c]})

build_act_two(o, s) ==
  IF s.remote_ephemeral = None THEN Refused(s, "panic")
  ELSE
    LET h == mix_hash(s.h, o)
        k == hkdf_two_keys(s.ck, ecdh(o, s.remote_ephemeral))
        c == encrypt_with_ad(k[2], 0, h, None)
    IN  Returns([s EXCEPT !.h = mix_hash(h, c), !.ck = k[1], !.temp_k2 = k[2],
                          !.state = "ResponderAwaitingActThree"],
                "ok", {[version |-> VERSION, e |-> o, c |-> c]})

\* Fault: the version is looked at only after the key has been mixed in.
process_act_one_late_version(o, s, m) ==
  IF s.state # "ResponderStart" THEN Refused(s, "InvalidState")
  ELSE IF m.e = Malformed THEN Refused(s, "BadPubkey")
  ELSE
    LET h     == mix_hash(s.h, m.e)
        k     == hkdf_two_keys(s.ck, ecdh(Static[o], m.e))
        mixed == [s EXCEPT !.remote_ephemeral = m.e, !.h = h, !.ck = k[1]]
    IN  IF m.version # VERSION THEN Refused(mixed, "BadVersion")
        ELSE IF decrypt_with_ad(k[2], 0, h, m.c)
          THEN build_act_two(o, [mixed EXCEPT !.h = mix_hash(h, m.c)])
          ELSE Refused(mixed, "BadTag")

process_act_one(o, s, m) ==
  IF s.state # "ResponderStart" THEN Refused(s, "InvalidState")
  ELSE IF m.version # VERSION THEN Refused(s, "BadVersion")
  ELSE IF m.e = Malformed THEN Refused(s, "BadPubkey")
  ELSE
    LET h     == mix_hash(s.h, m.e)
        k     == hkdf_two_keys(s.ck, ecdh(Static[o], m.e))
        mixed == [s EXCEPT !.remote_ephemeral = m.e, !.h = h, !.ck = k[1]]
    IN  IF decrypt_with_ad(k[2], 0, h, m.c)
          THEN build_act_two(o, [mixed EXCEPT !.h = mix_hash(h, m.c)])
          ELSE Refused(mixed, "BadTag")

\* Fault: the errors of the two decryptions are dropped.
process_act_three_unverified(o, s, m) ==
  IF s.state # "ResponderAwaitingActThree" THEN Refused(s, "InvalidState")
  ELSE IF m.version # VERSION \/ m.c = Garbage THEN Refused(s, "BadVersion")
  ELSE
    Returns([s EXCEPT !.remote_static = m.c.plain, !.h = mix_hash(s.h, m.c),
                      !.ck = hkdf_two_keys(s.ck, ecdh(o, m.c.plain))[1],
                      !.state = "Complete"], "ok", {})

process_act_three(o, s, m) ==
  IF s.state # "ResponderAwaitingActThree" THEN Refused(s, "InvalidState")
  ELSE IF m.version # VERSION THEN Refused(s, "BadVersion")
  ELSE IF s.temp_k2 = NoKey THEN Refused(s, "panic")
  ELSE IF ~decrypt_with_ad(s.temp_k2, 1, s.h, m.c) THEN Refused(s, "BadCiphertext")
  ELSE IF m.c.plain = Malformed THEN Refused(s, "BadPubkey")
  ELSE
    LET rs    == m.c.plain
        h     == mix_hash(s.h, m.c)
        k     == hkdf_two_keys(s.ck, ecdh(o, rs))
        mixed == [s EXCEPT !.remote_static = rs, !.h = h, !.ck = k[1]]
    IN  IF decrypt_with_ad(k[2], 0, h, m.t)
          THEN Returns([mixed EXCEPT !.state = "Complete"], "ok", {})
          ELSE Refused(mixed, "BadTag")

\* Fault: the keys are not swapped for the responder.
get_final_keys_unswapped(o, s) == hkdf_two_keys(s.ck, {})

\* (send_key, recv_key) of a complete handshake.
get_final_keys(o, s) ==
  LET k == hkdf_two_keys(s.ck, {})
  IN  IF o \in Initiators THEN k ELSE <<k[2], k[1]>>

into_cipher(o, s) ==
  LET k == get_final_keys(o, s)
  IN  [send_key |-> k[1], recv_key |-> k[2], ck |-> s.ck]

------------------------------------------------------------------------------
(* Messages.                                                                *)

\* A 50-byte message as it was produced or with one of its parts altered.
Arriving50 ==
  fifty
  \cup {[m EXCEPT !.version = 1] : m \in fifty}
  \cup {[m EXCEPT !.e = x] : m \in fifty, x \in PubKey \cup {Malformed}}
  \cup {[m EXCEPT !.c = Garbage] : m \in fifty}

\* Likewise for act three; the two ciphertexts may come from different ones.
Arriving66 ==
  {[m EXCEPT !.t = n.t] : m \in sixtySix, n \in sixtySix}
  \cup {[m EXCEPT !.version = 1] : m \in sixtySix}
  \cup {[m EXCEPT !.c = Garbage] : m \in sixtySix}
  \cup {[m EXCEPT !.t = Garbage] : m \in sixtySix}

------------------------------------------------------------------------------
Init ==
  /\ hs = [o \in Object |-> IF o \in Initiators THEN new_initiator(o)
                                                ELSE new_responder(o)]
  /\ cipher = [o \in Object |-> None]
  /\ fifty = {} /\ sixtySix = {}
  /\ panicked = FALSE
  /\ badTags = [o \in Object |-> 0]

\* The caller applies a method to o, whose value it still owns.
Call(o, result) ==
  /\ cipher[o] = None
  /\ hs' = [hs EXCEPT ![o] = result.fields]
  /\ panicked' = (panicked \/ result.outcome = "panic")
  /\ badTags' = [badTags EXCEPT ![o] = IF result.outcome = "BadTag" THEN @ + 1 ELSE @]
  /\ badTags'[o] <= MaxBadTags
  /\ UNCHANGED cipher

Emit50(made) == fifty' = fifty \cup made /\ UNCHANGED sixtySix
Emit66(made) == sixtySix' = sixtySix \cup made /\ UNCHANGED fifty

GetActOne(o) ==
  LET result == get_act_one(o, hs[o])
  IN  Call(o, result) /\ Emit50(result.made)

ProcessActOne(o, m) ==
  LET result == process_act_one(o, hs[o], m)
  IN  Call(o, result) /\ Emit50(result.made)

ProcessActTwo(o, m) ==
  LET result == process_act_two(o, hs[o], m)
  IN  Call(o, result) /\ Emit66(result.made)

ProcessActThree(o, m) ==
  LET result == process_act_three(o, hs[o], m)
  IN  Call(o, result) /\ UNCHANGED <<fifty, sixtySix>>

\* into_cipher takes the value.  One that is not complete is dropped with an error,
\* which is the same as never being called again.
IntoCipher(o) ==
  /\ cipher[o] = None
  /\ hs[o].state = "Complete"
  /\ cipher' = [cipher EXCEPT ![o] = into_cipher(o, hs[o])]
  /\ UNCHANGED <<hs, fifty, sixtySix, panicked, badTags>>

Next ==
  \E o \in Object :
    \/ GetActOne(o)
    \/ \E m \in Arriving50 : ProcessActOne(o, m) \/ ProcessActTwo(o, m)
    \/ \E m \in Arriving66 : ProcessActThree(o, m)
    \/ IntoCipher(o)

Spec == Init /\ [][Next]_vars

------------------------------------------------------------------------------
(* Properties.                                                              *)

Complete(o) == hs[o].state = "Complete"
Partners(i, r) == hs[i].remote_ephemeral = r /\ hs[r].remote_ephemeral = i

\* handshake.rs: "All panics in this module are unreachable": whatever calls are
\* made in whatever order, no expect() ever meets a None.
PanicsUnreachable == ~panicked

\* An initiator only completes with the node it was told to reach: a responder
\* that holds the expected static key, took this very initiator's act one and
\* derived the same key from the two ephemeral keys.
ResponderIsExpected ==
  \A i \in Initiators : Complete(i) =>
    \E r \in Responders :
      /\ Partners(i, r)
      /\ Static[r] = Expected[i]
      /\ hs[r].temp_k2 = hs[i].temp_k2

\* A responder only completes with an initiator that meant to reach it and has
\* completed; it has learned that initiator's static key, and the two agree on
\* the transcript and the chaining key.
InitiatorIsKnown ==
  \A r \in Responders : Complete(r) =>
    \E i \in Initiators :
      /\ Complete(i) /\ Partners(i, r)
      /\ hs[r].remote_static = Static[i]
      /\ Expected[i] = Static[r]
      /\ hs[i].h = hs[r].h /\ hs[i].ck = hs[r].ck

\* The ciphers of the two ends fit (what one sends with the other receives with,
\* from the same chaining key), and no key is shared with anybody else.
CiphersMatch ==
  \A o, p \in {x \in Object : cipher[x] # None} :
    /\ cipher[o].send_key = cipher[p].send_key => o = p
    /\ cipher[o].send_key # cipher[o].recv_key
    /\ cipher[o].send_key = cipher[p].recv_key <=>
         hs[o].remote_ephemeral = p /\ hs[p].remote_ephemeral = o
    /\ cipher[o].send_key = cipher[p].recv_key =>
         cipher[p].send_key = cipher[o].recv_key /\ cipher[o].ck = cipher[p].ck

\* However many malformed, misdirected or altered messages a value has refused
\* without a failed tag, the genuine next act is accepted.
GenuineActAccepted ==
  \A i \in Initiators, r \in Responders :
    Expected[i] = Static[r] =>
      /\ badTags[r] = 0 /\ hs[r].state = "ResponderStart" =>
           \A m \in fifty : m.e = i => process_act_one(r, hs[r], m).outcome = "ok"
      /\ badTags[i] = 0 /\ hs[i].state = "InitiatorAwaitingActTwo"
         /\ hs[r].remote_ephemeral = i =>
           \A m \in fifty : m.e = r => process_act_two(i, hs[i], m).outcome = "ok"
      /\ badTags[r] = 0 /\ hs[r].state = "ResponderAwaitingActThree"
         /\ Complete(i) /\ Partners(i, r) =>
           \E m \in sixtySix : process_act_three(r, hs[r], m).outcome = "ok"

\* A failed tag is final: the value has mixed in what the other end has not, so
\* no later call brings it any further.
BadTagIsFinal ==
  [][\A o \in Object :
       badTags[o] > 0 => badTags'[o] > 0 /\ hs'[o].state = hs[o].state]_vars
==============================================================================
