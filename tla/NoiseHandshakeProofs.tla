------------------------ MODULE NoiseHandshakeProofs -------------------------
(***************************************************************************)
(* Proofs about NoiseHandshake: no expect() is reached with a None, an     *)
(* initiator completes only with the node it meant to reach, a responder   *)
(* only with an initiator that completed with it, their ciphers fit and    *)
(* fit nobody else's, a genuine act is accepted and a failed tag is final; *)
(* for any number of handshakes, keys and failed tags.                     *)
(*                                                                         *)
(* The argument: as long as a value has no failed tag, its fields are one  *)
(* of a few explicit terms in its own name and its partner's.  So is every *)
(* ciphertext, for a value with a failed tag never seals anything: the     *)
(* chaining key it would open with has absorbed too many secrets.          *)
(***************************************************************************)
EXTENDS NoiseHandshake, SequenceTheorems, TLAPS

------------------------------------------------------------------------------
(* The terms of a run between initiator i and responder r.                  *)

Key(out, chain) == [out |-> out, chain |-> chain]

\* The chaining key after es, ee and se.
Chain1(i) == <<ecdh(i, Expected[i])>>
Chain2(i, r) == <<ecdh(i, Expected[i]), ecdh(i, r)>>
Chain3(i, r) == <<ecdh(i, Expected[i]), ecdh(i, r), ecdh(Static[i], r)>>

\* The ciphertexts of the three acts, and the transcripts before and after them.
Bound1(i) == <<Expected[i], i>>
Seal1(i) == encrypt_with_ad(Key(2, Chain1(i)), 0, Bound1(i), None)
Hash1(i) == <<Expected[i], i, Seal1(i)>>
Bound2(i, r) == <<Expected[i], i, Seal1(i), r>>
Seal2(i, r) == encrypt_with_ad(Key(2, Chain2(i, r)), 0, Bound2(i, r), None)
Hash2(i, r) == <<Expected[i], i, Seal1(i), r, Seal2(i, r)>>
Seal3(i, r) == encrypt_with_ad(Key(2, Chain2(i, r)), 1, Hash2(i, r), Static[i])
Hash3(i, r) == <<Expected[i], i, Seal1(i), r, Seal2(i, r), Seal3(i, r)>>
Tag3(i, r) == encrypt_with_ad(Key(2, Chain3(i, r)), 0, Hash3(i, r), None)

Act1(i) == [version |-> VERSION, e |-> i, c |-> Seal1(i)]
Act2(i, r) == [version |-> VERSION, e |-> r, c |-> Seal2(i, r)]
Act3(i, r) == [version |-> VERSION, c |-> Seal3(i, r), t |-> Tag3(i, r)]

Fields(state, ck, h, rs, re, k2) ==
  [state |-> state, ck |-> ck, h |-> h, remote_static |-> rs, remote_ephemeral |-> re,
   temp_k2 |-> k2]

------------------------------------------------------------------------------
(* The inductive invariant.                                                 *)

IsSeq(s) == s \in Seq({s[n] : n \in DOMAIN s})

\* Fields of a handshake, with a chaining key.
Proper(s) ==
  /\ s = Fields(s.state, s.ck, s.h, s.remote_static, s.remote_ephemeral, s.temp_k2)
  /\ s.ck = Key(s.ck.out, s.ck.chain)

\* What remains known of a value that has seen a failed tag in an early state.
Spoiled(s) == Proper(s) /\ IsSeq(s.ck.chain) /\ IsSeq(s.h)

\* Initiator i before it has completed.
InitiatorEarly(i) ==
  \/ /\ badTags[i] = 0
     /\ hs[i] = new_initiator(i)
  \/ /\ badTags[i] = 0
     /\ hs[i] = Fields("InitiatorAwaitingActTwo", Key(1, Chain1(i)), Hash1(i),
                       Expected[i], None, NoKey)
  \/ /\ badTags[i] > 0
     /\ hs[i].state = "InitiatorAwaitingActTwo"
     /\ Spoiled(hs[i]) /\ Len(hs[i].ck.chain) >= 2

\* Initiator i has completed with r.
InitiatorDone(i, r) ==
  /\ badTags[i] = 0
  /\ hs[i] = Fields("Complete", Key(1, Chain3(i, r)), Hash3(i, r), Expected[i], r,
                    Key(2, Chain2(i, r)))
  /\ Act3(i, r) \in sixtySix

\* Responder r before it has accepted an act one.
ResponderEarly(r) ==
  \/ /\ badTags[r] = 0
     /\ hs[r] = new_responder(r)
  \/ /\ badTags[r] > 0
     /\ hs[r].state = "ResponderStart"
     /\ Spoiled(hs[r]) /\ Len(hs[r].ck.chain) >= 1
     /\ Len(hs[r].h) = Len(hs[r].ck.chain) + 1

\* Responder r has accepted the act one of i.
ResponderMet(i, r) ==
  /\ Expected[i] = Static[r] /\ hs[i].state # "InitiatorStart"
  /\ \/ /\ badTags[r] = 0
        /\ hs[r] = Fields("ResponderAwaitingActThree", Key(1, Chain2(i, r)), Hash2(i, r),
                          None, i, Key(2, Chain2(i, r)))
     \/ /\ badTags[r] > 0
        /\ hs[r] = Fields("ResponderAwaitingActThree", Key(1, Chain3(i, r)), Hash3(i, r),
                          Static[i], i, Key(2, Chain2(i, r)))
     \/ /\ badTags[r] = 0
        /\ hs[r] = Fields("Complete", Key(1, Chain3(i, r)), Hash3(i, r), Static[i], i,
                          Key(2, Chain2(i, r)))
        /\ InitiatorDone(i, r)

InitiatorInv ==
  \A i \in Initiators :
    \/ InitiatorEarly(i)
    \/ \E r \in Responders : InitiatorDone(i, r) /\ ResponderMet(i, r)

ResponderInv ==
  \A r \in Responders :
    \/ ResponderEarly(r)
    \/ \E i \in Initiators : ResponderMet(i, r)

\* Only the three acts of the two ends are ever under way.
FiftyInv ==
  \A m \in fifty :
    \/ \E i \in Initiators : m = Act1(i) /\ hs[i].state # "InitiatorStart"
    \/ \E i \in Initiators, r \in Responders : m = Act2(i, r) /\ ResponderMet(i, r)

SixtySixInv ==
  \A m \in sixtySix :
    \E i \in Initiators, r \in Responders :
      m = Act3(i, r) /\ InitiatorDone(i, r) /\ ResponderMet(i, r)

CipherInv ==
  \A o \in Object :
    cipher[o] # None => hs[o].state = "Complete" /\ cipher[o] = into_cipher(o, hs[o])

ShapeInv ==
  /\ hs = [o \in Object |-> hs[o]] /\ cipher = [o \in Object |-> cipher[o]]
  /\ badTags \in [Object -> Nat]

Inv ==
  /\ ShapeInv /\ InitiatorInv /\ ResponderInv /\ FiftyInv /\ SixtySixInv /\ CipherInv
  /\ ~panicked

------------------------------------------------------------------------------
(* Sequences of mixed terms.                                                *)

\* What Append returns, told by its length and its elements.
LEMMA AppendIs ==
  ASSUME NEW S, NEW s \in Seq(S), NEW u \in Seq(S), NEW x \in S, Len(u) = Len(s) + 1,
         \A n \in 1..Len(s) : u[n] = s[n], u[Len(s) + 1] = x
  PROVE  Append(s, x) = u
  OBVIOUS

\* Appending to an explicit transcript or chain gives the longer explicit one: to a
\* term of one element.
LEMMA AppendTerm1 ==
  ASSUME NEW a, NEW b
  PROVE  Append(<<a>>, b) = <<a, b>>
  <1> DEFINE S == {a, b}  s == <<a>>  u == <<a, b>>
  <1>1. s \in Seq(S) /\ u \in Seq(S) /\ b \in S /\ Len(u) = Len(s) + 1
    OBVIOUS
  <1>2. (\A n \in 1..Len(s) : u[n] = s[n]) /\ u[Len(s) + 1] = b
    OBVIOUS
  <1> HIDE DEF S, s, u
  <1>3. Append(s, b) = u
    BY <1>1, <1>2, AppendIs
  <1>4. QED
    BY <1>3 DEF s, u

\* To a term of two.
LEMMA AppendTerm2 ==
  ASSUME NEW a, NEW b, NEW c
  PROVE  Append(<<a, b>>, c) = <<a, b, c>>
  <1> DEFINE S == {a, b, c}  s == <<a, b>>  u == <<a, b, c>>
  <1>1. s \in Seq(S) /\ u \in Seq(S) /\ c \in S /\ Len(u) = Len(s) + 1
    OBVIOUS
  <1>2. (\A n \in 1..Len(s) : u[n] = s[n]) /\ u[Len(s) + 1] = c
    OBVIOUS
  <1> HIDE DEF S, s, u
  <1>3. Append(s, c) = u
    BY <1>1, <1>2, AppendIs
  <1>4. QED
    BY <1>3 DEF s, u

\* To a term of three.
LEMMA AppendTerm3 ==
  ASSUME NEW a, NEW b, NEW c, NEW d
  PROVE  Append(<<a, b, c>>, d) = <<a, b, c, d>>
  <1> DEFINE S == {a, b, c, d}  s == <<a, b, c>>  u == <<a, b, c, d>>
  <1>1. s \in Seq(S) /\ u \in Seq(S) /\ d \in S /\ Len(u) = Len(s) + 1
    OBVIOUS
  <1>2. (\A n \in 1..Len(s) : u[n] = s[n]) /\ u[Len(s) + 1] = d
    OBVIOUS
  <1> HIDE DEF S, s, u
  <1>3. Append(s, d) = u
    BY <1>1, <1>2, AppendIs
  <1>4. QED
    BY <1>3 DEF s, u

\* To a term of four.
LEMMA AppendTerm4 ==
  ASSUME NEW a, NEW b, NEW c, NEW d, NEW e
  PROVE  Append(<<a, b, c, d>>, e) = <<a, b, c, d, e>>
  <1> DEFINE S == {a, b, c, d, e}  s == <<a, b, c, d>>  u == <<a, b, c, d, e>>
  <1>1. s \in Seq(S) /\ u \in Seq(S) /\ e \in S /\ Len(u) = Len(s) + 1
    OBVIOUS
  <1>2. (\A n \in 1..Len(s) : u[n] = s[n]) /\ u[Len(s) + 1] = e
    OBVIOUS
  <1> HIDE DEF S, s, u
  <1>3. Append(s, e) = u
    BY <1>1, <1>2, AppendIs
  <1>4. QED
    BY <1>3 DEF s, u

\* To a term of five.
LEMMA AppendTerm5 ==
  ASSUME NEW a, NEW b, NEW c, NEW d, NEW e, NEW f
  PROVE  Append(<<a, b, c, d, e>>, f) = <<a, b, c, d, e, f>>
  <1> DEFINE S == {a, b, c, d, e, f}  s == <<a, b, c, d, e>>  u == <<a, b, c, d, e, f>>
  <1>1. s \in Seq(S) /\ u \in Seq(S) /\ f \in S /\ Len(u) = Len(s) + 1
    OBVIOUS
  <1>2. (\A n \in 1..Len(s) : u[n] = s[n]) /\ u[Len(s) + 1] = f
    OBVIOUS
  <1> HIDE DEF S, s, u
  <1>3. Append(s, f) = u
    BY <1>1, <1>2, AppendIs
  <1>4. QED
    BY <1>3 DEF s, u

\* The same, as one fact.
LEMMA AppendTerm ==
  /\ \A a : Append(<<>>, a) = <<a>>
  /\ \A a, b : Append(<<a>>, b) = <<a, b>>
  /\ \A a, b, c : Append(<<a, b>>, c) = <<a, b, c>>
  /\ \A a, b, c, d : Append(<<a, b, c>>, d) = <<a, b, c, d>>
  /\ \A a, b, c, d, e : Append(<<a, b, c, d>>, e) = <<a, b, c, d, e>>
  /\ \A a, b, c, d, e, f : Append(<<a, b, c, d, e>>, f) = <<a, b, c, d, e, f>>
  <1>1. \A a : Append(<<>>, a) = <<a>>
    OBVIOUS
  <1>2. QED
    BY <1>1, AppendTerm1, AppendTerm2, AppendTerm3, AppendTerm4, AppendTerm5, Zenon

\* Explicit terms are sequences of the length they show.
LEMMA TermIsSeq ==
  /\ IsSeq(<<>>) /\ Len(<<>>) = 0
  /\ \A a : IsSeq(<<a>>) /\ Len(<<a>>) = 1
  /\ \A a, b : IsSeq(<<a, b>>) /\ Len(<<a, b>>) = 2
  /\ \A a, b, c : IsSeq(<<a, b, c>>) /\ Len(<<a, b, c>>) = 3
  /\ \A a, b, c, d : IsSeq(<<a, b, c, d>>) /\ Len(<<a, b, c, d>>) = 4
  BY DEF IsSeq

\* Appending to any sequence gives a sequence that is longer by one.
LEMMA AppendIsSeq ==
  ASSUME NEW s, NEW x, IsSeq(s)
  PROVE  IsSeq(Append(s, x)) /\ Len(Append(s, x)) = Len(s) + 1 /\ Len(s) \in Nat
  <1> DEFINE S == {s[n] : n \in DOMAIN s} \cup {x}
             t == Append(s, x)
  <1>1. s \in Seq(S) /\ x \in S
    <2>1. {s[n] : n \in DOMAIN s} \subseteq S
      OBVIOUS
    <2>2. s \in Seq({s[n] : n \in DOMAIN s})
      BY DEF IsSeq
    <2> HIDE DEF S
    <2>3. s \in Seq(S)
      BY <2>1, <2>2, SeqMonotonic
    <2>4. QED
      BY <2>3 DEF S
  <1> HIDE DEF S
  <1>2. t \in Seq(S) /\ Len(t) = Len(s) + 1 /\ Len(s) \in Nat
    BY <1>1
  <1>3. DOMAIN t = 1..Len(t) /\ Len(t) \in Nat
    BY <1>2
  <1> HIDE DEF t
  <1>4. t \in [1..Len(t) -> {t[n] : n \in DOMAIN t}]
    BY <1>2, <1>3
  <1>5. IsSeq(t)
    BY <1>2, <1>3, <1>4, SeqDef, SMTT(30) DEF IsSeq
  <1>6. QED
    BY <1>2, <1>5 DEF t

------------------------------------------------------------------------------
(* What the methods do to explicit fields.                                  *)

\* A derivation extends the chain.
LEMMA Derive ==
  ASSUME NEW ck, NEW out, NEW chain, NEW x, ck = Key(out, chain)
  PROVE  /\ hkdf_two_keys(ck, x)[1] = Key(1, Append(chain, x))
         /\ hkdf_two_keys(ck, x)[2] = Key(2, Append(chain, x))
  BY DEF hkdf_two_keys, Key

\* The shared secret is the same from both ends.
LEMMA EcdhCommutes ==
  ASSUME NEW x, NEW y
  PROVE  ecdh(x, y) = ecdh(y, x)
  BY DEF ecdh

\* Every term is the one before it, extended.
LEMMA Extend ==
  ASSUME NEW i, NEW r
  PROVE  /\ Append(<<>>, ecdh(i, Expected[i])) = Chain1(i)
         /\ Append(Chain1(i), ecdh(i, r)) = Chain2(i, r)
         /\ Append(Chain2(i, r), ecdh(Static[i], r)) = Chain3(i, r)
         /\ Append(<<Expected[i]>>, i) = Bound1(i)
         /\ Append(Bound1(i), Seal1(i)) = Hash1(i)
         /\ Append(Hash1(i), r) = Bound2(i, r)
         /\ Append(Bound2(i, r), Seal2(i, r)) = Hash2(i, r)
         /\ Append(Hash2(i, r), Seal3(i, r)) = Hash3(i, r)
  <1>1. Append(<<>>, ecdh(i, Expected[i])) = Chain1(i)
    BY AppendTerm, Zenon DEF Chain1
  <1>2. Append(Chain1(i), ecdh(i, r)) = Chain2(i, r)
    BY AppendTerm, Zenon DEF Chain1, Chain2
  <1>3. Append(Chain2(i, r), ecdh(Static[i], r)) = Chain3(i, r)
    BY AppendTerm, Zenon DEF Chain2, Chain3
  <1>4. Append(<<Expected[i]>>, i) = Bound1(i)
    BY AppendTerm, Zenon DEF Bound1
  <1>5. Append(Bound1(i), Seal1(i)) = Hash1(i)
    BY AppendTerm, Zenon DEF Bound1, Hash1
  <1>6. Append(Hash1(i), r) = Bound2(i, r)
    BY AppendTerm3, Zenon DEF Hash1, Bound2
  <1>7. Append(Bound2(i, r), Seal2(i, r)) = Hash2(i, r)
    BY AppendTerm4, Zenon DEF Bound2, Hash2
  <1>8. Append(Hash2(i, r), Seal3(i, r)) = Hash3(i, r)
    BY AppendTerm5, Zenon DEF Hash2, Hash3
  <1>9. QED
    BY <1>1, <1>2, <1>3, <1>4, <1>5, <1>6, <1>7, <1>8

\* The update that get_act_one makes.
Update1(s, x, y, z) ==
  [s EXCEPT !.ck = x, !.h = y, !.state = z]

\* It sets these fields and no others.
LEMMA Update1Fields ==
  ASSUME NEW st, NEW ck, NEW h, NEW rs, NEW re, NEW k2, NEW x, NEW y, NEW z, NEW s,
         s = Fields(st, ck, h, rs, re, k2)
  PROVE  Update1(s, x, y, z) = Fields(z, x, y, rs, re, k2)
  <1> DEFINE t1 == [s EXCEPT !.ck = x]
             t2 == [t1 EXCEPT !.h = y]
             t3 == [t2 EXCEPT !.state = z]
  <1>1. t1 = Fields(st, x, h, rs, re, k2)
    BY DEF Fields
  <1> HIDE DEF t1
  <1>2. t2 = Fields(st, x, y, rs, re, k2)
    BY <1>1 DEF Fields
  <1> HIDE DEF t2
  <1>3. t3 = Fields(z, x, y, rs, re, k2)
    BY <1>2 DEF Fields
  <1>4. QED
    BY <1>3, Zenon DEF Update1, t1, t2, t3

\* The update that process_act_two makes.
Update2(s, x, y, z, w) ==
  [s EXCEPT !.remote_ephemeral = x, !.h = y, !.ck = z, !.temp_k2 = w]

\* It sets these fields and no others.
LEMMA Update2Fields ==
  ASSUME NEW st, NEW ck, NEW h, NEW rs, NEW re, NEW k2, NEW x, NEW y, NEW z, NEW w, NEW s,
         s = Fields(st, ck, h, rs, re, k2)
  PROVE  Update2(s, x, y, z, w) = Fields(st, z, y, rs, x, w)
  <1> DEFINE t1 == [s EXCEPT !.remote_ephemeral = x]
             t2 == [t1 EXCEPT !.h = y]
             t3 == [t2 EXCEPT !.ck = z]
             t4 == [t3 EXCEPT !.temp_k2 = w]
  <1>1. t1 = Fields(st, ck, h, rs, x, k2)
    BY DEF Fields
  <1> HIDE DEF t1
  <1>2. t2 = Fields(st, ck, y, rs, x, k2)
    BY <1>1 DEF Fields
  <1> HIDE DEF t2
  <1>3. t3 = Fields(st, z, y, rs, x, k2)
    BY <1>2 DEF Fields
  <1> HIDE DEF t3
  <1>4. t4 = Fields(st, z, y, rs, x, w)
    BY <1>3 DEF Fields
  <1>5. QED
    BY <1>4, Zenon DEF Update2, t1, t2, t3, t4

\* The update that build_act_three makes.
Update3(s, x, y, z) ==
  [s EXCEPT !.h = x, !.ck = y, !.state = z]

\* It sets these fields and no others.
LEMMA Update3Fields ==
  ASSUME NEW st, NEW ck, NEW h, NEW rs, NEW re, NEW k2, NEW x, NEW y, NEW z, NEW s,
         s = Fields(st, ck, h, rs, re, k2)
  PROVE  Update3(s, x, y, z) = Fields(z, y, x, rs, re, k2)
  <1> DEFINE t1 == [s EXCEPT !.h = x]
             t2 == [t1 EXCEPT !.ck = y]
             t3 == [t2 EXCEPT !.state = z]
  <1>1. t1 = Fields(st, ck, x, rs, re, k2)
    BY DEF Fields
  <1> HIDE DEF t1
  <1>2. t2 = Fields(st, y, x, rs, re, k2)
    BY <1>1 DEF Fields
  <1> HIDE DEF t2
  <1>3. t3 = Fields(z, y, x, rs, re, k2)
    BY <1>2 DEF Fields
  <1>4. QED
    BY <1>3, Zenon DEF Update3, t1, t2, t3

\* The update that process_act_one makes.
Update4(s, x, y, z) ==
  [s EXCEPT !.remote_ephemeral = x, !.h = y, !.ck = z]

\* It sets these fields and no others.
LEMMA Update4Fields ==
  ASSUME NEW st, NEW ck, NEW h, NEW rs, NEW re, NEW k2, NEW x, NEW y, NEW z, NEW s,
         s = Fields(st, ck, h, rs, re, k2)
  PROVE  Update4(s, x, y, z) = Fields(st, z, y, rs, x, k2)
  <1> DEFINE t1 == [s EXCEPT !.remote_ephemeral = x]
             t2 == [t1 EXCEPT !.h = y]
             t3 == [t2 EXCEPT !.ck = z]
  <1>1. t1 = Fields(st, ck, h, rs, x, k2)
    BY DEF Fields
  <1> HIDE DEF t1
  <1>2. t2 = Fields(st, ck, y, rs, x, k2)
    BY <1>1 DEF Fields
  <1> HIDE DEF t2
  <1>3. t3 = Fields(st, z, y, rs, x, k2)
    BY <1>2 DEF Fields
  <1>4. QED
    BY <1>3, Zenon DEF Update4, t1, t2, t3

\* The update that build_act_two makes.
Update5(s, x, y, z, w) ==
  [s EXCEPT !.h = x, !.ck = y, !.temp_k2 = z, !.state = w]

\* It sets these fields and no others.
LEMMA Update5Fields ==
  ASSUME NEW st, NEW ck, NEW h, NEW rs, NEW re, NEW k2, NEW x, NEW y, NEW z, NEW w, NEW s,
         s = Fields(st, ck, h, rs, re, k2)
  PROVE  Update5(s, x, y, z, w) = Fields(w, y, x, rs, re, z)
  <1> DEFINE t1 == [s EXCEPT !.h = x]
             t2 == [t1 EXCEPT !.ck = y]
             t3 == [t2 EXCEPT !.temp_k2 = z]
             t4 == [t3 EXCEPT !.state = w]
  <1>1. t1 = Fields(st, ck, x, rs, re, k2)
    BY DEF Fields
  <1> HIDE DEF t1
  <1>2. t2 = Fields(st, y, x, rs, re, k2)
    BY <1>1 DEF Fields
  <1> HIDE DEF t2
  <1>3. t3 = Fields(st, y, x, rs, re, z)
    BY <1>2 DEF Fields
  <1> HIDE DEF t3
  <1>4. t4 = Fields(w, y, x, rs, re, z)
    BY <1>3 DEF Fields
  <1>5. QED
    BY <1>4, Zenon DEF Update5, t1, t2, t3, t4

\* The update that process_act_three makes.
Update6(s, x, y, z) ==
  [s EXCEPT !.remote_static = x, !.h = y, !.ck = z]

\* It sets these fields and no others.
LEMMA Update6Fields ==
  ASSUME NEW st, NEW ck, NEW h, NEW rs, NEW re, NEW k2, NEW x, NEW y, NEW z, NEW s,
         s = Fields(st, ck, h, rs, re, k2)
  PROVE  Update6(s, x, y, z) = Fields(st, z, y, x, re, k2)
  <1> DEFINE t1 == [s EXCEPT !.remote_static = x]
             t2 == [t1 EXCEPT !.h = y]
             t3 == [t2 EXCEPT !.ck = z]
  <1>1. t1 = Fields(st, ck, h, x, re, k2)
    BY DEF Fields
  <1> HIDE DEF t1
  <1>2. t2 = Fields(st, ck, y, x, re, k2)
    BY <1>1 DEF Fields
  <1> HIDE DEF t2
  <1>3. t3 = Fields(st, z, y, x, re, k2)
    BY <1>2 DEF Fields
  <1>4. QED
    BY <1>3, Zenon DEF Update6, t1, t2, t3

\* The update that mixes an accepted ciphertext into the transcript.
Update7(s, x) ==
  [s EXCEPT !.h = x]

\* It sets this field and no others.
LEMMA Update7Fields ==
  ASSUME NEW st, NEW ck, NEW h, NEW rs, NEW re, NEW k2, NEW x, NEW s,
         s = Fields(st, ck, h, rs, re, k2)
  PROVE  Update7(s, x) = Fields(st, ck, x, rs, re, k2)
  BY DEF Fields, Update7

\* The update that completes a responder.
Update8(s, x) ==
  [s EXCEPT !.state = x]

\* It sets this field and no others.
LEMMA Update8Fields ==
  ASSUME NEW st, NEW ck, NEW h, NEW rs, NEW re, NEW k2, NEW x, NEW s,
         s = Fields(st, ck, h, rs, re, k2)
  PROVE  Update8(s, x) = Fields(x, ck, h, rs, re, k2)
  BY DEF Fields, Update8

\* get_act_one on a new initiator.
LEMMA ActOneMade ==
  ASSUME NEW i \in Initiators
  PROVE  get_act_one(i, new_initiator(i)) =
           Returns(Fields("InitiatorAwaitingActTwo", Key(1, Chain1(i)), Hash1(i),
                          Expected[i], None, NoKey), "ok", {Act1(i)})
  <1> DEFINE s == new_initiator(i)
             k == hkdf_two_keys(s.ck, ecdh(i, s.remote_static))
             h == mix_hash(s.h, i)
             c == encrypt_with_ad(k[2], 0, h, None)
  <1>1. s = Fields("InitiatorStart", Key(1, <<>>), <<Expected[i]>>, Expected[i], None, NoKey)
    BY DEF new_initiator, initialize_state, Fields, Key
  <1>2. Expected[i] # None
    BY StaticAssumption, TokenAssumption DEF PubKey
  <1>3. s.state = "InitiatorStart" /\ s.remote_static = Expected[i] /\ s.h = <<Expected[i]>>
        /\ s.ck = Key(1, <<>>)
    BY <1>1 DEF Fields
  <1> HIDE DEF s
  <1>4. k[1] = Key(1, Chain1(i)) /\ k[2] = Key(2, Chain1(i))
    <2> DEFINE nil == <<>>
    <2>1. s.ck = Key(1, nil)
      BY <1>3
    <2>2. Append(nil, ecdh(i, s.remote_static)) = Chain1(i)
      BY <1>3, Extend
    <2> HIDE DEF nil
    <2>3. /\ k[1] = Key(1, Append(nil, ecdh(i, s.remote_static)))
          /\ k[2] = Key(2, Append(nil, ecdh(i, s.remote_static)))
      BY <2>1, Derive
    <2>4. QED
      BY <2>2, <2>3
  <1>5. h = Bound1(i)
    BY <1>3, Extend DEF mix_hash
  <1>6. c = Seal1(i)
    BY <1>4, <1>5 DEF Seal1
  <1>7. mix_hash(h, c) = Hash1(i)
    BY <1>5, <1>6, Extend DEF mix_hash
  <1>8. get_act_one(i, s) =
          Returns([s EXCEPT !.ck = k[1], !.h = mix_hash(h, c),
                            !.state = "InitiatorAwaitingActTwo"],
                  "ok", {[version |-> VERSION, e |-> i, c |-> c]})
    BY <1>2, <1>3 DEF get_act_one
  <1> HIDE DEF k, h, c
  <1>9. get_act_one(i, s) =
          Returns(Update1(s, k[1], mix_hash(h, c), "InitiatorAwaitingActTwo"), "ok",
                  {[version |-> VERSION, e |-> i, c |-> c]})
    BY <1>8, Zenon DEF Update1
  <1>10. Update1(s, k[1], mix_hash(h, c), "InitiatorAwaitingActTwo")
          = Fields("InitiatorAwaitingActTwo", Key(1, Chain1(i)), Hash1(i), Expected[i],
                   None, NoKey)
    BY <1>1, <1>4, <1>7, Update1Fields
  <1>11. QED
    BY <1>6, <1>9, <1>10 DEF s, Act1

\* What process_act_one returns once it has derived the given chain and transcript.
AfterActOne(o, s, m, chain1, h1) ==
  IF decrypt_with_ad(Key(2, chain1), 0, h1, m.c)
    THEN build_act_two(o, Fields("ResponderStart", Key(1, chain1), Append(h1, m.c),
                                 s.remote_static, m.e, s.temp_k2))
    ELSE Refused(Fields("ResponderStart", Key(1, chain1), h1, s.remote_static, m.e,
                        s.temp_k2), "BadTag")

\* process_act_one in ResponderStart, whatever has been mixed in before.
LEMMA ActOneTaken ==
  ASSUME NEW o, NEW m, NEW s, Proper(s), s.state = "ResponderStart",
         m.version = VERSION, m.e # Malformed,
         NEW chain1, chain1 = Append(s.ck.chain, ecdh(Static[o], m.e)),
         NEW h1, h1 = Append(s.h, m.e)
  PROVE  process_act_one(o, s, m) = AfterActOne(o, s, m, chain1, h1)
  <1> DEFINE k == hkdf_two_keys(s.ck, ecdh(Static[o], m.e))
             hh == mix_hash(s.h, m.e)
             mixed == [s EXCEPT !.remote_ephemeral = m.e, !.h = hh, !.ck = k[1]]
             accepted == [mixed EXCEPT !.h = mix_hash(hh, m.c)]
  <1>1. /\ s = Fields("ResponderStart", s.ck, s.h, s.remote_static, s.remote_ephemeral,
                      s.temp_k2)
        /\ s.ck = Key(s.ck.out, s.ck.chain)
    BY DEF Proper
  <1>2. process_act_one(o, s, m) =
          IF decrypt_with_ad(k[2], 0, hh, m.c)
            THEN build_act_two(o, accepted) ELSE Refused(mixed, "BadTag")
    BY <1>1 DEF process_act_one
  <1>3. k[1] = Key(1, chain1) /\ k[2] = Key(2, chain1)
    BY <1>1, Derive
  <1>4. hh = h1 /\ mix_hash(hh, m.c) = Append(h1, m.c)
    BY <1>1 DEF mix_hash
  <1> HIDE DEF k, hh
  <1>5. mixed = Update4(s, m.e, hh, k[1])
    BY Zenon DEF Update4
  <1>6. mixed = Fields("ResponderStart", Key(1, chain1), h1, s.remote_static, m.e,
          s.temp_k2)
    BY <1>1, <1>3, <1>4, <1>5, Update4Fields
  <1> HIDE DEF mixed
  <1>7. accepted = Update7(mixed, mix_hash(hh, m.c))
    BY Zenon DEF Update7
  <1>8. accepted = Fields("ResponderStart", Key(1, chain1), Append(h1, m.c), s.remote_static, m.e,
          s.temp_k2)
    BY <1>4, <1>6, <1>7, Update7Fields
  <1> HIDE DEF accepted
  <1>9. QED
    BY <1>2, <1>3, <1>4, <1>6, <1>8 DEF AfterActOne

\* build_act_two on what a fresh responder r has after the act one of i.
LEMMA ActTwoMade ==
  ASSUME NEW i \in Initiators, NEW r \in Responders, NEW s,
         s = Fields("ResponderStart", Key(1, Chain1(i)), Hash1(i), None, i, NoKey)
  PROVE  build_act_two(r, s) =
           Returns(Fields("ResponderAwaitingActThree", Key(1, Chain2(i, r)), Hash2(i, r),
                          None, i, Key(2, Chain2(i, r))), "ok", {Act2(i, r)})
  <1> DEFINE h == mix_hash(s.h, r)
             k == hkdf_two_keys(s.ck, ecdh(r, s.remote_ephemeral))
             c == encrypt_with_ad(k[2], 0, h, None)
  <1>1. s.remote_ephemeral = i /\ s.ck = Key(1, Chain1(i)) /\ s.h = Hash1(i)
    BY DEF Fields
  <1>2. i # None
    BY TokenAssumption DEF PubKey, Object
  <1>3. build_act_two(r, s) =
          Returns([s EXCEPT !.h = mix_hash(h, c), !.ck = k[1], !.temp_k2 = k[2],
                            !.state = "ResponderAwaitingActThree"],
                  "ok", {[version |-> VERSION, e |-> r, c |-> c]})
    BY <1>1, <1>2 DEF build_act_two
  <1>4. k[1] = Key(1, Chain2(i, r)) /\ k[2] = Key(2, Chain2(i, r))
    <2>1. /\ k[1] = Key(1, Append(Chain1(i), ecdh(r, i)))
          /\ k[2] = Key(2, Append(Chain1(i), ecdh(r, i)))
      BY <1>1, Derive
    <2>2. QED
      BY <2>1, EcdhCommutes, Extend
  <1>5. h = Bound2(i, r)
    BY <1>1, Extend DEF mix_hash
  <1>6. c = Seal2(i, r)
    BY <1>4, <1>5 DEF Seal2
  <1>7. mix_hash(h, c) = Hash2(i, r)
    BY <1>5, <1>6, Extend DEF mix_hash
  <1> HIDE DEF k, h, c
  <1>8. build_act_two(r, s) =
          Returns(Update5(s, mix_hash(h, c), k[1], k[2], "ResponderAwaitingActThree"),
                  "ok", {[version |-> VERSION, e |-> r, c |-> c]})
    BY <1>3, Zenon DEF Update5
  <1>9. Update5(s, mix_hash(h, c), k[1], k[2], "ResponderAwaitingActThree")
          = Fields("ResponderAwaitingActThree", Key(1, Chain2(i, r)), Hash2(i, r), None, i,
                   Key(2, Chain2(i, r)))
    BY <1>4, <1>7, Update5Fields
  <1>10. QED
    BY <1>6, <1>8, <1>9 DEF Act2

\* What process_act_two returns once it has derived the given chain and transcript.
AfterActTwo(o, s, m, chain1, h1) ==
  IF decrypt_with_ad(Key(2, chain1), 0, h1, m.c)
    THEN build_act_three(o, Fields("InitiatorAwaitingActTwo", Key(1, chain1),
                                   Append(h1, m.c), s.remote_static, m.e, Key(2, chain1)))
    ELSE Refused(Fields("InitiatorAwaitingActTwo", Key(1, chain1), h1, s.remote_static,
                        m.e, Key(2, chain1)), "BadTag")

\* process_act_two in InitiatorAwaitingActTwo, whatever has been mixed in before.
LEMMA ActTwoTaken ==
  ASSUME NEW o, NEW m, NEW s, Proper(s), s.state = "InitiatorAwaitingActTwo",
         m.version = VERSION, m.e # Malformed,
         NEW chain1, chain1 = Append(s.ck.chain, ecdh(o, m.e)),
         NEW h1, h1 = Append(s.h, m.e)
  PROVE  process_act_two(o, s, m) = AfterActTwo(o, s, m, chain1, h1)
  <1> DEFINE k == hkdf_two_keys(s.ck, ecdh(o, m.e))
             hh == mix_hash(s.h, m.e)
             mixed == [s EXCEPT !.remote_ephemeral = m.e, !.h = hh, !.ck = k[1],
                                !.temp_k2 = k[2]]
             accepted == [mixed EXCEPT !.h = mix_hash(hh, m.c)]
  <1>1. /\ s = Fields("InitiatorAwaitingActTwo", s.ck, s.h, s.remote_static, s.remote_ephemeral,
                      s.temp_k2)
        /\ s.ck = Key(s.ck.out, s.ck.chain)
    BY DEF Proper
  <1>2. process_act_two(o, s, m) =
          IF decrypt_with_ad(k[2], 0, hh, m.c)
            THEN build_act_three(o, accepted) ELSE Refused(mixed, "BadTag")
    BY <1>1 DEF process_act_two
  <1>3. k[1] = Key(1, chain1) /\ k[2] = Key(2, chain1)
    BY <1>1, Derive
  <1>4. hh = h1 /\ mix_hash(hh, m.c) = Append(h1, m.c)
    BY <1>1 DEF mix_hash
  <1> HIDE DEF k, hh
  <1>5. mixed = Update2(s, m.e, hh, k[1], k[2])
    BY Zenon DEF Update2
  <1>6. mixed = Fields("InitiatorAwaitingActTwo", Key(1, chain1), h1, s.remote_static, m.e,
                       Key(2, chain1))
    BY <1>1, <1>3, <1>4, <1>5, Update2Fields
  <1> HIDE DEF mixed
  <1>7. accepted = Update7(mixed, mix_hash(hh, m.c))
    BY Zenon DEF Update7
  <1>8. accepted = Fields("InitiatorAwaitingActTwo", Key(1, chain1), Append(h1, m.c), s.remote_static,
                          m.e, Key(2, chain1))
    BY <1>4, <1>6, <1>7, Update7Fields
  <1> HIDE DEF accepted
  <1>9. QED
    BY <1>2, <1>3, <1>4, <1>6, <1>8 DEF AfterActTwo

\* A derived key is not the absent one.
LEMMA DerivedKey ==
  ASSUME NEW chain
  PROVE  Key(2, chain) # NoKey
  BY DEF Key, NoKey

\* build_act_three on what initiator i has after the act two of r.
LEMMA ActThreeMade ==
  ASSUME NEW i \in Initiators, NEW r \in Responders, NEW s,
         s = Fields("InitiatorAwaitingActTwo", Key(1, Chain2(i, r)), Hash2(i, r),
                    Expected[i], r, Key(2, Chain2(i, r)))
  PROVE  build_act_three(i, s) =
           Returns(Fields("Complete", Key(1, Chain3(i, r)), Hash3(i, r), Expected[i], r,
                          Key(2, Chain2(i, r))), "ok", {Act3(i, r)})
  <1> DEFINE c == encrypt_with_ad(s.temp_k2, 1, s.h, Static[i])
             h == mix_hash(s.h, c)
             k == hkdf_two_keys(s.ck, ecdh(Static[i], s.remote_ephemeral))
             t == encrypt_with_ad(k[2], 0, h, None)
  <1>1. /\ s.remote_ephemeral = r /\ s.ck = Key(1, Chain2(i, r)) /\ s.h = Hash2(i, r)
        /\ s.temp_k2 = Key(2, Chain2(i, r))
    BY DEF Fields
  <1>2. r # None
    BY TokenAssumption DEF PubKey, Object
  <1>3. build_act_three(i, s) =
          Returns([s EXCEPT !.h = h, !.ck = k[1], !.state = "Complete"],
                  "ok", {[version |-> VERSION, c |-> c, t |-> t]})
    BY <1>1, <1>2, DerivedKey DEF build_act_three
  <1>4. k[1] = Key(1, Chain3(i, r)) /\ k[2] = Key(2, Chain3(i, r))
    <2>1. /\ k[1] = Key(1, Append(Chain2(i, r), ecdh(Static[i], r)))
          /\ k[2] = Key(2, Append(Chain2(i, r), ecdh(Static[i], r)))
      BY <1>1, Derive
    <2>2. QED
      BY <2>1, Extend
  <1>5. c = Seal3(i, r)
    BY <1>1 DEF Seal3
  <1>6. h = Hash3(i, r)
    BY <1>1, <1>5, Extend DEF mix_hash
  <1>7. t = Tag3(i, r)
    BY <1>4, <1>6 DEF Tag3
  <1> HIDE DEF k, h, c, t
  <1>8. build_act_three(i, s) =
          Returns(Update3(s, h, k[1], "Complete"),
                  "ok", {[version |-> VERSION, c |-> c, t |-> t]})
    BY <1>3, Zenon DEF Update3
  <1>9. Update3(s, h, k[1], "Complete")
          = Fields("Complete", Key(1, Chain3(i, r)), Hash3(i, r), Expected[i], r,
                   Key(2, Chain2(i, r)))
    BY <1>4, <1>6, Update3Fields
  <1>10. QED
    BY <1>5, <1>7, <1>8, <1>9 DEF Act3

\* What process_act_three returns once it has derived the given chain and transcript.
AfterActThree(o, s, m, chain1, h1) ==
  IF decrypt_with_ad(Key(2, chain1), 0, h1, m.t)
    THEN Returns(Fields("Complete", Key(1, chain1), h1, m.c.plain, s.remote_ephemeral,
                        s.temp_k2), "ok", {})
    ELSE Refused(Fields("ResponderAwaitingActThree", Key(1, chain1), h1, m.c.plain,
                        s.remote_ephemeral, s.temp_k2), "BadTag")

\* process_act_three in ResponderAwaitingActThree, once the first ciphertext opens.
LEMMA ActThreeTaken ==
  ASSUME NEW o, NEW m, NEW s, Proper(s), s.state = "ResponderAwaitingActThree",
         m.version = VERSION, s.temp_k2 # NoKey, decrypt_with_ad(s.temp_k2, 1, s.h, m.c),
         m.c.plain # Malformed,
         NEW chain1, chain1 = Append(s.ck.chain, ecdh(o, m.c.plain)),
         NEW h1, h1 = Append(s.h, m.c)
  PROVE  process_act_three(o, s, m) = AfterActThree(o, s, m, chain1, h1)
  <1> DEFINE k == hkdf_two_keys(s.ck, ecdh(o, m.c.plain))
             hh == mix_hash(s.h, m.c)
             mixed == [s EXCEPT !.remote_static = m.c.plain, !.h = hh, !.ck = k[1]]
             complete == [mixed EXCEPT !.state = "Complete"]
  <1>1. /\ s = Fields("ResponderAwaitingActThree", s.ck, s.h, s.remote_static,
                      s.remote_ephemeral, s.temp_k2)
        /\ s.ck = Key(s.ck.out, s.ck.chain)
    BY DEF Proper
  <1>2. process_act_three(o, s, m) =
          IF decrypt_with_ad(k[2], 0, hh, m.t)
            THEN Returns(complete, "ok", {}) ELSE Refused(mixed, "BadTag")
    BY <1>1 DEF process_act_three
  <1>3. k[1] = Key(1, chain1) /\ k[2] = Key(2, chain1)
    BY <1>1, Derive
  <1>4. hh = h1
    BY <1>1 DEF mix_hash
  <1> HIDE DEF k, hh
  <1>5. mixed = Update6(s, m.c.plain, hh, k[1])
    BY Zenon DEF Update6
  <1>6. mixed = Fields("ResponderAwaitingActThree", Key(1, chain1), h1, m.c.plain,
          s.remote_ephemeral, s.temp_k2)
    BY <1>1, <1>3, <1>4, <1>5, Update6Fields
  <1> HIDE DEF mixed
  <1>7. complete = Update8(mixed, "Complete")
    BY Zenon DEF Update8
  <1>8. complete = Fields("Complete", Key(1, chain1), h1, m.c.plain,
          s.remote_ephemeral, s.temp_k2)
    BY <1>6, <1>7, Update8Fields
  <1> HIDE DEF complete
  <1>9. QED
    BY <1>2, <1>3, <1>4, <1>6, <1>8 DEF AfterActThree

\* How a method refuses that has mixed in nothing.
Refusal == {"InvalidState", "BadVersion", "BadPubkey", "BadCiphertext"}

\* The early returns leave the fields as they are.
LEMMA EarlyReturn ==
  ASSUME NEW o, NEW s, NEW m
  PROVE  /\ s.state # "InitiatorStart" =>
              \E w \in Refusal : get_act_one(o, s) = Refused(s, w)
         /\ s.state # "ResponderStart" \/ m.version # VERSION \/ m.e = Malformed =>
              \E w \in Refusal : process_act_one(o, s, m) = Refused(s, w)
         /\ s.state # "InitiatorAwaitingActTwo" \/ m.version # VERSION \/ m.e = Malformed =>
              \E w \in Refusal : process_act_two(o, s, m) = Refused(s, w)
         /\ \/ s.state # "ResponderAwaitingActThree" \/ m.version # VERSION
            \/ s.temp_k2 # NoKey /\ ~decrypt_with_ad(s.temp_k2, 1, s.h, m.c)
            => \E w \in Refusal : process_act_three(o, s, m) = Refused(s, w)
  BY DEF Refusal, get_act_one, process_act_one, process_act_two, process_act_three

------------------------------------------------------------------------------
(* Which ciphertexts open.                                                  *)

\* A ciphertext that a 50-byte message can carry.
Sealed50(c) ==
  \/ c = Garbage
  \/ \E i \in Initiators : c = Seal1(i) /\ hs[i].state # "InitiatorStart"
  \/ \E i \in Initiators, r \in Responders : c = Seal2(i, r) /\ ResponderMet(i, r)

\* What arrives, altered or not, carries a ciphertext that somebody sealed, or
\* garbage.
LEMMA Arrives50 ==
  ASSUME FiftyInv, NEW m \in Arriving50
  PROVE  Sealed50(m.c) /\ m.e \in PubKey \cup {Malformed}
  <1> DEFINE Old(n) == \/ \E i \in Initiators : n = Act1(i) /\ hs[i].state # "InitiatorStart"
                       \/ \E i \in Initiators, r \in Responders :
                            n = Act2(i, r) /\ ResponderMet(i, r)
  <1>1. ASSUME NEW n \in fifty
        PROVE  /\ Sealed50(n.c) /\ n.e \in PubKey
               /\ n = [version |-> n.version, e |-> n.e, c |-> n.c]
    <2>1. Old(n)
      BY <1>1 DEF FiftyInv
    <2>2. CASE \E i \in Initiators : n = Act1(i) /\ hs[i].state # "InitiatorStart"
      BY <2>2 DEF Act1, Sealed50, PubKey, Object
    <2>3. CASE \E i \in Initiators, r \in Responders : n = Act2(i, r) /\ ResponderMet(i, r)
      BY <2>3 DEF Act2, Sealed50, PubKey, Object
    <2>4. QED
      BY <2>1, <2>2, <2>3
  <1>2. CASE m \in fifty
    BY <1>1, <1>2
  <1>3. CASE \E n \in fifty : m = [n EXCEPT !.version = 1]
    <2>1. PICK n \in fifty : m = [n EXCEPT !.version = 1]
      BY <1>3
    <2>2. m.c = n.c /\ m.e = n.e
      BY <1>1, <2>1
    <2>3. QED
      BY <1>1, <2>2
  <1>4. CASE \E n \in fifty, x \in PubKey \cup {Malformed} : m = [n EXCEPT !.e = x]
    <2>1. PICK n \in fifty, x \in PubKey \cup {Malformed} : m = [n EXCEPT !.e = x]
      BY <1>4
    <2>2. m.c = n.c /\ m.e = x
      BY <1>1, <2>1
    <2>3. QED
      BY <1>1, <2>2
  <1>5. CASE \E n \in fifty : m = [n EXCEPT !.c = Garbage]
    <2>1. PICK n \in fifty : m = [n EXCEPT !.c = Garbage]
      BY <1>5
    <2>2. m.c = Garbage /\ m.e = n.e
      BY <1>1, <2>1
    <2>3. QED
      BY <1>1, <2>2 DEF Sealed50
  <1>6. QED
    BY <1>2, <1>3, <1>4, <1>5 DEF Arriving50

\* Likewise for act three; nothing needs to be known of its second ciphertext.
LEMMA Arrives66 ==
  ASSUME SixtySixInv, NEW m \in Arriving66
  PROVE  \/ m.c = Garbage
         \/ \E i \in Initiators, r \in Responders :
              m.c = Seal3(i, r) /\ InitiatorDone(i, r) /\ ResponderMet(i, r)
  <1> DEFINE Old(c) == \E i \in Initiators, r \in Responders :
                         c = Seal3(i, r) /\ InitiatorDone(i, r) /\ ResponderMet(i, r)
  <1>1. ASSUME NEW n \in sixtySix
        PROVE  Old(n.c) /\ n = [version |-> n.version, c |-> n.c, t |-> n.t]
    BY <1>1 DEF SixtySixInv, Act3
  <1> HIDE DEF Old
  <1>2. \E n \in sixtySix : \/ \E x : m = [n EXCEPT !.t = x]
                            \/ m = [n EXCEPT !.version = 1]
                            \/ m = [n EXCEPT !.c = Garbage]
    BY DEF Arriving66
  <1>3. PICK n \in sixtySix : \/ \E x : m = [n EXCEPT !.t = x]
                              \/ m = [n EXCEPT !.version = 1]
                              \/ m = [n EXCEPT !.c = Garbage]
    BY <1>2
  <1>4. n = [version |-> n.version, c |-> n.c, t |-> n.t]
    BY <1>1
  <1>5. m.c = Garbage \/ m.c = n.c
    BY <1>3, <1>4
  <1>6. m.c = Garbage \/ Old(m.c)
    BY <1>1, <1>5
  <1>7. QED
    BY <1>6 DEF Old

\* A 50-byte ciphertext opens under a key and a transcript only if they are the ones
\* it was sealed with.
LEMMA Opens50 ==
  ASSUME NEW c, NEW chain, NEW ad, Sealed50(c),
         decrypt_with_ad(Key(2, chain), 0, ad, c)
  PROVE  \/ \E i \in Initiators :
              /\ c = Seal1(i) /\ hs[i].state # "InitiatorStart"
              /\ chain = Chain1(i) /\ ad = Bound1(i)
         \/ \E i \in Initiators, r \in Responders :
              /\ c = Seal2(i, r) /\ ResponderMet(i, r)
              /\ chain = Chain2(i, r) /\ ad = Bound2(i, r)
  <1>1. c.key = Key(2, chain) /\ c.ad = ad
    BY DEF decrypt_with_ad
  <1>2. c # Garbage
    BY <1>1, DerivedKey DEF Garbage, encrypt_with_ad
  <1>3. \A x, y : Key(2, x) = Key(2, y) => x = y
    BY DEF Key
  <1>4. CASE \E i \in Initiators : c = Seal1(i) /\ hs[i].state # "InitiatorStart"
    <2>1. PICK i \in Initiators : c = Seal1(i) /\ hs[i].state # "InitiatorStart"
      BY <1>4
    <2>2. c.key = Key(2, Chain1(i)) /\ c.ad = Bound1(i)
      BY <2>1 DEF Seal1, encrypt_with_ad
    <2>3. QED
      BY <1>1, <1>3, <2>1, <2>2
  <1>5. CASE \E i \in Initiators, r \in Responders : c = Seal2(i, r) /\ ResponderMet(i, r)
    <2>1. PICK i \in Initiators, r \in Responders : c = Seal2(i, r) /\ ResponderMet(i, r)
      BY <1>5
    <2>2. c.key = Key(2, Chain2(i, r)) /\ c.ad = Bound2(i, r)
      BY <2>1 DEF Seal2, encrypt_with_ad
    <2>3. QED
      BY <1>1, <1>3, <2>1, <2>2
  <1>6. QED
    BY <1>2, <1>4, <1>5 DEF Sealed50

\* How long the terms are.
LEMMA TermLength ==
  /\ \A i : Len(Chain1(i)) = 1 /\ Len(Bound1(i)) = 2
  /\ \A i, r : Len(Chain2(i, r)) = 2 /\ Len(Bound2(i, r)) = 4
  BY TermIsSeq DEF Chain1, Chain2, Bound1, Bound2

------------------------------------------------------------------------------
(* What a call on one value leaves of the others.                           *)

\* A call changes the fields and the count of one value that is not complete and
\* has not been taken; messages are only added.
Touches(o, f) ==
  /\ hs' = [hs EXCEPT ![o] = f]
  /\ badTags' \in [Object -> Nat]
  /\ \A p \in Object : p # o => badTags'[p] = badTags[p]
  /\ cipher' = cipher /\ cipher[o] = None
  /\ fifty \subseteq fifty' /\ sixtySix \subseteq sixtySix'

\* The fields after such a call.
LEMMA TouchesFields ==
  ASSUME ShapeInv, NEW o \in Object, NEW f, Touches(o, f)
  PROVE  /\ hs'[o] = f
         /\ \A p \in Object : p # o => hs'[p] = hs[p]
         /\ ShapeInv'
         /\ CipherInv => CipherInv'
  <1>1. hs = [p \in Object |-> hs[p]]
    BY DEF ShapeInv
  <1>2. hs' = [p \in Object |-> IF p = o THEN f ELSE hs[p]]
    BY <1>1 DEF Touches
  <1>3. hs'[o] = f /\ \A p \in Object : p # o => hs'[p] = hs[p]
    BY <1>2
  <1>4. hs' = [p \in Object |-> hs'[p]]
    BY <1>2
  <1>5. ShapeInv'
    BY <1>4 DEF ShapeInv, Touches
  <1>6. ASSUME CipherInv, NEW p \in Object, cipher'[p] # None
        PROVE  hs'[p].state = "Complete" /\ cipher'[p] = into_cipher(p, hs'[p])
    <2>1. p # o /\ cipher[p] # None /\ cipher'[p] = cipher[p]
      BY <1>6 DEF Touches
    <2>2. hs'[p] = hs[p]
      BY <1>3, <2>1
    <2>3. QED
      BY <1>6, <2>1, <2>2 DEF CipherInv
  <1>7. QED
    BY <1>3, <1>5, <1>6 DEF CipherInv, into_cipher, get_final_keys

\* Roles are disjoint.
LEMMA Roles ==
  /\ Initiators \subseteq Object /\ Responders \subseteq Object
  /\ \A i \in Initiators, r \in Responders : i # r
  BY RoleAssumption DEF Object

\* A call on an initiator that is not complete leaves what is known of the others.
LEMMA InitiatorFrame ==
  ASSUME ShapeInv, NEW j \in Initiators, NEW f, Touches(j, f),
         hs[j].state # "Complete", f.state # "InitiatorStart"
  PROVE  /\ \A i \in Initiators, r \in Responders :
              /\ InitiatorDone(i, r) => InitiatorDone(i, r)'
              /\ ResponderMet(i, r) => ResponderMet(i, r)'
         /\ \A i \in Initiators : i # j /\ InitiatorEarly(i) => InitiatorEarly(i)'
         /\ \A r \in Responders : ResponderEarly(r) => ResponderEarly(r)'
         /\ \A i \in Initiators :
              hs[i].state # "InitiatorStart" => hs'[i].state # "InitiatorStart"
  <1>1. /\ hs'[j] = f /\ j \in Object
        /\ \A p \in Object : p # j => hs'[p] = hs[p] /\ badTags'[p] = badTags[p]
        /\ sixtySix \subseteq sixtySix'
    BY TouchesFields, Roles DEF Touches
  <1>2. \A i \in Initiators :
          hs[i].state # "InitiatorStart" => hs'[i].state # "InitiatorStart"
    BY <1>1, Roles
  <1>3. ASSUME NEW i \in Initiators, NEW r \in Responders, InitiatorDone(i, r)
        PROVE  InitiatorDone(i, r)'
    <2>1. hs[i].state = "Complete"
      BY <1>3 DEF InitiatorDone, Fields
    <2>2. hs'[i] = hs[i] /\ badTags'[i] = badTags[i]
      BY <1>1, <2>1, Roles
    <2>3. QED
      BY <1>1, <1>3, <2>2 DEF InitiatorDone
  <1>4. ASSUME NEW i \in Initiators, NEW r \in Responders, ResponderMet(i, r)
        PROVE  ResponderMet(i, r)'
    <2>1. hs'[r] = hs[r] /\ badTags'[r] = badTags[r]
      BY <1>1, Roles
    <2>2. QED
      BY <1>2, <1>3, <1>4, <2>1 DEF ResponderMet
  <1>5. ASSUME NEW i \in Initiators, i # j, InitiatorEarly(i)
        PROVE  InitiatorEarly(i)'
    <2>1. hs'[i] = hs[i] /\ badTags'[i] = badTags[i]
      BY <1>1, <1>5, Roles
    <2>2. QED
      BY <1>5, <2>1 DEF InitiatorEarly
  <1>6. ASSUME NEW r \in Responders, ResponderEarly(r)
        PROVE  ResponderEarly(r)'
    <2>1. hs'[r] = hs[r] /\ badTags'[r] = badTags[r]
      BY <1>1, Roles
    <2>2. QED
      BY <1>6, <2>1 DEF ResponderEarly
  <1>7. QED
    BY <1>2, <1>3, <1>4, <1>5, <1>6

\* So does a call on a responder that is not complete.
LEMMA ResponderFrame ==
  ASSUME ShapeInv, NEW q \in Responders, NEW f, Touches(q, f), hs[q].state # "Complete"
  PROVE  /\ \A i \in Initiators, r \in Responders :
              /\ InitiatorDone(i, r) => InitiatorDone(i, r)'
              /\ r # q /\ ResponderMet(i, r) => ResponderMet(i, r)'
         /\ \A i \in Initiators : InitiatorEarly(i) => InitiatorEarly(i)'
         /\ \A r \in Responders : r # q /\ ResponderEarly(r) => ResponderEarly(r)'
         /\ \A i \in Initiators : hs'[i] = hs[i]
  <1>1. /\ q \in Object
        /\ \A p \in Object : p # q => hs'[p] = hs[p] /\ badTags'[p] = badTags[p]
        /\ sixtySix \subseteq sixtySix'
    BY TouchesFields, Roles DEF Touches
  <1>2. \A i \in Initiators : hs'[i] = hs[i] /\ badTags'[i] = badTags[i]
    BY <1>1, Roles
  <1>3. ASSUME NEW i \in Initiators, NEW r \in Responders, InitiatorDone(i, r)
        PROVE  InitiatorDone(i, r)'
    BY <1>1, <1>2, <1>3 DEF InitiatorDone
  <1>4. ASSUME NEW i \in Initiators, NEW r \in Responders, r # q, ResponderMet(i, r)
        PROVE  ResponderMet(i, r)'
    <2>1. hs'[r] = hs[r] /\ badTags'[r] = badTags[r]
      BY <1>1, <1>4, Roles
    <2>2. QED
      BY <1>2, <1>3, <1>4, <2>1 DEF ResponderMet
  <1>5. ASSUME NEW i \in Initiators, InitiatorEarly(i)
        PROVE  InitiatorEarly(i)'
    BY <1>2, <1>5 DEF InitiatorEarly
  <1>6. ASSUME NEW r \in Responders, r # q, ResponderEarly(r)
        PROVE  ResponderEarly(r)'
    <2>1. hs'[r] = hs[r] /\ badTags'[r] = badTags[r]
      BY <1>1, <1>6, Roles
    <2>2. QED
      BY <1>6, <2>1 DEF ResponderEarly
  <1>7. QED
    BY <1>2, <1>3, <1>4, <1>5, <1>6

\* What Call does with a result.
LEMMA CallTouches ==
  ASSUME ShapeInv, NEW o \in Object, NEW f, NEW w, NEW made, Call(o, Returns(f, w, made)),
         fifty \subseteq fifty', sixtySix \subseteq sixtySix'
  PROVE  /\ Touches(o, f)
         /\ w # "BadTag" => badTags' = badTags
         /\ w = "BadTag" => badTags'[o] = badTags[o] + 1
         /\ w # "panic" /\ ~panicked => ~panicked'
  <1> DEFINE result == Returns(f, w, made)
  <1>1. result.fields = f /\ result.outcome = w
    BY DEF Returns
  <1> HIDE DEF result
  <1>2. /\ cipher[o] = None /\ cipher' = cipher
        /\ hs' = [hs EXCEPT ![o] = f]
        /\ panicked' = (panicked \/ w = "panic")
        /\ badTags' = [badTags EXCEPT ![o] = IF w = "BadTag" THEN @ + 1 ELSE @]
    BY <1>1 DEF Call, result
  <1>3. badTags \in [Object -> Nat]
    BY DEF ShapeInv
  <1>4. badTags' \in [Object -> Nat] /\ \A p \in Object : p # o => badTags'[p] = badTags[p]
    BY <1>2, <1>3
  <1>5. (w # "BadTag" => badTags' = badTags) /\ (w = "BadTag" => badTags'[o] = badTags[o] + 1)
    BY <1>2, <1>3
  <1>6. QED
    BY <1>2, <1>4, <1>5 DEF Touches

\* A call that is refused early changes nothing.
LEMMA CallRefused ==
  ASSUME Inv, NEW o \in Object, NEW w \in Refusal, Call(o, Refused(hs[o], w)),
         fifty' = fifty, sixtySix' = sixtySix
  PROVE  Inv' /\ hs' = hs /\ badTags' = badTags
  <1>1. /\ Touches(o, hs[o]) /\ badTags' = badTags /\ ~panicked'
    <2>1. w # "BadTag" /\ w # "panic"
      BY DEF Refusal
    <2>2. ShapeInv /\ ~panicked /\ Call(o, Returns(hs[o], w, {}))
      BY DEF Inv, Refused
    <2>3. QED
      BY <2>1, <2>2, CallTouches
  <1>2. hs' = hs /\ cipher' = cipher
    BY <1>1 DEF Touches, Inv, ShapeInv
  <1>3. ShapeInv' /\ CipherInv' /\ InitiatorInv' /\ ResponderInv' /\ FiftyInv' /\ SixtySixInv'
    <2>1. ShapeInv'
      BY <1>1, <1>2 DEF Inv, ShapeInv
    <2>2. CipherInv'
      BY <1>2 DEF Inv, CipherInv, into_cipher, get_final_keys
    <2>3. \A i \in Initiators, r \in Responders :
            /\ InitiatorDone(i, r) => InitiatorDone(i, r)'
            /\ ResponderMet(i, r) => ResponderMet(i, r)'
      BY <1>1, <1>2 DEF InitiatorDone, ResponderMet
    <2>4. InitiatorInv'
      BY <1>1, <1>2, <2>3 DEF Inv, InitiatorInv, InitiatorEarly
    <2>5. ResponderInv'
      BY <1>1, <1>2, <2>3 DEF Inv, ResponderInv, ResponderEarly
    <2>6. FiftyInv'
      BY <1>2, <2>3 DEF Inv, FiftyInv
    <2>7. SixtySixInv'
      BY <2>3 DEF Inv, SixtySixInv
    <2>8. QED
      BY <2>1, <2>2, <2>4, <2>5, <2>6, <2>7
  <1>4. QED
    BY <1>1, <1>2, <1>3 DEF Inv

\* What the state of a value says about its fields.
LEMMA InitiatorStates ==
  ASSUME Inv, NEW i \in Initiators
  PROVE  /\ hs[i].state \in {"InitiatorStart", "InitiatorAwaitingActTwo", "Complete"}
         /\ hs[i].state = "InitiatorStart" => badTags[i] = 0 /\ hs[i] = new_initiator(i)
         /\ hs[i].state = "InitiatorAwaitingActTwo" =>
              \/ /\ badTags[i] = 0
                 /\ hs[i] = Fields("InitiatorAwaitingActTwo", Key(1, Chain1(i)), Hash1(i),
                                   Expected[i], None, NoKey)
              \/ badTags[i] > 0 /\ Spoiled(hs[i]) /\ Len(hs[i].ck.chain) >= 2
         /\ hs[i].state = "Complete" =>
              \E r \in Responders : InitiatorDone(i, r) /\ ResponderMet(i, r)
  <1>1. InitiatorEarly(i) \/ \E r \in Responders : InitiatorDone(i, r) /\ ResponderMet(i, r)
    BY DEF Inv, InitiatorInv
  <1>2. new_initiator(i).state = "InitiatorStart"
    BY DEF new_initiator
  <1>3. \A ck, h, rs, re, k2 :
          /\ Fields("InitiatorAwaitingActTwo", ck, h, rs, re, k2).state
               = "InitiatorAwaitingActTwo"
          /\ Fields("Complete", ck, h, rs, re, k2).state = "Complete"
    BY DEF Fields
  <1>4. CASE InitiatorEarly(i)
    BY <1>2, <1>3, <1>4 DEF InitiatorEarly
  <1>5. CASE \E r \in Responders : InitiatorDone(i, r) /\ ResponderMet(i, r)
    <2>1. hs[i].state = "Complete"
      BY <1>3, <1>5 DEF InitiatorDone
    <2>2. QED
      BY <1>5, <2>1
  <1>6. QED
    BY <1>1, <1>4, <1>5

\* Likewise for a responder.
LEMMA ResponderStates ==
  ASSUME Inv, NEW r \in Responders
  PROVE  /\ hs[r].state \in {"ResponderStart", "ResponderAwaitingActThree", "Complete"}
         /\ hs[r].state = "ResponderStart" => ResponderEarly(r)
         /\ hs[r].state # "ResponderStart" => \E i \in Initiators : ResponderMet(i, r)
         /\ ResponderEarly(r) => hs[r].state = "ResponderStart"
         /\ \A i \in Initiators : ResponderMet(i, r) =>
              hs[r].state # "ResponderStart" /\ hs[r].remote_ephemeral = i
  <1>1. ResponderEarly(r) \/ \E i \in Initiators : ResponderMet(i, r)
    BY DEF Inv, ResponderInv
  <1>2. new_responder(r).state = "ResponderStart"
    BY DEF new_responder
  <1>3. \A ck, h, rs, re, k2 :
          /\ Fields("ResponderAwaitingActThree", ck, h, rs, re, k2).state
               = "ResponderAwaitingActThree"
          /\ Fields("ResponderAwaitingActThree", ck, h, rs, re, k2).remote_ephemeral = re
          /\ Fields("Complete", ck, h, rs, re, k2).state = "Complete"
          /\ Fields("Complete", ck, h, rs, re, k2).remote_ephemeral = re
    BY DEF Fields
  <1>4. ResponderEarly(r) => hs[r].state = "ResponderStart"
    BY <1>2 DEF ResponderEarly
  <1>5. \A i \in Initiators : ResponderMet(i, r) =>
          /\ hs[r].state \in {"ResponderAwaitingActThree", "Complete"}
          /\ hs[r].remote_ephemeral = i
    BY <1>3 DEF ResponderMet
  <1>6. QED
    BY <1>1, <1>4, <1>5

------------------------------------------------------------------------------
(* Each call preserves the invariant, and a failed tag is final.            *)

\* What remains to be shown of a call on an initiator that is not complete.
LEMMA InitiatorCall ==
  ASSUME Inv, NEW j \in Initiators, NEW f, Touches(j, f), ~panicked',
         hs[j].state # "Complete", f.state # "InitiatorStart",
         \/ InitiatorEarly(j)'
         \/ \E r \in Responders : InitiatorDone(j, r)' /\ ResponderMet(j, r)',
         \A m \in fifty' \ fifty : m = Act1(j),
         \A m \in sixtySix' \ sixtySix :
           \E r \in Responders : m = Act3(j, r) /\ InitiatorDone(j, r)' /\ ResponderMet(j, r)'
  PROVE  Inv'
  <1>1. j \in Object /\ ShapeInv /\ CipherInv
    BY Roles DEF Inv
  <1>2. ShapeInv' /\ CipherInv' /\ hs'[j] = f
    BY <1>1, TouchesFields
  <1>3. /\ \A i \in Initiators, r \in Responders :
              /\ InitiatorDone(i, r) => InitiatorDone(i, r)'
              /\ ResponderMet(i, r) => ResponderMet(i, r)'
        /\ \A i \in Initiators : i # j /\ InitiatorEarly(i) => InitiatorEarly(i)'
        /\ \A r \in Responders : ResponderEarly(r) => ResponderEarly(r)'
        /\ \A i \in Initiators :
             hs[i].state # "InitiatorStart" => hs'[i].state # "InitiatorStart"
    BY <1>1, InitiatorFrame
  <1>4. InitiatorInv'
    BY <1>3 DEF Inv, InitiatorInv
  <1>5. ResponderInv'
    BY <1>3 DEF Inv, ResponderInv
  <1>6. FiftyInv'
    <2>1. \A m \in fifty' \ fifty : \E i \in Initiators : m = Act1(i)
                                      /\ hs'[i].state # "InitiatorStart"
      BY <1>2
    <2>2. QED
      BY <1>3, <2>1 DEF Inv, FiftyInv
  <1>7. SixtySixInv'
    BY <1>3 DEF Inv, SixtySixInv
  <1>8. QED
    BY <1>2, <1>4, <1>5, <1>6, <1>7 DEF Inv

\* And of a call on a responder that is not complete.
LEMMA ResponderCall ==
  ASSUME Inv, NEW q \in Responders, NEW f, Touches(q, f), ~panicked',
         hs[q].state # "Complete",
         ResponderEarly(q)' \/ \E i \in Initiators : ResponderMet(i, q)',
         \A i \in Initiators : ResponderMet(i, q) => ResponderMet(i, q)',
         \A m \in fifty' \ fifty :
           \E i \in Initiators : m = Act2(i, q) /\ ResponderMet(i, q)',
         sixtySix' = sixtySix
  PROVE  Inv'
  <1>1. q \in Object /\ ShapeInv /\ CipherInv
    BY Roles DEF Inv
  <1>2. ShapeInv' /\ CipherInv'
    BY <1>1, TouchesFields
  <1>3. /\ \A i \in Initiators, r \in Responders :
              /\ InitiatorDone(i, r) => InitiatorDone(i, r)'
              /\ r # q /\ ResponderMet(i, r) => ResponderMet(i, r)'
        /\ \A i \in Initiators : InitiatorEarly(i) => InitiatorEarly(i)'
        /\ \A r \in Responders : r # q /\ ResponderEarly(r) => ResponderEarly(r)'
        /\ \A i \in Initiators : hs'[i] = hs[i]
    BY <1>1, ResponderFrame
  <1>4. \A i \in Initiators, r \in Responders : ResponderMet(i, r) => ResponderMet(i, r)'
    BY <1>3
  <1>5. InitiatorInv'
    BY <1>3, <1>4 DEF Inv, InitiatorInv
  <1>6. ResponderInv'
    BY <1>3, <1>4 DEF Inv, ResponderInv
  <1>7. FiftyInv'
    BY <1>3, <1>4 DEF Inv, FiftyInv
  <1>8. SixtySixInv'
    BY <1>3, <1>4 DEF Inv, SixtySixInv
  <1>9. QED
    BY <1>2, <1>5, <1>6, <1>7, <1>8 DEF Inv

\* What a step may do to the states: after a failed tag, nothing.
Final == \A o \in Object :
           badTags[o] > 0 => badTags'[o] > 0 /\ hs'[o].state = hs[o].state

\* get_act_one preserves the invariant.
LEMMA GetActOneStep ==
  ASSUME Inv, NEW o \in Object, GetActOne(o)
  PROVE  Inv' /\ Final
  <1> DEFINE result == get_act_one(o, hs[o])
  <1>1. Call(o, result) /\ fifty' = fifty \cup result.made /\ sixtySix' = sixtySix
    BY DEF GetActOne, Emit50
  <1> HIDE DEF result
  <1>2. CASE hs[o].state # "InitiatorStart"
    <2>1. PICK w \in Refusal : result = Refused(hs[o], w)
      BY <1>2, EarlyReturn DEF result
    <2>2. result.made = {}
      BY <2>1 DEF Refused, Returns
    <2>3. Inv' /\ hs' = hs /\ badTags' = badTags
      BY <1>1, <2>1, <2>2, CallRefused
    <2>4. QED
      BY <2>3 DEF Final
  <1>3. CASE hs[o].state = "InitiatorStart"
    <2> DEFINE f == Fields("InitiatorAwaitingActTwo", Key(1, Chain1(o)), Hash1(o),
                           Expected[o], None, NoKey)
    <2>1. o \in Initiators
      BY <1>3, ResponderStates DEF Object
    <2>2. badTags[o] = 0 /\ hs[o] = new_initiator(o)
      BY <1>3, <2>1, InitiatorStates
    <2>3. result = Returns(f, "ok", {Act1(o)})
      BY <2>1, <2>2, ActOneMade DEF result
    <2>4. result.made = {Act1(o)}
      BY <2>3 DEF Returns
    <2>5. f.state = "InitiatorAwaitingActTwo"
      BY DEF Fields
    <2> HIDE DEF f
    <2>6. ShapeInv /\ ~panicked /\ fifty \subseteq fifty' /\ sixtySix \subseteq sixtySix'
      BY <1>1 DEF Inv
    <2>7. Touches(o, f) /\ badTags' = badTags /\ ~panicked'
      BY <1>1, <2>3, <2>6, CallTouches
    <2>8. hs'[o] = f /\ \A p \in Object : p # o => hs'[p] = hs[p]
      BY <2>6, <2>7, TouchesFields
    <2>9. InitiatorEarly(o)'
      BY <2>2, <2>7, <2>8 DEF InitiatorEarly, f
    <2>10. Inv'
      <3>1. \A m \in fifty' \ fifty : m = Act1(o)
        BY <1>1, <2>4
      <3>2. sixtySix' \ sixtySix = {}
        BY <1>1
      <3>3. QED
        BY <1>3, <2>1, <2>5, <2>7, <2>9, <3>1, <3>2, InitiatorCall
    <2>11. QED
      BY <2>2, <2>7, <2>8, <2>10 DEF Final
  <1>4. QED
    BY <1>2, <1>3

\* A failed tag in ResponderStart leaves a spoiled value behind.
LEMMA ResponderSpoiled ==
  ASSUME Inv, NEW q \in Responders, hs[q].state = "ResponderStart",
         NEW chain, NEW h, NEW rs, NEW re, NEW k2,
         IsSeq(chain), Len(chain) >= 1, IsSeq(h), Len(h) = Len(chain) + 1,
         Call(q, Refused(Fields("ResponderStart", Key(1, chain), h, rs, re, k2), "BadTag")),
         fifty' = fifty, sixtySix' = sixtySix
  PROVE  Inv' /\ Final
  <1> DEFINE f == Fields("ResponderStart", Key(1, chain), h, rs, re, k2)
  <1>1. /\ f.state = "ResponderStart" /\ f.ck = Key(1, chain) /\ f.h = h
        /\ f.ck.chain = chain /\ f.ck = Key(f.ck.out, f.ck.chain)
        /\ f = Fields(f.state, f.ck, f.h, f.remote_static, f.remote_ephemeral, f.temp_k2)
    BY DEF Fields, Key
  <1> HIDE DEF f
  <1>2. Call(q, Returns(f, "BadTag", {})) /\ q \in Object /\ ShapeInv /\ ~panicked
    BY Roles DEF f, Refused, Inv
  <1>3. Touches(q, f) /\ badTags'[q] = badTags[q] + 1 /\ ~panicked'
    BY <1>2, CallTouches
  <1>4. hs'[q] = f /\ \A p \in Object : p # q => hs'[p] = hs[p]
    BY <1>2, <1>3, TouchesFields
  <1>5. badTags[q] \in Nat
    BY <1>2 DEF ShapeInv
  <1>6. ResponderEarly(q)'
    <2>1. badTags'[q] > 0
      BY <1>3, <1>5
    <2>2. Spoiled(hs'[q])
      BY <1>1, <1>4 DEF Spoiled, Proper
    <2>3. QED
      BY <1>1, <1>4, <2>1, <2>2 DEF ResponderEarly, Spoiled
  <1>7. \A i \in Initiators : ~ResponderMet(i, q)
    BY ResponderStates
  <1>8. Inv'
    <2>1. \A m \in fifty' \ fifty : FALSE
      OBVIOUS
    <2>2. QED
      BY <1>3, <1>6, <1>7, <2>1, ResponderCall
  <1>9. QED
    BY <1>1, <1>3, <1>4, <1>5, <1>8 DEF Final, Touches

\* A spoiled responder opens nothing: its chain and its transcript have grown out
\* of step with every ciphertext under way.
LEMMA SpoiledResponderOpensNothing ==
  ASSUME NEW c, NEW chain, NEW h, NEW x, NEW y, Sealed50(c),
         IsSeq(chain), Len(chain) >= 1, IsSeq(h), Len(h) = Len(chain) + 1
  PROVE  ~decrypt_with_ad(Key(2, Append(chain, x)), 0, Append(h, y), c)
  <1> DEFINE chain1 == Append(chain, x)  h1 == Append(h, y)
  <1>1. Len(chain1) = Len(chain) + 1 /\ Len(h1) = Len(h) + 1 /\ Len(chain) \in Nat
    BY AppendIsSeq
  <1> HIDE DEF chain1, h1
  <1>. Len(chain1) >= 2 /\ (Len(chain1) = 2 => Len(h1) = 3)
    BY <1>1
  <1>2. SUFFICES ASSUME decrypt_with_ad(Key(2, chain1), 0, h1, c)
                 PROVE  FALSE
    BY DEF chain1, h1
  <1>3. CASE \E i \in Initiators : chain1 = Chain1(i)
    <2>1. Len(chain1) = 1
      BY <1>3, TermLength
    <2>2. QED
      BY <2>1
  <1>4. CASE \E i \in Initiators, r \in Responders :
               chain1 = Chain2(i, r) /\ h1 = Bound2(i, r)
    <2>1. Len(chain1) = 2 /\ Len(h1) = 4
      BY <1>4, TermLength
    <2>2. QED
      BY <2>1
  <1>5. QED
    BY <1>2, <1>3, <1>4, Opens50

\* Only the act one of an initiator that means to reach r opens at a fresh r.
LEMMA FreshResponderOpens ==
  ASSUME NEW r \in Responders, NEW c, NEW e, Sealed50(c),
         decrypt_with_ad(Key(2, Append(<<>>, ecdh(Static[r], e))), 0,
                         Append(<<Static[r]>>, e), c)
  PROVE  \E i \in Initiators :
           /\ e = i /\ Expected[i] = Static[r] /\ hs[i].state # "InitiatorStart"
           /\ c = Seal1(i)
  <1> DEFINE chain1 == Append(<<>>, ecdh(Static[r], e))
             h1 == Append(<<Static[r]>>, e)
  <1>1. h1 = <<Static[r], e>>
    BY AppendTerm
  <1>2. Len(chain1) = 1
    <2>1. chain1 = <<ecdh(Static[r], e)>>
      BY AppendTerm
    <2>2. QED
      BY <2>1, TermIsSeq
  <1> HIDE DEF chain1, h1
  <1>3. decrypt_with_ad(Key(2, chain1), 0, h1, c)
    BY DEF chain1, h1
  <1>4. ~\E i \in Initiators, q \in Responders : chain1 = Chain2(i, q)
    BY <1>2, TermLength
  <1>5. PICK i \in Initiators : /\ c = Seal1(i) /\ hs[i].state # "InitiatorStart"
                                /\ chain1 = Chain1(i) /\ h1 = Bound1(i)
    BY <1>3, <1>4, Opens50
  <1>6. e = i /\ Expected[i] = Static[r]
    BY <1>1, <1>5 DEF Bound1
  <1>7. QED
    BY <1>5, <1>6

\* process_act_one preserves the invariant.
LEMMA ProcessActOneStep ==
  ASSUME Inv, NEW o \in Object, NEW m \in Arriving50, ProcessActOne(o, m)
  PROVE  Inv' /\ Final
  <1> DEFINE result == process_act_one(o, hs[o], m)
  <1>1. Call(o, result) /\ fifty' = fifty \cup result.made /\ sixtySix' = sixtySix
    BY DEF ProcessActOne, Emit50
  <1> HIDE DEF result
  <1>2. CASE hs[o].state # "ResponderStart" \/ m.version # VERSION \/ m.e = Malformed
    <2>1. PICK w \in Refusal : result = Refused(hs[o], w)
      BY <1>2, EarlyReturn DEF result
    <2>2. result.made = {}
      BY <2>1 DEF Refused, Returns
    <2>3. Inv' /\ hs' = hs /\ badTags' = badTags
      BY <1>1, <2>1, <2>2, CallRefused
    <2>4. QED
      BY <2>3 DEF Final
  <1>3. CASE hs[o].state = "ResponderStart" /\ m.version = VERSION /\ m.e # Malformed
    <2>1. o \in Responders
      BY <1>3, InitiatorStates DEF Object
    <2>2. Sealed50(m.c)
      BY Arrives50 DEF Inv
    <2>3. ResponderEarly(o)
      BY <1>3, <2>1, ResponderStates
    <2>4. CASE badTags[o] > 0
      <3> DEFINE s == hs[o]
                 chain1 == Append(s.ck.chain, ecdh(Static[o], m.e))
                 h1 == Append(s.h, m.e)
      <3>1. /\ Spoiled(s) /\ Len(s.ck.chain) >= 1 /\ Len(s.h) = Len(s.ck.chain) + 1
        BY <2>3, <2>4 DEF ResponderEarly
      <3>2. IsSeq(s.ck.chain) /\ IsSeq(s.h)
        BY <3>1 DEF Spoiled
      <3>3. Proper(s) /\ s.state = "ResponderStart"
        BY <1>3, <3>1 DEF Spoiled
      <3>4. ~decrypt_with_ad(Key(2, chain1), 0, h1, m.c)
        BY <2>2, <3>1, <3>2, SpoiledResponderOpensNothing
      <3>5. /\ IsSeq(chain1) /\ Len(chain1) >= 1 /\ IsSeq(h1) /\ Len(h1) = Len(chain1) + 1
        BY <3>1, <3>2, AppendIsSeq, SMTT(30)
      <3> HIDE DEF s
      <3>6. result = Refused(Fields("ResponderStart", Key(1, chain1), h1, s.remote_static,
                                    m.e, s.temp_k2), "BadTag")
        <4> HIDE DEF chain1, h1
        <4>1. process_act_one(o, s, m) = AfterActOne(o, s, m, chain1, h1)
          BY <1>3, <3>3, ActOneTaken DEF chain1, h1
        <4>2. QED
          BY <3>4, <4>1 DEF result, s, AfterActOne
      <3> HIDE DEF chain1, h1
      <3>7. result.made = {}
        BY <3>6 DEF Refused, Returns
      <3>8. fifty' = fifty
        BY <1>1, <3>7
      <3>9. QED
        BY <1>1, <1>3, <2>1, <3>5, <3>6, <3>8, ResponderSpoiled
    <2>5. CASE ~(badTags[o] > 0)
      <3> DEFINE s == hs[o]
                 chain1 == Append(<<>>, ecdh(Static[o], m.e))
                 h1 == Append(<<Static[o]>>, m.e)
      <3>1. badTags[o] = 0 /\ s = new_responder(o)
        BY <2>3, <2>5 DEF ResponderEarly
      <3>2. s = Fields("ResponderStart", Key(1, <<>>), <<Static[o]>>, None, None, NoKey)
        BY <3>1 DEF new_responder, initialize_state, Fields, Key
      <3>3. result =
              IF decrypt_with_ad(Key(2, chain1), 0, h1, m.c)
                THEN build_act_two(o, Fields("ResponderStart", Key(1, chain1),
                                             Append(h1, m.c), None, m.e, NoKey))
                ELSE Refused(Fields("ResponderStart", Key(1, chain1), h1, None, m.e, NoKey),
                             "BadTag")
        <4>1. /\ Proper(s) /\ s.state = "ResponderStart" /\ s.remote_static = None
              /\ s.temp_k2 = NoKey /\ s.ck.chain = <<>> /\ s.h = <<Static[o]>>
          BY <3>2 DEF Proper, Fields, Key
        <4> HIDE DEF s
        <4>2. /\ chain1 = Append(s.ck.chain, ecdh(Static[o], m.e))
              /\ h1 = Append(s.h, m.e)
          BY <4>1
        <4> HIDE DEF chain1, h1
        <4>3. process_act_one(o, s, m) = AfterActOne(o, s, m, chain1, h1)
          <5>1. Proper(s) /\ s.state = "ResponderStart"
            BY <4>1
          <5>2. QED
            BY <1>3, <4>2, <5>1, ActOneTaken
        <4>4. QED
          BY <4>1, <4>3 DEF result, s, AfterActOne
      <3>4. CASE decrypt_with_ad(Key(2, chain1), 0, h1, m.c)
        <4>1. PICK i \in Initiators :
                /\ m.e = i /\ Expected[i] = Static[o] /\ hs[i].state # "InitiatorStart"
                /\ m.c = Seal1(i)
          BY <2>1, <2>2, <3>4, FreshResponderOpens
        <4> DEFINE f == Fields("ResponderAwaitingActThree", Key(1, Chain2(i, o)),
                               Hash2(i, o), None, i, Key(2, Chain2(i, o)))
        <4>2. chain1 = Chain1(i)
          <5>1. ecdh(Static[o], m.e) = ecdh(i, Expected[i])
            BY <4>1, EcdhCommutes
          <5>2. QED
            BY <5>1, Extend
        <4>3. Append(h1, m.c) = Hash1(i)
          BY <4>1, Extend
        <4> HIDE DEF s, chain1, h1
        <4>4. result = Returns(f, "ok", {Act2(i, o)})
          <5>1. result = build_act_two(o, Fields("ResponderStart", Key(1, Chain1(i)),
                                                 Hash1(i), None, i, NoKey))
            BY <3>3, <3>4, <4>1, <4>2, <4>3
          <5>2. QED
            BY <2>1, <5>1, ActTwoMade
        <4>5. result.made = {Act2(i, o)}
          BY <4>4 DEF Returns
        <4>6. ShapeInv /\ ~panicked /\ fifty \subseteq fifty' /\ sixtySix \subseteq sixtySix'
          BY <1>1 DEF Inv
        <4> HIDE DEF f
        <4>7. Touches(o, f) /\ badTags' = badTags /\ ~panicked'
          BY <1>1, <4>4, <4>6, CallTouches
        <4>8. hs'[o] = f /\ \A p \in Object : p # o => hs'[p] = hs[p]
          BY <4>6, <4>7, TouchesFields
        <4>9. ResponderMet(i, o)'
          <5>1. hs'[i] = hs[i]
            BY <2>1, <4>8, Roles
          <5>2. QED
            BY <3>1, <4>1, <4>7, <4>8, <5>1 DEF ResponderMet, f
        <4>10. \A j \in Initiators : ~ResponderMet(j, o)
          BY <1>3, <2>1, ResponderStates
        <4>11. Inv'
          <5>1. \A n \in fifty' \ fifty : n = Act2(i, o)
            BY <1>1, <4>5
          <5>2. QED
            BY <1>1, <1>3, <2>1, <4>7, <4>9, <4>10, <5>1, ResponderCall
        <4>12. QED
          BY <3>1, <4>7, <4>8, <4>11 DEF Final
      <3>5. CASE ~decrypt_with_ad(Key(2, chain1), 0, h1, m.c)
        <4>1. /\ IsSeq(chain1) /\ Len(chain1) = 1 /\ IsSeq(h1) /\ Len(h1) = 2
          BY AppendIsSeq, TermIsSeq
        <4> HIDE DEF s, chain1, h1
        <4>2. result = Refused(Fields("ResponderStart", Key(1, chain1), h1, None, m.e,
                                      NoKey), "BadTag")
          BY <3>3, <3>5
        <4>3. fifty' = fifty
          BY <1>1, <4>2 DEF Refused, Returns
        <4>4. Len(chain1) >= 1 /\ Len(h1) = Len(chain1) + 1
          BY <4>1
        <4>5. QED
          BY <1>1, <1>3, <2>1, <4>1, <4>2, <4>3, <4>4, ResponderSpoiled
      <3>6. QED
        BY <3>4, <3>5
    <2>6. QED
      BY <2>4, <2>5
  <1>4. QED
    BY <1>2, <1>3

\* A failed tag in InitiatorAwaitingActTwo leaves a spoiled value behind.
LEMMA InitiatorSpoiled ==
  ASSUME Inv, NEW j \in Initiators, hs[j].state = "InitiatorAwaitingActTwo",
         NEW chain, NEW h, NEW rs, NEW re, NEW k2,
         IsSeq(chain), Len(chain) >= 2, IsSeq(h),
         Call(j, Refused(Fields("InitiatorAwaitingActTwo", Key(1, chain), h, rs, re, k2),
                         "BadTag")),
         fifty' = fifty, sixtySix' = sixtySix
  PROVE  Inv' /\ Final
  <1> DEFINE f == Fields("InitiatorAwaitingActTwo", Key(1, chain), h, rs, re, k2)
  <1>1. /\ f.state = "InitiatorAwaitingActTwo" /\ f.ck = Key(1, chain) /\ f.h = h
        /\ f.ck.chain = chain /\ f.ck = Key(f.ck.out, f.ck.chain)
        /\ f = Fields(f.state, f.ck, f.h, f.remote_static, f.remote_ephemeral, f.temp_k2)
    BY DEF Fields, Key
  <1> HIDE DEF f
  <1>2. Call(j, Returns(f, "BadTag", {})) /\ j \in Object /\ ShapeInv /\ ~panicked
    BY Roles DEF f, Refused, Inv
  <1>3. Touches(j, f) /\ badTags'[j] = badTags[j] + 1 /\ ~panicked'
    BY <1>2, CallTouches
  <1>4. hs'[j] = f /\ \A p \in Object : p # j => hs'[p] = hs[p]
    BY <1>2, <1>3, TouchesFields
  <1>5. badTags[j] \in Nat
    BY <1>2 DEF ShapeInv
  <1>6. InitiatorEarly(j)'
    <2>1. badTags'[j] > 0
      BY <1>3, <1>5
    <2>2. Spoiled(hs'[j])
      BY <1>1, <1>4 DEF Spoiled, Proper
    <2>3. QED
      BY <1>1, <1>4, <2>1, <2>2 DEF InitiatorEarly, Spoiled
  <1>7. Inv'
    <2>1. (\A m \in fifty' \ fifty : FALSE) /\ (\A m \in sixtySix' \ sixtySix : FALSE)
      OBVIOUS
    <2>2. QED
      BY <1>1, <1>3, <1>6, <2>1, InitiatorCall
  <1>8. QED
    BY <1>1, <1>3, <1>4, <1>5, <1>7 DEF Final, Touches

\* A spoiled initiator opens nothing: its chain is longer than any that seals a
\* 50-byte message.
LEMMA SpoiledInitiatorOpensNothing ==
  ASSUME NEW c, NEW chain, NEW h1, NEW x, Sealed50(c), IsSeq(chain), Len(chain) >= 2
  PROVE  ~decrypt_with_ad(Key(2, Append(chain, x)), 0, h1, c)
  <1> DEFINE chain1 == Append(chain, x)
  <1>1. Len(chain1) = Len(chain) + 1 /\ Len(chain) \in Nat
    BY AppendIsSeq
  <1> HIDE DEF chain1
  <1>2. Len(chain1) >= 3
    BY <1>1
  <1>3. SUFFICES ASSUME decrypt_with_ad(Key(2, chain1), 0, h1, c)
                 PROVE  FALSE
    BY DEF chain1
  <1>4. (\E i \in Initiators : chain1 = Chain1(i))
          \/ \E i \in Initiators, r \in Responders : chain1 = Chain2(i, r)
    BY <1>3, Opens50
  <1>5. Len(chain1) = 1 \/ Len(chain1) = 2
    BY <1>4, TermLength
  <1>6. CASE Len(chain1) = 1
    BY <1>2, <1>6
  <1>7. CASE Len(chain1) = 2
    BY <1>2, <1>7
  <1>8. QED
    BY <1>5, <1>6, <1>7

\* Only the act two of a responder that has taken the act one of i opens at i.
LEMMA FreshInitiatorOpens ==
  ASSUME NEW i \in Initiators, NEW c, NEW e, Sealed50(c),
         decrypt_with_ad(Key(2, Chain2(i, e)), 0, Bound2(i, e), c)
  PROVE  e \in Responders /\ ResponderMet(i, e) /\ c = Seal2(i, e)
  <1>1. ~\E j \in Initiators : Chain2(i, e) = Chain1(j)
    <2>1. Len(Chain2(i, e)) = 2 /\ \A j : Len(Chain1(j)) = 1
      BY TermLength
    <2>2. QED
      BY <2>1
  <1>2. PICK j \in Initiators, r \in Responders :
          c = Seal2(j, r) /\ ResponderMet(j, r) /\ Bound2(i, e) = Bound2(j, r)
    BY <1>1, Opens50
  <1>3. i = j /\ e = r
    BY <1>2 DEF Bound2
  <1>4. QED
    BY <1>2, <1>3

\* process_act_two preserves the invariant.
LEMMA ProcessActTwoStep ==
  ASSUME Inv, NEW o \in Object, NEW m \in Arriving50, ProcessActTwo(o, m)
  PROVE  Inv' /\ Final
  <1> DEFINE result == process_act_two(o, hs[o], m)
  <1>1. Call(o, result) /\ sixtySix' = sixtySix \cup result.made /\ fifty' = fifty
    BY DEF ProcessActTwo, Emit66
  <1> HIDE DEF result
  <1>2. CASE hs[o].state # "InitiatorAwaitingActTwo" \/ m.version # VERSION \/ m.e = Malformed
    <2>1. PICK w \in Refusal : result = Refused(hs[o], w)
      BY <1>2, EarlyReturn DEF result
    <2>2. result.made = {}
      BY <2>1 DEF Refused, Returns
    <2>3. Inv' /\ hs' = hs /\ badTags' = badTags
      BY <1>1, <2>1, <2>2, CallRefused
    <2>4. QED
      BY <2>3 DEF Final
  <1>3. CASE hs[o].state = "InitiatorAwaitingActTwo" /\ m.version = VERSION /\ m.e # Malformed
    <2> DEFINE s == hs[o]
               chain1 == Append(s.ck.chain, ecdh(o, m.e))
               h1 == Append(s.h, m.e)
    <2>1. o \in Initiators
      BY <1>3, ResponderStates DEF Object
    <2>2. Sealed50(m.c)
      BY Arrives50 DEF Inv
    <2>3. \/ /\ badTags[o] = 0
             /\ s = Fields("InitiatorAwaitingActTwo", Key(1, Chain1(o)), Hash1(o),
                           Expected[o], None, NoKey)
          \/ badTags[o] > 0 /\ Spoiled(s) /\ Len(s.ck.chain) >= 2
      BY <1>3, <2>1, InitiatorStates
    <2>4. Proper(s)
      BY <2>3 DEF Spoiled, Proper, Fields, Key
    <2>5. result =
            IF decrypt_with_ad(Key(2, chain1), 0, h1, m.c)
              THEN build_act_three(o, Fields("InitiatorAwaitingActTwo", Key(1, chain1),
                                 Append(h1, m.c), s.remote_static, m.e, Key(2, chain1)))
              ELSE Refused(Fields("InitiatorAwaitingActTwo", Key(1, chain1), h1,
                                  s.remote_static, m.e, Key(2, chain1)), "BadTag")
      <3> HIDE DEF s
      <3>1. s.state = "InitiatorAwaitingActTwo"
        BY <1>3 DEF s
      <3> HIDE DEF chain1, h1
      <3>2. process_act_two(o, s, m) = AfterActTwo(o, s, m, chain1, h1)
        <4>1. chain1 = Append(s.ck.chain, ecdh(o, m.e)) /\ h1 = Append(s.h, m.e)
          BY DEF chain1, h1
        <4>2. m.version = VERSION /\ m.e # Malformed
          BY <1>3
        <4>3. Proper(s)
          BY <2>4
        <4>4. QED
          BY <3>1, <4>1, <4>2, <4>3, ActTwoTaken
      <3>3. QED
        BY <3>2 DEF result, s, AfterActTwo
    <2>6. ASSUME ~decrypt_with_ad(Key(2, chain1), 0, h1, m.c),
                 IsSeq(s.ck.chain), Len(s.ck.chain) >= 1, IsSeq(s.h)
          PROVE  Inv' /\ Final
      <3>1. IsSeq(chain1) /\ Len(chain1) >= 2 /\ IsSeq(h1)
        BY <2>6, AppendIsSeq
      <3>2. result = Refused(Fields("InitiatorAwaitingActTwo", Key(1, chain1), h1,
                                    s.remote_static, m.e, Key(2, chain1)), "BadTag")
        BY <2>5, <2>6
      <3> HIDE DEF s, chain1, h1
      <3>3. sixtySix' = sixtySix
        BY <1>1, <3>2 DEF Refused, Returns
      <3>4. QED
        BY <1>1, <1>3, <2>1, <3>1, <3>2, <3>3, InitiatorSpoiled
    <2>7. CASE badTags[o] > 0
      <3>1. IsSeq(s.ck.chain) /\ Len(s.ck.chain) >= 2 /\ IsSeq(s.h)
        BY <2>3, <2>7 DEF Spoiled
      <3>2. ~decrypt_with_ad(Key(2, chain1), 0, h1, m.c)
        BY <2>2, <3>1, SpoiledInitiatorOpensNothing
      <3>3. Len(s.ck.chain) >= 1
        <4>1. Len(s.ck.chain) \in Nat
          BY <3>1, AppendIsSeq
        <4>2. QED
          BY <3>1, <4>1
      <3>4. QED
        BY <2>6, <3>1, <3>2, <3>3
    <2>8. CASE ~(badTags[o] > 0)
      <3>1. badTags[o] = 0 /\ s.ck.chain = Chain1(o) /\ s.h = Hash1(o)
            /\ s.remote_static = Expected[o]
        BY <2>3, <2>8 DEF Fields, Key
      <3>2. chain1 = Chain2(o, m.e) /\ h1 = Bound2(o, m.e)
        BY <3>1, Extend
      <3>3. CASE ~decrypt_with_ad(Key(2, chain1), 0, h1, m.c)
        <4>1. IsSeq(s.ck.chain) /\ Len(s.ck.chain) = 1
          BY <3>1, TermIsSeq DEF Chain1
        <4>2. IsSeq(s.h)
          BY <3>1, TermIsSeq DEF Hash1
        <4>3. Len(s.ck.chain) >= 1
          BY <4>1
        <4>4. QED
          BY <2>6, <3>3, <4>1, <4>2, <4>3
      <3>4. CASE decrypt_with_ad(Key(2, chain1), 0, h1, m.c)
        <4> DEFINE r == m.e
                   f == Fields("Complete", Key(1, Chain3(o, r)), Hash3(o, r), Expected[o], r,
                               Key(2, Chain2(o, r)))
        <4>1. r \in Responders /\ ResponderMet(o, r) /\ m.c = Seal2(o, r)
          BY <2>1, <2>2, <3>2, <3>4, FreshInitiatorOpens
        <4>2. Append(h1, m.c) = Hash2(o, r)
          BY <3>2, <4>1, Extend
        <4>3. result = build_act_three(o, Fields("InitiatorAwaitingActTwo",
                         Key(1, Chain2(o, r)), Hash2(o, r), Expected[o], r,
                         Key(2, Chain2(o, r))))
          <5> HIDE DEF s, chain1, h1
          <5>1. QED
            BY <2>5, <3>1, <3>2, <3>4, <4>2
        <4> HIDE DEF r, f
        <4>4. result = Returns(f, "ok", {Act3(o, r)})
          BY <2>1, <4>1, <4>3, ActThreeMade DEF f
        <4>5. result.made = {Act3(o, r)}
          BY <4>4 DEF Returns
        <4>6. f.state = "Complete"
          BY DEF f, Fields
        <4>7. ShapeInv /\ ~panicked /\ fifty \subseteq fifty' /\ sixtySix \subseteq sixtySix'
          BY <1>1 DEF Inv
        <4>8. Touches(o, f) /\ badTags' = badTags /\ ~panicked'
          BY <1>1, <4>4, <4>7, CallTouches
        <4>9. hs'[o] = f /\ \A p \in Object : p # o => hs'[p] = hs[p]
          BY <4>7, <4>8, TouchesFields
        <4>10. InitiatorDone(o, r)'
          BY <1>1, <3>1, <4>5, <4>8, <4>9 DEF InitiatorDone, f
        <4>11. ResponderMet(o, r)'
          BY <1>3, <2>1, <4>1, <4>6, <4>7, <4>8, InitiatorFrame
        <4>12. Inv'
          <5>1. \A n \in fifty' \ fifty : n = Act1(o)
            BY <1>1
          <5>2. \A n \in sixtySix' \ sixtySix : n = Act3(o, r)
            BY <1>1, <4>5
          <5>3. QED
            BY <1>3, <2>1, <4>1, <4>6, <4>8, <4>10, <4>11, <5>1, <5>2, InitiatorCall
        <4>13. QED
          BY <3>1, <4>8, <4>9, <4>12 DEF Final
      <3>5. QED
        BY <3>3, <3>4
    <2>9. QED
      BY <2>7, <2>8
  <1>4. QED
    BY <1>2, <1>3
\* A responder that waits for act three: its partner, and what it has mixed in.
LEMMA ResponderWaits ==
  ASSUME Inv, NEW r \in Responders, hs[r].state = "ResponderAwaitingActThree"
  PROVE  \E i \in Initiators :
           /\ ResponderMet(i, r)
           /\ \/ /\ badTags[r] = 0
                 /\ hs[r] = Fields("ResponderAwaitingActThree", Key(1, Chain2(i, r)),
                                   Hash2(i, r), None, i, Key(2, Chain2(i, r)))
              \/ /\ badTags[r] > 0
                 /\ hs[r] = Fields("ResponderAwaitingActThree", Key(1, Chain3(i, r)),
                                   Hash3(i, r), Static[i], i, Key(2, Chain2(i, r)))
  <1>1. PICK i \in Initiators : ResponderMet(i, r)
    BY ResponderStates
  <1>2. \A ck, h, rs, re, k2 : Fields("Complete", ck, h, rs, re, k2).state = "Complete"
    BY DEF Fields
  <1>3. QED
    BY <1>1, <1>2 DEF ResponderMet

\* The first ciphertext of an act three opens only under the transcript it was
\* sealed with.
LEMMA OpensThree ==
  ASSUME SixtySixInv, NEW m \in Arriving66, NEW chain, NEW h,
         decrypt_with_ad(Key(2, chain), 1, h, m.c)
  PROVE  \E i \in Initiators, r \in Responders :
           m.c = Seal3(i, r) /\ h = Hash2(i, r) /\ InitiatorDone(i, r)
  <1>1. m.c.key = Key(2, chain) /\ m.c.ad = h
    BY DEF decrypt_with_ad
  <1>2. m.c # Garbage
    BY <1>1, DerivedKey DEF Garbage, encrypt_with_ad
  <1>3. PICK i \in Initiators, r \in Responders : m.c = Seal3(i, r) /\ InitiatorDone(i, r)
    BY <1>2, Arrives66
  <1>4. m.c.ad = Hash2(i, r)
    BY <1>3 DEF Seal3, encrypt_with_ad
  <1>5. QED
    BY <1>1, <1>3, <1>4

\* A transcript names the two ends, and how far they have come.
LEMMA TranscriptNames ==
  ASSUME NEW i, NEW r, NEW j, NEW q
  PROVE  /\ Hash2(i, r) = Hash2(j, q) => i = j /\ r = q
         /\ Hash3(i, r) # Hash2(j, q)
  <1>1. Hash2(i, r) = Hash2(j, q) => i = j /\ r = q
    BY DEF Hash2
  <1>2. Len(Hash3(i, r)) = 6 /\ Len(Hash2(j, q)) = 5
    BY DEF Hash3, Hash2
  <1>3. QED
    BY <1>1, <1>2

\* process_act_three on what r has after it has accepted the act one of i, once the
\* first ciphertext has opened.
LEMMA ActThreeOpened ==
  ASSUME NEW i \in Initiators, NEW r \in Responders, NEW s, NEW m,
         s = Fields("ResponderAwaitingActThree", Key(1, Chain2(i, r)), Hash2(i, r), None, i,
                    Key(2, Chain2(i, r))),
         m.version = VERSION, m.c = Seal3(i, r)
  PROVE  process_act_three(r, s, m) =
           AfterActThree(r, s, m, Chain3(i, r), Hash3(i, r))
  <1> DEFINE chain1 == Append(s.ck.chain, ecdh(r, m.c.plain))
             h1 == Append(s.h, m.c)
  <1>1. /\ Proper(s) /\ s.state = "ResponderAwaitingActThree"
        /\ s.ck.chain = Chain2(i, r) /\ s.h = Hash2(i, r) /\ s.temp_k2 = Key(2, Chain2(i, r))
    BY DEF Proper, Fields, Key
  <1>2. m.c.plain = Static[i] /\ m.c.key = Key(2, Chain2(i, r)) /\ m.c.nonce = 1
        /\ m.c.ad = Hash2(i, r)
    BY DEF Seal3, encrypt_with_ad
  <1>3. decrypt_with_ad(s.temp_k2, 1, s.h, m.c) /\ s.temp_k2 # NoKey
    BY <1>1, <1>2, DerivedKey DEF decrypt_with_ad
  <1>4. m.c.plain # Malformed
    BY <1>2, StaticAssumption, TokenAssumption DEF PubKey, Object
  <1>5. chain1 = Chain3(i, r) /\ h1 = Hash3(i, r)
    <2>1. ecdh(r, m.c.plain) = ecdh(Static[i], r)
      BY <1>2, EcdhCommutes
    <2>2. QED
      BY <1>1, <2>1, Extend
  <1>6. process_act_three(r, s, m) = AfterActThree(r, s, m, chain1, h1)
    <2>1. chain1 = Append(s.ck.chain, ecdh(r, m.c.plain)) /\ h1 = Append(s.h, m.c)
      OBVIOUS
    <2>2. Proper(s) /\ s.state = "ResponderAwaitingActThree"
      BY <1>1
    <2> HIDE DEF chain1, h1
    <2>3. QED
      BY <1>3, <1>4, <2>1, <2>2, ActThreeTaken
  <1>7. QED
    BY <1>5, <1>6

\* process_act_three preserves the invariant.
LEMMA ProcessActThreeStep ==
  ASSUME Inv, NEW o \in Object, NEW m \in Arriving66, ProcessActThree(o, m)
  PROVE  Inv' /\ Final
  <1> DEFINE result == process_act_three(o, hs[o], m)
  <1>1. Call(o, result) /\ fifty' = fifty /\ sixtySix' = sixtySix
    BY DEF ProcessActThree
  <1> HIDE DEF result
  <1>2. ASSUME NEW w \in Refusal, result = Refused(hs[o], w)
        PROVE  Inv' /\ Final
    <2>1. Inv' /\ hs' = hs /\ badTags' = badTags
      BY <1>1, <1>2, CallRefused
    <2>2. QED
      BY <2>1 DEF Final
  <1>3. CASE hs[o].state # "ResponderAwaitingActThree" \/ m.version # VERSION
    BY <1>2, <1>3, EarlyReturn DEF result
  <1>4. CASE hs[o].state = "ResponderAwaitingActThree" /\ m.version = VERSION
    <2>1. o \in Responders
      BY <1>4, InitiatorStates DEF Object
    <2>2. PICK i \in Initiators :
            /\ ResponderMet(i, o)
            /\ \/ /\ badTags[o] = 0
                  /\ hs[o] = Fields("ResponderAwaitingActThree", Key(1, Chain2(i, o)),
                                    Hash2(i, o), None, i, Key(2, Chain2(i, o)))
               \/ /\ badTags[o] > 0
                  /\ hs[o] = Fields("ResponderAwaitingActThree", Key(1, Chain3(i, o)),
                                    Hash3(i, o), Static[i], i, Key(2, Chain2(i, o)))
      BY <1>4, <2>1, ResponderWaits
    <2>3. hs[o].temp_k2 = Key(2, Chain2(i, o))
      BY <2>2 DEF Fields
    <2>4. CASE ~decrypt_with_ad(hs[o].temp_k2, 1, hs[o].h, m.c)
      <3>1. hs[o].temp_k2 # NoKey
        BY <2>3, DerivedKey
      <3>2. \E w \in Refusal : result = Refused(hs[o], w)
        BY <2>4, <3>1, EarlyReturn DEF result
      <3>3. QED
        BY <1>2, <3>2
    <2>5. CASE decrypt_with_ad(hs[o].temp_k2, 1, hs[o].h, m.c)
      <3>1. PICK j \in Initiators, q \in Responders :
              m.c = Seal3(j, q) /\ hs[o].h = Hash2(j, q) /\ InitiatorDone(j, q)
        BY <2>3, <2>5, OpensThree DEF Inv
      <3>2. /\ badTags[o] = 0
            /\ hs[o] = Fields("ResponderAwaitingActThree", Key(1, Chain2(i, o)),
                              Hash2(i, o), None, i, Key(2, Chain2(i, o)))
        BY <2>2, <3>1, TranscriptNames DEF Fields
      <3>3. j = i /\ q = o
        <4>1. hs[o].h = Hash2(i, o)
          BY <3>2 DEF Fields
        <4>2. Hash2(i, o) = Hash2(j, q)
          BY <3>1, <4>1
        <4>3. Hash2(i, o) = Hash2(j, q) => i = j /\ o = q
          BY ONLY TranscriptNames
        <4>4. QED
          BY <4>2, <4>3
      <3>4. InitiatorDone(i, o)
        BY <3>1, <3>3
      <3> DEFINE s == hs[o]
                 done == Fields("Complete", Key(1, Chain3(i, o)), Hash3(i, o), Static[i], i,
                                Key(2, Chain2(i, o)))
                 spoiled == Fields("ResponderAwaitingActThree", Key(1, Chain3(i, o)),
                                   Hash3(i, o), Static[i], i, Key(2, Chain2(i, o)))
      <3>5. result = Returns(done, "ok", {}) \/ result = Returns(spoiled, "BadTag", {})
        <4>1. s.remote_ephemeral = i /\ s.temp_k2 = Key(2, Chain2(i, o))
          BY <3>2 DEF Fields
        <4>2. m.c.plain = Static[i]
          BY <3>1, <3>3 DEF Seal3, encrypt_with_ad
        <4> HIDE DEF s
        <4>3. process_act_three(o, s, m) = AfterActThree(o, s, m, Chain3(i, o), Hash3(i, o))
          BY <1>4, <2>1, <3>1, <3>2, <3>3, ActThreeOpened DEF s
        <4>4. QED
          BY <4>1, <4>2, <4>3 DEF result, s, AfterActThree, Refused
      <3> HIDE DEF s, done, spoiled
      <3>6. ShapeInv /\ ~panicked /\ badTags[o] \in Nat
            /\ fifty \subseteq fifty' /\ sixtySix \subseteq sixtySix'
        BY <1>1 DEF Inv, ShapeInv
      <3>7. ASSUME NEW f, Touches(o, f), ~panicked', ResponderMet(i, o)'
            PROVE  Inv'
        <4>1. \A k \in Initiators : ResponderMet(k, o) => ResponderMet(k, o)'
          <5>1. ASSUME NEW k \in Initiators, ResponderMet(k, o)
                PROVE  k = i
            BY <2>1, <2>2, <5>1, ResponderStates
          <5>2. QED
            BY <3>7, <5>1
        <4>2. \A n \in fifty' \ fifty : FALSE
          BY <1>1
        <4>3. QED
          BY <1>1, <1>4, <2>1, <3>7, <4>1, <4>2, ResponderCall
      <3>8. CASE result = Returns(done, "ok", {})
        <4>1. Touches(o, done) /\ badTags' = badTags /\ ~panicked'
          BY <1>1, <3>6, <3>8, CallTouches
        <4>2. hs'[o] = done
          BY <3>6, <4>1, TouchesFields
        <4>3. InitiatorDone(i, o)' /\ hs'[i] = hs[i]
          BY <1>4, <2>1, <3>4, <3>6, <4>1, ResponderFrame
        <4>4. ResponderMet(i, o)'
          BY <2>2, <3>2, <4>1, <4>2, <4>3 DEF ResponderMet, done
        <4>5. Inv'
          BY <3>7, <4>1, <4>4
        <4>6. \A p \in Object : p # o => hs'[p] = hs[p]
          BY <3>6, <4>1, TouchesFields
        <4>7. QED
          BY <3>2, <4>1, <4>5, <4>6 DEF Final
      <3>9. CASE result = Returns(spoiled, "BadTag", {})
        <4>1. Touches(o, spoiled) /\ badTags'[o] = badTags[o] + 1 /\ ~panicked'
          BY <1>1, <3>6, <3>9, CallTouches
        <4>2. hs'[o] = spoiled /\ \A p \in Object : p # o => hs'[p] = hs[p]
          BY <3>6, <4>1, TouchesFields
        <4>3. hs'[i] = hs[i]
          BY <1>4, <2>1, <3>6, <4>1, ResponderFrame
        <4>4. badTags'[o] > 0
          BY <3>6, <4>1
        <4>5. ResponderMet(i, o)'
          BY <2>2, <4>2, <4>3, <4>4 DEF ResponderMet, spoiled
        <4>6. Inv'
          BY <3>7, <4>1, <4>5
        <4>7. QED
          BY <3>2, <4>1, <4>2, <4>4, <4>6 DEF Final, Touches
      <3>10. QED
        BY <3>5, <3>8, <3>9
    <2>6. QED
      BY <2>4, <2>5
  <1>5. QED
    BY <1>3, <1>4
\* into_cipher preserves the invariant.
LEMMA IntoCipherStep ==
  ASSUME Inv, NEW o \in Object, IntoCipher(o)
  PROVE  Inv' /\ Final
  <1>1. /\ hs[o].state = "Complete"
        /\ cipher' = [cipher EXCEPT ![o] = into_cipher(o, hs[o])]
        /\ hs' = hs /\ fifty' = fifty /\ sixtySix' = sixtySix /\ panicked' = panicked
        /\ badTags' = badTags
    BY DEF IntoCipher
  <1>2. cipher = [p \in Object |-> cipher[p]]
    BY DEF Inv, ShapeInv
  <1>3. /\ cipher' = [p \in Object |-> cipher'[p]]
        /\ cipher'[o] = into_cipher(o, hs[o])
        /\ \A p \in Object : p # o => cipher'[p] = cipher[p]
    BY <1>1, <1>2
  <1>4. ShapeInv'
    BY <1>1, <1>3 DEF Inv, ShapeInv
  <1>5. CipherInv'
    <2>1. ASSUME NEW p \in Object, cipher'[p] # None
          PROVE  hs[p].state = "Complete" /\ cipher'[p] = into_cipher(p, hs[p])
      BY <1>1, <1>3, <2>1 DEF Inv, CipherInv
    <2>2. \A p \in Object : into_cipher(p, hs'[p]) = into_cipher(p, hs[p])
      BY <1>1
    <2>3. QED
      BY <1>1, <2>1, <2>2 DEF CipherInv
  <1>6. \A i \in Initiators, r \in Responders :
          /\ InitiatorDone(i, r) => InitiatorDone(i, r)'
          /\ ResponderMet(i, r) => ResponderMet(i, r)'
    BY <1>1 DEF InitiatorDone, ResponderMet
  <1>7. InitiatorInv' /\ ResponderInv'
    BY <1>1, <1>6 DEF Inv, InitiatorInv, InitiatorEarly, ResponderInv, ResponderEarly
  <1>8. FiftyInv' /\ SixtySixInv'
    BY <1>1, <1>6 DEF Inv, FiftyInv, SixtySixInv
  <1>9. QED
    BY <1>1, <1>4, <1>5, <1>7, <1>8 DEF Inv, Final

------------------------------------------------------------------------------
(* The theorems.                                                            *)

\* The initial state satisfies the invariant.
LEMMA InitInv ==
  ASSUME Init
  PROVE  Inv
  <1>1. /\ hs = [o \in Object |-> IF o \in Initiators THEN new_initiator(o)
                                                       ELSE new_responder(o)]
        /\ cipher = [o \in Object |-> None] /\ badTags = [o \in Object |-> 0]
        /\ fifty = {} /\ sixtySix = {} /\ panicked = FALSE
    BY DEF Init
  <1>2. ShapeInv
    BY <1>1 DEF ShapeInv
  <1>3. InitiatorInv
    <2>1. \A i \in Initiators : hs[i] = new_initiator(i) /\ badTags[i] = 0
      BY <1>1, Roles
    <2>2. QED
      BY <2>1 DEF InitiatorInv, InitiatorEarly
  <1>4. ResponderInv
    <2>1. \A r \in Responders : hs[r] = new_responder(r) /\ badTags[r] = 0
      BY <1>1, Roles
    <2>2. QED
      BY <2>1 DEF ResponderInv, ResponderEarly
  <1>5. FiftyInv /\ SixtySixInv
    BY <1>1 DEF FiftyInv, SixtySixInv
  <1>6. CipherInv
    BY <1>1 DEF CipherInv
  <1>7. QED
    BY <1>1, <1>2, <1>3, <1>4, <1>5, <1>6 DEF Inv

\* Every step preserves the invariant, and leaves a value with a failed tag where it
\* is.
LEMMA NextStep ==
  ASSUME Inv, [Next]_vars
  PROVE  Inv' /\ Final
  <1>1. CASE Next
    <2>1. PICK o \in Object :
            \/ GetActOne(o)
            \/ \E m \in Arriving50 : ProcessActOne(o, m) \/ ProcessActTwo(o, m)
            \/ \E m \in Arriving66 : ProcessActThree(o, m)
            \/ IntoCipher(o)
      BY <1>1 DEF Next
    <2>2. CASE GetActOne(o)
      BY <2>2, GetActOneStep
    <2>3. CASE \E m \in Arriving50 : ProcessActOne(o, m) \/ ProcessActTwo(o, m)
      BY <2>3, ProcessActOneStep, ProcessActTwoStep
    <2>4. CASE \E m \in Arriving66 : ProcessActThree(o, m)
      BY <2>4, ProcessActThreeStep
    <2>5. CASE IntoCipher(o)
      BY <2>5, IntoCipherStep
    <2>6. QED
      BY <2>1, <2>2, <2>3, <2>4, <2>5
  <1>2. CASE UNCHANGED vars
    <2>1. /\ hs' = hs /\ cipher' = cipher /\ fifty' = fifty /\ sixtySix' = sixtySix
          /\ panicked' = panicked /\ badTags' = badTags
      BY <1>2 DEF vars
    <2>2. \A i \in Initiators, r \in Responders :
            /\ InitiatorDone(i, r) => InitiatorDone(i, r)'
            /\ ResponderMet(i, r) => ResponderMet(i, r)'
      BY <2>1 DEF InitiatorDone, ResponderMet
    <2>3. InitiatorInv' /\ ResponderInv'
      BY <2>1, <2>2 DEF Inv, InitiatorInv, InitiatorEarly, ResponderInv, ResponderEarly
    <2>4. FiftyInv' /\ SixtySixInv'
      BY <2>1, <2>2 DEF Inv, FiftyInv, SixtySixInv
    <2>5. CipherInv'
      BY <2>1 DEF Inv, CipherInv, into_cipher, get_final_keys
    <2>6. ShapeInv'
      BY <2>1 DEF Inv, ShapeInv
    <2>7. QED
      BY <2>1, <2>3, <2>4, <2>5, <2>6 DEF Inv, Final
  <1>3. QED
    BY <1>1, <1>2

\* In every reachable state each value's fields are those of an honest run with its
\* partner, or the value has a failed tag; and so is every message under way.
THEOREM Invariance == Spec => []Inv
  <1>1. Init => Inv
    BY InitInv
  <1>2. Inv /\ [Next]_vars => Inv'
    BY NextStep
  <1>3. QED
    BY <1>1, <1>2, PTL DEF Spec

\* No expect() of handshake.rs meets a None, whatever calls are made on however many
\* values in whatever order.
THEOREM NeverPanics == Spec => []PanicsUnreachable
  <1>1. Inv => PanicsUnreachable
    BY DEF Inv, PanicsUnreachable
  <1>2. QED
    BY <1>1, Invariance, PTL

\* A failed tag is final: after one, no call of process_act_one, _two or _three
\* brings the value any further.
THEOREM BadTagStays == Spec => BadTagIsFinal
  <1>1. Inv /\ [Next]_vars =>
          [\A o \in Object :
             badTags[o] > 0 => badTags'[o] > 0 /\ hs'[o].state = hs[o].state]_vars
    BY NextStep DEF Final
  <1>2. QED
    BY <1>1, Invariance, PTL DEF Spec, BadTagIsFinal
\* What a completed initiator or responder holds.
LEMMA CompletedFields ==
  ASSUME Inv
  PROVE  /\ \A i \in Initiators : Complete(i) =>
              \E r \in Responders :
                /\ InitiatorDone(i, r) /\ ResponderMet(i, r)
                /\ hs[i] = Fields("Complete", Key(1, Chain3(i, r)), Hash3(i, r),
                                  Expected[i], r, Key(2, Chain2(i, r)))
         /\ \A r \in Responders : Complete(r) =>
              \E i \in Initiators :
                /\ InitiatorDone(i, r) /\ ResponderMet(i, r)
                /\ hs[r] = Fields("Complete", Key(1, Chain3(i, r)), Hash3(i, r), Static[i],
                                  i, Key(2, Chain2(i, r)))
  <1>1. ASSUME NEW i \in Initiators, Complete(i)
        PROVE  \E r \in Responders :
                /\ InitiatorDone(i, r) /\ ResponderMet(i, r)
                /\ hs[i] = Fields("Complete", Key(1, Chain3(i, r)), Hash3(i, r),
                                  Expected[i], r, Key(2, Chain2(i, r)))
    BY <1>1, InitiatorStates DEF Complete, InitiatorDone
  <1>2. ASSUME NEW r \in Responders, Complete(r)
        PROVE  \E i \in Initiators :
                /\ InitiatorDone(i, r) /\ ResponderMet(i, r)
                /\ hs[r] = Fields("Complete", Key(1, Chain3(i, r)), Hash3(i, r), Static[i],
                                  i, Key(2, Chain2(i, r)))
    <2>1. PICK i \in Initiators : ResponderMet(i, r)
      BY <1>2, ResponderStates DEF Complete
    <2>2. \A ck, h, rs, re, k2 :
            Fields("ResponderAwaitingActThree", ck, h, rs, re, k2).state
              = "ResponderAwaitingActThree"
      BY DEF Fields
    <2>3. QED
      BY <1>2, <2>1, <2>2 DEF ResponderMet, Complete
  <1>3. QED
    BY <1>1, <1>2

\* An initiator that completes has met a responder that holds the key it was told to
\* reach and took its own act one: process_act_two accepts nothing else.
THEOREM ReachesExpected == Spec => []ResponderIsExpected
  <1>1. ASSUME Inv PROVE ResponderIsExpected
    <2>1. ASSUME NEW i \in Initiators, Complete(i)
          PROVE  \E r \in Responders : /\ Partners(i, r) /\ Static[r] = Expected[i]
                                       /\ hs[r].temp_k2 = hs[i].temp_k2
      <3>1. PICK r \in Responders :
              /\ ResponderMet(i, r)
              /\ hs[i] = Fields("Complete", Key(1, Chain3(i, r)), Hash3(i, r),
                                Expected[i], r, Key(2, Chain2(i, r)))
        BY <1>1, <2>1, CompletedFields
      <3>2. hs[i].remote_ephemeral = r /\ hs[i].temp_k2 = Key(2, Chain2(i, r))
        BY <3>1 DEF Fields
      <3>3. /\ hs[r].remote_ephemeral = i /\ hs[r].temp_k2 = Key(2, Chain2(i, r))
            /\ Static[r] = Expected[i]
        BY <3>1 DEF ResponderMet, Fields
      <3>4. QED
        BY <3>2, <3>3 DEF Partners
    <2>2. QED
      BY <2>1 DEF ResponderIsExpected
  <1>2. QED
    BY <1>1, Invariance, PTL

\* A responder that completes has met an initiator that meant it and has completed;
\* it has learned that initiator's static key, and both hold the same transcript and
\* chaining key: process_act_three accepts nothing else.
THEOREM LearnsInitiator == Spec => []InitiatorIsKnown
  <1>1. ASSUME Inv PROVE InitiatorIsKnown
    <2>1. ASSUME NEW r \in Responders, Complete(r)
          PROVE  \E i \in Initiators :
                   /\ Complete(i) /\ Partners(i, r) /\ hs[r].remote_static = Static[i]
                   /\ Expected[i] = Static[r] /\ hs[i].h = hs[r].h /\ hs[i].ck = hs[r].ck
      <3>1. PICK i \in Initiators :
              /\ InitiatorDone(i, r) /\ ResponderMet(i, r)
              /\ hs[r] = Fields("Complete", Key(1, Chain3(i, r)), Hash3(i, r), Static[i], i,
                                Key(2, Chain2(i, r)))
        BY <1>1, <2>1, CompletedFields
      <3>2. /\ hs[r].remote_ephemeral = i /\ hs[r].remote_static = Static[i]
            /\ hs[r].h = Hash3(i, r) /\ hs[r].ck = Key(1, Chain3(i, r))
        BY <3>1 DEF Fields
      <3>3. /\ hs[i].remote_ephemeral = r /\ hs[i].state = "Complete"
            /\ hs[i].h = Hash3(i, r) /\ hs[i].ck = Key(1, Chain3(i, r))
        BY <3>1 DEF InitiatorDone, Fields
      <3>4. Expected[i] = Static[r]
        BY <3>1 DEF ResponderMet
      <3>5. QED
        BY <3>2, <3>3, <3>4 DEF Partners, Complete
    <2>2. QED
      BY <2>1 DEF InitiatorIsKnown
  <1>2. QED
    BY <1>1, Invariance, PTL

\* The chain that the two final keys of a run are derived from.
ChainEnd(i, r) == <<ecdh(i, Expected[i]), ecdh(i, r), ecdh(Static[i], r), {}>>

\* It names the two ends.
LEMMA ChainEndNames ==
  ASSUME NEW i \in Initiators, NEW r \in Responders, NEW j \in Initiators,
         NEW q \in Responders, NEW x, NEW y, Key(x, ChainEnd(i, r)) = Key(y, ChainEnd(j, q))
  PROVE  x = y /\ i = j /\ r = q
  <1>1. x = y /\ ChainEnd(i, r) = ChainEnd(j, q)
    BY DEF Key
  <1>2. ChainEnd(i, r)[2] = ecdh(i, r) /\ ChainEnd(j, q)[2] = ecdh(j, q)
    BY DEF ChainEnd
  <1>3. {i, r} = {j, q}
    BY <1>1, <1>2 DEF ecdh
  <1>4. i # q /\ j # r
    BY Roles
  <1>5. QED
    BY <1>1, <1>3, <1>4

\* The cipher of the end that sends with the given output of the last derivation.
Ends(out, i, r) ==
  [send_key |-> Key(out, ChainEnd(i, r)), recv_key |-> Key(3 - out, ChainEnd(i, r)),
   ck |-> Key(1, Chain3(i, r))]

\* What into_cipher returned to either end of a run.
LEMMA CipherEnds ==
  ASSUME Inv, NEW o \in Object, cipher[o] # None
  PROVE  \E i \in Initiators, r \in Responders :
           \/ o = i /\ hs[o].remote_ephemeral = r /\ cipher[o] = Ends(1, i, r)
           \/ o = r /\ hs[o].remote_ephemeral = i /\ cipher[o] = Ends(2, i, r)
  <1>1. Complete(o) /\ cipher[o] = into_cipher(o, hs[o])
    BY DEF Inv, CipherInv, Complete
  <1>2. ASSUME NEW i \in Initiators, NEW r \in Responders, hs[o].ck = Key(1, Chain3(i, r))
        PROVE  cipher[o] = IF o \in Initiators THEN Ends(1, i, r) ELSE Ends(2, i, r)
    <2> DEFINE k == hkdf_two_keys(hs[o].ck, {})
               empty == {}
    <2>1. Append(Chain3(i, r), {}) = ChainEnd(i, r)
      BY AppendTerm3, Zenon DEF Chain3, ChainEnd
    <2>2. k[1] = Key(1, ChainEnd(i, r)) /\ k[2] = Key(2, ChainEnd(i, r))
      <3> HIDE DEF empty
      <3>1. /\ hkdf_two_keys(hs[o].ck, empty)[1] = Key(1, Append(Chain3(i, r), empty))
            /\ hkdf_two_keys(hs[o].ck, empty)[2] = Key(2, Append(Chain3(i, r), empty))
        BY <1>2, Derive
      <3>2. QED
        BY <2>1, <3>1 DEF empty
    <2>3. cipher[o] = [send_key |-> get_final_keys(o, hs[o])[1],
                       recv_key |-> get_final_keys(o, hs[o])[2], ck |-> hs[o].ck]
      BY <1>1 DEF into_cipher
    <2>4. get_final_keys(o, hs[o]) = IF o \in Initiators THEN k ELSE <<k[2], k[1]>>
      BY DEF get_final_keys
    <2> HIDE DEF k
    <2>5. CASE o \in Initiators
      BY <1>2, <2>2, <2>3, <2>4, <2>5 DEF Ends
    <2>6. CASE o \notin Initiators
      BY <1>2, <2>2, <2>3, <2>4, <2>6 DEF Ends
    <2>7. QED
      BY <2>5, <2>6
  <1>3. CASE o \in Initiators
    <2>1. PICK r \in Responders :
            hs[o] = Fields("Complete", Key(1, Chain3(o, r)), Hash3(o, r), Expected[o], r,
                           Key(2, Chain2(o, r)))
      BY <1>1, <1>3, CompletedFields
    <2>2. hs[o].remote_ephemeral = r /\ hs[o].ck = Key(1, Chain3(o, r))
      BY <2>1 DEF Fields
    <2>3. QED
      BY <1>2, <1>3, <2>2
  <1>4. CASE o \in Responders
    <2>1. PICK i \in Initiators :
            hs[o] = Fields("Complete", Key(1, Chain3(i, o)), Hash3(i, o), Static[i], i,
                           Key(2, Chain2(i, o)))
      BY <1>1, <1>4, CompletedFields
    <2>2. hs[o].remote_ephemeral = i /\ hs[o].ck = Key(1, Chain3(i, o))
      BY <2>1 DEF Fields
    <2>3. o \notin Initiators
      BY <1>4, Roles
    <2>4. QED
      BY <1>2, <1>4, <2>2, <2>3
  <1>5. QED
    BY <1>3, <1>4 DEF Object

\* The ciphers that into_cipher returns fit each other at the two ends of a run, from
\* one chaining key, and no key is shared with a third value.
THEOREM CiphersFit == Spec => []CiphersMatch
  <1>1. ASSUME Inv PROVE CiphersMatch
    <2>1. SUFFICES ASSUME NEW o \in Object, NEW p \in Object, cipher[o] # None,
                          cipher[p] # None
                   PROVE  /\ cipher[o].send_key = cipher[p].send_key => o = p
                          /\ cipher[o].send_key # cipher[o].recv_key
                          /\ cipher[o].send_key = cipher[p].recv_key <=>
                               hs[o].remote_ephemeral = p /\ hs[p].remote_ephemeral = o
                          /\ cipher[o].send_key = cipher[p].recv_key =>
                               /\ cipher[p].send_key = cipher[o].recv_key
                               /\ cipher[o].ck = cipher[p].ck
      BY DEF CiphersMatch
    <2>2. \A i, r :
            /\ Ends(1, i, r).send_key = Key(1, ChainEnd(i, r))
            /\ Ends(1, i, r).recv_key = Key(2, ChainEnd(i, r))
            /\ Ends(2, i, r).send_key = Key(2, ChainEnd(i, r))
            /\ Ends(2, i, r).recv_key = Key(1, ChainEnd(i, r))
            /\ Ends(1, i, r).ck = Key(1, Chain3(i, r))
            /\ Ends(2, i, r).ck = Key(1, Chain3(i, r))
      BY DEF Ends
    <2>3. PICK i \in Initiators, r \in Responders :
            \/ o = i /\ hs[o].remote_ephemeral = r /\ cipher[o] = Ends(1, i, r)
            \/ o = r /\ hs[o].remote_ephemeral = i /\ cipher[o] = Ends(2, i, r)
      BY <1>1, <2>1, CipherEnds
    <2>4. PICK j \in Initiators, q \in Responders :
            \/ p = j /\ hs[p].remote_ephemeral = q /\ cipher[p] = Ends(1, j, q)
            \/ p = q /\ hs[p].remote_ephemeral = j /\ cipher[p] = Ends(2, j, q)
      BY <1>1, <2>1, CipherEnds
    <2>5. \A x, y : Key(x, ChainEnd(i, r)) = Key(y, ChainEnd(j, q)) =>
                      x = y /\ i = j /\ r = q
      BY ChainEndNames
    <2>6. \A x, y : Key(x, ChainEnd(i, r)) = Key(y, ChainEnd(i, r)) => x = y
      BY ChainEndNames
    <2>7. i # q /\ j # r
      BY Roles
    <2>8. QED
      BY <2>2, <2>3, <2>4, <2>5, <2>6, <2>7
  <1>2. QED
    BY <1>1, Invariance, PTL
\* A fresh responder accepts the act one of an initiator that means to reach it.
LEMMA ActOneAccepted ==
  ASSUME NEW i \in Initiators, NEW r \in Responders, Expected[i] = Static[r]
  PROVE  process_act_one(r, new_responder(r), Act1(i)).outcome = "ok"
  <1> DEFINE s == new_responder(r)
             m == Act1(i)
             chain1 == Append(s.ck.chain, ecdh(Static[r], m.e))
             h1 == Append(s.h, m.e)
  <1>1. s = Fields("ResponderStart", Key(1, <<>>), <<Static[r]>>, None, None, NoKey)
    BY DEF new_responder, initialize_state, Fields, Key
  <1>2. /\ Proper(s) /\ s.state = "ResponderStart" /\ s.remote_static = None
        /\ s.temp_k2 = NoKey /\ s.ck.chain = <<>> /\ s.h = <<Static[r]>>
    BY <1>1 DEF Proper, Fields, Key
  <1>3. m.version = VERSION /\ m.e = i /\ m.c = Seal1(i)
    BY DEF Act1
  <1>4. m.e # Malformed
    BY <1>3, TokenAssumption DEF PubKey, Object
  <1> HIDE DEF s, m
  <1>5. chain1 = Chain1(i) /\ h1 = Bound1(i) /\ Append(h1, m.c) = Hash1(i)
    <2>1. ecdh(Static[r], m.e) = ecdh(i, Expected[i])
      BY <1>3, EcdhCommutes
    <2>2. chain1 = Chain1(i)
      BY <1>2, <2>1, Extend
    <2>3. h1 = Bound1(i)
      BY <1>2, <1>3, Extend
    <2>4. QED
      BY <1>3, <2>2, <2>3, Extend
  <1>6. decrypt_with_ad(Key(2, Chain1(i)), 0, Bound1(i), m.c)
    BY <1>3 DEF decrypt_with_ad, Seal1, encrypt_with_ad
  <1>7. process_act_one(r, s, m) = AfterActOne(r, s, m, chain1, h1)
    <2>1. Proper(s) /\ s.state = "ResponderStart" /\ m.version = VERSION
      BY <1>2, <1>3
    <2>2. chain1 = Append(s.ck.chain, ecdh(Static[r], m.e)) /\ h1 = Append(s.h, m.e)
      OBVIOUS
    <2> HIDE DEF chain1, h1
    <2>3. QED
      BY <1>4, <2>1, <2>2, ActOneTaken
  <1> HIDE DEF chain1, h1
  <1>8. process_act_one(r, s, m) =
          build_act_two(r, Fields("ResponderStart", Key(1, Chain1(i)), Hash1(i), None, i,
                                  NoKey))
    <2>1. s.remote_static = None /\ s.temp_k2 = NoKey
      BY <1>2
    <2>2. QED
      BY <1>3, <1>5, <1>6, <1>7, <2>1 DEF AfterActOne
  <1>9. process_act_one(r, s, m) =
          Returns(Fields("ResponderAwaitingActThree", Key(1, Chain2(i, r)), Hash2(i, r),
                         None, i, Key(2, Chain2(i, r))), "ok", {Act2(i, r)})
    BY <1>8, ActTwoMade
  <1>10. QED
    BY <1>9 DEF Returns, s, m

\* An initiator without a failed tag accepts the act two that answers it.
LEMMA ActTwoAccepted ==
  ASSUME NEW i \in Initiators, NEW r \in Responders, NEW s,
         s = Fields("InitiatorAwaitingActTwo", Key(1, Chain1(i)), Hash1(i), Expected[i],
                    None, NoKey)
  PROVE  process_act_two(i, s, Act2(i, r)).outcome = "ok"
  <1> DEFINE m == Act2(i, r)
             chain1 == Append(s.ck.chain, ecdh(i, m.e))
             h1 == Append(s.h, m.e)
  <1>1. /\ Proper(s) /\ s.state = "InitiatorAwaitingActTwo"
        /\ s.remote_static = Expected[i] /\ s.ck.chain = Chain1(i) /\ s.h = Hash1(i)
    BY DEF Proper, Fields, Key
  <1>2. m.version = VERSION /\ m.e = r /\ m.c = Seal2(i, r)
    BY DEF Act2
  <1>3. m.e # Malformed
    BY <1>2, TokenAssumption DEF PubKey, Object
  <1> HIDE DEF m
  <1>4. chain1 = Chain2(i, r) /\ h1 = Bound2(i, r) /\ Append(h1, m.c) = Hash2(i, r)
    <2>1. chain1 = Chain2(i, r) /\ h1 = Bound2(i, r)
      BY <1>1, <1>2, Extend
    <2>2. QED
      BY <1>2, <2>1, Extend
  <1>5. decrypt_with_ad(Key(2, Chain2(i, r)), 0, Bound2(i, r), m.c)
    BY <1>2 DEF decrypt_with_ad, Seal2, encrypt_with_ad
  <1>6. process_act_two(i, s, m) = AfterActTwo(i, s, m, chain1, h1)
    <2>1. Proper(s) /\ s.state = "InitiatorAwaitingActTwo" /\ m.version = VERSION
      BY <1>1, <1>2
    <2>2. chain1 = Append(s.ck.chain, ecdh(i, m.e)) /\ h1 = Append(s.h, m.e)
      OBVIOUS
    <2> HIDE DEF chain1, h1
    <2>3. QED
      BY <1>3, <2>1, <2>2, ActTwoTaken
  <1> HIDE DEF chain1, h1
  <1>7. process_act_two(i, s, m) =
          build_act_three(i, Fields("InitiatorAwaitingActTwo", Key(1, Chain2(i, r)),
                                    Hash2(i, r), Expected[i], r, Key(2, Chain2(i, r))))
    <2>1. s.remote_static = Expected[i]
      BY <1>1
    <2>2. QED
      BY <1>2, <1>4, <1>5, <1>6, <2>1 DEF AfterActTwo
  <1>8. process_act_two(i, s, m) =
          Returns(Fields("Complete", Key(1, Chain3(i, r)), Hash3(i, r), Expected[i], r,
                         Key(2, Chain2(i, r))), "ok", {Act3(i, r)})
    BY <1>7, ActThreeMade
  <1>9. QED
    BY <1>8 DEF Returns, m

\* A responder without a failed tag accepts the act three of its partner.
LEMMA ActThreeAccepted ==
  ASSUME NEW i \in Initiators, NEW r \in Responders, NEW s,
         s = Fields("ResponderAwaitingActThree", Key(1, Chain2(i, r)), Hash2(i, r), None, i,
                    Key(2, Chain2(i, r)))
  PROVE  process_act_three(r, s, Act3(i, r)).outcome = "ok"
  <1> DEFINE m == Act3(i, r)
  <1>1. m.version = VERSION /\ m.c = Seal3(i, r) /\ m.t = Tag3(i, r)
    BY DEF Act3
  <1> HIDE DEF m
  <1>2. process_act_three(r, s, m) = AfterActThree(r, s, m, Chain3(i, r), Hash3(i, r))
    BY <1>1, ActThreeOpened
  <1>3. decrypt_with_ad(Key(2, Chain3(i, r)), 0, Hash3(i, r), m.t)
    BY <1>1 DEF decrypt_with_ad, Tag3, encrypt_with_ad
  <1>4. QED
    BY <1>2, <1>3 DEF AfterActThree, Returns, m

\* Whatever a value has refused without a failed tag, it accepts the genuine next act
\* of its partner: an early return of process_act_one, _two or _three costs nothing.
THEOREM GenuineAccepted == Spec => []GenuineActAccepted
  <1>1. ASSUME Inv PROVE GenuineActAccepted
    <2>1. SUFFICES ASSUME NEW i \in Initiators, NEW r \in Responders, Expected[i] = Static[r]
          PROVE
            /\ badTags[r] = 0 /\ hs[r].state = "ResponderStart" =>
                 \A m \in fifty : m.e = i => process_act_one(r, hs[r], m).outcome = "ok"
            /\ badTags[i] = 0 /\ hs[i].state = "InitiatorAwaitingActTwo"
               /\ hs[r].remote_ephemeral = i =>
                 \A m \in fifty : m.e = r => process_act_two(i, hs[i], m).outcome = "ok"
            /\ badTags[r] = 0 /\ hs[r].state = "ResponderAwaitingActThree"
               /\ Complete(i) /\ Partners(i, r) =>
                 \E m \in sixtySix : process_act_three(r, hs[r], m).outcome = "ok"
      BY DEF GenuineActAccepted
    <2>2. /\ \A j : Act1(j).e = j
          /\ \A j, q : Act2(j, q).e = q
      BY DEF Act1, Act2
    <2>3. ASSUME badTags[r] = 0, hs[r].state = "ResponderStart", NEW m \in fifty, m.e = i
          PROVE  process_act_one(r, hs[r], m).outcome = "ok"
      <3>1. hs[r] = new_responder(r)
        BY <1>1, <2>3, ResponderStates DEF ResponderEarly
      <3>2. m = Act1(i)
        <4>1. \/ \E j \in Initiators : m = Act1(j)
              \/ \E j \in Initiators, q \in Responders : m = Act2(j, q)
          BY <1>1, <2>3 DEF Inv, FiftyInv
        <4>2. QED
          BY <2>2, <2>3, <4>1, Roles
      <3>3. QED
        BY <2>1, <3>1, <3>2, ActOneAccepted
    <2>4. ASSUME badTags[i] = 0, hs[i].state = "InitiatorAwaitingActTwo",
                 hs[r].remote_ephemeral = i, NEW m \in fifty, m.e = r
          PROVE  process_act_two(i, hs[i], m).outcome = "ok"
      <3>1. hs[i] = Fields("InitiatorAwaitingActTwo", Key(1, Chain1(i)), Hash1(i),
                           Expected[i], None, NoKey)
        BY <1>1, <2>4, InitiatorStates
      <3>2. m = Act2(i, r)
        <4>1. \/ \E j \in Initiators : m = Act1(j)
              \/ \E j \in Initiators, q \in Responders : m = Act2(j, q) /\ ResponderMet(j, q)
          BY <1>1, <2>4 DEF Inv, FiftyInv
        <4>2. PICK j \in Initiators : m = Act2(j, r) /\ ResponderMet(j, r)
          BY <2>2, <2>4, <4>1, Roles
        <4>3. j = i
          BY <1>1, <2>4, <4>2, ResponderStates
        <4>4. QED
          BY <4>2, <4>3
      <3>3. QED
        BY <3>1, <3>2, ActTwoAccepted
    <2>5. ASSUME badTags[r] = 0, hs[r].state = "ResponderAwaitingActThree", Complete(i),
                 Partners(i, r)
          PROVE  \E m \in sixtySix : process_act_three(r, hs[r], m).outcome = "ok"
      <3>1. hs[i].remote_ephemeral = r /\ hs[r].remote_ephemeral = i
        BY <2>5 DEF Partners
      <3>2. Act3(i, r) \in sixtySix
        <4>1. PICK q \in Responders :
                /\ InitiatorDone(i, q)
                /\ hs[i] = Fields("Complete", Key(1, Chain3(i, q)), Hash3(i, q),
                                  Expected[i], q, Key(2, Chain2(i, q)))
          BY <1>1, <2>5, CompletedFields
        <4>2. hs[i].remote_ephemeral = q
          BY <4>1 DEF Fields
        <4>3. QED
          BY <3>1, <4>1, <4>2 DEF InitiatorDone
      <3>3. hs[r] = Fields("ResponderAwaitingActThree", Key(1, Chain2(i, r)), Hash2(i, r),
                           None, i, Key(2, Chain2(i, r)))
        <4>1. PICK j \in Initiators :
                /\ ResponderMet(j, r)
                /\ hs[r] = Fields("ResponderAwaitingActThree", Key(1, Chain2(j, r)),
                                  Hash2(j, r), None, j, Key(2, Chain2(j, r)))
          BY <1>1, <2>5, ResponderWaits
        <4>2. j = i
          BY <1>1, <3>1, <4>1, ResponderStates
        <4>3. QED
          BY <4>1, <4>2
      <3>4. process_act_three(r, hs[r], Act3(i, r)).outcome = "ok"
        BY <3>3, ActThreeAccepted
      <3>5. QED
        BY <3>2, <3>4
    <2>6. QED
      BY <2>3, <2>4, <2>5
  <1>2. QED
    BY <1>1, Invariance, PTL
==============================================================================
