--------------------------- MODULE PeerConnProofs ----------------------------
(***************************************************************************)
(* Proofs about PeerConn: its type invariant, the intact outbound stream,  *)
(* the answers in order, and that it implements InterruptedChannel.        *)
(***************************************************************************)
EXTENDS PeerConn, WellFoundedInduction, TLAPS

------------------------------------------------------------------------------
(* What Keep returns.                                                       *)

\* f is the function that Keep(s, S) computes, up to n.
IsKept(f, s, S, n) ==
  f = [i \in 0..n |-> IF i = 0 THEN <<>>
                      ELSE IF s[i] \in S THEN Append(f[i - 1], s[i]) ELSE f[i - 1]]

\* A set of natural numbers that is not empty has a least element.
LEMMA Least ==
  ASSUME NEW B \in SUBSET Nat, B # {}
  PROVE  \E x \in B : \A y \in B : ~(y < x)
  <1> DEFINE R == {ss \in Nat \X Nat : ss[1] < ss[2]}
  <1>1. IsWellFoundedOn(R, Nat)
    BY NatLessThanWellFounded DEF OpToRel
  <1>2. \A x, y \in Nat : <<x, y>> \in R <=> x < y
    OBVIOUS
  <1> HIDE DEF R
  <1>3. PICK x \in B : \A y \in B : ~(<<y, x>> \in R)
    BY <1>1, WFMin
  <1>4. QED
    BY <1>2, <1>3

\* There is such a function.
LEMMA KeptExists ==
  ASSUME NEW s, NEW S, NEW m \in Nat
  PROVE  \E f : IsKept(f, s, S, m)
  <1> DEFINE B == {n \in Nat : ~\E f : IsKept(f, s, S, n)}
  <1>1. SUFFICES ASSUME B # {} PROVE FALSE
    OBVIOUS
  <1>2. PICK n \in B : \A y \in B : ~(y < n)
    BY <1>1, Least
  <1>3. n \in Nat /\ ~\E f : IsKept(f, s, S, n)
    OBVIOUS
  <1>4. CASE n = 0
    <2> DEFINE f == [i \in 0..0 |-> <<>>]
    <2>1. IsKept(f, s, S, 0)
      BY DEF IsKept
    <2>2. QED
      BY <1>3, <1>4, <2>1
  <1>5. CASE n # 0
    <2>1. n - 1 \in Nat /\ n - 1 < n
      BY <1>3, <1>5
    <2>2. PICK f : IsKept(f, s, S, n - 1)
      BY <1>2, <2>1
    <2> DEFINE g == [i \in 0..n |-> IF i = n
                       THEN IF s[n] \in S THEN Append(f[n - 1], s[n]) ELSE f[n - 1]
                       ELSE f[i]]
    <2>3. \A i \in 0..n : g[i] = IF i = 0 THEN <<>>
                      ELSE IF s[i] \in S THEN Append(g[i - 1], s[i]) ELSE g[i - 1]
      <3>1. ASSUME NEW i \in 0..n
            PROVE  g[i] = IF i = 0 THEN <<>>
                      ELSE IF s[i] \in S THEN Append(g[i - 1], s[i]) ELSE g[i - 1]
        <4>1. CASE i = n
          <5>1. g[i] = IF s[n] \in S THEN Append(f[n - 1], s[n]) ELSE f[n - 1]
            BY <4>1
          <5>2. g[n - 1] = f[n - 1]
            BY <2>1
          <5>3. QED
            BY <1>5, <4>1, <5>1, <5>2
        <4>2. CASE i # n
          <5>1. i \in 0..(n - 1) /\ g[i] = f[i]
            BY <2>1, <4>2
          <5>2. f[i] = IF i = 0 THEN <<>>
                      ELSE IF s[i] \in S THEN Append(f[i - 1], s[i]) ELSE f[i - 1]
            BY <2>2, <5>1 DEF IsKept
          <5>3. i # 0 => g[i - 1] = f[i - 1]
            BY <2>1, <5>1
          <5>4. QED
            BY <5>1, <5>2, <5>3
        <4>3. QED
          BY <4>1, <4>2
      <3>2. QED
        BY <3>1
    <2>4. g = [i \in 0..n |-> g[i]]
      OBVIOUS
    <2> HIDE DEF g
    <2>5. IsKept(g, s, S, n)
      BY <2>3, <2>4 DEF IsKept
    <2>6. QED
      BY <1>3, <2>5
  <1>6. QED
    BY <1>4, <1>5

\* It depends on the elements only.
LEMMA KeptUnique ==
  ASSUME NEW f, NEW g, NEW s, NEW u, NEW S, NEW n \in Nat, NEW m \in Nat, NEW k \in Nat,
         k <= n, k <= m, IsKept(f, s, S, n), IsKept(g, u, S, m),
         \A i \in 1..k : s[i] = u[i]
  PROVE  \A i \in 0..k : f[i] = g[i]
  <1> DEFINE B == {i \in 0..k : f[i] # g[i]}
  <1>1. SUFFICES ASSUME B # {} PROVE FALSE
    OBVIOUS
  <1>2. B \in SUBSET Nat
    OBVIOUS
  <1>3. PICK x \in B : \A y \in B : ~(y < x)
    BY <1>1, <1>2, Least
  <1>4. x \in 0..k /\ f[x] # g[x]
    OBVIOUS
  <1>5. f[x] = IF x = 0 THEN <<>>
               ELSE IF s[x] \in S THEN Append(f[x - 1], s[x]) ELSE f[x - 1]
    <2>1. x \in 0..n
      BY <1>4
    <2>2. QED
      BY <2>1 DEF IsKept
  <1>6. g[x] = IF x = 0 THEN <<>>
               ELSE IF u[x] \in S THEN Append(g[x - 1], u[x]) ELSE g[x - 1]
    <2>1. x \in 0..m
      BY <1>4
    <2>2. QED
      BY <2>1 DEF IsKept
  <1>7. x # 0 => x - 1 \in 0..k /\ x - 1 < x /\ x \in 1..k
    BY <1>4
  <1>8. x # 0 => f[x - 1] = g[x - 1]
    BY <1>3, <1>7
  <1>9. QED
    BY <1>4, <1>5, <1>6, <1>7, <1>8

\* Keep is the last value of such a function.
LEMMA KeepIs ==
  ASSUME NEW s, NEW S, Len(s) \in Nat
  PROVE  \E f : IsKept(f, s, S, Len(s)) /\ Keep(s, S) = f[Len(s)]
  <1> DEFINE f == CHOOSE g : IsKept(g, s, S, Len(s))
  <1>1. IsKept(f, s, S, Len(s))
    BY KeptExists
  <1>2. Keep(s, S) = f[Len(s)]
    BY Zenon DEF Keep, IsKept
  <1> HIDE DEF f
  <1>3. QED
    BY <1>1, <1>2

\* A new last element is kept or left out.
LEMMA KeepAppend ==
  ASSUME NEW T, NEW S, NEW s \in Seq(T), NEW m \in T
  PROVE  Keep(Append(s, m), S) = IF m \in S THEN Append(Keep(s, S), m) ELSE Keep(s, S)
  <1> DEFINE u == Append(s, m)
             n == Len(s)
  <1>1. n \in Nat /\ Len(u) = n + 1 /\ u[n + 1] = m /\ \A i \in 1..n : s[i] = u[i]
    OBVIOUS
  <1> HIDE DEF u, n
  <1>2. PICK f : IsKept(f, s, S, n) /\ Keep(s, S) = f[n]
    BY <1>1, KeepIs DEF n
  <1>3. PICK g : IsKept(g, u, S, n + 1) /\ Keep(u, S) = g[n + 1]
    <2>1. Len(u) \in Nat
      BY <1>1
    <2>2. PICK g : IsKept(g, u, S, Len(u)) /\ Keep(u, S) = g[Len(u)]
      BY <2>1, KeepIs
    <2>3. QED
      BY <1>1, <2>2
  <1>4. f[n] = g[n]
    <2>1. PICK o \in Nat : o = n + 1
      BY <1>1
    <2>2. n <= n /\ n <= o /\ n \in 0..n
      BY <1>1, <2>1
    <2>3. IsKept(g, u, S, o)
      BY <1>3, <2>1
    <2>4. \A i \in 0..n : f[i] = g[i]
      <3>1. n \in Nat /\ n <= n /\ n <= o /\ o \in Nat /\ \A i \in 1..n : s[i] = u[i]
        BY <1>1, <2>1, <2>2
      <3>2. IsKept(f, s, S, n) /\ IsKept(g, u, S, o)
        BY <1>2, <2>3
      <3>3. QED
        BY ONLY <3>1, <3>2, KeptUnique, SMTT(40)
    <2>5. QED
      BY <2>2, <2>4
  <1>5. g[n + 1] = IF m \in S THEN Append(g[n], m) ELSE g[n]
    <2>1. n + 1 \in 0..(n + 1) /\ n + 1 # 0 /\ (n + 1) - 1 = n
      BY <1>1
    <2>2. g[n + 1] = IF u[n + 1] \in S THEN Append(g[(n + 1) - 1], u[n + 1])
                                       ELSE g[(n + 1) - 1]
      BY <1>3, <2>1 DEF IsKept
    <2>3. QED
      BY <1>1, <2>1, <2>2
  <1>6. QED
    BY <1>2, <1>3, <1>4, <1>5 DEF u

\* What is kept is a sequence of the same elements, all of them in S.
LEMMA KeepType ==
  ASSUME NEW T, NEW S, NEW s \in Seq(T)
  PROVE  Keep(s, S) \in Seq(T \cap S)
  <1> DEFINE n == Len(s)
             U == Seq(T \cap S)
  <1>1. n \in Nat /\ \A i \in 1..n : s[i] \in T
    OBVIOUS
  <1>2. <<>> \in U /\ \A t \in U, x \in T \cap S : Append(t, x) \in U
    OBVIOUS
  <1> HIDE DEF n, U
  <1>3. PICK f : IsKept(f, s, S, n) /\ Keep(s, S) = f[n]
    BY <1>1, KeepIs DEF n
  <1> DEFINE B == {i \in 0..n : f[i] \notin U}
  <1>4. ASSUME B # {} PROVE FALSE
    <2>1. B \in SUBSET Nat
      BY <1>1
    <2>2. PICK x \in B : \A y \in B : ~(y < x)
      BY <1>4, <2>1, Least
    <2>3. x \in 0..n /\ f[x] \notin U
      OBVIOUS
    <2>4. f[x] = IF x = 0 THEN <<>>
                 ELSE IF s[x] \in S THEN Append(f[x - 1], s[x]) ELSE f[x - 1]
      BY <1>3, <2>3 DEF IsKept
    <2>5. x # 0 => x - 1 \in 0..n /\ x - 1 < x /\ x \in 1..n
      BY <1>1, <2>3
    <2>6. x # 0 => f[x - 1] \in U /\ s[x] \in T
      BY <1>1, <2>2, <2>5
    <2>7. QED
      BY <1>2, <2>3, <2>4, <2>6
  <1>5. f[n] \in U
    BY <1>1, <1>4
  <1>6. QED
    BY <1>3, <1>5 DEF U

\* What Append returns.
LEMMA AppendElements ==
  ASSUME NEW T, NEW s \in Seq(T), NEW x \in T
  PROVE  /\ Append(s, x) \in Seq(T) /\ Len(s) \in Nat /\ Len(Append(s, x)) = Len(s) + 1
         /\ Append(s, x)[Len(s) + 1] = x
         /\ \A i \in 1..Len(s) : Append(s, x)[i] = s[i] /\ s[i] \in T
  OBVIOUS

\* What is in S is kept.
LEMMA KeepMember ==
  ASSUME NEW T, NEW S, NEW s \in Seq(T), NEW i \in 1..Len(s), s[i] \in S
  PROVE  \E j \in 1..Len(Keep(s, S)) : Keep(s, S)[j] = s[i]
  <1> DEFINE n == Len(s)
             U == Seq(T)
             Has(t) == \E j \in 1..Len(t) : t[j] = s[i]
  <1>1. n \in Nat /\ i \in 1..n /\ \A k \in 1..n : s[k] \in T
    OBVIOUS
  <1>2. <<>> \in U /\ \A t \in U, x \in T : Append(t, x) \in U
    OBVIOUS
  <1>3. \A t \in U, x \in T : Has(t) \/ x = s[i] => Has(Append(t, x))
    <2>1. SUFFICES ASSUME NEW t \in U, NEW x \in T, Has(t) \/ x = s[i]
                   PROVE  Has(Append(t, x))
      OBVIOUS
    <2>2. /\ Len(t) \in Nat /\ Len(Append(t, x)) = Len(t) + 1
          /\ Append(t, x)[Len(t) + 1] = x /\ \A k \in 1..Len(t) : Append(t, x)[k] = t[k]
      BY AppendElements
    <2>3. CASE Has(t)
      <3>1. PICK k \in 1..Len(t) : t[k] = s[i]
        BY <2>3
      <3>2. k \in 1..Len(Append(t, x)) /\ Append(t, x)[k] = s[i]
        BY <2>2, <3>1
      <3>3. QED
        BY <3>2
    <2>4. CASE x = s[i]
      <3>1. Len(t) + 1 \in 1..Len(Append(t, x)) /\ Append(t, x)[Len(t) + 1] = s[i]
        BY <2>2, <2>4
      <3>2. QED
        BY <3>1
    <2>5. QED
      BY <2>1, <2>3, <2>4
  <1>4. PICK f : IsKept(f, s, S, n) /\ Keep(s, S) = f[n]
    BY <1>1, KeepIs
  <1> HIDE DEF n, U, Has
  <1> DEFINE Good(k) == f[k] \in U /\ (k >= i => Has(f[k]))
             B == {k \in 0..n : ~Good(k)}
  <1>5. ASSUME B # {} PROVE FALSE
    <2>1. B \in SUBSET Nat
      BY <1>1
    <2>2. PICK x \in B : \A y \in B : ~(y < x)
      BY <1>5, <2>1, Least
    <2>3. x \in 0..n /\ ~Good(x)
      OBVIOUS
    <2>4. f[x] = IF x = 0 THEN <<>>
                 ELSE IF s[x] \in S THEN Append(f[x - 1], s[x]) ELSE f[x - 1]
      BY <1>4, <2>3 DEF IsKept
    <2>5. CASE x = 0
      BY <1>1, <1>2, <2>3, <2>4, <2>5
    <2>6. CASE x # 0
      <3>1. x - 1 \in 0..n /\ x - 1 < x /\ x \in 1..n
        BY <1>1, <2>3, <2>6
      <3>2. Good(x - 1) /\ s[x] \in T
        BY <1>1, <2>2, <3>1
      <3>3. f[x] \in U
        BY <1>2, <2>4, <2>6, <3>2
      <3>4. ASSUME x >= i PROVE Has(f[x])
        <4>1. CASE x = i
          <5>1. s[x] = s[i] /\ f[x] = Append(f[x - 1], s[x])
            BY <2>4, <2>6, <4>1
          <5>2. QED
            BY <1>3, <3>2, <5>1
        <4>2. CASE x # i
          <5>1. x - 1 >= i
            BY <1>1, <3>1, <3>4, <4>2
          <5>2. Has(f[x - 1])
            BY <3>2, <5>1
          <5>3. QED
            BY <1>3, <2>4, <2>6, <3>2, <5>2
        <4>3. QED
          BY <4>1, <4>2
      <3>5. QED
        BY <2>3, <3>3, <3>4
    <2>7. QED
      BY <2>5, <2>6
  <1>6. n >= i /\ n \in 0..n
    BY <1>1
  <1>7. Has(f[n])
    BY <1>5, <1>6
  <1>8. QED
    BY <1>4, <1>7 DEF Has
------------------------------------------------------------------------------
(* The inductive invariant.                                                 *)

What == {"ping", "pong", "range", "gossip"}
TaskAt == {"select", "lock", "write", "ended", "aborted"}
CommandAt == {"idle", "lock", "write", "sent", "failed"}
Frame == [by : Actor, what : What]
InChunk == [unit : 1..(2 * Len(peerSent)), at : Nat]
OutChunk == [frame : 0..Len(frames), at : Nat]

\* The inbound side: every chunk belongs to a message that the peer has sent.
InShape ==
  /\ peerSent \in Seq(Message) /\ Len(peerSent) <= MaxIn
  /\ inq \in Seq(InChunk) /\ rbuf \in Seq(InChunk)
  /\ closed \in BOOLEAN /\ bytesLost \in BOOLEAN

ReadShape ==
  /\ handled \in Seq(Message \cup {Stray})
  /\ rphase \in {"header", "body"} /\ msg_len \in Nat
  /\ opened \in 0..(2 * Len(peerSent)) /\ ticks \in 0..MaxTicks
  /\ Len(rbuf) < Wanted
  /\ endedBy \in {"", "decrypt", "short", "eof", "write"}

\* A body is expected where the next unit is a header only after a dropped recv call.
StepInv == rphase = "body" /\ opened % 2 = 0 => bytesLost

PcShape ==
  /\ pc \in [Actor -> TaskAt \cup CommandAt]
  /\ pc[Task] \in TaskAt /\ \A c \in Command : pc[c] \in CommandAt

\* The outbound side: every chunk belongs to a frame that has been encrypted.
OutShape ==
  /\ lockq \in Seq(Actor) /\ payload \in [Actor -> What \cup {""}]
  /\ frames \in Seq(Frame)
  /\ wframe \in [Actor -> 0..Len(frames)] /\ wpos \in 0..(FrameChunks - 1)
  /\ out \in Seq(OutChunk) /\ outAll \in Seq(OutChunk)
  /\ Len(out) <= OutCap /\ Len(out) <= Len(outAll)
  /\ \A a \in Actor : pc[a] = "lock" => payload[a] \in What

\* Who wants the writer is in the queue, and who writes is at its head.
LockInv ==
  \A a \in Actor :
    /\ pc[a] \in {"lock", "write"} => \E i \in 1..Len(lockq) : lockq[i] = a
    /\ pc[Task] # "aborted" /\ pc[a] = "write" => lockq[1] = a

\* The chunks written so far are those of the frames in nonce order, and while the
\* connection is up only the frame that is being written is incomplete.
WriteInv ==
  pc[Task] # "aborted" =>
    /\ \A k \in 1..Len(outAll) : outAll[k] = FrameChunk(k)
    /\ ~closed =>
         /\ \A a \in Actor : pc[a] = "write" =>
              /\ wframe[a] = Len(frames)
              /\ Len(outAll) = (Len(frames) - 1) * FrameChunks + wpos
         /\ (\A a \in Actor : pc[a] # "write") => Len(outAll) = Len(frames) * FrameChunks

\* The answer that is due and not given is the one that the task waits to send.
AnswerInv ==
  /\ pc[Task] = "lock" =>
       /\ payload[Task] \in {"ping", "pong", "range"}
       /\ AnswersDue = IF payload[Task] = "ping" THEN AnswersGiven
                                                 ELSE Append(AnswersGiven, payload[Task])
  /\ pc[Task] = "aborted" => IsPrefix(AnswersGiven, AnswersDue)
  /\ pc[Task] \in {"select", "write", "ended"} => AnswersDue = AnswersGiven

\* Until the loop ends, a header is expected where the next unit is a body only after
\* a dropped recv call, and no body was too short.
StreamInv ==
  pc[Task] \in {"select", "lock", "write"} =>
    /\ rphase = "header" /\ opened % 2 = 1 => bytesLost
    /\ endedBy # "short"

Inv ==
  /\ InShape /\ ReadShape /\ StepInv /\ PcShape /\ OutShape
  /\ LockInv /\ WriteInv /\ AnswerInv /\ StreamInv

------------------------------------------------------------------------------
(* Prefixes, answers and chunks.                                            *)

\* A prefix, element by element.
LEMMA PrefixElements ==
  ASSUME NEW T, NEW s \in Seq(T), NEW u \in Seq(T)
  PROVE  IsPrefix(s, u) <=> Len(s) <= Len(u) /\ \A i \in 1..Len(s) : s[i] = u[i]
  <1>1. Len(s) \in Nat /\ Len(u) \in Nat /\ SubSeq(s, 1, Len(s)) = s
    OBVIOUS
  <1>2. ASSUME Len(s) <= Len(u)
        PROVE  s = SubSeq(u, 1, Len(s)) <=> \A i \in 1..Len(s) : s[i] = u[i]
    <2> DEFINE v == SubSeq(u, 1, Len(s))
    <2>1. v \in Seq(T) /\ Len(v) = Len(s) /\ \A i \in 1..Len(s) : v[i] = u[i]
      BY <1>1, <1>2
    <2> HIDE DEF v
    <2>2. (\A i \in 1..Len(s) : s[i] = u[i]) => s = v
      BY <2>1
    <2>3. s = v => \A i \in 1..Len(s) : s[i] = u[i]
      BY <2>1
    <2>4. QED
      BY <2>2, <2>3 DEF v
  <1>3. QED
    BY <1>1, <1>2 DEF IsPrefix

\* A sequence is a prefix of itself and of what is appended to it.
LEMMA PrefixAppend ==
  ASSUME NEW T, NEW s \in Seq(T), NEW x \in T
  PROVE  IsPrefix(s, s) /\ IsPrefix(s, Append(s, x))
         /\ \A u \in Seq(T) : IsPrefix(u, s) => IsPrefix(u, Append(s, x))
  <1> DEFINE v == Append(s, x)
  <1>1. /\ v \in Seq(T) /\ Len(s) \in Nat /\ Len(v) = Len(s) + 1
        /\ \A i \in 1..Len(s) : v[i] = s[i]
    OBVIOUS
  <1> HIDE DEF v
  <1>2. IsPrefix(s, s)
    BY <1>1, PrefixElements
  <1>3. IsPrefix(s, v)
    BY <1>1, PrefixElements
  <1>4. ASSUME NEW u \in Seq(T), IsPrefix(u, s)
        PROVE  IsPrefix(u, v)
    <2>1. Len(u) <= Len(s) /\ \A i \in 1..Len(u) : u[i] = s[i]
      BY <1>4, PrefixElements
    <2>2. Len(u) \in Nat
      OBVIOUS
    <2>3. Len(u) <= Len(v) /\ \A i \in 1..Len(u) : u[i] = v[i]
      BY <1>1, <2>1, <2>2
    <2>4. QED
      BY <1>1, <2>3, PrefixElements
  <1>5. QED
    BY <1>2, <1>3, <1>4 DEF v

\* The answers that a message may call for.
LEMMA AnswerType == \A m : Answer(m) \in {"", "pong", "range"}
  BY DEF Answer

\* Another frame adds an answer if the task sends one.
LEMMA GivenNext ==
  ASSUME frames \in Seq(Frame), NEW a \in Actor, NEW w \in What,
         frames' = Append(frames, [by |-> a, what |-> w])
  PROVE  AnswersGiven' = IF a = Task /\ w \in {"pong", "range"}
                           THEN Append(AnswersGiven, w) ELSE AnswersGiven
  <1> DEFINE n == Len(frames)
             V(f) == IF f.by = Task THEN f.what ELSE ""
             g == [i \in 1..n |-> V(frames[i])]
             h == [i \in 1..Len(frames') |-> V(frames'[i])]
             x == [by |-> a, what |-> w]
             T == What \cup {""}
  <1>1. x \in Frame /\ V(x) \in T
    BY DEF What, Frame
  <1>2. /\ n \in Nat /\ Len(frames') = n + 1 /\ frames'[n + 1] = x
        /\ \A i \in 1..n : frames'[i] = frames[i] /\ frames[i] \in Frame
    <2>1. frames' = Append(frames, x) /\ x \in Frame /\ frames \in Seq(Frame)
      BY <1>1
    <2> HIDE DEF x
    <2>2. QED
      BY ONLY <2>1, AppendElements DEF n
  <1>3. \A i \in 1..n : V(frames[i]) \in T
    BY <1>2 DEF What, Frame
  <1>4. V(x) = IF a = Task THEN w ELSE ""
    OBVIOUS
  <1> HIDE DEF x, V, T
  <1>5. g \in Seq(T) /\ h = Append(g, V(x))
    <2>1. g \in [1..n -> T] /\ \A i \in 1..n : g[i] = V(frames[i])
      BY <1>3
    <2>2. h = [i \in 1..(n + 1) |-> V(frames'[i])] /\ \A i \in 1..(n + 1) : h[i] = V(frames'[i])
      BY <1>2
    <2>3. \A i \in 1..n : h[i] = g[i]
      BY <1>2, <2>1, <2>2
    <2>4. h[n + 1] = V(x)
      BY <1>2, <2>2
    <2>5. DOMAIN h = 1..(n + 1) /\ h = [i \in 1..(n + 1) |-> h[i]]
      BY <2>2
    <2> HIDE DEF g, h
    <2>6. g \in Seq(T) /\ Len(g) = n
      BY <1>2, <2>1
    <2>7. h \in [1..(n + 1) -> T]
      BY <1>1, <1>2, <1>3, <2>2
    <2>8. h \in Seq(T) /\ Len(h) = n + 1
      BY <1>2, <2>7
    <2>9. \A i \in 1..(n + 1) : h[i] = Append(g, V(x))[i]
      BY <1>1, <1>2, <2>3, <2>4, <2>6
    <2>10. Append(g, V(x)) \in Seq(T) /\ Len(Append(g, V(x))) = n + 1
      BY <1>1, <2>6
    <2>11. QED
      BY <2>6, <2>8, <2>9, <2>10
  <1>6. AnswersGiven = Keep(g, {"pong", "range"}) /\ AnswersGiven' = Keep(h, {"pong", "range"})
    BY DEF AnswersGiven, V
  <1> HIDE DEF g, h
  <1>7. Keep(h, {"pong", "range"}) =
          IF V(x) \in {"pong", "range"} THEN Append(AnswersGiven, V(x)) ELSE AnswersGiven
    BY <1>1, <1>5, <1>6, KeepAppend
  <1>8. QED
    BY <1>4, <1>6, <1>7

\* Another message adds an answer if it calls for one.
LEMMA DueNext ==
  ASSUME handled \in Seq(Message \cup {Stray}), NEW m \in Message \cup {Stray},
         handled' = Append(handled, m)
  PROVE  AnswersDue' = IF Answer(m) = "" THEN AnswersDue ELSE Append(AnswersDue, Answer(m))
  <1> DEFINE n == Len(handled)
             g == [i \in 1..n |-> Answer(handled[i])]
             h == [i \in 1..Len(handled') |-> Answer(handled'[i])]
             T == {"", "pong", "range"}
  <1>1. /\ n \in Nat /\ Len(handled') = n + 1 /\ handled'[n + 1] = m
        /\ \A i \in 1..n : handled'[i] = handled[i]
    BY AppendElements
  <1>2. \A x : Answer(x) \in T
    BY AnswerType
  <1> HIDE DEF T
  <1>3. g \in Seq(T) /\ h = Append(g, Answer(m))
    <2>1. g \in [1..n -> T] /\ \A i \in 1..n : g[i] = Answer(handled[i])
      BY <1>2
    <2>2. h \in [1..(n + 1) -> T] /\ \A i \in 1..(n + 1) : h[i] = Answer(handled'[i])
      BY <1>1, <1>2
    <2>3. (\A i \in 1..n : h[i] = g[i]) /\ h[n + 1] = Answer(m)
      BY <1>1, <2>1, <2>2
    <2> HIDE DEF g, h
    <2>4. g \in Seq(T) /\ Len(g) = n
      BY <1>1, <2>1
    <2>5. h \in Seq(T) /\ Len(h) = n + 1
      BY <1>1, <2>2
    <2>6. Append(g, Answer(m)) \in Seq(T) /\ Len(Append(g, Answer(m))) = n + 1
          /\ \A i \in 1..(n + 1) : h[i] = Append(g, Answer(m))[i]
      BY <1>1, <1>2, <2>3, <2>4
    <2>7. QED
      BY <2>4, <2>5, <2>6
  <1>4. AnswersDue = Keep(g, {"pong", "range"}) /\ AnswersDue' = Keep(h, {"pong", "range"})
    BY DEF AnswersDue
  <1> HIDE DEF g, h
  <1>5. Keep(h, {"pong", "range"}) =
          IF Answer(m) \in {"pong", "range"} THEN Append(AnswersDue, Answer(m)) ELSE AnswersDue
    BY <1>2, <1>3, <1>4, KeepAppend
  <1>6. QED
    BY <1>2, <1>4, <1>5 DEF T

\* What is given and what is due.
LEMMA AnswersType ==
  /\ frames \in Seq(Frame) => AnswersGiven \in Seq(What)
  /\ handled \in Seq(Message \cup {Stray}) => AnswersDue \in Seq(What)
  <1> DEFINE T == What \cup {""}
  <1>1. ASSUME NEW s \in Seq(T)
        PROVE  Keep(s, {"pong", "range"}) \in Seq(What)
    <2>1. Keep(s, {"pong", "range"}) \in Seq(T \cap {"pong", "range"})
      BY <1>1, KeepType
    <2>2. T \cap {"pong", "range"} \subseteq What
      BY DEF What
    <2> HIDE DEF T
    <2>3. QED
      BY <2>1, <2>2
  <1>2. ASSUME frames \in Seq(Frame)
        PROVE  AnswersGiven \in Seq(What)
    <2> DEFINE g == [i \in 1..Len(frames) |-> IF frames[i].by = Task THEN frames[i].what ELSE ""]
    <2>1. Len(frames) \in Nat /\ \A i \in 1..Len(frames) : frames[i] \in Frame
      BY <1>2
    <2>2. g \in [1..Len(frames) -> T]
      BY <2>1 DEF Frame
    <2>3. AnswersGiven = Keep(g, {"pong", "range"})
      BY DEF AnswersGiven
    <2> HIDE DEF g, T
    <2>4. g \in Seq(T)
      BY <2>1, <2>2
    <2>5. QED
      BY <1>1, <2>3, <2>4
  <1>3. ASSUME handled \in Seq(Message \cup {Stray})
        PROVE  AnswersDue \in Seq(What)
    <2> DEFINE g == [i \in 1..Len(handled) |-> Answer(handled[i])]
    <2>1. Len(handled) \in Nat
      BY <1>3
    <2>2. g \in [1..Len(handled) -> T]
      BY AnswerType DEF What
    <2>3. AnswersDue = Keep(g, {"pong", "range"})
      BY DEF AnswersDue
    <2> HIDE DEF g, T
    <2>4. g \in Seq(T)
      BY <2>1, <2>2
    <2>5. QED
      BY <1>1, <2>3, <2>4
  <1>4. QED
    BY <1>2, <1>3

\* The chunk that follows n whole frames and w chunks.
LEMMA NextChunk ==
  ASSUME NEW n \in Nat, NEW w \in 0..(FrameChunks - 1)
  PROVE  FrameChunk(n * FrameChunks + w + 1) = [frame |-> n + 1, at |-> w + 1]
  <1>1. FrameChunks \in Nat \ {0}
    BY ChunksAssumption
  <1>2. \A q \in Nat, d \in Nat \ {0} : \A r \in 0..(d - 1) :
          (q * d + r) \div d = q /\ (q * d + r) % d = r
    OBVIOUS
  <1>3. (n * FrameChunks + w) \div FrameChunks = n /\ (n * FrameChunks + w) % FrameChunks = w
    BY <1>1, <1>2
  <1>4. (n * FrameChunks + w + 1) - 1 = n * FrameChunks + w
    BY <1>1
  <1>5. QED
    BY <1>3, <1>4 DEF FrameChunk

------------------------------------------------------------------------------
(* What a step leaves alone.                                                *)

\* The inbound side.
LEMMA SameInShape ==
  ASSUME InShape, peerSent' = peerSent, inq' = inq, rbuf' = rbuf, closed' \in BOOLEAN,
         bytesLost' = bytesLost
  PROVE  InShape'
  BY DEF InShape, InChunk

\* The reader.
LEMMA SameReadShape ==
  ASSUME ReadShape, StepInv, peerSent' = peerSent, handled' = handled, rphase' = rphase,
         msg_len' = msg_len, opened' = opened, ticks' = ticks, rbuf' = rbuf,
         bytesLost' = bytesLost, endedBy' \in {"", "decrypt", "short", "eof", "write"}
  PROVE  ReadShape' /\ StepInv'
  BY DEF ReadShape, StepInv, Wanted

\* The writer; nobody new waits for the lock.
LEMMA SameOutShape ==
  ASSUME OutShape, lockq' = lockq, payload' = payload, frames' = frames, wframe' = wframe,
         wpos' = wpos, out' = out, outAll' = outAll,
         \A a \in Actor : pc'[a] = "lock" => pc[a] = "lock"
  PROVE  OutShape'
  BY DEF OutShape, OutChunk

\* The queue for the lock.
LEMMA SameLockInv ==
  ASSUME LockInv, lockq' = lockq, pc' = pc
  PROVE  LockInv'
  BY DEF LockInv

\* The peer may close the connection, or an actor that does not write goes elsewhere.
LEMMA SameWriteInv ==
  ASSUME WriteInv, outAll' = outAll, wframe' = wframe, frames' = frames, wpos' = wpos,
         closed => closed', pc'[Task] # "aborted" => pc[Task] # "aborted",
         \A a \in Actor : (pc'[a] = "write") = (pc[a] = "write")
  PROVE  WriteInv'
  BY DEF WriteInv, FrameChunk

\* The answers.
LEMMA SameAnswerInv ==
  ASSUME AnswerInv, frames' = frames, handled' = handled,
         pc'[Task] = pc[Task], payload'[Task] = payload[Task]
  PROVE  AnswerInv'
  <1>1. AnswersDue' = AnswersDue /\ AnswersGiven' = AnswersGiven
    BY DEF AnswersDue, AnswersGiven
  <1>2. QED
    BY <1>1 DEF AnswerInv

\* Where the reader is in the stream.
LEMMA SameStreamInv ==
  ASSUME StreamInv, rphase' = rphase, opened' = opened, bytesLost' = bytesLost,
         endedBy' = endedBy,
         pc'[Task] \in {"select", "lock", "write"} => pc[Task] \in {"select", "lock", "write"}
  PROVE  StreamInv'
  BY DEF StreamInv

\* The actors.
LEMMA Actors == Task \in Actor /\ \A c \in Command : c \in Actor /\ c # Task
  BY ActorAssumption DEF Actor

\* One actor goes to q.
LEMMA Goes ==
  ASSUME PcShape, NEW a \in Actor, NEW q, pc' = [pc EXCEPT ![a] = q],
         q \in IF a = Task THEN TaskAt ELSE CommandAt
  PROVE  PcShape' /\ pc'[a] = q /\ \A b \in Actor : b # a => pc'[b] = pc[b]
  <1>1. pc'[a] = q /\ \A b \in Actor : b # a => pc'[b] = pc[b]
    BY DEF PcShape
  <1>2. pc' \in [Actor -> TaskAt \cup CommandAt]
    BY DEF PcShape
  <1>3. pc'[Task] \in TaskAt /\ \A c \in Command : pc'[c] \in CommandAt
    BY <1>1, Actors DEF PcShape
  <1>4. QED
    BY <1>1, <1>2, <1>3 DEF PcShape

------------------------------------------------------------------------------
(* One lemma for each step.                                                 *)

\* PeerClose
LEMMA CloseStep ==
  ASSUME Inv, PeerClose
  PROVE  Inv'
  <1>1. /\ closed' = TRUE /\ peerSent' = peerSent /\ inq' = inq /\ out' = out /\ pc' = pc
        /\ rphase' = rphase /\ rbuf' = rbuf /\ msg_len' = msg_len /\ opened' = opened
        /\ handled' = handled /\ ticks' = ticks /\ bytesLost' = bytesLost
        /\ endedBy' = endedBy /\ lockq' = lockq /\ payload' = payload /\ frames' = frames
        /\ wframe' = wframe /\ wpos' = wpos /\ outAll' = outAll
    BY DEF PeerClose, readVars, writeVars
  <1>2. InShape'
    BY <1>1, SameInShape DEF Inv
  <1>3. ReadShape' /\ StepInv'
    BY <1>1, SameReadShape DEF Inv, ReadShape
  <1>4. PcShape' /\ OutShape'
    BY <1>1, SameOutShape DEF Inv, PcShape
  <1>5. LockInv' /\ WriteInv'
    BY <1>1, SameLockInv, SameWriteInv DEF Inv
  <1>6. AnswerInv' /\ StreamInv'
    BY <1>1, SameAnswerInv, SameStreamInv DEF Inv
  <1>7. QED
    BY <1>2, <1>3, <1>4, <1>5, <1>6 DEF Inv

\* PeerRead
LEMMA PeerReadStep ==
  ASSUME Inv, PeerRead
  PROVE  Inv'
  <1>1. /\ out # <<>> /\ out' = Tail(out) /\ closed' = closed /\ peerSent' = peerSent
        /\ inq' = inq /\ pc' = pc
        /\ rphase' = rphase /\ rbuf' = rbuf /\ msg_len' = msg_len /\ opened' = opened
        /\ handled' = handled /\ ticks' = ticks /\ bytesLost' = bytesLost
        /\ endedBy' = endedBy /\ lockq' = lockq /\ payload' = payload /\ frames' = frames
        /\ wframe' = wframe /\ wpos' = wpos /\ outAll' = outAll
    BY DEF PeerRead, peerVars, readVars, writeVars
  <1>2. InShape'
    BY <1>1, SameInShape DEF Inv, InShape
  <1>3. ReadShape' /\ StepInv'
    BY <1>1, SameReadShape DEF Inv, ReadShape
  <1>4. OutShape'
    <2>1. /\ out \in Seq(OutChunk) /\ Len(out) <= OutCap /\ Len(out) <= Len(outAll)
          /\ outAll \in Seq(OutChunk) /\ OutCap \in Nat
      BY ChunksAssumption DEF Inv, OutShape
    <2>2. out' \in Seq(OutChunk) /\ Len(out') = Len(out) - 1 /\ Len(out) \in Nat
          /\ Len(outAll) \in Nat
      BY <1>1, <2>1
    <2>3. Len(out') <= OutCap /\ Len(out') <= Len(outAll')
      BY <1>1, <2>1, <2>2
    <2>4. OutChunk' = OutChunk
      BY <1>1 DEF OutChunk
    <2>5. QED
      BY <1>1, <2>2, <2>3, <2>4 DEF Inv, OutShape
  <1>5. PcShape' /\ LockInv' /\ WriteInv'
    BY <1>1, SameLockInv, SameWriteInv DEF Inv, PcShape
  <1>6. AnswerInv' /\ StreamInv'
    BY <1>1, SameAnswerInv, SameStreamInv DEF Inv
  <1>7. QED
    BY <1>2, <1>3, <1>4, <1>5, <1>6 DEF Inv

\* The chunks of a unit.
LEMMA UnitType ==
  ASSUME NEW u \in Nat, NEW size \in Nat, NEW N \in Nat, u >= 1, u <= 2 * N
  PROVE  /\ UnitOnWire(u, size) \in Seq([unit : 1..(2 * N), at : Nat])
         /\ Len(UnitOnWire(u, size)) = size
  <1> DEFINE C == [unit : 1..(2 * N), at : Nat]
             f == UnitOnWire(u, size)
  <1>1. \A i \in 1..size : [unit |-> u, at |-> i] \in C
    OBVIOUS
  <1> HIDE DEF C
  <1>2. f \in [1..size -> C]
    BY <1>1 DEF UnitOnWire
  <1> HIDE DEF f
  <1>3. f \in Seq(C) /\ Len(f) = size
    BY <1>2
  <1>4. QED
    BY <1>3 DEF f, C

\* PeerSend
LEMMA PeerSendStep ==
  ASSUME Inv, NEW m \in Message, PeerSend(m)
  PROVE  Inv'
  <1> DEFINE N == Len(peerSent)
             n == 2 * N + 1
             D == [unit : 1..(2 * (N + 1)), at : Nat]
  <1>1. /\ ~closed /\ N < MaxIn /\ peerSent' = Append(peerSent, m)
        /\ inq' = inq \o UnitOnWire(n, HeaderChunks) \o UnitOnWire(n + 1, Chunks[m])
        /\ closed' = closed /\ out' = out /\ pc' = pc
        /\ rphase' = rphase /\ rbuf' = rbuf /\ msg_len' = msg_len /\ opened' = opened
        /\ handled' = handled /\ ticks' = ticks /\ bytesLost' = bytesLost
        /\ endedBy' = endedBy /\ lockq' = lockq /\ payload' = payload /\ frames' = frames
        /\ wframe' = wframe /\ wpos' = wpos /\ outAll' = outAll
    BY DEF PeerSend, readVars, writeVars
  <1>2. peerSent \in Seq(Message) /\ inq \in Seq(InChunk) /\ rbuf \in Seq(InChunk)
    BY DEF Inv, InShape
  <1>3. /\ N \in Nat /\ peerSent' \in Seq(Message) /\ Len(peerSent') = N + 1
        /\ peerSent'[N + 1] = m /\ \A i \in 1..N : peerSent'[i] = peerSent[i]
    BY <1>1, <1>2, AppendElements
  <1>4. InShape'
    <2>1. n \in Nat /\ n >= 1 /\ n + 1 \in Nat /\ n + 1 >= 1 /\ N + 1 \in Nat
          /\ n <= 2 * (N + 1) /\ n + 1 <= 2 * (N + 1)
      BY <1>3
    <2>2. HeaderChunks \in Nat /\ Chunks[m] \in Nat
      BY ChunksAssumption
    <2> DEFINE u == UnitOnWire(n, HeaderChunks)
               v == UnitOnWire(n + 1, Chunks[m])
    <2> HIDE DEF n
    <2>3. u \in Seq(D) /\ v \in Seq(D)
      BY <2>1, <2>2, UnitType
    <2>4. InChunk \subseteq D /\ InChunk' = D
      <3>1. 1..(2 * N) \subseteq 1..(2 * (N + 1))
        BY <1>3
      <3>2. QED
        BY <1>3, <3>1 DEF InChunk
    <2>5. inq \in Seq(D) /\ rbuf \in Seq(D)
      <3> HIDE DEF D
      <3>1. QED
        BY <1>2, <2>4
    <2>6. inq' = (inq \o u) \o v
      BY <1>1
    <2> HIDE DEF D, u, v
    <2>7. inq' \in Seq(D)
      BY <2>3, <2>5, <2>6
    <2>8. Len(peerSent') <= MaxIn
      BY <1>1, <1>3, BoundAssumption
    <2>9. QED
      BY <1>1, <1>3, <2>4, <2>5, <2>7, <2>8 DEF Inv, InShape
  <1>5. ReadShape' /\ StepInv'
    <2>1. opened \in 0..(2 * N)
      BY DEF Inv, ReadShape
    <2>2. opened' \in 0..(2 * Len(peerSent'))
      BY <1>1, <1>3, <2>1
    <2>3. QED
      BY <1>1, <2>2 DEF Inv, ReadShape, StepInv, Wanted
  <1>6. PcShape' /\ OutShape'
    BY <1>1, SameOutShape DEF Inv, PcShape
  <1>7. LockInv' /\ WriteInv'
    BY <1>1, SameLockInv, SameWriteInv DEF Inv
  <1>8. AnswerInv'
    BY <1>1, SameAnswerInv DEF Inv
  <1>9. StreamInv'
    BY <1>1, SameStreamInv DEF Inv
  <1>10. QED
    BY <1>4, <1>5, <1>6, <1>7, <1>8, <1>9 DEF Inv

\* What a buffer that opens says: it is the next unit, of a message that the peer has
\* sent, and has that unit's length.
LEMMA OpenedUnit ==
  ASSUME Inv, NEW buf \in Seq(InChunk), buf # <<>>, Opens(buf)
  PROVE  /\ Head(buf).unit = opened + 1 /\ opened < 2 * Len(peerSent)
         /\ UnitMessage(opened + 1) \in Message /\ Len(buf) = UnitChunks(opened + 1)
         /\ opened \div 2 \in Nat /\ opened \div 2 < Len(peerSent)
         /\ opened % 2 = 0 \/ opened % 2 = 1
         /\ opened % 2 = 1 => /\ UnitMessage(opened + 1) = peerSent[(opened \div 2) + 1]
                              /\ MessageIn(buf) = UnitMessage(opened + 1)
                              /\ UnitChunks(opened + 1) = Chunks[UnitMessage(opened + 1)]
                              /\ (opened + 1) \div 2 = (opened \div 2) + 1
                              /\ (opened + 1) % 2 = 0
         /\ opened % 2 = 0 => /\ UnitChunks(opened + 1) = HeaderChunks
                              /\ MessageIn(buf) = Stray
                              /\ (opened + 1) \div 2 = opened \div 2
                              /\ (opened + 1) % 2 = 1
  <1>1. peerSent \in Seq(Message) /\ Len(peerSent) \in Nat /\ opened \in 0..(2 * Len(peerSent))
        /\ opened \in Nat
    <2>1. peerSent \in Seq(Message) /\ opened \in 0..(2 * Len(peerSent))
      BY DEF Inv, InShape, ReadShape
    <2>2. QED
      BY <2>1
  <1>2. PICK size : size = UnitChunks(opened + 1)
    OBVIOUS
  <1>3. buf = [i \in 1..size |-> [unit |-> opened + 1, at |-> i]]
    BY <1>2 DEF Opens, UnitOnWire
  <1>4. Len(buf) \in Nat /\ Len(buf) >= 1 /\ buf[1] \in InChunk /\ DOMAIN buf = 1..Len(buf)
        /\ Head(buf) = buf[1]
    OBVIOUS
  <1>5. 1 \in 1..size /\ 1..Len(buf) = 1..size
    <2>1. DOMAIN [i \in 1..size |-> [unit |-> opened + 1, at |-> i]] = 1..size
      OBVIOUS
    <2>2. DOMAIN buf = 1..size
      BY <1>3, <2>1
    <2>3. 1 \in 1..Len(buf)
      BY <1>4
    <2>4. QED
      BY <1>4, <2>2, <2>3
  <1>6. buf[1] = [unit |-> opened + 1, at |-> 1]
    BY <1>3, <1>5
  <1>7. Head(buf).unit = opened + 1
    BY <1>4, <1>6
  <1>8. opened < 2 * Len(peerSent)
    <2>1. Head(buf).unit \in 1..(2 * Len(peerSent))
      BY <1>4 DEF InChunk
    <2>2. QED
      BY <1>1, <1>7, <2>1
  <1>9. ((opened + 1) + 1) \div 2 \in 1..Len(peerSent)
    BY <1>1, <1>8
  <1>10. UnitMessage(opened + 1) \in Message
    BY <1>1, <1>9 DEF UnitMessage
  <1>11. size \in Nat
    BY <1>2, <1>10, ChunksAssumption DEF UnitChunks
  <1>12. Len(buf) = size
    <2>1. size >= 1
      BY <1>5, <1>11
    <2>2. Len(buf) \in 1..Len(buf) /\ size \in 1..size
      BY <1>4, <1>11, <2>1
    <2>3. Len(buf) \in 1..size /\ size \in 1..Len(buf)
      BY <1>5, <2>2, Zenon
    <2>4. Len(buf) \in Nat
      BY <1>4
    <2>5. QED
      BY ONLY <1>11, <2>3, <2>4
  <1>13. opened \div 2 \in Nat /\ opened \div 2 < Len(peerSent)
    BY <1>1, <1>8
  <1>14. CASE opened % 2 = 1
    <2>1. ((opened + 1) + 1) \div 2 = (opened \div 2) + 1 /\ (opened + 1) % 2 = 0
          /\ (opened + 1) \div 2 = (opened \div 2) + 1
      BY <1>1, <1>14
    <2>2. UnitMessage(opened + 1) = peerSent[(opened \div 2) + 1]
      BY <2>1 DEF UnitMessage
    <2>3. UnitChunks(opened + 1) = Chunks[UnitMessage(opened + 1)]
      BY <2>1 DEF UnitChunks
    <2>4. MessageIn(buf) = UnitMessage(opened + 1)
      BY <1>7, <2>1 DEF MessageIn
    <2>5. QED
      BY <1>2, <1>7, <1>8, <1>10, <1>12, <1>13, <1>14, <2>1, <2>2, <2>3, <2>4
  <1>15. CASE opened % 2 = 0
    <2>1. (opened + 1) % 2 = 1 /\ (opened + 1) \div 2 = opened \div 2
      BY <1>1, <1>15
    <2>2. UnitChunks(opened + 1) = HeaderChunks
      BY <2>1 DEF UnitChunks
    <2>3. MessageIn(buf) = Stray
      BY <1>7, <2>1 DEF MessageIn
    <2>4. QED
      BY <1>2, <1>7, <1>8, <1>10, <1>12, <1>13, <1>15, <2>1, <2>2, <2>3
  <1>16. opened % 2 = 0 \/ opened % 2 = 1
    BY <1>1
  <1>17. QED
    BY <1>14, <1>15, <1>16

\* The buffer with the next chunk.
LEMMA NextBuffer ==
  ASSUME Inv, inq # <<>>
  PROVE  /\ Append(rbuf, Head(inq)) \in Seq(InChunk) /\ Append(rbuf, Head(inq)) # <<>>
         /\ Len(Append(rbuf, Head(inq))) = Len(rbuf) + 1 /\ Len(rbuf) \in Nat
         /\ Tail(inq) \in Seq(InChunk)
  <1>1. inq \in Seq(InChunk) /\ rbuf \in Seq(InChunk)
    BY DEF Inv, InShape
  <1>2. PICK x \in InChunk : x = Head(inq)
    BY <1>1
  <1>3. Append(rbuf, x) \in Seq(InChunk) /\ Len(Append(rbuf, x)) = Len(rbuf) + 1
        /\ Len(rbuf) \in Nat
    BY <1>1, AppendElements
  <1>4. Append(rbuf, x) # <<>>
    BY <1>3
  <1>5. Tail(inq) \in Seq(InChunk)
    BY <1>1
  <1>6. QED
    BY <1>2, <1>3, <1>4, <1>5

\* ReadChunk
LEMMA ReadChunkStep ==
  ASSUME Inv, ReadChunk
  PROVE  Inv'
  <1>1. /\ inq # <<>> /\ Len(rbuf) + 1 < Wanted
        /\ rbuf' = Append(rbuf, Head(inq)) /\ inq' = Tail(inq)
        /\ closed' = closed /\ out' = out /\ pc' = pc /\ peerSent' = peerSent
        /\ rphase' = rphase /\ msg_len' = msg_len /\ opened' = opened
        /\ handled' = handled /\ ticks' = ticks /\ bytesLost' = bytesLost
        /\ endedBy' = endedBy /\ lockq' = lockq /\ payload' = payload /\ frames' = frames
        /\ wframe' = wframe /\ wpos' = wpos /\ outAll' = outAll
    BY DEF ReadChunk, peerVars, writeVars
  <1>2. /\ rbuf' \in Seq(InChunk) /\ Len(rbuf') = Len(rbuf) + 1 /\ inq' \in Seq(InChunk)
    BY <1>1, NextBuffer
  <1>3. InShape'
    <2>1. InChunk' = InChunk
      BY <1>1 DEF InChunk
    <2>2. QED
      BY <1>1, <1>2, <2>1 DEF Inv, InShape
  <1>4. ReadShape' /\ StepInv'
    <2>1. Len(rbuf') < Wanted /\ Wanted' = Wanted
      BY <1>1, <1>2 DEF Wanted
    <2>2. QED
      BY <1>1, <2>1 DEF Inv, ReadShape, StepInv
  <1>5. PcShape' /\ OutShape'
    BY <1>1, SameOutShape DEF Inv, PcShape
  <1>6. LockInv' /\ WriteInv'
    BY <1>1, SameLockInv, SameWriteInv DEF Inv
  <1>7. AnswerInv' /\ StreamInv'
    BY <1>1, SameAnswerInv, SameStreamInv DEF Inv
  <1>8. QED
    BY <1>3, <1>4, <1>5, <1>6, <1>7 DEF Inv

\* An actor that does not write goes where it wants nothing of the writer.
LEMMA LeavesLock ==
  ASSUME Inv, NEW a \in Actor, NEW q, pc' = [pc EXCEPT ![a] = q], pc[a] \notin {"write", "aborted"},
         q \in IF a = Task THEN TaskAt ELSE CommandAt,
         q \notin {"lock", "write"}, lockq' = lockq, payload' = payload, frames' = frames,
         wframe' = wframe, wpos' = wpos, out' = out, outAll' = outAll, closed' = closed
  PROVE  PcShape' /\ OutShape' /\ LockInv' /\ WriteInv'
  <1>1. PcShape' /\ pc'[a] = q /\ \A b \in Actor : b # a => pc'[b] = pc[b]
    BY Goes DEF Inv
  <1>2. \A b \in Actor : pc'[b] \in {"lock", "write"} => pc'[b] = pc[b]
    BY <1>1
  <1>3. pc'[Task] # "aborted" => pc[Task] # "aborted" \/ a = Task
    BY <1>1, Actors
  <1>4. OutShape'
    BY <1>2, SameOutShape DEF Inv
  <1>5. CASE pc'[Task] = "aborted"
    <2>1. LockInv'
      BY <1>2, <1>5 DEF Inv, LockInv
    <2>2. QED
      BY <1>1, <1>4, <1>5, <2>1 DEF WriteInv
  <1>6. CASE pc'[Task] # "aborted" /\ pc[Task] # "aborted"
    <2>1. LockInv'
      BY <1>2, <1>6 DEF Inv, LockInv
    <2>2. \A b \in Actor : (pc'[b] = "write") = (pc[b] = "write")
      BY <1>1
    <2>3. WriteInv'
      BY <1>6, <2>2, SameWriteInv DEF Inv
    <2>4. QED
      BY <1>1, <1>4, <2>1, <2>3
  <1>7. CASE pc[Task] = "aborted" /\ a = Task
    BY <1>7
  <1>8. QED
    BY <1>3, <1>5, <1>6, <1>7

\* The read loop is left while it reads.
LEMMA EndsRead ==
  ASSUME Inv, pc[Task] = "select", pc' = [pc EXCEPT ![Task] = "ended"], lockq' = lockq,
         payload' = payload, frames' = frames, wframe' = wframe, wpos' = wpos, out' = out,
         outAll' = outAll, closed' = closed
  PROVE  PcShape' /\ OutShape' /\ LockInv' /\ WriteInv' /\ pc'[Task] = "ended"
  <1>1. PICK a \in Actor : a = Task
    BY Actors
  <1>2. PICK q : q = "ended"
    OBVIOUS
  <1>3. /\ pc' = [pc EXCEPT ![a] = q] /\ pc[a] \notin {"write", "aborted"}
        /\ q \notin {"lock", "write"} /\ q \in IF a = Task THEN TaskAt ELSE CommandAt
    BY <1>1, <1>2 DEF TaskAt
  <1>4. PcShape' /\ OutShape' /\ LockInv' /\ WriteInv'
    BY <1>3, LeavesLock
  <1>5. pc'[Task] = "ended"
    BY Actors DEF Inv, PcShape
  <1>6. QED
    BY <1>4, <1>5

\* ReadHeader
LEMMA ReadHeaderStep ==
  ASSUME Inv, ReadHeader
  PROVE  Inv'
  <1>1. PICK buf : buf = Append(rbuf, Head(inq))
    OBVIOUS
  <1>2. /\ pc[Task] = "select" /\ rphase = "header"
        /\ inq # <<>> /\ Len(rbuf) + 1 = Wanted
        /\ inq' = Tail(inq) /\ rbuf' = <<>>
        /\ peerSent' = peerSent /\ closed' = closed /\ out' = out /\ handled' = handled
        /\ ticks' = ticks /\ bytesLost' = bytesLost /\ lockq' = lockq /\ payload' = payload
        /\ frames' = frames /\ wframe' = wframe /\ wpos' = wpos /\ outAll' = outAll
    BY DEF ReadHeader, peerVars, writeVars
  <1>3. /\ buf \in Seq(InChunk) /\ buf # <<>> /\ Len(buf) = HeaderChunks
        /\ inq' \in Seq(InChunk)
    BY <1>1, <1>2, NextBuffer DEF Wanted
  <1>4. InShape'
    <2>1. InChunk' = InChunk /\ rbuf' \in Seq(InChunk)
      BY <1>2 DEF InChunk
    <2>2. QED
      BY <1>2, <1>3, <2>1 DEF Inv, InShape
  <1>5. HeaderChunks \in Nat \ {0} /\ Len(rbuf') = 0
    BY <1>2, ChunksAssumption
  <1>6. CASE ~Opens(buf)
    <2>1. /\ pc' = [pc EXCEPT ![Task] = "ended"] /\ endedBy' = "decrypt"
          /\ opened' = opened /\ rphase' = rphase /\ msg_len' = msg_len
      BY <1>1, <1>6 DEF ReadHeader, EndLoop
    <2>2. PcShape' /\ OutShape' /\ LockInv' /\ WriteInv'
      BY <1>2, <2>1, EndsRead
    <2>3. ReadShape' /\ StepInv'
      <3>1. Len(rbuf') < Wanted'
        BY <1>2, <1>5, <2>1 DEF Wanted
      <3>2. StepInv'
        BY <1>2, <2>1 DEF Inv, StepInv
      <3>3. ReadShape'
        BY <1>2, <2>1, <3>1 DEF Inv, ReadShape
      <3>4. QED
        BY <3>2, <3>3
    <2>4. pc'[Task] = "ended"
      BY <2>1, Actors DEF Inv, PcShape
    <2>5. AnswerInv'
      <3>1. AnswersDue' = AnswersDue /\ AnswersGiven' = AnswersGiven
        BY <1>2 DEF AnswersDue, AnswersGiven
      <3>2. QED
        BY <1>2, <2>4, <3>1 DEF Inv, AnswerInv
    <2>6. StreamInv'
      BY <2>4 DEF StreamInv
    <2>7. QED
      BY <1>4, <2>2, <2>3, <2>5, <2>6 DEF Inv
  <1>7. CASE Opens(buf)
    <2>1. /\ opened' = opened + 1 /\ rphase' = "body" /\ msg_len' = AnnouncedBy(buf)
          /\ pc' = pc /\ endedBy' = endedBy
      BY <1>1, <1>7 DEF ReadHeader
    <2>2. /\ Head(buf).unit = opened + 1 /\ opened < 2 * Len(peerSent)
          /\ UnitMessage(opened + 1) \in Message /\ Len(buf) = UnitChunks(opened + 1)
          /\ opened \div 2 \in Nat /\ opened \div 2 < Len(peerSent)
          /\ opened % 2 = 1 => /\ UnitMessage(opened + 1) = peerSent[(opened \div 2) + 1]
                               /\ UnitChunks(opened + 1) = Chunks[UnitMessage(opened + 1)]
                               /\ (opened + 1) \div 2 = (opened \div 2) + 1
                               /\ (opened + 1) % 2 = 0
          /\ opened % 2 = 0 => /\ (opened + 1) \div 2 = opened \div 2
                               /\ (opened + 1) % 2 = 1
      BY <1>3, <1>7, OpenedUnit
    <2>3. peerSent \in Seq(Message) /\ opened \in Nat /\ Len(peerSent) \in Nat
      <3>1. peerSent \in Seq(Message) /\ opened \in 0..(2 * Len(peerSent))
        BY DEF Inv, InShape, ReadShape
      <3>2. QED
        BY <3>1
    <2>4. msg_len' \in Nat \ {0}
      <3>1. msg_len' = IF (opened + 1) % 2 = 1 THEN Chunks[UnitMessage(opened + 1)]
                                              ELSE Announced[UnitMessage(opened + 1)]
        BY <2>1, <2>2 DEF AnnouncedBy
      <3>2. PICK m \in Message : m = UnitMessage(opened + 1)
        BY <2>2
      <3>3. Chunks[m] \in Nat \ {0} /\ Announced[m] \in Nat \ {0}
        BY ChunksAssumption
      <3>4. QED
        BY <2>1, <3>1, <3>2, <3>3
    <2>5. StepInv'
      <3>1. opened' % 2 = 0 => opened % 2 = 1
        BY <2>1, <2>2, <2>3
      <3>2. opened % 2 = 1 => bytesLost
        BY <1>2 DEF Inv, StreamInv
      <3>3. QED
        BY <1>2, <3>1, <3>2 DEF StepInv
    <2>6. ReadShape'
      <3>1. opened' \in 0..(2 * Len(peerSent'))
        BY <1>2, <2>1, <2>2, <2>3
      <3>2. Len(rbuf') < Wanted'
        BY <1>5, <2>1, <2>4 DEF Wanted
      <3>3. QED
        BY <1>2, <2>1, <2>4, <3>1, <3>2 DEF Inv, ReadShape
    <2>7. PcShape' /\ OutShape' /\ LockInv' /\ WriteInv' /\ AnswerInv'
      BY <1>2, <2>1, SameOutShape, SameLockInv, SameWriteInv, SameAnswerInv DEF Inv, PcShape
    <2>8. StreamInv'
      BY <1>2, <2>1 DEF Inv, StreamInv
    <2>9. QED
      BY <1>4, <2>5, <2>6, <2>7, <2>8 DEF Inv
  <1>8. QED
    BY <1>6, <1>7

\* An actor asks for the lock.
LEMMA Requests ==
  ASSUME Inv, NEW a \in Actor, NEW x \in What, RequestLock(a, x), pc[a] \in {"select", "idle"},
         frames' = frames, wframe' = wframe, wpos' = wpos, out' = out, outAll' = outAll,
         closed' = closed
  PROVE  /\ PcShape' /\ OutShape' /\ LockInv' /\ WriteInv'
         /\ pc'[a] = "lock" /\ payload'[a] = x
         /\ \A b \in Actor : b # a => pc'[b] = pc[b] /\ payload'[b] = payload[b]
  <1>1. pc' = [pc EXCEPT ![a] = "lock"] /\ payload' = [payload EXCEPT ![a] = x]
        /\ lockq' = Append(lockq, a)
    BY DEF RequestLock
  <1>2. lockq \in Seq(Actor) /\ payload \in [Actor -> What \cup {""}]
    BY DEF Inv, OutShape
  <1>3. PcShape' /\ pc'[a] = "lock" /\ \A b \in Actor : b # a => pc'[b] = pc[b]
    <2>1. PICK q : q = "lock"
      OBVIOUS
    <2>2. q \in IF a = Task THEN TaskAt ELSE CommandAt
      BY <2>1 DEF TaskAt, CommandAt
    <2>3. QED
      BY <1>1, <2>1, <2>2, Goes DEF Inv
  <1>4. /\ payload' \in [Actor -> What \cup {""}] /\ payload'[a] = x
        /\ \A b \in Actor : b # a => payload'[b] = payload[b]
    BY <1>1, <1>2
  <1>5. /\ lockq' \in Seq(Actor) /\ Len(lockq) \in Nat /\ Len(lockq') = Len(lockq) + 1
        /\ lockq'[Len(lockq) + 1] = a /\ \A i \in 1..Len(lockq) : lockq'[i] = lockq[i]
    <2>1. lockq' = Append(lockq, a) /\ lockq \in Seq(Actor) /\ a \in Actor
      BY <1>1, <1>2
    <2>2. QED
      BY ONLY <2>1, AppendElements
  <1>6. OutShape'
    <2>1. OutChunk' = OutChunk
      BY DEF OutChunk
    <2>2. \A b \in Actor : pc'[b] = "lock" => payload'[b] \in What
      BY <1>3, <1>4 DEF Inv, OutShape
    <2>3. QED
      BY <1>4, <1>5, <2>1, <2>2 DEF Inv, OutShape
  <1>7. pc'[Task] # "aborted" => pc[Task] # "aborted"
    BY <1>3, Actors
  <1>8. LockInv'
    <2>1. ASSUME NEW b \in Actor, pc'[b] \in {"lock", "write"}
          PROVE  /\ \E i \in 1..Len(lockq') : lockq'[i] = b
                 /\ pc'[Task] # "aborted" /\ pc'[b] = "write" => lockq'[1] = b
      <3>1. CASE b = a
        BY <1>3, <1>5, <3>1
      <3>2. CASE b # a
        <4>1. pc'[b] = pc[b]
          BY <1>3, <3>2
        <4>2. PICK i \in 1..Len(lockq) : lockq[i] = b
          BY <1>7, <2>1, <4>1 DEF Inv, LockInv
        <4>3. i \in 1..Len(lockq') /\ lockq'[i] = b /\ 1 \in 1..Len(lockq)
          BY <1>5, <4>2
        <4>4. pc'[Task] # "aborted" /\ pc[b] = "write" => lockq[1] = b
          BY <1>7, <2>1, <4>1 DEF Inv, LockInv
        <4>5. QED
          BY <1>5, <4>1, <4>3, <4>4
      <3>3. QED
        BY <3>1, <3>2
    <2>2. QED
      BY <2>1 DEF LockInv
  <1>9. WriteInv'
    <2>1. \A b \in Actor : (pc'[b] = "write") = (pc[b] = "write")
      BY <1>3
    <2>2. QED
      BY <1>7, <2>1, SameWriteInv DEF Inv
  <1>10. QED
    BY <1>3, <1>4, <1>6, <1>8, <1>9

\* CommandStart
LEMMA CommandStartStep ==
  ASSUME Inv, NEW c \in Command, CommandStart(c)
  PROVE  Inv'
  <1>1. /\ pc[c] = "idle" /\ RequestLock(c, "gossip")
        /\ closed' = closed /\ out' = out /\ peerSent' = peerSent /\ inq' = inq
        /\ rphase' = rphase /\ rbuf' = rbuf /\ msg_len' = msg_len /\ opened' = opened
        /\ handled' = handled /\ ticks' = ticks /\ bytesLost' = bytesLost
        /\ endedBy' = endedBy /\ frames' = frames
        /\ wframe' = wframe /\ wpos' = wpos /\ outAll' = outAll
    BY DEF CommandStart, peerVars, readVars
  <1>2. c \in Actor /\ c # Task /\ Task \in Actor
    BY Actors
  <1>3. /\ PcShape' /\ OutShape' /\ LockInv' /\ WriteInv'
        /\ pc'[Task] = pc[Task] /\ payload'[Task] = payload[Task]
    <2>1. PICK x \in What : x = "gossip"
      BY DEF What
    <2>2. RequestLock(c, x)
      BY <1>1, <2>1
    <2>3. QED
      BY <1>1, <1>2, <2>2, Requests
  <1>4. InShape'
    BY <1>1, SameInShape DEF Inv, InShape
  <1>5. ReadShape' /\ StepInv'
    BY <1>1, SameReadShape DEF Inv, ReadShape
  <1>6. AnswerInv' /\ StreamInv'
    BY <1>1, <1>3, SameAnswerInv, SameStreamInv DEF Inv
  <1>7. QED
    BY <1>3, <1>4, <1>5, <1>6 DEF Inv

\* ReadEof
LEMMA ReadEofStep ==
  ASSUME Inv, ReadEof
  PROVE  Inv'
  <1>1. /\ pc[Task] = "select" /\ pc' = [pc EXCEPT ![Task] = "ended"] /\ endedBy' = "eof"
        /\ closed' = closed /\ out' = out /\ peerSent' = peerSent /\ inq' = inq
        /\ rphase' = rphase /\ rbuf' = rbuf /\ msg_len' = msg_len /\ opened' = opened
        /\ handled' = handled /\ ticks' = ticks /\ bytesLost' = bytesLost
        /\ lockq' = lockq /\ payload' = payload /\ frames' = frames
        /\ wframe' = wframe /\ wpos' = wpos /\ outAll' = outAll
    BY DEF ReadEof, EndLoop, peerVars, writeVars
  <1>2. PcShape' /\ OutShape' /\ LockInv' /\ WriteInv' /\ pc'[Task] = "ended"
    BY <1>1, EndsRead
  <1>3. InShape'
    BY <1>1, SameInShape DEF Inv, InShape
  <1>4. ReadShape' /\ StepInv'
    BY <1>1, SameReadShape DEF Inv
  <1>5. AnswerInv'
    <2>1. AnswersDue' = AnswersDue /\ AnswersGiven' = AnswersGiven
      BY <1>1 DEF AnswersDue, AnswersGiven
    <2>2. QED
      BY <1>1, <1>2, <2>1 DEF Inv, AnswerInv
  <1>6. StreamInv'
    BY <1>2 DEF StreamInv
  <1>7. QED
    BY <1>2, <1>3, <1>4, <1>5, <1>6 DEF Inv

\* Tick
LEMMA TickStep ==
  ASSUME Inv, Tick
  PROVE  Inv'
  <1>1. /\ pc[Task] = "select" /\ ticks < MaxTicks /\ ticks' = ticks + 1
        /\ rbuf' = <<>> /\ rphase' = "header"
        /\ bytesLost' = (bytesLost \/ rbuf # <<>> \/ rphase = "body")
        /\ RequestLock(Task, "ping")
        /\ closed' = closed /\ out' = out /\ peerSent' = peerSent /\ inq' = inq
        /\ msg_len' = msg_len /\ opened' = opened /\ handled' = handled
        /\ endedBy' = endedBy /\ frames' = frames
        /\ wframe' = wframe /\ wpos' = wpos /\ outAll' = outAll
    BY DEF Tick, peerVars
  <1>2. /\ PcShape' /\ OutShape' /\ LockInv' /\ WriteInv'
        /\ pc'[Task] = "lock" /\ payload'[Task] = "ping"
    <2>1. PICK x \in What : x = "ping"
      BY DEF What
    <2>2. PICK a \in Actor : a = Task
      BY Actors
    <2>3. RequestLock(a, x) /\ pc[a] \in {"select", "idle"}
      BY <1>1, <2>1, <2>2
    <2>4. PcShape' /\ OutShape' /\ LockInv' /\ WriteInv' /\ pc'[a] = "lock" /\ payload'[a] = x
      BY <1>1, <2>3, Requests
    <2>5. QED
      BY <2>1, <2>2, <2>4
  <1>3. InShape'
    <2>1. InChunk' = InChunk /\ rbuf' \in Seq(InChunk) /\ bytesLost' \in BOOLEAN
      BY <1>1 DEF InChunk
    <2>2. QED
      BY <1>1, <2>1 DEF Inv, InShape
  <1>4. ReadShape' /\ StepInv'
    <2>1. Len(rbuf') < Wanted'
      <3>1. Len(rbuf') = 0 /\ Wanted' = HeaderChunks
        BY <1>1 DEF Wanted
      <3>2. QED
        BY <3>1, ChunksAssumption
    <2>2. ticks' \in 0..MaxTicks /\ rphase' \in {"header", "body"}
      <3>1. ticks \in 0..MaxTicks
        BY DEF Inv, ReadShape
      <3>2. QED
        BY <1>1, <3>1, BoundAssumption
    <2>3. StepInv'
      BY <1>1 DEF StepInv
    <2>4. QED
      BY <1>1, <2>1, <2>2, <2>3 DEF Inv, ReadShape
  <1>5. AnswerInv'
    <2>1. AnswersDue' = AnswersDue /\ AnswersGiven' = AnswersGiven
      BY <1>1 DEF AnswersDue, AnswersGiven
    <2>2. QED
      BY <1>1, <1>2, <2>1 DEF Inv, AnswerInv
  <1>6. StreamInv'
    <2>1. rphase = "header" \/ rphase = "body"
      BY DEF Inv, ReadShape
    <2>2. endedBy' # "short" /\ (rphase = "header" /\ opened % 2 = 1 => bytesLost)
      BY <1>1 DEF Inv, StreamInv
    <2>3. bytesLost \/ rphase = "body" => bytesLost'
      BY <1>1
    <2>4. QED
      BY <1>1, <2>1, <2>2, <2>3 DEF StreamInv
  <1>7. QED
    BY <1>2, <1>3, <1>4, <1>5, <1>6 DEF Inv

\* ReadBody
LEMMA ReadBodyStep ==
  ASSUME Inv, ReadBody
  PROVE  Inv'
  <1>1. PICK buf, m : buf = Append(rbuf, Head(inq)) /\ m = MessageIn(buf)
    OBVIOUS
  <1>2. /\ pc[Task] = "select" /\ rphase = "body"
        /\ inq # <<>> /\ Len(rbuf) + 1 = Wanted
        /\ inq' = Tail(inq) /\ rbuf' = <<>> /\ rphase' = "header"
        /\ opened' = IF Opens(buf) THEN opened + 1 ELSE opened
        /\ peerSent' = peerSent /\ closed' = closed /\ out' = out /\ msg_len' = msg_len
        /\ ticks' = ticks /\ bytesLost' = bytesLost
        /\ frames' = frames /\ wframe' = wframe /\ wpos' = wpos /\ outAll' = outAll
    BY <1>1 DEF ReadBody, peerVars
  <1>3. /\ buf \in Seq(InChunk) /\ buf # <<>> /\ Len(buf) = msg_len
        /\ inq' \in Seq(InChunk)
    BY <1>1, <1>2, NextBuffer DEF Wanted
  <1>4. InShape'
    <2>1. InChunk' = InChunk /\ rbuf' \in Seq(InChunk)
      BY <1>2 DEF InChunk
    <2>2. QED
      BY <1>2, <1>3, <2>1 DEF Inv, InShape
  <1>5. StepInv' /\ Len(rbuf') < Wanted'
    <2>1. Len(rbuf') = 0 /\ Wanted' = HeaderChunks
      BY <1>2 DEF Wanted
    <2>2. QED
      BY <1>2, <2>1, ChunksAssumption DEF StepInv
  <1>6. opened' \in 0..(2 * Len(peerSent'))
    <2>1. peerSent \in Seq(Message) /\ opened \in 0..(2 * Len(peerSent))
      BY DEF Inv, InShape, ReadShape
    <2>2. CASE Opens(buf)
      <3>1. opened < 2 * Len(peerSent) /\ opened' = opened + 1
        BY <1>2, <1>3, <2>2, OpenedUnit
      <3>2. Len(peerSent) \in Nat
        BY <2>1
      <3>3. QED
        BY <1>2, <2>1, <3>1, <3>2
    <2>3. CASE ~Opens(buf)
      BY <1>2, <2>1, <2>3
    <2>4. QED
      BY <2>2, <2>3
  <1>7. ASSUME NEW why \in {"decrypt", "short"}, EndLoop(why), handled' = handled,
               lockq' = lockq, payload' = payload
        PROVE  Inv'
    <2>1. pc' = [pc EXCEPT ![Task] = "ended"] /\ endedBy' = why
      BY <1>7 DEF EndLoop
    <2>2. PcShape' /\ OutShape' /\ LockInv' /\ WriteInv' /\ pc'[Task] = "ended"
      BY <1>2, <1>7, <2>1, EndsRead
    <2>3. ReadShape'
      BY <1>2, <1>5, <1>6, <1>7, <2>1 DEF Inv, ReadShape
    <2>4. AnswerInv'
      <3>1. AnswersDue' = AnswersDue /\ AnswersGiven' = AnswersGiven
        BY <1>2, <1>7 DEF AnswersDue, AnswersGiven
      <3>2. QED
        BY <1>2, <2>2, <3>1 DEF Inv, AnswerInv
    <2>5. StreamInv'
      BY <2>2 DEF StreamInv
    <2>6. QED
      BY <1>4, <1>5, <2>2, <2>3, <2>4, <2>5 DEF Inv
  <1>8. ASSUME Opens(buf), handled' = Append(handled, m), endedBy' = endedBy,
               IF Answer(m) = "" THEN UNCHANGED <<pc, payload, lockq>>
                                 ELSE RequestLock(Task, Answer(m))
        PROVE  Inv'
    <2>1. /\ UnitMessage(opened + 1) \in Message
          /\ opened % 2 = 0 \/ opened % 2 = 1
          /\ opened % 2 = 0 => m = Stray /\ (opened + 1) % 2 = 1
          /\ opened % 2 = 1 => m = UnitMessage(opened + 1) /\ (opened + 1) % 2 = 0
      BY <1>1, <1>3, <1>8, OpenedUnit
    <2>2. m \in Message \cup {Stray}
      BY <2>1
    <2>3. handled \in Seq(Message \cup {Stray}) /\ handled' \in Seq(Message \cup {Stray})
      <3>1. handled \in Seq(Message \cup {Stray})
        BY DEF Inv, ReadShape
      <3>2. QED
        BY <1>8, <2>2, <3>1, AppendElements
    <2>4. ReadShape'
      BY <1>2, <1>5, <1>6, <1>8, <2>3 DEF Inv, ReadShape
    <2>5. StreamInv'
      <3>1. opened % 2 = 0 => bytesLost
        BY <1>2 DEF Inv, StepInv
      <3>2. opened' % 2 = 1 => opened % 2 = 0
        BY <1>2, <1>8, <2>1
      <3>3. endedBy' # "short"
        BY <1>2, <1>8 DEF Inv, StreamInv
      <3>4. QED
        BY <1>2, <3>1, <3>2, <3>3 DEF StreamInv
    <2>6. AnswersGiven' = AnswersGiven /\ AnswersDue = AnswersGiven
          /\ AnswersDue' = IF Answer(m) = "" THEN AnswersDue ELSE Append(AnswersDue, Answer(m))
      <3>1. AnswersGiven' = AnswersGiven
        BY <1>2 DEF AnswersGiven
      <3>2. AnswersDue = AnswersGiven
        BY <1>2 DEF Inv, AnswerInv
      <3>3. QED
        BY <1>8, <2>2, <2>3, <3>1, <3>2, DueNext
    <2>7. CASE Answer(m) = ""
      <3>1. pc' = pc /\ payload' = payload /\ lockq' = lockq
        BY <1>8, <2>7
      <3>2. PcShape' /\ OutShape' /\ LockInv' /\ WriteInv'
        BY <1>2, <3>1, SameOutShape, SameLockInv, SameWriteInv DEF Inv, PcShape
      <3>3. AnswerInv'
        BY <1>2, <2>6, <2>7, <3>1 DEF AnswerInv
      <3>4. QED
        BY <1>4, <1>5, <2>4, <2>5, <3>2, <3>3 DEF Inv
    <2>8. CASE Answer(m) # ""
      <3>1. PICK x : x = Answer(m)
        OBVIOUS
      <3>2. x \in What /\ x \in {"pong", "range"}
        BY <2>8, <3>1, AnswerType DEF What
      <3>3. PICK a \in Actor : a = Task
        BY Actors
      <3>4. RequestLock(a, x) /\ pc[a] \in {"select", "idle"}
        BY <1>2, <1>8, <2>8, <3>1, <3>3
      <3>5. PcShape' /\ OutShape' /\ LockInv' /\ WriteInv' /\ pc'[a] = "lock" /\ payload'[a] = x
        BY <1>2, <3>2, <3>4, Requests
      <3>6. AnswerInv'
        BY <2>6, <2>8, <3>1, <3>2, <3>3, <3>5 DEF AnswerInv
      <3>7. QED
        BY <1>4, <1>5, <2>4, <2>5, <3>5, <3>6 DEF Inv
    <2>9. QED
      BY <2>7, <2>8
  <1>9. \/ EndLoop("decrypt") /\ UNCHANGED <<handled, lockq, payload>>
        \/ EndLoop("short") /\ UNCHANGED <<handled, lockq, payload>>
        \/ /\ Opens(buf) /\ handled' = Append(handled, m) /\ endedBy' = endedBy
           /\ IF Answer(m) = "" THEN UNCHANGED <<pc, payload, lockq>>
                                ELSE RequestLock(Task, Answer(m))
    BY <1>1 DEF ReadBody
  <1>10. QED
    BY <1>7, <1>8, <1>9

\* Abort
LEMMA AbortStep ==
  ASSUME Inv, Abort
  PROVE  Inv'
  <1>1. /\ pc[Task] \in {"select", "lock", "write"} /\ pc' = [pc EXCEPT ![Task] = "aborted"]
        /\ lockq' = Keep(lockq, Command)
        /\ closed' = closed /\ out' = out /\ peerSent' = peerSent /\ inq' = inq
        /\ rphase' = rphase /\ rbuf' = rbuf /\ msg_len' = msg_len /\ opened' = opened
        /\ handled' = handled /\ ticks' = ticks /\ bytesLost' = bytesLost
        /\ endedBy' = endedBy /\ payload' = payload /\ frames' = frames
        /\ wframe' = wframe /\ wpos' = wpos /\ outAll' = outAll
    BY DEF Abort, peerVars, readVars
  <1>2. PcShape' /\ pc'[Task] = "aborted" /\ \A b \in Actor : b # Task => pc'[b] = pc[b]
    <2>1. PICK a \in Actor : a = Task
      BY Actors
    <2>2. PICK q : q = "aborted"
      OBVIOUS
    <2>3. pc' = [pc EXCEPT ![a] = q] /\ q \in IF a = Task THEN TaskAt ELSE CommandAt
      BY <1>1, <2>1, <2>2 DEF TaskAt
    <2>4. PcShape' /\ pc'[a] = q /\ \A b \in Actor : b # a => pc'[b] = pc[b]
      BY <2>3, Goes DEF Inv
    <2>5. QED
      BY <2>1, <2>2, <2>4
  <1>3. InShape' /\ ReadShape' /\ StepInv'
    <2>1. InShape'
      BY <1>1, SameInShape DEF Inv, InShape
    <2>2. QED
      BY <1>1, <2>1, SameReadShape DEF Inv, ReadShape
  <1>4. lockq \in Seq(Actor) /\ lockq' \in Seq(Actor)
    <2>1. lockq \in Seq(Actor)
      BY DEF Inv, OutShape
    <2>2. Keep(lockq, Command) \in Seq(Actor \cap Command)
      BY <2>1, KeepType
    <2>3. PICK C : C = Actor \cap Command
      OBVIOUS
    <2>4. C \subseteq Actor /\ Keep(lockq, Command) \in Seq(C)
      BY <2>2, <2>3
    <2>5. Keep(lockq, Command) \in Seq(Actor)
      BY <2>4
    <2>6. QED
      BY <1>1, <2>1, <2>5
  <1>5. OutShape'
    <2>1. OutChunk' = OutChunk
      BY <1>1 DEF OutChunk
    <2>2. \A b \in Actor : pc'[b] = "lock" => payload'[b] \in What
      BY <1>1, <1>2 DEF Inv, OutShape
    <2>3. QED
      BY <1>1, <1>4, <2>1, <2>2 DEF Inv, OutShape
  <1>6. LockInv'
    <2>1. ASSUME NEW b \in Actor, pc'[b] \in {"lock", "write"}
          PROVE  \E i \in 1..Len(lockq') : lockq'[i] = b
      <3>1. b # Task /\ pc[b] \in {"lock", "write"} /\ b \in Command
        BY <1>2, <2>1 DEF Actor
      <3>2. PICK i \in 1..Len(lockq) : lockq[i] = b
        BY <3>1 DEF Inv, LockInv
      <3>3. \E j \in 1..Len(Keep(lockq, Command)) : Keep(lockq, Command)[j] = lockq[i]
        BY <1>4, <3>1, <3>2, KeepMember
      <3>4. QED
        BY <1>1, <3>2, <3>3
    <2>2. QED
      BY <1>2, <2>1 DEF LockInv
  <1>7. WriteInv'
    BY <1>2 DEF WriteInv
  <1>8. AnswerInv'
    <2>1. AnswersDue' = AnswersDue /\ AnswersGiven' = AnswersGiven
      BY <1>1 DEF AnswersDue, AnswersGiven
    <2>2. AnswersGiven \in Seq(What)
      BY AnswersType DEF Inv, OutShape
    <2>3. \A x \in What : /\ IsPrefix(AnswersGiven, AnswersGiven)
                          /\ IsPrefix(AnswersGiven, Append(AnswersGiven, x))
      BY <2>2, PrefixAppend
    <2>4. PICK p : p = payload[Task]
      OBVIOUS
    <2>5. pc[Task] = "lock" => p \in What
      BY <2>4, Actors DEF Inv, OutShape
    <2>6. "ping" \in What
      BY DEF What
    <2>7. \/ AnswersDue = AnswersGiven
          \/ pc[Task] = "lock" /\ AnswersDue = Append(AnswersGiven, p)
      BY <1>1, <2>4 DEF Inv, AnswerInv
    <2>8. IsPrefix(AnswersGiven, AnswersDue)
      BY <2>3, <2>5, <2>6, <2>7
    <2>9. QED
      BY <1>2, <2>1, <2>8 DEF AnswerInv
  <1>9. StreamInv'
    BY <1>1, <1>2, SameStreamInv DEF Inv
  <1>10. QED
    BY <1>2, <1>3, <1>5, <1>6, <1>7, <1>8, <1>9 DEF Inv

\* The frames and the chunks of frames, once there is another frame.
LEMMA MoreFrames ==
  ASSUME frames \in Seq(Frame), NEW x \in Frame, frames' = Append(frames, x)
  PROVE  /\ frames' \in Seq(Frame) /\ Len(frames) \in Nat /\ Len(frames') = Len(frames) + 1
         /\ 0..Len(frames) \subseteq 0..Len(frames')
         /\ \A s \in Seq(OutChunk) : s \in Seq(OutChunk')
  <1>1. frames' \in Seq(Frame) /\ Len(frames) \in Nat /\ Len(frames') = Len(frames) + 1
    BY AppendElements
  <1>2. 0..Len(frames) \subseteq 0..Len(frames')
    BY <1>1
  <1>3. OutChunk \subseteq OutChunk'
    BY <1>2 DEF OutChunk
  <1>4. QED
    BY <1>1, <1>2, <1>3

\* Encrypt
LEMMA EncryptStep ==
  ASSUME Inv, NEW a \in Actor, Encrypt(a)
  PROVE  Inv'
  <1> DEFINE n == Len(frames)
  <1>1. /\ pc[a] = "lock" /\ Head(lockq) = a /\ pc' = [pc EXCEPT ![a] = "write"]
        /\ frames' = Append(frames, [by |-> a, what |-> payload[a]])
        /\ wframe' = [wframe EXCEPT ![a] = n + 1] /\ wpos' = 0
        /\ closed' = closed /\ out' = out /\ peerSent' = peerSent /\ inq' = inq
        /\ rphase' = rphase /\ rbuf' = rbuf /\ msg_len' = msg_len /\ opened' = opened
        /\ handled' = handled /\ ticks' = ticks /\ bytesLost' = bytesLost
        /\ endedBy' = endedBy /\ payload' = payload /\ lockq' = lockq /\ outAll' = outAll
    BY DEF Encrypt, peerVars, readVars
  <1>2. PcShape' /\ pc'[a] = "write" /\ \A b \in Actor : b # a => pc'[b] = pc[b]
    <2>1. PICK q : q = "write"
      OBVIOUS
    <2>2. q \in IF a = Task THEN TaskAt ELSE CommandAt
      BY <2>1 DEF TaskAt, CommandAt
    <2>3. QED
      BY <1>1, <2>1, <2>2, Goes DEF Inv
  <1>3. InShape' /\ ReadShape' /\ StepInv'
    <2>1. InShape'
      BY <1>1, SameInShape DEF Inv, InShape
    <2>2. QED
      BY <1>1, <2>1, SameReadShape DEF Inv, ReadShape
  <1>4. PICK w \in What : w = payload[a]
    BY <1>1 DEF Inv, OutShape
  <1>5. PICK x \in Frame : x = [by |-> a, what |-> w] /\ frames' = Append(frames, x)
    BY <1>1, <1>4 DEF Frame
  <1>6. /\ frames \in Seq(Frame) /\ lockq \in Seq(Actor) /\ wframe \in [Actor -> 0..n]
        /\ out \in Seq(OutChunk) /\ outAll \in Seq(OutChunk)
    BY DEF Inv, OutShape
  <1>7. /\ frames' \in Seq(Frame) /\ n \in Nat /\ Len(frames') = n + 1
        /\ 0..n \subseteq 0..Len(frames')
        /\ out \in Seq(OutChunk') /\ outAll \in Seq(OutChunk')
    BY <1>5, <1>6, MoreFrames
  <1>8. wframe' \in [Actor -> 0..Len(frames')] /\ wframe'[a] = n + 1
    BY <1>1, <1>6, <1>7
  <1>9. FrameChunks \in Nat \ {0}
    BY ChunksAssumption
  <1>10. OutShape'
    <2>1. wpos' \in 0..(FrameChunks - 1)
      BY <1>1, <1>9
    <2>2. \A b \in Actor : pc'[b] = "lock" => payload'[b] \in What
      BY <1>1, <1>2 DEF Inv, OutShape
    <2>3. out' \in Seq(OutChunk') /\ outAll' \in Seq(OutChunk')
      BY <1>1, <1>7
    <2>4. QED
      BY <1>1, <1>7, <1>8, <2>1, <2>2, <2>3 DEF Inv, OutShape
  <1>11. lockq[1] = a
    <2>1. PICK i \in 1..Len(lockq) : lockq[i] = a
      BY <1>1 DEF Inv, LockInv
    <2>2. QED
      BY <1>1, <1>6, <2>1
  <1>12. LockInv'
    BY <1>1, <1>2, <1>11 DEF Inv, LockInv
  <1>13. pc'[Task] # "aborted" => pc[Task] # "aborted"
    BY <1>1, <1>2, Actors
  <1>14. WriteInv'
    <2>1. SUFFICES ASSUME pc[Task] # "aborted" PROVE WriteInv'
      BY <1>13 DEF WriteInv
    <2>2. \A b \in Actor : pc[b] # "write"
      BY <1>1, <1>11, <2>1 DEF Inv, LockInv
    <2>3. \A b \in Actor : pc'[b] = "write" => b = a
      BY <1>2, <2>2
    <2>4. \A k \in 1..Len(outAll) : outAll[k] = FrameChunk(k)
      BY <2>1 DEF Inv, WriteInv
    <2>5. ~closed => Len(outAll) = n * FrameChunks
      BY <2>1, <2>2 DEF Inv, WriteInv
    <2>6. (Len(frames') - 1) * FrameChunks + wpos' = n * FrameChunks
      BY <1>1, <1>7, <1>9
    <2>7. wframe'[a] = Len(frames')
      BY <1>7, <1>8
    <2>8. ~closed' => \A b \in Actor : pc'[b] = "write" =>
              /\ wframe'[b] = Len(frames')
              /\ Len(outAll') = (Len(frames') - 1) * FrameChunks + wpos'
      BY <1>1, <2>3, <2>5, <2>6, <2>7
    <2>9. \A k \in 1..Len(outAll') : outAll'[k] = FrameChunk(k)
      BY <1>1, <2>4
    <2>10. \E b \in Actor : pc'[b] = "write"
      BY <1>2
    <2>11. FrameChunk(1)' = FrameChunk(1)
      BY DEF FrameChunk
    <2>12. QED
      BY <2>8, <2>9, <2>10 DEF WriteInv, FrameChunk
  <1>15. AnswerInv'
    <2>1. AnswersDue' = AnswersDue
      BY <1>1 DEF AnswersDue
    <2>2. AnswersGiven' = IF a = Task /\ w \in {"pong", "range"}
                            THEN Append(AnswersGiven, w) ELSE AnswersGiven
      BY <1>5, <1>6, GivenNext
    <2>3. CASE a = Task
      <3>1. pc[Task] = "lock" /\ pc'[Task] = "write" /\ payload[Task] = w
        BY <1>1, <1>2, <1>4, <2>3
      <3>2. /\ w \in {"ping", "pong", "range"}
            /\ AnswersDue = IF w = "ping" THEN AnswersGiven ELSE Append(AnswersGiven, w)
        BY <3>1 DEF Inv, AnswerInv
      <3>3. QED
        BY <2>1, <2>2, <2>3, <3>1, <3>2 DEF AnswerInv
    <2>4. CASE a # Task
      <3>1. pc'[Task] = pc[Task] /\ AnswersGiven' = AnswersGiven
        BY <1>2, <2>2, <2>4, Actors
      <3>2. QED
        BY <1>1, <2>1, <3>1 DEF Inv, AnswerInv
    <2>5. QED
      BY <2>3, <2>4
  <1>16. StreamInv'
    <2>1. pc'[Task] \in {"select", "lock", "write"} => pc[Task] \in {"select", "lock", "write"}
      BY <1>1, <1>2, Actors
    <2>2. QED
      BY <1>1, <2>1, SameStreamInv DEF Inv
  <1>17. QED
    BY <1>2, <1>3, <1>10, <1>12, <1>14, <1>15, <1>16 DEF Inv

\* The owner of the lock goes elsewhere and drops its guard.
LEMMA DropsLock ==
  ASSUME Inv, NEW a \in Actor, NEW q, pc[a] = "write", Head(lockq) = a,
         pc' = [pc EXCEPT ![a] = q], lockq' = Tail(lockq),
         q \in IF a = Task THEN TaskAt ELSE CommandAt, q \notin {"lock", "write", "aborted"}
  PROVE  /\ PcShape' /\ lockq' \in Seq(Actor) /\ LockInv'
         /\ pc'[a] = q /\ \A b \in Actor : b # a => pc'[b] = pc[b]
         /\ pc'[Task] # "aborted" => /\ pc[Task] # "aborted"
                                     /\ \A b \in Actor : pc'[b] # "write"
  <1>1. PcShape' /\ pc'[a] = q /\ \A b \in Actor : b # a => pc'[b] = pc[b]
    BY Goes DEF Inv
  <1>2. lockq \in Seq(Actor) /\ \E i \in 1..Len(lockq) : lockq[i] = a
    BY DEF Inv, OutShape, LockInv
  <1>3. lockq # <<>>
    BY <1>2
  <1>4. /\ lockq[1] = a /\ lockq' \in Seq(Actor) /\ Len(lockq) \in Nat
        /\ Len(lockq') = Len(lockq) - 1
        /\ \A i \in 1..Len(lockq') : lockq'[i] = lockq[i + 1]
    BY <1>2, <1>3
  <1>5. pc'[Task] # "aborted" => pc[Task] # "aborted"
    BY <1>1, Actors
  <1>6. pc'[Task] # "aborted" => \A b \in Actor : pc'[b] # "write"
    BY <1>1, <1>4, <1>5 DEF Inv, LockInv
  <1>7. ASSUME NEW b \in Actor, pc'[b] \in {"lock", "write"}
        PROVE  \E i \in 1..Len(lockq') : lockq'[i] = b
    <2>1. b # a /\ pc[b] \in {"lock", "write"}
      BY <1>1, <1>7
    <2>2. PICK i \in 1..Len(lockq) : lockq[i] = b
      BY <2>1 DEF Inv, LockInv
    <2>3. i # 1
      BY <1>4, <2>1, <2>2
    <2>4. i - 1 \in 1..Len(lockq') /\ (i - 1) + 1 = i
      BY <1>4, <2>3
    <2>5. lockq'[i - 1] = b
      BY <1>4, <2>2, <2>4
    <2>6. QED
      BY <2>4, <2>5
  <1>8. LockInv'
    BY <1>6, <1>7 DEF LockInv
  <1>9. QED
    BY <1>1, <1>4, <1>5, <1>6, <1>8

\* WriteFails
LEMMA WriteFailsStep ==
  ASSUME Inv, NEW a \in Actor, WriteFails(a)
  PROVE  Inv'
  <1>1. /\ pc[a] = "write" /\ Head(lockq) = a /\ closed /\ lockq' = Tail(lockq)
        /\ closed' = closed /\ out' = out /\ peerSent' = peerSent /\ inq' = inq
        /\ rphase' = rphase /\ rbuf' = rbuf /\ msg_len' = msg_len /\ opened' = opened
        /\ handled' = handled /\ ticks' = ticks /\ bytesLost' = bytesLost
        /\ payload' = payload /\ frames' = frames
        /\ wframe' = wframe /\ wpos' = wpos /\ outAll' = outAll
    BY DEF WriteFails, peerVars
  <1>2. PICK q : q = IF a = Task THEN "ended" ELSE "failed"
    OBVIOUS
  <1>3. pc' = [pc EXCEPT ![a] = q] /\ (endedBy' = "write" \/ endedBy' = endedBy)
    BY <1>2 DEF WriteFails, EndLoop
  <1>4. q \in IF a = Task THEN TaskAt ELSE CommandAt
    BY <1>2 DEF TaskAt, CommandAt
  <1>5. q \notin {"select", "lock", "write", "aborted"}
    BY <1>2
  <1>6. /\ PcShape' /\ lockq' \in Seq(Actor) /\ LockInv'
        /\ pc'[a] = q /\ \A b \in Actor : b # a => pc'[b] = pc[b]
        /\ pc'[Task] # "aborted" => pc[Task] # "aborted"
    BY <1>1, <1>3, <1>4, <1>5, DropsLock
  <1>7. InShape'
    BY <1>1, SameInShape DEF Inv, InShape
  <1>8. ReadShape' /\ StepInv'
    <2>1. endedBy' \in {"", "decrypt", "short", "eof", "write"}
      BY <1>3 DEF Inv, ReadShape
    <2>2. QED
      BY <1>1, <2>1, SameReadShape DEF Inv
  <1>9. OutShape'
    <2>1. OutChunk' = OutChunk
      BY <1>1 DEF OutChunk
    <2>2. \A b \in Actor : pc'[b] = "lock" => payload'[b] \in What
      BY <1>1, <1>5, <1>6 DEF Inv, OutShape
    <2>3. QED
      BY <1>1, <1>6, <2>1, <2>2 DEF Inv, OutShape
  <1>10. WriteInv'
    BY <1>1, <1>6 DEF Inv, WriteInv, FrameChunk
  <1>11. AnswerInv'
    <2>1. AnswersDue' = AnswersDue /\ AnswersGiven' = AnswersGiven
      BY <1>1 DEF AnswersDue, AnswersGiven
    <2>2. pc'[Task] = pc[Task] \/ (pc'[Task] = "ended" /\ pc[Task] = "write")
      BY <1>1, <1>2, <1>6, Actors
    <2>3. QED
      BY <1>1, <2>1, <2>2 DEF Inv, AnswerInv
  <1>12. StreamInv'
    <2>1. CASE a = Task
      <3>1. pc'[Task] = "ended"
        BY <1>2, <1>6, <2>1
      <3>2. QED
        BY <3>1 DEF StreamInv
    <2>2. CASE a # Task
      <3>1. pc'[Task] = pc[Task] /\ endedBy' = endedBy
        BY <1>6, <2>2, Actors DEF WriteFails
      <3>2. QED
        BY <1>1, <3>1, SameStreamInv DEF Inv
    <2>3. QED
      BY <2>1, <2>2
  <1>13. QED
    BY <1>6, <1>7, <1>8, <1>9, <1>10, <1>11, <1>12 DEF Inv

\* Write
LEMMA WriteStep ==
  ASSUME Inv, NEW a \in Actor, Write(a)
  PROVE  Inv'
  <1> DEFINE n == Len(frames)
             l == Len(outAll)
  <1>1. /\ pc[a] = "write" /\ Head(lockq) = a /\ ~closed /\ Len(out) < OutCap
        /\ closed' = closed /\ peerSent' = peerSent /\ inq' = inq
        /\ rphase' = rphase /\ rbuf' = rbuf /\ msg_len' = msg_len /\ opened' = opened
        /\ handled' = handled /\ ticks' = ticks /\ bytesLost' = bytesLost
        /\ endedBy' = endedBy /\ payload' = payload /\ frames' = frames /\ wframe' = wframe
    BY DEF Write, peerVars, readVars
  <1>2. /\ frames \in Seq(Frame) /\ lockq \in Seq(Actor) /\ wframe \in [Actor -> 0..n]
        /\ wpos \in 0..(FrameChunks - 1) /\ FrameChunks \in Nat \ {0} /\ OutCap \in Nat
        /\ out \in Seq(OutChunk) /\ outAll \in Seq(OutChunk) /\ Len(out) <= l
    BY ChunksAssumption DEF Inv, OutShape
  <1>3. PICK c \in OutChunk : /\ c = [frame |-> wframe[a], at |-> wpos + 1]
                              /\ out' = Append(out, c) /\ outAll' = Append(outAll, c)
    <2>1. wframe[a] \in 0..n /\ wpos + 1 \in Nat
      BY <1>2
    <2>2. [frame |-> wframe[a], at |-> wpos + 1] \in OutChunk
      BY <2>1 DEF OutChunk
    <2>3. QED
      BY <2>2 DEF Write
  <1>4. /\ outAll' \in Seq(OutChunk) /\ l \in Nat /\ Len(outAll') = l + 1
        /\ outAll'[l + 1] = c /\ \A k \in 1..l : outAll'[k] = outAll[k]
    <2>1. outAll \in Seq(OutChunk) /\ c \in OutChunk /\ outAll' = Append(outAll, c)
      BY <1>2, <1>3
    <2>2. QED
      BY ONLY <2>1, AppendElements DEF l
  <1>5. out' \in Seq(OutChunk) /\ Len(out) \in Nat /\ Len(out') = Len(out) + 1
    <2>1. out \in Seq(OutChunk) /\ c \in OutChunk /\ out' = Append(out, c)
      BY <1>2, <1>3
    <2>2. QED
      BY ONLY <2>1, AppendElements
  <1>6. n \in Nat
    BY <1>2
  <1>7. InShape' /\ ReadShape' /\ StepInv'
    <2>1. InShape'
      BY <1>1, SameInShape DEF Inv, InShape
    <2>2. QED
      BY <1>1, <2>1, SameReadShape DEF Inv, ReadShape
  <1>8. OutChunk' = OutChunk /\ Len(out') <= OutCap /\ Len(out') <= Len(outAll')
    <2>1. OutChunk' = OutChunk
      BY <1>1 DEF OutChunk
    <2>2. QED
      BY <1>1, <1>2, <1>4, <1>5, <2>1
  <1>9. ASSUME pc[Task] # "aborted"
        PROVE  /\ n - 1 \in Nat /\ l = (n - 1) * FrameChunks + wpos /\ wframe[a] = n
               /\ \A k \in 1..Len(outAll') : outAll'[k] = FrameChunk(k)
    <2>1. wframe[a] = n /\ l = (n - 1) * FrameChunks + wpos
          /\ \A k \in 1..l : outAll[k] = FrameChunk(k)
      BY <1>1, <1>9 DEF Inv, WriteInv
    <2>2. n # 0
      <3>1. n = 0 => (n - 1) * FrameChunks = -FrameChunks
        BY <1>2
      <3>2. QED
        BY <1>2, <1>4, <2>1, <3>1
    <2>3. PICK p \in Nat : p = n - 1
      BY <1>6, <2>2
    <2>4. FrameChunk(p * FrameChunks + wpos + 1) = [frame |-> p + 1, at |-> wpos + 1]
      BY <1>2, NextChunk
    <2>5. l + 1 = p * FrameChunks + wpos + 1 /\ p + 1 = n
      BY <1>6, <2>1, <2>3
    <2>6. FrameChunk(l + 1) = c
      BY <1>3, <2>1, <2>4, <2>5
    <2>7. \A k \in 1..(l + 1) : k \in 1..l \/ k = l + 1
      BY <1>4
    <2>8. \A k \in 1..Len(outAll') : outAll'[k] = FrameChunk(k)
      BY <1>4, <2>1, <2>6, <2>7
    <2>9. QED
      BY <2>1, <2>3, <2>8
  <1>10. CASE wpos + 1 < FrameChunks
    <2>1. wpos' = wpos + 1 /\ pc' = pc /\ lockq' = lockq
      BY <1>10 DEF Write
    <2>2. wpos' \in 0..(FrameChunks - 1)
      BY <1>2, <1>10, <2>1
    <2>3. OutShape'
      BY <1>1, <1>4, <1>5, <1>8, <2>1, <2>2 DEF Inv, OutShape
    <2>4. PcShape' /\ LockInv' /\ AnswerInv' /\ StreamInv'
      BY <1>1, <2>1, SameLockInv, SameAnswerInv, SameStreamInv DEF Inv, PcShape
    <2>5. WriteInv'
      <3>1. SUFFICES ASSUME pc[Task] # "aborted" PROVE WriteInv'
        BY <2>1 DEF WriteInv
      <3>2. \A b \in Actor : pc[b] = "write" => wframe[b] = n
        BY <1>1, <3>1 DEF Inv, WriteInv
      <3>3. Len(outAll') = (n - 1) * FrameChunks + wpos'
        <4>1. PICK p \in Int : p = (n - 1) * FrameChunks
          BY <1>2, <1>6
        <4>2. QED
          BY <1>2, <1>4, <1>9, <2>1, <3>1, <4>1
      <3>4. QED
        BY <1>1, <1>9, <2>1, <3>1, <3>2, <3>3 DEF WriteInv, FrameChunk
    <2>6. QED
      BY <1>7, <2>3, <2>4, <2>5 DEF Inv
  <1>11. CASE ~(wpos + 1 < FrameChunks)
    <2>1. PICK q : q = IF a = Task THEN "select" ELSE "sent"
      OBVIOUS
    <2>2. wpos' = 0 /\ pc' = [pc EXCEPT ![a] = q] /\ lockq' = Tail(lockq)
      BY <1>11, <2>1 DEF Write
    <2>3. q \in IF a = Task THEN TaskAt ELSE CommandAt
      BY <2>1 DEF TaskAt, CommandAt
    <2>4. q \notin {"lock", "write", "aborted"}
      BY <2>1
    <2>5. /\ PcShape' /\ lockq' \in Seq(Actor) /\ LockInv'
          /\ pc'[a] = q /\ \A b \in Actor : b # a => pc'[b] = pc[b]
          /\ pc'[Task] # "aborted" => /\ pc[Task] # "aborted"
                                      /\ \A b \in Actor : pc'[b] # "write"
      BY <1>1, <2>2, <2>3, <2>4, DropsLock
    <2>6. OutShape'
      <3>1. wpos' \in 0..(FrameChunks - 1)
        BY <1>2, <2>2
      <3>2. \A b \in Actor : pc'[b] = "lock" => payload'[b] \in What
        BY <1>1, <2>4, <2>5 DEF Inv, OutShape
      <3>3. QED
        BY <1>1, <1>4, <1>5, <1>8, <2>5, <3>1, <3>2 DEF Inv, OutShape
    <2>7. WriteInv'
      <3>1. SUFFICES ASSUME pc'[Task] # "aborted" PROVE WriteInv'
        BY DEF WriteInv
      <3>2. pc[Task] # "aborted" /\ \A b \in Actor : pc'[b] # "write"
        BY <2>5, <3>1
      <3>3. Len(outAll') = n * FrameChunks
        <4>1. wpos = FrameChunks - 1
          BY <1>2, <1>11
        <4>2. \A x \in Nat, d \in Nat : (x - 1) * d + (d - 1) + 1 = x * d
          OBVIOUS
        <4>3. (n - 1) * FrameChunks + wpos + 1 = n * FrameChunks
          BY <1>2, <1>6, <4>1, <4>2
        <4>4. QED
          BY <1>4, <1>9, <3>2, <4>3
      <3>4. QED
        BY <1>1, <1>9, <3>2, <3>3 DEF WriteInv, FrameChunk
    <2>8. AnswerInv'
      <3>1. AnswersDue' = AnswersDue /\ AnswersGiven' = AnswersGiven
        BY <1>1 DEF AnswersDue, AnswersGiven
      <3>2. pc'[Task] = pc[Task] \/ (pc'[Task] = "select" /\ pc[Task] = "write")
        BY <1>1, <2>1, <2>5, Actors
      <3>3. QED
        BY <1>1, <3>1, <3>2 DEF Inv, AnswerInv
    <2>9. StreamInv'
      <3>1. pc'[Task] \in {"select", "lock", "write"} => pc[Task] \in {"select", "lock", "write"}
        BY <1>1, <2>5, Actors
      <3>2. QED
        BY <1>1, <3>1, SameStreamInv DEF Inv
    <2>10. QED
      BY <1>7, <2>5, <2>6, <2>7, <2>8, <2>9 DEF Inv
  <1>12. QED
    BY <1>10, <1>11

\* The invariant holds at first.
LEMMA InitInv ==
  ASSUME Init
  PROVE  Inv
  <1>1. peerSent = <<>> /\ inq = <<>> /\ rbuf = <<>> /\ handled = <<>>
    BY DEF Init
  <1>2. out = <<>> /\ outAll = <<>> /\ frames = <<>> /\ lockq = <<>>
    BY DEF Init
  <1>3. msg_len = 0 /\ opened = 0 /\ ticks = 0 /\ wpos = 0
    BY DEF Init
  <1>4. closed \in BOOLEAN /\ bytesLost \in BOOLEAN
    BY DEF Init
  <1>5. rphase = "header" /\ endedBy = ""
    BY DEF Init
  <1>6. /\ pc = [a \in Actor |-> IF a = Task THEN "select" ELSE "idle"]
        /\ payload = [a \in Actor |-> ""] /\ wframe = [a \in Actor |-> 0]
    BY DEF Init
  <1>7. /\ HeaderChunks \in Nat \ {0} /\ FrameChunks \in Nat \ {0} /\ OutCap \in Nat
        /\ MaxIn \in Nat /\ MaxTicks \in Nat
    BY ChunksAssumption, BoundAssumption
  <1>8. Len(peerSent) = 0 /\ Len(rbuf) = 0
    BY <1>1
  <1>9. Len(out) = 0 /\ Len(outAll) = 0 /\ Len(frames) = 0
    BY <1>2
  <1>10. InShape
    <2>1. inq \in Seq(InChunk) /\ rbuf \in Seq(InChunk) /\ peerSent \in Seq(Message)
      BY <1>1
    <2>2. QED
      BY <1>4, <1>7, <1>8, <2>1 DEF InShape
  <1>11. ReadShape /\ StepInv
    <2>1. Len(rbuf) < Wanted
      <3>1. Wanted = HeaderChunks
        BY <1>5 DEF Wanted
      <3>2. QED
        BY <1>7, <1>8, <3>1
    <2>2. opened \in 0..(2 * Len(peerSent)) /\ ticks \in 0..MaxTicks
      BY <1>3, <1>7, <1>8
    <2>3. handled \in Seq(Message \cup {Stray})
      BY <1>1
    <2>4. StepInv
      BY <1>5 DEF StepInv
    <2>5. msg_len \in Nat
      BY <1>3
    <2>6. QED
      BY <1>5, <2>1, <2>2, <2>3, <2>4, <2>5 DEF ReadShape
  <1>12. pc[Task] = "select" /\ \A c \in Command : pc[c] = "idle"
    BY <1>6, Actors
  <1>13. \A a \in Actor : pc[a] \in {"select", "idle"}
    BY <1>6
  <1>14. PcShape
    <2>1. pc \in [Actor -> TaskAt \cup CommandAt]
      BY <1>6 DEF TaskAt, CommandAt
    <2>2. QED
      BY <1>12, <2>1 DEF PcShape, TaskAt, CommandAt
  <1>15. OutShape
    <2>1. 0 \in 0..Len(frames)
      BY <1>9
    <2>2. wframe \in [Actor -> 0..Len(frames)] /\ payload \in [Actor -> What \cup {""}]
      BY <1>6, <2>1
    <2>3. wpos \in 0..(FrameChunks - 1) /\ Len(out) <= OutCap /\ Len(out) <= Len(outAll)
      BY <1>3, <1>7, <1>9
    <2>4. /\ lockq \in Seq(Actor) /\ frames \in Seq(Frame) /\ out \in Seq(OutChunk)
          /\ outAll \in Seq(OutChunk)
      BY <1>2
    <2>5. QED
      BY <1>13, <2>2, <2>3, <2>4 DEF OutShape
  <1>16. LockInv
    BY <1>13 DEF LockInv
  <1>17. WriteInv
    <2>1. Len(outAll) = Len(frames) * FrameChunks /\ 1..Len(outAll) = {}
      BY <1>7, <1>9
    <2>2. QED
      BY <1>13, <2>1 DEF WriteInv
  <1>18. AnswerInv
    <2>1. AnswersDue = Keep(<<>>, {"pong", "range"})
      <3>1. Len(handled) = 0
        BY <1>1
      <3>2. [i \in 1..Len(handled) |-> Answer(handled[i])] = <<>>
        BY <3>1
      <3>3. QED
        BY <3>2 DEF AnswersDue
    <2>2. AnswersGiven = Keep(<<>>, {"pong", "range"})
      <3>1. [i \in 1..Len(frames) |-> IF frames[i].by = Task THEN frames[i].what ELSE ""] = <<>>
        BY <1>9
      <3>2. QED
        BY <3>1 DEF AnswersGiven
    <2>3. QED
      BY <1>12, <2>1, <2>2 DEF AnswerInv
  <1>19. StreamInv
    <2>1. opened % 2 # 1
      BY <1>3
    <2>2. endedBy # "short"
      BY <1>5, Zenon
    <2>3. QED
      BY <2>1, <2>2 DEF StreamInv
  <1>20. QED
    BY <1>14, <1>15, <1>16, <1>17, <1>18, <1>19, <1>10, <1>11 DEF Inv

\* Every step preserves the invariant.
LEMMA NextInv ==
  ASSUME Inv, [Next]_vars
  PROVE  Inv'
  <1>1. ASSUME NEW m \in Message, PeerSend(m) PROVE Inv'
    BY <1>1, PeerSendStep
  <1>2. CASE PeerRead
    BY <1>2, PeerReadStep
  <1>3. CASE PeerClose
    BY <1>3, CloseStep
  <1>4. CASE TaskStep
    BY <1>4, ReadChunkStep, ReadHeaderStep, ReadBodyStep, ReadEofStep DEF TaskStep
  <1>5. CASE Tick
    BY <1>5, TickStep
  <1>6. CASE Abort
    BY <1>6, AbortStep
  <1>7. ASSUME NEW c \in Command, CommandStart(c) PROVE Inv'
    BY <1>7, CommandStartStep
  <1>8. ASSUME NEW a \in Actor, Encrypt(a) \/ Write(a) \/ WriteFails(a) PROVE Inv'
    BY <1>8, EncryptStep, WriteStep, WriteFailsStep
  <1>9. CASE UNCHANGED vars
    <2>1. /\ closed' = closed /\ out' = out /\ peerSent' = peerSent /\ inq' = inq /\ pc' = pc
          /\ rphase' = rphase /\ rbuf' = rbuf /\ msg_len' = msg_len /\ opened' = opened
          /\ handled' = handled /\ ticks' = ticks /\ bytesLost' = bytesLost
          /\ endedBy' = endedBy /\ lockq' = lockq /\ payload' = payload /\ frames' = frames
          /\ wframe' = wframe /\ wpos' = wpos /\ outAll' = outAll
      BY <1>9 DEF vars
    <2>2. InShape' /\ ReadShape' /\ StepInv'
      <3>1. InShape'
        BY <2>1, SameInShape DEF Inv, InShape
      <3>2. QED
        BY <2>1, <3>1, SameReadShape DEF Inv, ReadShape
    <2>3. PcShape' /\ OutShape' /\ LockInv' /\ WriteInv' /\ AnswerInv' /\ StreamInv'
      BY <2>1, SameOutShape, SameLockInv, SameWriteInv, SameAnswerInv, SameStreamInv
      DEF Inv, PcShape
    <2>4. QED
      BY <2>2, <2>3 DEF Inv
  <1>10. QED
    BY <1>1, <1>2, <1>3, <1>4, <1>5, <1>6, <1>7, <1>8, <1>9 DEF Next

------------------------------------------------------------------------------
(* The invariants.                                                          *)

\* Every reachable state of a connection (the read task of cmd_connect, NoiseReader
\* and NoiseWriter) satisfies the inductive invariant.
THEOREM Invariance == Spec => []Inv
  BY InitInv, NextInv, PTL DEF Spec

\* Every variable of the connection has its type, the buffers of NoiseReader::recv
\* are never fuller than what is read, and the send buffer never overflows.
THEOREM TypeCorrect == Spec => []TypeOK
  <1>1. ASSUME Inv PROVE TypeOK
    <2>1. Len(peerSent) \in Nat /\ Len(peerSent) <= MaxIn /\ MaxIn \in Nat
          /\ opened \in 0..(2 * Len(peerSent))
      <3>1. peerSent \in Seq(Message)
        BY <1>1 DEF Inv, InShape
      <3>2. Len(peerSent) \in Nat
        BY <3>1
      <3>3. Len(peerSent) <= MaxIn /\ opened \in 0..(2 * Len(peerSent))
        BY <1>1 DEF Inv, InShape, ReadShape
      <3>4. QED
        BY <3>2, <3>3, BoundAssumption
    <2>2. opened \in 0..(2 * MaxIn)
      BY <2>1
    <2>3. pc[Task] \in TaskAt /\ \A c \in Command : pc[c] \in CommandAt
      BY <1>1 DEF Inv, PcShape
    <2>4. QED
      BY <1>1, <2>2, <2>3 DEF Inv, InShape, ReadShape, OutShape, TypeOK, TaskAt, CommandAt
  <1>2. QED
    BY <1>1, Invariance, PTL

\* Unless a disconnect cuts a write short, the stream that NoiseWriter::send writes
\* consists of whole frames in nonce order, whichever task holds the writer.
THEOREM Intact == Spec => []OutboundIntact
  <1>1. ASSUME Inv PROVE OutboundIntact
    BY <1>1 DEF Inv, WriteInv, OutboundIntact
  <1>2. QED
    BY <1>1, Invariance, PTL

\* The read task's answers (handle_peer_message) go out in the order of the messages
\* that call for them, none twice, and all before it reads on.
THEOREM InOrder == Spec => []AnsweredInOrder
  <1>1. ASSUME Inv PROVE AnsweredInOrder
    <2>1. AnswersGiven \in Seq(What)
      BY <1>1, AnswersType DEF Inv, OutShape
    <2>2. \A x \in What : /\ IsPrefix(AnswersGiven, AnswersGiven)
                          /\ IsPrefix(AnswersGiven, Append(AnswersGiven, x))
      BY <2>1, PrefixAppend
    <2>3. PICK p : p = payload[Task]
      OBVIOUS
    <2>4. pc[Task] = "lock" => p \in What
      BY <1>1, <2>3, Actors DEF Inv, OutShape
    <2>5. "ping" \in What
      BY DEF What
    <2>6. \/ AnswersDue = AnswersGiven
          \/ pc[Task] = "lock" /\ AnswersDue = Append(AnswersGiven, p)
          \/ IsPrefix(AnswersGiven, AnswersDue)
      BY <1>1, <2>3 DEF Inv, AnswerInv, PcShape, TaskAt
    <2>7. IsPrefix(AnswersGiven, AnswersDue)
      BY <2>2, <2>4, <2>5, <2>6
    <2>8. pc[Task] = "select" => AnswersGiven = AnswersDue
      BY <1>1 DEF Inv, AnswerInv
    <2>9. QED
      BY <2>7, <2>8 DEF AnsweredInOrder
  <1>2. QED
    BY <1>1, Invariance, PTL

------------------------------------------------------------------------------
(* The refinement: what the channel above the connection sees.              *)

PeerTaken == opened \div 2
Astray == rphase = "body" /\ opened % 2 = 0 /\ msg_len = HeaderChunks
OurIn == Whats(Len(frames))
OurDone == Whats(PeerOpened)

\* What a step leaves alone of each direction.
SameInbound ==
  /\ peerSent' = peerSent /\ PeerTaken' = PeerTaken /\ Received' = Received
  /\ bytesLost' = bytesLost /\ Astray' = Astray
SameOutbound == OurIn' = OurIn /\ PeerOpened' = PeerOpened /\ OurDone' = OurDone

\* A pair of values, and a change of one of them.
LEMMA BothIs ==
  ASSUME NEW i, NEW o, NEW x
  PROVE  /\ Both(i, o)["peer"] = i /\ Both(i, o)["daemon"] = o
         /\ [Both(i, o) EXCEPT !["peer"] = x] = Both(x, o)
         /\ [Both(i, o) EXCEPT !["daemon"] = x] = Both(i, x)
  BY DEF Both, Ends

\* A step that changes nothing of the channel.
LEMMA Stutters ==
  ASSUME SameInbound, SameOutbound
  PROVE  UNCHANGED Channel!vars
  BY DEF Channel!vars, SameInbound, SameOutbound, PeerTaken, Astray, OurIn, OurDone, Both

\* The peer hands a message to the channel.
LEMMA AcceptsPeer ==
  ASSUME NEW m \in Message, peerSent' = Append(peerSent, m), PeerTaken' = PeerTaken,
         Received' = Received, bytesLost' = bytesLost, Astray' = Astray, SameOutbound
  PROVE  Channel!Accept("peer")
  BY BothIs
  DEF Channel!Accept, SameOutbound, PeerTaken, Astray, OurIn, OurDone, Both

\* The daemon hands a message to the channel.
LEMMA AcceptsOurs ==
  ASSUME NEW w \in What, OurIn' = Append(OurIn, w), PeerOpened' = PeerOpened,
         OurDone' = OurDone, SameInbound
  PROVE  Channel!Accept("daemon")
  <1>1. Both(peerSent, OurIn)' = [Both(peerSent, OurIn) EXCEPT !["daemon"] = Append(@, w)]
    <2>1. Both(peerSent, OurIn)' = Both(peerSent, Append(OurIn, w))
      BY DEF SameInbound, Both
    <2>2. Both(peerSent, OurIn)["daemon"] = OurIn
      BY BothIs
    <2>3. [Both(peerSent, OurIn) EXCEPT !["daemon"] = Append(OurIn, w)]
            = Both(peerSent, Append(OurIn, w))
      BY BothIs
    <2>4. QED
      BY <2>1, <2>2, <2>3
  <1>2. UNCHANGED <<Both(PeerTaken, PeerOpened), Both(Received, OurDone),
                    Both(bytesLost, FALSE), Both(Astray, FALSE)>>
    BY DEF SameInbound, Both
  <1>3. w \in Message \cup {"ping", "pong", "range", "gossip"}
    BY DEF What
  <1>4. QED
    BY <1>1, <1>2, <1>3 DEF Channel!Accept, PeerTaken, Astray, OurIn, OurDone

\* A message of the peer comes out.
LEMMA DeliversPeer ==
  ASSUME PeerTaken < Len(peerSent), ~Astray, PeerTaken' = PeerTaken + 1,
         Received' = Append(Received, peerSent[PeerTaken + 1]), peerSent' = peerSent,
         bytesLost' = bytesLost, Astray' = Astray, SameOutbound
  PROVE  Channel!Deliver("peer")
  BY BothIs
  DEF Channel!Deliver, Channel!UnderWay, Channel!Oldest, SameOutbound, PeerTaken, Astray,
      OurIn, OurDone, Both

\* A message of the daemon comes out.
LEMMA DeliversOurs ==
  ASSUME PeerOpened < Len(OurIn), PeerOpened' = PeerOpened + 1,
         OurDone' = Append(OurDone, OurIn[PeerOpened + 1]), OurIn' = OurIn, SameInbound
  PROVE  Channel!Deliver("daemon")
  <1>1. Channel!UnderWay("daemon") /\ Channel!Oldest("daemon") = OurIn[PeerOpened + 1]
    BY BothIs DEF Channel!UnderWay, Channel!Oldest, OurIn
  <1>2. ~Both(Astray, FALSE)["daemon"]
    BY BothIs
  <1>3. Both(Received, OurDone)'
          = [Both(Received, OurDone) EXCEPT !["daemon"] = Append(@, OurIn[PeerOpened + 1])]
    <2>1. PICK x : x = Append(OurDone, OurIn[PeerOpened + 1])
      OBVIOUS
    <2>2. Both(Received, OurDone)' = Both(Received, x)
      BY <2>1 DEF SameInbound, Both
    <2>3. /\ Both(Received, OurDone)["daemon"] = OurDone
          /\ [Both(Received, OurDone) EXCEPT !["daemon"] = x] = Both(Received, x)
      BY BothIs
    <2>4. QED
      BY <2>1, <2>2, <2>3
  <1>4. Both(PeerTaken, PeerOpened)'
          = [Both(PeerTaken, PeerOpened) EXCEPT !["daemon"] = @ + 1]
    <2>1. Both(PeerTaken, PeerOpened)' = Both(PeerTaken, PeerOpened + 1)
      BY DEF SameInbound, Both
    <2>2. Both(PeerTaken, PeerOpened)["daemon"] = PeerOpened
      BY BothIs
    <2>3. [Both(PeerTaken, PeerOpened) EXCEPT !["daemon"] = PeerOpened + 1]
            = Both(PeerTaken, PeerOpened + 1)
      BY BothIs
    <2>4. QED
      BY <2>1, <2>2, <2>3
  <1>5. UNCHANGED <<Both(peerSent, OurIn), Both(bytesLost, FALSE), Both(Astray, FALSE)>>
    BY DEF SameInbound, Both
  <1>6. QED
    BY <1>1, <1>2, <1>3, <1>4, <1>5 DEF Channel!Deliver, PeerTaken, Astray, OurIn, OurDone

\* The daemon gives up a recv call.
LEMMA Interrupts ==
  ASSUME bytesLost' = TRUE, Astray' = FALSE, peerSent' = peerSent, PeerTaken' = PeerTaken,
         Received' = Received, SameOutbound
  PROVE  Channel!Interrupt("peer")
  BY BothIs
  DEF Channel!Interrupt, SameOutbound, PeerTaken, Astray, OurIn, OurDone, Both

\* It passes over a bare message.
LEMMA Skips ==
  ASSUME bytesLost, ~Astray, PeerTaken < Len(peerSent), peerSent[PeerTaken + 1] \in Bare,
         PeerTaken' = PeerTaken + 1, Astray' = (peerSent[PeerTaken + 1] \in Mimic),
         peerSent' = peerSent, Received' = Received, bytesLost' = bytesLost, SameOutbound
  PROVE  Channel!Skip("peer")
  BY BothIs
  DEF Channel!Skip, Channel!UnderWay, Channel!Oldest, SameOutbound, PeerTaken, Astray,
      OurIn, OurDone, Both

\* It hands on a header.
LEMMA HandsOn ==
  ASSUME Astray, PeerTaken < Len(peerSent), Astray' = FALSE, PeerTaken' = PeerTaken,
         Received' = Append(Received, Stray), peerSent' = peerSent, bytesLost' = bytesLost,
         SameOutbound
  PROVE  Channel!HandOnHeader("peer")
  BY BothIs
  DEF Channel!HandOnHeader, Channel!UnderWay, SameOutbound, PeerTaken, Astray, OurIn,
      OurDone, Both

\* The frames that the peer has read whole and in nonce order.
Whole ==
  {n \in 0..Len(frames) :
     /\ n * FrameChunks <= Len(outAll) - Len(out)
     /\ \A k \in 1..(n * FrameChunks) : outAll[k] = FrameChunk(k)}

\* A bounded set of natural numbers has a greatest element.
LEMMA MaxIs ==
  ASSUME NEW N \in Nat, NEW W \in SUBSET (0..N), W # {}
  PROVE  Max(W) \in W /\ \A y \in W : y <= Max(W)
  <1> DEFINE B == {d \in 0..N : N - d \in W}
  <1>1. B \in SUBSET Nat /\ B # {}
    <2>1. PICK y \in W : TRUE
      OBVIOUS
    <2>2. N - y \in 0..N /\ N - (N - y) = y
      OBVIOUS
    <2>3. N - y \in B
      BY <2>2
    <2>4. B \in SUBSET Nat
      OBVIOUS
    <2>5. QED
      BY <2>3, <2>4
  <1>2. PICK d \in B : \A e \in B : ~(e < d)
    BY <1>1, Least
  <1>3. PICK x \in W : x = N - d
    BY <1>2
  <1>4. ASSUME NEW y \in W PROVE x >= y
    <2>1. N - y \in 0..N /\ N - (N - y) = y /\ d \in 0..N
      OBVIOUS
    <2>2. N - y \in B
      BY <2>1
    <2>3. ~(N - y < d)
      BY <1>2, <2>2
    <2>4. QED
      BY <1>3, <2>1, <2>3
  <1>5. \E z \in W : \A y \in W : z >= y
    BY <1>4
  <1>6. Max(W) \in W /\ \A y \in W : Max(W) >= y
    BY <1>5 DEF Max
  <1>7. W \subseteq Int
    OBVIOUS
  <1>8. QED
    BY <1>6, <1>7

\* It is the only one.
LEMMA MaxIsOnly ==
  ASSUME NEW N \in Nat, NEW W \in SUBSET (0..N), NEW x \in W, \A y \in W : y <= x
  PROVE  Max(W) = x
  <1>1. W # {}
    OBVIOUS
  <1>2. PICK z : z = Max(W)
    OBVIOUS
  <1>3. z \in W /\ \A y \in W : y <= z
    BY <1>1, <1>2, MaxIs
  <1>4. x <= z /\ z <= x /\ x \in 0..N /\ z \in 0..N
    BY <1>3
  <1>5. QED
    BY <1>2, <1>4

\* PeerOpened is one of the whole frames, and the last.
LEMMA OpenedIs ==
  ASSUME Inv
  PROVE  /\ Len(frames) \in Nat /\ Whole \in SUBSET (0..Len(frames))
         /\ PeerOpened \in Whole /\ \A y \in Whole : y <= PeerOpened
         /\ PeerOpened \in 0..Len(frames)
         /\ Len(outAll) \in Nat /\ Len(out) \in Nat /\ Len(out) <= Len(outAll)
         /\ FrameChunks \in Nat \ {0}
  <1>1. frames \in Seq(Frame) /\ out \in Seq(OutChunk) /\ outAll \in Seq(OutChunk)
        /\ Len(out) <= Len(outAll) /\ FrameChunks \in Nat \ {0}
    BY ChunksAssumption DEF Inv, OutShape
  <1>2. Len(frames) \in Nat /\ Len(out) \in Nat /\ Len(outAll) \in Nat
    BY <1>1
  <1>3. Whole \in SUBSET (0..Len(frames))
    BY DEF Whole
  <1>4. 0 \in Whole
    <2>1. 0 \in 0..Len(frames) /\ 0 * FrameChunks = 0 /\ 1..0 = {}
      BY <1>1, <1>2
    <2>2. 0 * FrameChunks <= Len(outAll) - Len(out)
      BY <1>1, <1>2, <2>1
    <2>3. \A k \in 1..(0 * FrameChunks) : outAll[k] = FrameChunk(k)
      BY <2>1
    <2>4. QED
      BY <2>1, <2>2, <2>3 DEF Whole
  <1>5. PeerOpened = Max(Whole)
    BY DEF PeerOpened, Whole
  <1>6. Max(Whole) \in Whole /\ \A y \in Whole : y <= Max(Whole)
    <2>1. PICK N \in Nat : N = Len(frames)
      BY <1>2
    <2>2. PICK W : W = Whole
      OBVIOUS
    <2>3. W \in SUBSET (0..N) /\ W # {}
      BY <1>3, <1>4, <2>1, <2>2
    <2>4. Max(W) \in W /\ \A y \in W : y <= Max(W)
      BY <2>3, MaxIs
    <2>5. QED
      BY <2>2, <2>4
  <1>7. QED
    BY <1>1, <1>2, <1>3, <1>5, <1>6

\* The first n of the things sent in the frames f.
WhatsOf(f, n) == [i \in 1..n |-> f[i].what]

\* One thing more.
LEMMA WhatsNext ==
  ASSUME NEW f \in Seq(Frame), NEW n \in Nat, n < Len(f)
  PROVE  /\ WhatsOf(f, n) \in Seq(What) /\ Len(WhatsOf(f, n)) = n
         /\ WhatsOf(f, n + 1) = Append(WhatsOf(f, n), f[n + 1].what)
         /\ f[n + 1].what \in What
  <1> DEFINE V(i) == f[i].what
             g == [i \in 1..n |-> V(i)]
             h == [i \in 1..(n + 1) |-> V(i)]
  <1>1. Len(f) \in Nat /\ \A i \in 1..Len(f) : f[i] \in Frame
    OBVIOUS
  <1>2. \A i \in 1..(n + 1) : V(i) \in What
    BY <1>1 DEF Frame
  <1>3. WhatsOf(f, n) = g /\ WhatsOf(f, n + 1) = h
    BY DEF WhatsOf
  <1> HIDE DEF V
  <1>4. g \in [1..n -> What] /\ \A i \in 1..n : g[i] = V(i)
    BY <1>2
  <1>5. h \in [1..(n + 1) -> What] /\ \A i \in 1..(n + 1) : h[i] = V(i)
    BY <1>2
  <1> HIDE DEF g, h
  <1>6. g \in Seq(What) /\ Len(g) = n
    BY <1>4
  <1>7. h \in Seq(What) /\ Len(h) = n + 1
    BY <1>5
  <1>8. V(n + 1) \in What
    BY <1>2
  <1>9. Append(g, V(n + 1)) \in Seq(What) /\ Len(Append(g, V(n + 1))) = n + 1
        /\ \A i \in 1..(n + 1) : Append(g, V(n + 1))[i] = h[i]
    BY <1>4, <1>5, <1>6, <1>8
  <1>10. h = Append(g, V(n + 1))
    BY <1>7, <1>9
  <1>11. QED
    BY <1>3, <1>6, <1>8, <1>10 DEF V

\* A step that does not touch the reader and the peer's messages.
LEMMA SilentInbound ==
  ASSUME peerSent' = peerSent, handled' = handled, endedBy' = endedBy, opened' = opened,
         rphase' = rphase, msg_len' = msg_len, bytesLost' = bytesLost
  PROVE  SameInbound
  BY DEF SameInbound, PeerTaken, Received, Astray

\* A step that neither encrypts nor writes nor reads what is written.
LEMMA SilentOutbound ==
  ASSUME frames' = frames, out' = out, outAll' = outAll
  PROVE  SameOutbound
  <1>1. OurIn' = OurIn /\ PeerOpened' = PeerOpened
    BY DEF OurIn, Whats, PeerOpened, FrameChunk
  <1>2. OurDone' = OurDone
    BY <1>1 DEF OurDone, Whats
  <1>3. QED
    BY <1>1, <1>2 DEF SameOutbound

\* As long as the loop goes on, what came out is what has been handled.
LEMMA ReceivedIs ==
  ASSUME Inv, pc[Task] \in {"select", "lock", "write"}
  PROVE  Received = handled
  BY DEF Inv, StreamInv, Received

\* PeerSend hands the message to the channel.
LEMMA PeerSendRefines ==
  ASSUME NEW m \in Message, PeerSend(m)
  PROVE  Channel!Accept("peer")
  <1>1. /\ peerSent' = Append(peerSent, m) /\ handled' = handled /\ endedBy' = endedBy
        /\ opened' = opened /\ rphase' = rphase /\ msg_len' = msg_len
        /\ bytesLost' = bytesLost /\ frames' = frames /\ out' = out /\ outAll' = outAll
    BY DEF PeerSend, readVars, writeVars
  <1>2. SameOutbound
    BY <1>1, SilentOutbound
  <1>3. PeerTaken' = PeerTaken /\ Received' = Received /\ Astray' = Astray
    BY <1>1 DEF PeerTaken, Received, Astray
  <1>4. QED
    BY <1>1, <1>2, <1>3, AcceptsPeer

\* ReadHeader passes over a body that opens as a header.
LEMMA ReadHeaderRefines ==
  ASSUME Inv, ReadHeader
  PROVE  Channel!Skip("peer") \/ UNCHANGED Channel!vars
  <1>1. PICK buf : buf = Append(rbuf, Head(inq))
    OBVIOUS
  <1>2. /\ pc[Task] = "select" /\ rphase = "header" /\ inq # <<>> /\ Len(rbuf) + 1 = Wanted
        /\ peerSent' = peerSent /\ handled' = handled /\ bytesLost' = bytesLost
        /\ frames' = frames /\ out' = out /\ outAll' = outAll
    BY DEF ReadHeader, peerVars, writeVars
  <1>3. SameOutbound
    BY <1>2, SilentOutbound
  <1>4. Received = handled /\ endedBy # "short"
    BY <1>2, ReceivedIs DEF Inv, StreamInv
  <1>5. buf \in Seq(InChunk) /\ buf # <<>> /\ Len(buf) = HeaderChunks
    BY <1>1, <1>2, NextBuffer DEF Wanted
  <1>6. CASE ~Opens(buf)
    <2>1. opened' = opened /\ rphase' = rphase /\ msg_len' = msg_len /\ endedBy' = "decrypt"
      BY <1>1, <1>6 DEF ReadHeader, EndLoop
    <2>2. Received' = Received
      BY <1>2, <1>4, <2>1 DEF Received
    <2>3. SameInbound
      BY <1>2, <2>1, <2>2 DEF SameInbound, PeerTaken, Astray
    <2>4. QED
      BY <1>3, <2>3, Stutters
  <1>7. CASE Opens(buf)
    <2>1. /\ opened' = opened + 1 /\ rphase' = "body" /\ msg_len' = AnnouncedBy(buf)
          /\ endedBy' = endedBy
      BY <1>1, <1>7 DEF ReadHeader
    <2>2. Received' = Received
      BY <1>2, <2>1 DEF Received
    <2>3. /\ Head(buf).unit = opened + 1
          /\ opened % 2 = 0 \/ opened % 2 = 1
          /\ UnitMessage(opened + 1) \in Message /\ Len(buf) = UnitChunks(opened + 1)
          /\ opened \div 2 < Len(peerSent)
          /\ opened % 2 = 1 => /\ UnitMessage(opened + 1) = peerSent[(opened \div 2) + 1]
                               /\ UnitChunks(opened + 1) = Chunks[UnitMessage(opened + 1)]
                               /\ (opened + 1) \div 2 = (opened \div 2) + 1
                               /\ (opened + 1) % 2 = 0
          /\ opened % 2 = 0 => /\ (opened + 1) \div 2 = opened \div 2
                               /\ (opened + 1) % 2 = 1
      BY <1>5, <1>7, OpenedUnit
    <2>4. Astray = FALSE
      BY <1>2 DEF Astray
    <2>5. CASE opened % 2 = 0
      <3>1. PeerTaken' = PeerTaken
        BY <2>1, <2>3, <2>5 DEF PeerTaken
      <3>2. Astray' = FALSE
        BY <2>1, <2>3, <2>5 DEF Astray
      <3>3. SameInbound
        BY <1>2, <2>2, <2>4, <3>1, <3>2 DEF SameInbound
      <3>4. QED
        BY <1>3, <3>3, Stutters
    <2>6. CASE opened % 2 = 1
      <3>1. PICK m \in Message : m = UnitMessage(opened + 1)
        BY <2>3
      <3>2. /\ PeerTaken < Len(peerSent) /\ peerSent[PeerTaken + 1] = m
            /\ PeerTaken' = PeerTaken + 1
        BY <2>1, <2>3, <2>6, <3>1 DEF PeerTaken
      <3>3. bytesLost
        BY <1>2, <2>6 DEF Inv, StreamInv
      <3>4. Chunks[m] = HeaderChunks /\ m \in Bare
        BY <1>5, <2>3, <2>6, <3>1 DEF Bare
      <3>5. msg_len' = Announced[m]
        <4>1. (opened + 1) % 2 # 1
          BY <2>3, <2>6
        <4>2. QED
          BY <2>1, <2>3, <3>1, <4>1 DEF AnnouncedBy
      <3>6. Astray' = (m \in Mimic)
        <4>1. m \in Mimic <=> Announced[m] = HeaderChunks
          BY <3>4 DEF Mimic
        <4>2. Astray' <=> msg_len' = HeaderChunks
          BY <2>1, <2>3, <2>6 DEF Astray
        <4>3. QED
          BY <3>5, <4>1, <4>2 DEF Astray
      <3>7. QED
        BY <1>2, <1>3, <2>2, <2>4, <3>2, <3>3, <3>4, <3>6, Skips
    <2>7. QED
      BY <2>3, <2>5, <2>6
  <1>8. QED
    BY <1>6, <1>7

\* ReadBody delivers the message that it opens, or hands on the header that it opens as
\* a body.
LEMMA ReadBodyRefines ==
  ASSUME Inv, ReadBody
  PROVE  \/ Channel!Deliver("peer") \/ Channel!HandOnHeader("peer")
         \/ Channel!Interrupt("peer") \/ UNCHANGED Channel!vars
  <1>1. PICK buf, m : buf = Append(rbuf, Head(inq)) /\ m = MessageIn(buf)
    OBVIOUS
  <1>2. /\ pc[Task] = "select" /\ rphase = "body" /\ inq # <<>> /\ Len(rbuf) + 1 = Wanted
        /\ rphase' = "header" /\ opened' = IF Opens(buf) THEN opened + 1 ELSE opened
        /\ peerSent' = peerSent /\ bytesLost' = bytesLost
        /\ frames' = frames /\ out' = out /\ outAll' = outAll
    BY <1>1 DEF ReadBody, peerVars
  <1>3. SameOutbound
    BY <1>2, SilentOutbound
  <1>4. Received = handled /\ endedBy # "short"
    BY <1>2, ReceivedIs DEF Inv, StreamInv
  <1>5. buf \in Seq(InChunk) /\ buf # <<>> /\ Len(buf) = msg_len
    BY <1>1, <1>2, NextBuffer DEF Wanted
  <1>6. Astray' = FALSE
    BY <1>2 DEF Astray
  <1>7. CASE ~Opens(buf)
    <2>1. endedBy' = "decrypt" /\ handled' = handled /\ opened' = opened
      BY <1>1, <1>2, <1>7 DEF ReadBody, EndLoop
    <2>2. Received' = Received /\ PeerTaken' = PeerTaken
      BY <1>4, <2>1 DEF Received, PeerTaken
    <2>3. CASE Astray
      <3>1. bytesLost' = TRUE
        BY <1>2, <2>3 DEF Astray, Inv, StepInv, InShape
      <3>2. QED
        BY <1>2, <1>3, <1>6, <2>2, <3>1, Interrupts
    <2>4. CASE ~Astray
      <3>1. Astray' = Astray
        BY <1>6, <2>4 DEF Astray
      <3>2. SameInbound
        BY <1>2, <2>2, <3>1 DEF SameInbound
      <3>3. QED
        BY <1>3, <3>2, Stutters
    <2>5. QED
      BY <2>3, <2>4
  <1>8. CASE Opens(buf)
    <2>1. /\ opened % 2 = 0 \/ opened % 2 = 1
          /\ opened' = opened + 1
          /\ UnitMessage(opened + 1) \in Message /\ Len(buf) = UnitChunks(opened + 1)
          /\ opened \div 2 < Len(peerSent)
          /\ opened % 2 = 1 => /\ UnitMessage(opened + 1) = peerSent[(opened \div 2) + 1]
                               /\ m = UnitMessage(opened + 1)
                               /\ (opened + 1) \div 2 = (opened \div 2) + 1
          /\ opened % 2 = 0 => /\ UnitChunks(opened + 1) = HeaderChunks
                               /\ m = Stray
                               /\ (opened + 1) \div 2 = opened \div 2
      BY <1>1, <1>2, <1>5, <1>8, OpenedUnit
    <2>2. Received' = Append(Received, m)
      <3>1. CASE m = Short
        <4>1. endedBy' = "short" /\ handled' = handled
          BY <1>1, <1>8, <3>1 DEF ReadBody, EndLoop
        <4>2. QED
          BY <1>4, <3>1, <4>1 DEF Received
      <3>2. CASE m # Short
        <4>1. endedBy' = endedBy /\ handled' = Append(handled, m)
          BY <1>1, <1>8, <3>2 DEF ReadBody
        <4>2. QED
          BY <1>4, <4>1 DEF Received
      <3>3. QED
        BY <3>1, <3>2
    <2>3. PeerTaken < Len(peerSent)
      BY <2>1 DEF PeerTaken
    <2>4. CASE opened % 2 = 1
      <3>1. ~Astray /\ Astray = FALSE
        BY <2>4 DEF Astray
      <3>2. PeerTaken' = PeerTaken + 1 /\ m = peerSent[PeerTaken + 1]
        BY <2>1, <2>4 DEF PeerTaken
      <3>3. QED
        BY <1>2, <1>3, <1>6, <2>2, <2>3, <3>1, <3>2, DeliversPeer
    <2>5. CASE opened % 2 = 0
      <3>1. Astray
        BY <1>2, <1>5, <2>1, <2>5 DEF Astray
      <3>2. PeerTaken' = PeerTaken /\ m = Stray
        BY <2>1, <2>5 DEF PeerTaken
      <3>3. QED
        BY <1>2, <1>3, <1>6, <2>2, <2>3, <3>1, <3>2, HandsOn
    <2>6. QED
      BY <2>1, <2>4, <2>5
  <1>9. QED
    BY <1>7, <1>8

\* Tick interrupts the channel if the dropped call has taken bytes.
LEMMA TickRefines ==
  ASSUME Inv, Tick
  PROVE  Channel!Interrupt("peer") \/ UNCHANGED Channel!vars
  <1>1. /\ rphase' = "header" /\ bytesLost' = (bytesLost \/ rbuf # <<>> \/ rphase = "body")
        /\ peerSent' = peerSent /\ opened' = opened /\ handled' = handled
        /\ endedBy' = endedBy /\ frames' = frames /\ out' = out /\ outAll' = outAll
    BY DEF Tick, peerVars
  <1>2. SameOutbound
    BY <1>1, SilentOutbound
  <1>3. PeerTaken' = PeerTaken /\ Received' = Received
    BY <1>1 DEF PeerTaken, Received
  <1>4. Astray' = FALSE
    BY <1>1 DEF Astray
  <1>5. CASE bytesLost'
    <2>1. bytesLost' = TRUE
      BY <1>1, <1>5
    <2>2. QED
      BY <1>1, <1>2, <1>3, <1>4, <2>1, Interrupts
  <1>6. CASE ~bytesLost'
    <2>1. bytesLost' = bytesLost /\ rphase # "body"
      BY <1>1, <1>6 DEF Inv, InShape
    <2>2. Astray = FALSE
      BY <2>1 DEF Astray
    <2>3. SameInbound
      BY <1>1, <1>3, <1>4, <2>1, <2>2 DEF SameInbound
    <2>4. QED
      BY <1>2, <2>3, Stutters
  <1>7. QED
    BY <1>5, <1>6

\* The loop's other ends, and a command's failure, show nothing.
LEMMA EndsRefine ==
  ASSUME Inv, ReadEof \/ \E a \in Actor : WriteFails(a)
  PROVE  UNCHANGED Channel!vars
  <1>1. /\ peerSent' = peerSent /\ handled' = handled /\ opened' = opened
        /\ rphase' = rphase /\ msg_len' = msg_len /\ bytesLost' = bytesLost
        /\ frames' = frames /\ out' = out /\ outAll' = outAll
    BY DEF ReadEof, WriteFails, peerVars, writeVars
  <1>2. \/ endedBy' = endedBy
        \/ pc[Task] \in {"select", "lock", "write"} /\ endedBy' \in {"eof", "write"}
    BY DEF ReadEof, WriteFails, EndLoop
  <1>3. Received' = Received
    <2>1. CASE endedBy' = endedBy
      BY <1>1, <2>1 DEF Received
    <2>2. CASE pc[Task] \in {"select", "lock", "write"} /\ endedBy' \in {"eof", "write"}
      <3>1. Received = handled
        BY <2>2, ReceivedIs
      <3>2. QED
        BY <1>1, <2>2, <3>1 DEF Received
    <2>3. QED
      BY <1>2, <2>1, <2>2
  <1>4. SameInbound
    BY <1>1, <1>3 DEF SameInbound, PeerTaken, Astray
  <1>5. SameOutbound
    BY <1>1, SilentOutbound
  <1>6. QED
    BY <1>4, <1>5, Stutters

\* Encrypt hands the payload to the channel; what the peer can open stays the same.
LEMMA EncryptRefines ==
  ASSUME Inv, Inv', NEW a \in Actor, Encrypt(a)
  PROVE  Channel!Accept("daemon")
  <1>1. /\ frames' = Append(frames, [by |-> a, what |-> payload[a]]) /\ pc[a] = "lock"
        /\ handled' = handled /\ endedBy' = endedBy /\ opened' = opened /\ rphase' = rphase
        /\ msg_len' = msg_len /\ bytesLost' = bytesLost
        /\ peerSent' = peerSent /\ out' = out /\ outAll' = outAll
    BY DEF Encrypt, peerVars, readVars
  <1>2. PICK w \in What : w = payload[a]
    BY <1>1 DEF Inv, OutShape
  <1>3. PICK x \in Frame : x = [by |-> a, what |-> w] /\ frames' = Append(frames, x)
    BY <1>1, <1>2 DEF Frame
  <1>4. frames \in Seq(Frame) /\ frames' \in Seq(Frame) /\ outAll \in Seq(OutChunk)
    BY DEF Inv, OutShape
  <1>5. PICK n \in Nat : n = Len(frames)
    BY <1>4
  <1>6. /\ Len(frames') = n + 1 /\ frames'[n + 1] = x
        /\ \A i \in 1..n : frames'[i] = frames[i]
    <2>1. frames \in Seq(Frame) /\ x \in Frame /\ frames' = Append(frames, x)
      BY <1>3, <1>4
    <2>2. QED
      BY ONLY <1>5, <2>1, AppendElements
  <1>7. SameInbound
    BY <1>1, SilentInbound
  <1>8. \A p \in 0..n : Whats(p)' = Whats(p)
    BY <1>6 DEF Whats
  <1>9. OurIn' = Append(OurIn, w)
    <2>1. Whats(n + 1)' = Append(Whats(n)', frames'[n + 1].what)
      <3>1. PICK f \in Seq(Frame) : f = frames'
        BY <1>4
      <3>2. n < Len(f)
        BY <1>6, <3>1
      <3>3. WhatsOf(f, n + 1) = Append(WhatsOf(f, n), f[n + 1].what)
        BY <3>2, WhatsNext
      <3>4. Whats(n + 1)' = WhatsOf(f, n + 1) /\ Whats(n)' = WhatsOf(f, n)
        BY <3>1 DEF Whats, WhatsOf
      <3>5. QED
        BY <3>1, <3>3, <3>4
    <2>2. frames'[n + 1].what = w
      BY <1>3, <1>6
    <2>3. Whats(n)' = Whats(n)
      BY <1>8
    <2>4. OurIn' = Whats(n + 1)' /\ OurIn = Whats(n)
      BY <1>5, <1>6 DEF OurIn, Whats
    <2>5. QED
      BY <2>1, <2>2, <2>3, <2>4
  <1>10. PICK p : p = PeerOpened
    OBVIOUS
  <1>11. /\ Whole \in SUBSET (0..n) /\ p \in Whole /\ (\A y \in Whole : y <= p) /\ p \in 0..n
         /\ Len(outAll) \in Nat /\ Len(out) \in Nat /\ Len(out) <= Len(outAll)
         /\ FrameChunks \in Nat \ {0}
    BY <1>5, <1>10, OpenedIs
  <1>12. n + 1 \notin Whole'
    <2> DEFINE q == (n + 1) * FrameChunks
    <2>1. SUFFICES ASSUME n + 1 \in Whole' PROVE FALSE
      OBVIOUS
    <2>2. q <= Len(outAll) - Len(out) /\ \A k \in 1..q : outAll[k] = FrameChunk(k)
      BY <1>1, <2>1 DEF Whole, FrameChunk
    <2>3. q = n * FrameChunks + (FrameChunks - 1) + 1 /\ q \in Nat
      BY <1>11
    <2>4. FrameChunks - 1 \in 0..(FrameChunks - 1)
      BY <1>11
    <2>5. FrameChunk(n * FrameChunks + (FrameChunks - 1) + 1)
            = [frame |-> n + 1, at |-> (FrameChunks - 1) + 1]
      BY <2>4, NextChunk
    <2>6. FrameChunk(q).frame = n + 1
      BY <2>3, <2>5
    <2> HIDE DEF q
    <2>7. q \in 1..q /\ q \in 1..Len(outAll)
      <3>1. q # 0
        <4>1. \A d \in Nat \ {0} : (n + 1) * d # 0
          OBVIOUS
        <4>2. QED
          BY <1>11, <4>1 DEF q
      <3>2. QED
        BY <1>11, <2>2, <2>3, <3>1
    <2>8. outAll[q] \in OutChunk
      BY <1>4, <2>7
    <2>9. outAll[q].frame \in 0..n
      BY <1>5, <2>8 DEF OutChunk
    <2>10. outAll[q] = FrameChunk(q)
      BY <2>2, <2>7
    <2>11. QED
      BY <2>6, <2>9, <2>10
  <1>13. Whole' = Whole
    <2>1. \A y : y \in 0..Len(frames') <=> y \in 0..Len(frames) \/ y = n + 1
      BY <1>5, <1>6
    <2>2. \A y : y \in Whole' <=> /\ y \in 0..Len(frames')
                                  /\ y * FrameChunks <= Len(outAll) - Len(out)
                                  /\ \A k \in 1..(y * FrameChunks) : outAll[k] = FrameChunk(k)
      BY <1>1 DEF Whole, FrameChunk
    <2>3. \A y : y \in Whole <=> /\ y \in 0..Len(frames)
                                 /\ y * FrameChunks <= Len(outAll) - Len(out)
                                 /\ \A k \in 1..(y * FrameChunks) : outAll[k] = FrameChunk(k)
      BY DEF Whole
    <2>4. \A y : y \in Whole' <=> y \in Whole
      BY <1>12, <2>1, <2>2, <2>3
    <2>5. QED
      BY <2>4
  <1>14. PeerOpened' = p
    BY <1>10, <1>13 DEF PeerOpened, Whole
  <1>15. OurDone' = OurDone
    <2>1. OurDone' = Whats(p)' /\ OurDone = Whats(p)
      BY <1>10, <1>14 DEF OurDone, Whats
    <2>2. QED
      BY <1>8, <1>11, <2>1
  <1>16. QED
    BY <1>7, <1>9, <1>10, <1>14, <1>15, AcceptsOurs

\* Write changes nothing that the peer has read.
LEMMA WriteRefines ==
  ASSUME Inv, Inv', NEW a \in Actor, Write(a)
  PROVE  UNCHANGED Channel!vars
  <1>1. PICK c : out' = Append(out, c) /\ outAll' = Append(outAll, c)
    BY DEF Write
  <1>2. /\ frames' = frames /\ handled' = handled /\ peerSent' = peerSent /\ endedBy' = endedBy
        /\ opened' = opened /\ rphase' = rphase /\ msg_len' = msg_len
        /\ bytesLost' = bytesLost
    BY DEF Write, peerVars, readVars
  <1>3. out \in Seq(OutChunk) /\ outAll \in Seq(OutChunk)
    BY DEF Inv, OutShape
  <1>4. /\ Len(frames) \in Nat /\ Len(outAll) \in Nat /\ Len(out) \in Nat
        /\ FrameChunks \in Nat \ {0}
    BY OpenedIs
  <1>5. /\ Len(outAll') = Len(outAll) + 1 /\ Len(out') = Len(out) + 1
        /\ \A k \in 1..Len(outAll) : outAll'[k] = outAll[k]
    BY <1>1, <1>3
  <1>6. Len(outAll') - Len(out') = Len(outAll) - Len(out)
    BY <1>4, <1>5
  <1>7. ASSUME NEW y \in 0..Len(frames), y * FrameChunks <= Len(outAll) - Len(out)
        PROVE  \A k \in 1..(y * FrameChunks) : outAll'[k] = outAll[k]
    <2>1. PICK z \in Nat : z = y * FrameChunks
      BY <1>4
    <2>2. 1..z \subseteq 1..Len(outAll)
      BY <1>4, <1>7, <2>1
    <2>3. QED
      BY <1>5, <2>1, <2>2
  <1>8. \A y : y \in Whole' <=> /\ y \in 0..Len(frames)
                                /\ y * FrameChunks <= Len(outAll) - Len(out)
                                /\ \A k \in 1..(y * FrameChunks) : outAll'[k] = FrameChunk(k)
    BY <1>2, <1>6 DEF Whole, FrameChunk
  <1>9. \A y : y \in Whole <=> /\ y \in 0..Len(frames)
                               /\ y * FrameChunks <= Len(outAll) - Len(out)
                               /\ \A k \in 1..(y * FrameChunks) : outAll[k] = FrameChunk(k)
    BY DEF Whole
  <1>10. \A y : y \in Whole' <=> y \in Whole
    BY <1>7, <1>8, <1>9
  <1>11. Whole' = Whole
    BY <1>10
  <1>12. PeerOpened' = PeerOpened
    BY <1>11 DEF PeerOpened, Whole
  <1>13. OurDone' = OurDone
    BY <1>2, <1>12 DEF OurDone, Whats
  <1>14. OurIn' = OurIn
    BY <1>2 DEF OurIn, Whats
  <1>15. SameInbound
    BY <1>2, SilentInbound
  <1>16. QED
    BY <1>12, <1>13, <1>14, <1>15, Stutters DEF SameOutbound

\* PeerRead delivers the frame whose last chunk it reads.
LEMMA PeerReadRefines ==
  ASSUME Inv, Inv', PeerRead
  PROVE  Channel!Deliver("daemon") \/ UNCHANGED Channel!vars
  <1>1. /\ out # <<>> /\ out' = Tail(out) /\ frames' = frames /\ handled' = handled
        /\ peerSent' = peerSent /\ outAll' = outAll /\ endedBy' = endedBy
        /\ opened' = opened /\ rphase' = rphase /\ msg_len' = msg_len
        /\ bytesLost' = bytesLost
    BY DEF PeerRead, peerVars, readVars, writeVars
  <1>2. out \in Seq(OutChunk) /\ frames \in Seq(Frame)
    BY DEF Inv, OutShape
  <1>3. PICK p, W, V, n : p = PeerOpened /\ W = Whole /\ V = Whole' /\ n = Len(frames)
    OBVIOUS
  <1>4. /\ n \in Nat /\ W \in SUBSET (0..n) /\ p \in W /\ (\A y \in W : y <= p) /\ p \in 0..n
        /\ Len(outAll) \in Nat /\ Len(out) \in Nat /\ Len(out) <= Len(outAll)
        /\ FrameChunks \in Nat \ {0}
    BY <1>3, OpenedIs
  <1>5. PICK g \in Nat : g = Len(outAll) - Len(out) /\ Len(outAll') - Len(out') = g + 1
    <2>1. Len(out') = Len(out) - 1
      BY <1>1, <1>2
    <2>2. Len(outAll) - Len(out) \in Nat
          /\ Len(outAll') - Len(out') = (Len(outAll) - Len(out)) + 1
      BY <1>1, <1>4, <2>1
    <2>3. QED
      BY <2>2
  <1>6. \A y : y \in V <=> /\ y \in 0..n /\ y * FrameChunks <= g + 1
                           /\ \A k \in 1..(y * FrameChunks) : outAll[k] = FrameChunk(k)
    BY <1>1, <1>3, <1>5 DEF Whole, FrameChunk
  <1>7. \A y : y \in W <=> /\ y \in 0..n /\ y * FrameChunks <= g
                           /\ \A k \in 1..(y * FrameChunks) : outAll[k] = FrameChunk(k)
    BY <1>3, <1>5 DEF Whole
  <1>8. p \in V
    <2>1. PICK z \in Nat : z = p * FrameChunks
      BY <1>4
    <2>2. z <= g => z <= g + 1
      OBVIOUS
    <2>3. QED
      BY <1>4, <1>6, <1>7, <2>1, <2>2
  <1>9. ASSUME NEW y \in V PROVE y <= p + 1
    <2>1. CASE y = 0
      BY <1>4, <2>1
    <2>2. CASE y # 0
      <3>1. y \in 0..n
        BY <1>6
      <3>2. PICK x \in Nat : y = x + 1
        BY <2>2, <3>1
      <3>3. x \in 0..n
        BY <1>4, <3>1, <3>2
      <3>4. PICK u, v \in Nat : u = x * FrameChunks /\ v = y * FrameChunks
        BY <1>4, <3>1, <3>2
      <3>5. v = u + FrameChunks
        BY <1>4, <3>2, <3>4
      <3>6. v <= g + 1 /\ \A k \in 1..v : outAll[k] = FrameChunk(k)
        BY <1>6, <3>4
      <3>7. u <= g /\ 1..u \subseteq 1..v
        BY <1>4, <3>5, <3>6
      <3>8. x \in W
        BY <1>7, <3>3, <3>4, <3>6, <3>7
      <3>9. x <= p
        BY <1>4, <3>8
      <3>10. QED
        BY <1>4, <3>2, <3>9
    <2>3. QED
      BY <2>1, <2>2
  <1>10. V \in SUBSET (0..n)
    BY <1>6
  <1>11. PeerOpened' = Max(V)
    BY <1>3 DEF PeerOpened, Whole
  <1>12. SameInbound /\ OurIn' = OurIn
    BY <1>1, SilentInbound DEF OurIn, Whats
  <1>13. OurDone = WhatsOf(frames, p) /\ OurIn = WhatsOf(frames, n)
    BY <1>3 DEF OurDone, OurIn, Whats, WhatsOf
  <1>14. \A q : PeerOpened' = q => OurDone' = WhatsOf(frames, q)
    BY <1>1 DEF OurDone, Whats, WhatsOf
  <1>15. CASE p + 1 \in V
    <2>1. Max(V) = p + 1
      <3>1. PICK q \in V : q = p + 1
        BY <1>15
      <3>2. \A y \in V : y <= q
        BY <1>9, <3>1
      <3>3. Max(V) = q
        BY <1>4, <1>10, <3>2, MaxIsOnly
      <3>4. QED
        BY <3>1, <3>3
    <2>2. OurDone' = WhatsOf(frames, p + 1)
      BY <1>11, <1>14, <2>1
    <2>3. p \in Nat /\ p < n /\ n = Len(frames)
      BY <1>3, <1>4, <1>10, <1>15
    <2>4. /\ WhatsOf(frames, p) \in Seq(What) /\ Len(WhatsOf(frames, p)) = p
          /\ WhatsOf(frames, p + 1) = Append(WhatsOf(frames, p), frames[p + 1].what)
      BY <1>2, <2>3, WhatsNext
    <2>6. Len(OurIn) = n /\ OurIn[p + 1] = frames[p + 1].what
      <3>1. WhatsOf(frames, n) = [i \in 1..n |-> frames[i].what]
        BY DEF WhatsOf
      <3>2. p + 1 \in 1..n
        BY <1>4, <2>3
      <3>3. WhatsOf(frames, n)[p + 1] = frames[p + 1].what
        BY <3>1, <3>2
      <3>4. Len(WhatsOf(frames, n)) = n
        <4>1. PICK m \in Nat : n = m + 1
          BY <1>4, <2>3
        <4>2. m < Len(frames)
          BY <1>4, <2>3, <4>1
        <4>3. /\ WhatsOf(frames, m) \in Seq(What) /\ Len(WhatsOf(frames, m)) = m
              /\ WhatsOf(frames, m + 1) = Append(WhatsOf(frames, m), frames[m + 1].what)
              /\ frames[m + 1].what \in What
          BY <1>2, <4>2, WhatsNext
        <4>4. Len(Append(WhatsOf(frames, m), frames[m + 1].what)) = m + 1
          BY <4>3
        <4>5. QED
          BY <4>1, <4>3, <4>4
      <3>5. QED
        BY <1>13, <3>3, <3>4
    <2>7. OurDone' = Append(OurDone, OurIn[p + 1])
      BY <1>13, <2>2, <2>4, <2>6
    <2>8. PeerOpened = p /\ p < Len(OurIn) /\ PeerOpened' = p + 1
      BY <1>3, <1>11, <2>1, <2>3, <2>6
    <2>9. QED
      BY <1>12, <2>7, <2>8, DeliversOurs
  <1>16. CASE p + 1 \notin V
    <2>1. ASSUME NEW y \in V PROVE y <= p
      <3>1. y <= p + 1 /\ y # p + 1 /\ y \in 0..n
        BY <1>9, <1>10, <1>16
      <3>2. QED
        BY <1>4, <3>1
    <2>2. Max(V) = p
      BY <1>4, <1>8, <1>10, <2>1, MaxIsOnly
    <2>3. OurDone' = OurDone
      BY <1>11, <1>13, <1>14, <2>2
    <2>4. QED
      BY <1>3, <1>11, <1>12, <2>2, <2>3, Stutters DEF SameOutbound
  <1>17. QED
    BY <1>15, <1>16

\* The channel is empty at first.
LEMMA InitRefines ==
  ASSUME Init
  PROVE  Channel!Init
  <1>1. /\ peerSent = <<>> /\ handled = <<>> /\ frames = <<>> /\ opened = 0
        /\ rphase = "header" /\ bytesLost = FALSE
    BY DEF Init
  <1>2. PeerTaken = 0 /\ Received = <<>> /\ Astray = FALSE
    <2>1. Inv /\ pc[Task] = "select"
      BY InitInv, Actors DEF Init
    <2>2. Received = handled
      BY <2>1, ReceivedIs
    <2>3. QED
      BY <1>1, <2>2 DEF PeerTaken, Astray
  <1>3. Len(frames) = 0
    BY <1>1
  <1>4. PeerOpened = 0
    <2>1. Inv
      BY InitInv
    <2>2. PeerOpened \in 0..Len(frames)
      BY <2>1, OpenedIs
    <2>3. QED
      BY <1>3, <2>2
  <1>5. Whats(0) = <<>>
    BY DEF Whats
  <1>6. OurIn = <<>> /\ OurDone = <<>>
    BY <1>3, <1>4, <1>5 DEF OurIn, OurDone
  <1>7. QED
    BY <1>1, <1>2, <1>4, <1>6 DEF Channel!Init, PeerTaken, Astray, OurIn, OurDone, Both

\* Every step of the connection is a step of the channel or changes nothing of it.
LEMMA NextRefines ==
  ASSUME Inv, Inv', [Next]_vars
  PROVE  [Channel!Next]_(Channel!vars)
  <1>1. \A e \in Ends : \/ Channel!Accept(e) \/ Channel!Deliver(e) \/ Channel!Interrupt(e)
                        \/ Channel!Skip(e) \/ Channel!HandOnHeader(e)
                        => Channel!Next
    BY DEF Channel!Next
  <1>2. "peer" \in Ends /\ "daemon" \in Ends
    BY DEF Ends
  <1>3. ASSUME NEW m \in Message, PeerSend(m) PROVE [Channel!Next]_(Channel!vars)
    BY <1>1, <1>2, <1>3, PeerSendRefines
  <1>4. CASE PeerRead
    BY <1>1, <1>2, <1>4, PeerReadRefines
  <1>5. CASE ReadHeader
    BY <1>1, <1>2, <1>5, ReadHeaderRefines
  <1>6. CASE ReadBody
    BY <1>1, <1>2, <1>6, ReadBodyRefines
  <1>7. CASE Tick
    BY <1>1, <1>2, <1>7, TickRefines
  <1>8. ASSUME NEW a \in Actor, Encrypt(a) PROVE [Channel!Next]_(Channel!vars)
    BY <1>1, <1>2, <1>8, EncryptRefines
  <1>9. ASSUME NEW a \in Actor, Write(a) PROVE [Channel!Next]_(Channel!vars)
    BY <1>9, WriteRefines
  <1>10. CASE ReadEof \/ \E a \in Actor : WriteFails(a)
    BY <1>10, EndsRefine
  <1>11. CASE PeerClose \/ ReadChunk \/ Abort \/ (\E c \in Command : CommandStart(c))
              \/ UNCHANGED vars
    <2>1. /\ peerSent' = peerSent /\ handled' = handled /\ endedBy' = endedBy
          /\ opened' = opened /\ rphase' = rphase /\ msg_len' = msg_len
          /\ bytesLost' = bytesLost /\ frames' = frames /\ out' = out /\ outAll' = outAll
      BY <1>11 DEF PeerClose, ReadChunk, Abort, CommandStart, peerVars, readVars, writeVars,
                   vars
    <2>2. QED
      BY <2>1, SilentInbound, SilentOutbound, Stutters
  <1>12. QED
    BY <1>3, <1>4, <1>5, <1>6, <1>7, <1>8, <1>9, <1>10, <1>11 DEF Next, TaskStep

\* However recv and send are interrupted, the connection that cmd_connect sets up is
\* InterruptedChannel, for every message of either end.  Until the timer has dropped a
\* recv call that had taken bytes, that is the full in-order channel in both directions;
\* after that only bare types can be passed over, and only a bare type 2 that is passed
\* over makes recv hand on a length field, once.
THEOREM IsChannel == Spec => ImplementsChannel
  <1>1. Init => Channel!Init
    BY InitRefines
  <1>2. Inv /\ Inv' /\ [Next]_vars => [Channel!Next]_(Channel!vars)
    BY NextRefines
  <1>3. QED
    BY <1>1, <1>2, Invariance, PTL DEF Spec, ImplementsChannel, Channel!Spec
==============================================================================
