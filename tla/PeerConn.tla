------------------------------ MODULE PeerConn -------------------------------
(***************************************************************************)
(* One established connection of the daemon: the read task that            *)
(* cmd_connect spawns (bin/simd.rs), the two halves of the connection      *)
(* (conn.rs) and the commands that share its writer.                       *)
(*                                                                         *)
(* TCP delivers a frame in chunks.  NoiseReader::recv collects the chunks  *)
(* of a length header, then those of a body, in buffers local to the call. *)
(* The read task races that call against a ping timer in tokio::select!:   *)
(* when the timer wins, the call is dropped together with its buffers.     *)
(* NoiseWriter::send encrypts a frame and writes it chunk by chunk; the    *)
(* read task and the commands take turns through the writer's mutex, which *)
(* is fair.  cmd_disconnect aborts the read task at any await.             *)
(*                                                                         *)
(* The cipher appears through what NoiseCipher establishes: a unit opens   *)
(* exactly when it is read whole and it is the next one in nonce order.    *)
(***************************************************************************)
EXTENDS Integers, Sequences, SequencesExt

CONSTANTS
  Message,       \* what the peer may send; contains the four kinds below
  Ping, Query,   \* messages that call for an answer
  Short,         \* a body of fewer than two bytes
  Stray,         \* the two bytes of a length field, when recv hands them on as a body
  Chunks,        \* Chunks[m]: TCP chunks of the encrypted body of m
  HeaderChunks,  \* TCP chunks of an encrypted length header
  Announced,     \* Announced[m]: chunks that the body of m announces, read as a header
  FrameChunks,   \* chunks in which write_all writes one outbound frame
  Command,       \* commands that hold the writer of this connection
  MaxIn,         \* bound: messages the peer sends
  MaxTicks,      \* bound: expirations of the ping timer
  OutCap         \* chunks the socket's send buffer holds

ASSUME KindAssumption == {Ping, Query, Short} \subseteq Message /\ Stray \notin Message

\* A body of two bytes, a bare type, has the length of a header; type 2 announces
\* another two.
ASSUME ChunksAssumption ==
  /\ HeaderChunks \in Nat \ {0}
  /\ Chunks \in [Message -> Nat \ {0}]
  /\ Announced \in [Message -> Nat \ {0}]
  /\ FrameChunks \in Nat \ {0} /\ OutCap \in Nat \ {0}

ASSUME BoundAssumption == MaxIn \in Nat /\ MaxTicks \in Nat

Task == "task"
Actor == {Task} \cup Command

ASSUME ActorAssumption == Task \notin Command

\* The elements of s that are in S, in their order.
Keep(s, S) ==
  LET kept[n \in 0..Len(s)] ==
        IF n = 0 THEN <<>>
        ELSE IF s[n] \in S THEN Append(kept[n - 1], s[n]) ELSE kept[n - 1]
  IN  kept[Len(s)]

VARIABLES
  \* The peer and the two byte streams.
  peerSent,   \* messages the peer has sent
  inq,        \* chunks on their way in: unit number and index within the unit
  out,        \* chunks written and not yet read by the peer
  closed,     \* the connection is down: the peer closed it and our socket knows
  \* The read task.
  pc,         \* pc[a]: where the read task or a command is
  rphase,     \* what the current recv call reads, "header" or "body"
  rbuf,       \* chunks in the current call's buffer
  msg_len,    \* chunks of the body that the last opened header announced
  opened,     \* units the RecvCipher has opened (its nonce)
  handled,    \* messages passed to handle_peer_message, oldest first
  ticks,      \* expirations of the ping timer
  \* The writer.
  lockq,      \* the mutex: its owner, then the actors waiting for it
  payload,    \* payload[a]: the message a is about to send or is sending
  frames,     \* frames the SendCipher has encrypted: by whom and what
  wframe,     \* wframe[a]: the frame a is writing
  wpos,       \* chunks of the current frame already written
  \* History.
  outAll,     \* every chunk ever written
  bytesLost,  \* a dropped recv call had already taken bytes
  endedBy     \* why the read loop ended: "", "decrypt", "short", "eof", "write"

peerVars == <<peerSent, closed>>
readVars == <<rphase, rbuf, msg_len, opened, handled, ticks, bytesLost, endedBy>>
writeVars == <<lockq, payload, frames, wframe, wpos, outAll>>
vars == <<peerSent, inq, out, closed, pc, rphase, rbuf, msg_len, opened, handled,
          ticks, lockq, payload, frames, wframe, wpos, outAll, bytesLost, endedBy>>

------------------------------------------------------------------------------
(* Units of the inbound stream: 2k-1 and 2k are the header and the body of  *)
(* the k-th message.                                                        *)

UnitMessage(n) == peerSent[(n + 1) \div 2]
UnitChunks(n) == IF n % 2 = 1 THEN HeaderChunks ELSE Chunks[UnitMessage(n)]
UnitOnWire(n, size) == [i \in 1..size |-> [unit |-> n, at |-> i]]

\* Fault: a tag that is not verified.
OpensUnverified(buf) == buf # <<>>

\* The buffer is the next unit in nonce order, whole.
Opens(buf) == buf = UnitOnWire(opened + 1, UnitChunks(opened + 1))

\* The chunks of the body that a buffer announces, which opens as a header.  After
\* a dropped call it may be a body.
AnnouncedBy(buf) ==
  LET n == Head(buf).unit
  IN  IF n % 2 = 1 THEN Chunks[UnitMessage(n)] ELSE Announced[UnitMessage(n)]

\* The message in a buffer that opens as a body.  After a dropped call it may be a
\* header.
MessageIn(buf) ==
  LET n == Head(buf).unit
  IN  IF n % 2 = 1 THEN Stray ELSE UnitMessage(n)

\* How many chunks the pending read_exact waits for.
Wanted == IF rphase = "header" THEN HeaderChunks ELSE msg_len

\* What handle_peer_message sends back; "" for everything it only logs, which a
\* length field is: no known type has an empty payload that calls for an answer.
Answer(m) == CASE m = Ping -> "pong" [] m = Query -> "range" [] OTHER -> ""

Init ==
  /\ peerSent = <<>> /\ inq = <<>> /\ out = <<>> /\ closed = FALSE
  /\ pc = [a \in Actor |-> IF a = Task THEN "select" ELSE "idle"]
  /\ rphase = "header" /\ rbuf = <<>> /\ msg_len = 0 /\ opened = 0 /\ handled = <<>> /\ ticks = 0
  /\ lockq = <<>> /\ payload = [a \in Actor |-> ""] /\ frames = <<>>
  /\ wframe = [a \in Actor |-> 0] /\ wpos = 0
  /\ outAll = <<>> /\ bytesLost = FALSE /\ endedBy = ""

------------------------------------------------------------------------------
(* The peer (external).                                                     *)

PeerSend(m) ==
  /\ ~closed /\ Len(peerSent) < MaxIn
  /\ peerSent' = Append(peerSent, m)
  /\ LET n == 2 * Len(peerSent) + 1
     IN  inq' = inq \o UnitOnWire(n, HeaderChunks) \o UnitOnWire(n + 1, Chunks[m])
  /\ UNCHANGED <<out, closed, pc, readVars, writeVars>>

PeerRead ==
  /\ out # <<>>
  /\ out' = Tail(out)
  /\ UNCHANGED <<peerVars, inq, pc, readVars, writeVars>>

PeerClose ==
  /\ ~closed
  /\ closed' = TRUE
  /\ UNCHANGED <<peerSent, inq, out, pc, readVars, writeVars>>

------------------------------------------------------------------------------
(* The read task.                                                           *)

\* The loop is left: the task drops its reader and its clone of the writer.
EndLoop(why) == pc' = [pc EXCEPT ![Task] = "ended"] /\ endedBy' = why

\* Fault: the task goes on reading while its answer waits for the lock.
RequestLockDetached(a, x) ==
  /\ pc' = [pc EXCEPT ![a] = IF a = Task THEN "select" ELSE "lock"]
  /\ payload' = [payload EXCEPT ![a] = x]
  /\ lockq' = Append(lockq, a)

\* Ask for the writer's lock to send x.
RequestLock(a, x) ==
  /\ pc' = [pc EXCEPT ![a] = "lock"]
  /\ payload' = [payload EXCEPT ![a] = x]
  /\ lockq' = Append(lockq, a)

\* A chunk that does not complete the pending read_exact.
ReadChunk ==
  /\ pc[Task] = "select" /\ inq # <<>> /\ Len(rbuf) + 1 < Wanted
  /\ rbuf' = Append(rbuf, Head(inq))
  /\ inq' = Tail(inq)
  /\ UNCHANGED <<peerVars, out, pc, rphase, msg_len, opened, handled, ticks,
                 bytesLost, endedBy, writeVars>>

\* The chunk that completes a header: decrypt_length runs without an await.
ReadHeader ==
  LET buf == Append(rbuf, Head(inq))
  IN  /\ pc[Task] = "select" /\ rphase = "header"
      /\ inq # <<>> /\ Len(rbuf) + 1 = Wanted
      /\ inq' = Tail(inq)
      /\ rbuf' = <<>>
      /\ \/ /\ Opens(buf)
            /\ opened' = opened + 1
            /\ rphase' = "body"
            /\ msg_len' = AnnouncedBy(buf)
            /\ UNCHANGED <<pc, endedBy>>
         \/ /\ ~Opens(buf)
            /\ EndLoop("decrypt")
            /\ UNCHANGED <<opened, rphase, msg_len>>
      /\ UNCHANGED <<peerVars, out, handled, ticks, bytesLost, writeVars>>

\* The chunk that completes a body: decrypt_message, then handle_peer_message up
\* to its first await.
ReadBody ==
  LET buf == Append(rbuf, Head(inq))
      m   == MessageIn(buf)
  IN  /\ pc[Task] = "select" /\ rphase = "body"
      /\ inq # <<>> /\ Len(rbuf) + 1 = Wanted
      /\ inq' = Tail(inq)
      /\ rbuf' = <<>>
      /\ rphase' = "header"
      /\ opened' = IF Opens(buf) THEN opened + 1 ELSE opened
      /\ \/ /\ ~Opens(buf)
            /\ EndLoop("decrypt")
            /\ UNCHANGED <<handled, lockq, payload>>
         \/ /\ Opens(buf) /\ m = Short
            /\ EndLoop("short")
            /\ UNCHANGED <<handled, lockq, payload>>
         \/ /\ Opens(buf) /\ m # Short
            /\ handled' = Append(handled, m)
            /\ IF Answer(m) = ""
                 THEN UNCHANGED <<pc, payload, lockq>>
                 ELSE RequestLock(Task, Answer(m))
            /\ UNCHANGED endedBy
      /\ UNCHANGED <<peerVars, out, msg_len, ticks, bytesLost, frames, wframe, wpos,
                     outAll>>

\* The stream ends, or is reset, which may take unread bytes with it.
ReadEof ==
  /\ pc[Task] = "select" /\ closed
  /\ EndLoop("eof")
  /\ UNCHANGED <<peerVars, inq, out, rphase, rbuf, msg_len, opened, handled, ticks,
                 bytesLost, writeVars>>

\* Fault: a buffer that outlives the call, while the call starts afresh.
TickKeepsBuffer ==
  /\ pc[Task] = "select" /\ ticks < MaxTicks
  /\ ticks' = ticks + 1
  /\ rphase' = "header"
  /\ RequestLock(Task, "ping")
  /\ UNCHANGED <<peerVars, inq, out, rbuf, msg_len, opened, handled, bytesLost, endedBy,
                 frames, wframe, wpos, outAll>>

\* The timer wins the select!: the recv call is dropped, and a new one starts
\* with a header once the ping is sent.
Tick ==
  /\ pc[Task] = "select" /\ ticks < MaxTicks
  /\ ticks' = ticks + 1
  /\ rbuf' = <<>>
  /\ rphase' = "header"
  /\ bytesLost' = (bytesLost \/ rbuf # <<>> \/ rphase = "body")
  /\ RequestLock(Task, "ping")
  /\ UNCHANGED <<peerVars, inq, out, msg_len, opened, handled, endedBy, frames,
                 wframe, wpos, outAll>>

\* Fault: an aborted task that leaves the lock taken.
AbortKeepsLock ==
  /\ pc[Task] \in {"select", "lock", "write"}
  /\ pc' = [pc EXCEPT ![Task] = "aborted"]
  /\ UNCHANGED <<peerVars, inq, out, readVars, lockq, payload, frames, wframe, wpos,
                 outAll>>

\* cmd_disconnect: the task goes away wherever it awaits.  If it owns the lock
\* its guard is dropped; what it has written stays written.
Abort ==
  /\ pc[Task] \in {"select", "lock", "write"}
  /\ pc' = [pc EXCEPT ![Task] = "aborted"]
  /\ lockq' = Keep(lockq, Command)
  /\ UNCHANGED <<peerVars, inq, out, readVars, payload, frames, wframe, wpos, outAll>>

------------------------------------------------------------------------------
(* Sending, by the read task or by a command.                               *)

\* A command that has cloned the writer asks for it.
CommandStart(c) ==
  /\ pc[c] = "idle"
  /\ RequestLock(c, "gossip")
  /\ UNCHANGED <<peerVars, inq, out, readVars, frames, wframe, wpos, outAll>>

\* Fault: the frame is encrypted before the lock is held.
EncryptUnlocked(a) ==
  /\ pc[a] = "lock"
  /\ pc' = [pc EXCEPT ![a] = "write"]
  /\ frames' = Append(frames, [by |-> a, what |-> payload[a]])
  /\ wframe' = [wframe EXCEPT ![a] = Len(frames) + 1]
  /\ wpos' = 0
  /\ UNCHANGED <<peerVars, inq, out, readVars, lockq, payload, outAll>>

\* The lock is ours: NoiseWriter::send encrypts the frame.
Encrypt(a) ==
  /\ pc[a] = "lock" /\ Head(lockq) = a
  /\ pc' = [pc EXCEPT ![a] = "write"]
  /\ frames' = Append(frames, [by |-> a, what |-> payload[a]])
  /\ wframe' = [wframe EXCEPT ![a] = Len(frames) + 1]
  /\ wpos' = 0
  /\ UNCHANGED <<peerVars, inq, out, readVars, lockq, payload, outAll>>

\* Fault: the guard is not dropped when the frame has been written.
WriteKeepsLock(a) ==
  /\ pc[a] = "write" /\ Head(lockq) = a /\ ~closed /\ Len(out) < OutCap
  /\ LET chunk == [frame |-> wframe[a], at |-> wpos + 1]
     IN  out' = Append(out, chunk) /\ outAll' = Append(outAll, chunk)
  /\ wpos' = (wpos + 1) % FrameChunks
  /\ pc' = IF wpos + 1 < FrameChunks
             THEN pc ELSE [pc EXCEPT ![a] = IF a = Task THEN "select" ELSE "sent"]
  /\ UNCHANGED <<peerVars, inq, readVars, lockq, payload, frames, wframe>>

\* write_all makes progress while the socket has room; the last chunk ends the
\* call and drops the guard.
Write(a) ==
  /\ pc[a] = "write" /\ Head(lockq) = a /\ ~closed /\ Len(out) < OutCap
  /\ LET chunk == [frame |-> wframe[a], at |-> wpos + 1]
     IN  out' = Append(out, chunk) /\ outAll' = Append(outAll, chunk)
  /\ IF wpos + 1 < FrameChunks
       THEN wpos' = wpos + 1 /\ UNCHANGED <<pc, lockq>>
       ELSE /\ wpos' = 0
            /\ pc' = [pc EXCEPT ![a] = IF a = Task THEN "select" ELSE "sent"]
            /\ lockq' = Tail(lockq)
  /\ UNCHANGED <<peerVars, inq, readVars, payload, frames, wframe>>

\* The connection is gone: send returns its error.
WriteFails(a) ==
  /\ pc[a] = "write" /\ Head(lockq) = a /\ closed
  /\ IF a = Task
       THEN EndLoop("write")
       ELSE pc' = [pc EXCEPT ![a] = "failed"] /\ UNCHANGED endedBy
  /\ lockq' = Tail(lockq)
  /\ UNCHANGED <<peerVars, inq, out, rphase, rbuf, msg_len, opened, handled, ticks,
                 bytesLost, payload, frames, wframe, wpos, outAll>>

------------------------------------------------------------------------------
TaskStep == ReadChunk \/ ReadHeader \/ ReadBody \/ ReadEof

Next ==
  \/ \E m \in Message : PeerSend(m)
  \/ PeerRead
  \/ PeerClose
  \/ TaskStep
  \/ Tick
  \/ Abort
  \/ \E c \in Command : CommandStart(c)
  \/ \E a \in Actor : Encrypt(a) \/ Write(a) \/ WriteFails(a)

\* The runtime polls a task whose socket or lock is ready; TCP moves the bytes and
\* the peer keeps reading.  Nothing makes the peer send, the timer expire, a
\* command start or a disconnect happen.
Fairness ==
  /\ WF_vars(TaskStep)
  /\ WF_vars(PeerRead)
  /\ \A a \in Actor : WF_vars(Encrypt(a) \/ Write(a) \/ WriteFails(a))

Spec == Init /\ [][Next]_vars /\ Fairness

------------------------------------------------------------------------------
(* Properties.                                                              *)

\* Every variable has its type, buffers are never fuller than what they are read
\* for, and the send buffer never overflows.
TypeOK ==
  /\ peerSent \in Seq(Message) /\ handled \in Seq(Message \cup {Stray})
  /\ closed \in BOOLEAN /\ bytesLost \in BOOLEAN
  /\ pc[Task] \in {"select", "lock", "write", "ended", "aborted"}
  /\ \A c \in Command : pc[c] \in {"idle", "lock", "write", "sent", "failed"}
  /\ rphase \in {"header", "body"}
  /\ opened \in 0..(2 * MaxIn) /\ ticks \in 0..MaxTicks
  /\ Len(rbuf) < Wanted
  /\ Len(out) <= OutCap
  /\ wpos \in 0..(FrameChunks - 1)
  /\ endedBy \in {"", "decrypt", "short", "eof", "write"}

\* The k-th chunk of an outbound stream of whole frames in nonce order.
FrameChunk(k) == [frame |-> ((k - 1) \div FrameChunks) + 1,
                  at    |-> ((k - 1) % FrameChunks) + 1]

\* Unless a disconnect cuts a write short, the peer reads whole frames in the
\* order of their nonces, whoever sends them: the frame is encrypted and written
\* under one hold of the lock.
OutboundIntact ==
  pc[Task] # "aborted" => \A k \in 1..Len(outAll) : outAll[k] = FrameChunk(k)

\* What the peer can decrypt of what it has read: the frames up to the first that
\* is cut short or out of nonce order.
PeerOpened ==
  LET got   == Len(outAll) - Len(out)
      whole == {n \in 0..Len(frames) :
                  /\ n * FrameChunks <= got
                  /\ \A k \in 1..(n * FrameChunks) : outAll[k] = FrameChunk(k)}
  IN  Max(whole)

\* The connection seen from above: what went into each of its ends, what came out.
\* A body that is too short comes out as well, and ends the loop.
Whats(n) == [i \in 1..n |-> frames[i].what]
Received == IF endedBy = "short" THEN Append(handled, Short) ELSE handled

\* Bare types, and among them type 2.
Bare == {m \in Message : Chunks[m] = HeaderChunks}
Mimic == {m \in Bare : Announced[m] = HeaderChunks}

Ends == {"peer", "daemon"}
Both(inbound, outbound) == [e \in Ends |-> IF e = "peer" THEN inbound ELSE outbound]

Channel == INSTANCE InterruptedChannel WITH
  Endpoint  <- Ends,
  Message   <- Message \cup {"ping", "pong", "range", "gossip"},
  sent      <- Both(peerSent, Whats(Len(frames))),
  taken     <- Both(opened \div 2, PeerOpened),
  delivered <- Both(Received, Whats(PeerOpened)),
  cut       <- Both(bytesLost, FALSE),
  astray    <- Both(rphase = "body" /\ opened % 2 = 0 /\ msg_len = HeaderChunks, FALSE)

\* In both directions, and for every message, the connection is InterruptedChannel.
\* Chunks, a contended writer and writes cut short by a disconnect never show above
\* it: outbound it is the in-order channel without interruptions.  Inbound it is that
\* until the timer drops a recv call that has taken bytes.  From then on only bare
\* types can be passed over, only a bare type 2 makes recv hand on a length field,
\* once, and no other message is skipped, repeated or made up out of parts.
ImplementsChannel == Channel!Spec

\* The answers the read task has encrypted, and the ones the handled messages
\* call for.
AnswersGiven ==
  Keep([i \in 1..Len(frames) |-> IF frames[i].by = Task THEN frames[i].what ELSE ""],
       {"pong", "range"})
AnswersDue ==
  Keep([i \in 1..Len(handled) |-> Answer(handled[i])], {"pong", "range"})

\* Answers go out in the order of the questions, none twice, and the task goes
\* back to reading only when the last one has been written.
AnsweredInOrder ==
  /\ IsPrefix(AnswersGiven, AnswersDue)
  /\ pc[Task] = "select" => AnswersGiven = AnswersDue

\* What the peer sends is eventually handled and answered, unless the connection
\* goes down or a dropped recv call has lost bytes of the stream.
EventuallyHandled ==
  \A n \in 1..MaxIn :
    Len(peerSent) >= n ~>
      \/ Len(handled) >= n /\ pc[Task] = "select"
      \/ pc[Task] \in {"ended", "aborted"}
      \/ bytesLost

\* Every command that wants the writer gets an outcome: it is not starved by the
\* read task's pings and answers, nor blocked by its abortion.
CommandsFinish ==
  \A c \in Command : pc[c] = "lock" ~> pc[c] \in {"sent", "failed"}

\* conn.rs: the connection is split "so that reading and writing can happen
\* concurrently", with "Ping/Pong keepalive": sending a keepalive ping must not
\* break the reading of an intact stream.
KeepaliveKeepsReading == endedBy # "decrypt"
==============================================================================
