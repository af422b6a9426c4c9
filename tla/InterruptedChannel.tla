-------------------------- MODULE InterruptedChannel ---------------------------
(***************************************************************************)
(* What a connection promises to the code above it when calls that receive *)
(* from it may be given up half way.                                       *)
(*                                                                         *)
(* As long as no call has been given up, it is the in-order channel: the   *)
(* messages that come out are the ones that went in, in order.  Once one   *)
(* has been, a receiver may have lost its step, and then a bare message,   *)
(* one that has the size of the header before a message, can be taken for  *)
(* a header.  It is passed over; and if what it says, read as a header, is *)
(* the size of a header, the header of the next message is handed on as a  *)
(* stray message.  Every other message still comes out once, unaltered and *)
(* in its turn, or not at all because nothing more comes out.              *)
(***************************************************************************)
EXTENDS Naturals, Sequences

CONSTANTS
  Endpoint,  \* the two ends of the connection
  Message,   \* message bodies
  Bare,      \* those that have the size of a header
  Mimic,     \* those among them that, read as a header, announce another one's size
  Stray      \* a header handed on as a message

VARIABLES
  sent,      \* sent[e]: the messages endpoint e has handed to the channel
  taken,     \* taken[e]: how many of them the other end has dealt with
  delivered, \* delivered[e]: what came out at the other end
  cut,       \* cut[e]: a receive call of the other end has been given up half way
  astray     \* astray[e]: the other end takes the next header of e for a body

vars == <<sent, taken, delivered, cut, astray>>

Init ==
  /\ sent = [e \in Endpoint |-> <<>>]
  /\ taken = [e \in Endpoint |-> 0]
  /\ delivered = [e \in Endpoint |-> <<>>]
  /\ cut = [e \in Endpoint |-> FALSE]
  /\ astray = [e \in Endpoint |-> FALSE]

\* Endpoint e hands a message to the channel.
Accept(e) ==
  /\ \E m \in Message : sent' = [sent EXCEPT ![e] = Append(@, m)]
  /\ UNCHANGED <<taken, delivered, cut, astray>>

\* The oldest message of e that is still under way.
UnderWay(e) == taken[e] < Len(sent[e])
Oldest(e) == sent[e][taken[e] + 1]

\* It comes out at the other end.
Deliver(e) ==
  /\ UnderWay(e) /\ ~astray[e]
  /\ delivered' = [delivered EXCEPT ![e] = Append(@, Oldest(e))]
  /\ taken' = [taken EXCEPT ![e] = @ + 1]
  /\ UNCHANGED <<sent, cut, astray>>

\* A receive call is given up; the next one starts with a header.
Interrupt(e) ==
  /\ cut' = [cut EXCEPT ![e] = TRUE]
  /\ astray' = [astray EXCEPT ![e] = FALSE]
  /\ UNCHANGED <<sent, taken, delivered>>

\* A bare message is passed over as a header, after an interruption only.
Skip(e) ==
  /\ cut[e] /\ ~astray[e]
  /\ UnderWay(e) /\ Oldest(e) \in Bare
  /\ taken' = [taken EXCEPT ![e] = @ + 1]
  /\ astray' = [astray EXCEPT ![e] = Oldest(e) \in Mimic]
  /\ UNCHANGED <<sent, delivered, cut>>

\* The header of the next message is handed on, once for each message in Mimic that
\* has been passed over.
HandOnHeader(e) ==
  /\ astray[e] /\ UnderWay(e)
  /\ delivered' = [delivered EXCEPT ![e] = Append(@, Stray)]
  /\ astray' = [astray EXCEPT ![e] = FALSE]
  /\ UNCHANGED <<sent, taken, cut>>

Next ==
  \E e \in Endpoint :
    Accept(e) \/ Deliver(e) \/ Interrupt(e) \/ Skip(e) \/ HandOnHeader(e)

Spec == Init /\ [][Next]_vars
==============================================================================
