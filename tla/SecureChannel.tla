---------------------------- MODULE SecureChannel ----------------------------
(***************************************************************************)
(* What a Noise connection promises to the code above it: in each          *)
(* direction the messages that come out of the receiving cipher are the    *)
(* messages that went into the sending one, in order, none altered,        *)
(* skipped or repeated.  Nothing promises that all of them arrive.         *)
(***************************************************************************)
EXTENDS Naturals, Sequences

CONSTANTS
  Endpoint,  \* the two ends of the connection
  Message    \* message bodies

VARIABLES
  sent,      \* sent[e]: the messages endpoint e has encrypted
  delivered  \* delivered[e]: the messages of e that the other end decrypted

vars == <<sent, delivered>>

Init ==
  /\ sent = [e \in Endpoint |-> <<>>]
  /\ delivered = [e \in Endpoint |-> <<>>]

\* Endpoint e hands a message to the channel.
Accept(e) ==
  /\ \E m \in Message : sent' = [sent EXCEPT ![e] = Append(@, m)]
  /\ UNCHANGED delivered

\* The oldest message of e that is still under way comes out at the other end.
Deliver(e) ==
  /\ Len(delivered[e]) < Len(sent[e])
  /\ delivered' = [delivered EXCEPT ![e] =
                     Append(@, sent[e][Len(delivered[e]) + 1])]
  /\ UNCHANGED sent

Next == \E e \in Endpoint : Accept(e) \/ Deliver(e)

Spec == Init /\ [][Next]_vars
==============================================================================
