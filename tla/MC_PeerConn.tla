----------------------------- MODULE MC_PeerConn -----------------------------
(* One connection: a ping and a range query to answer, two bare types to    *)
(* log, a body that is too short; headers of two chunks and bodies of one,  *)
(* two or three.  Read as a header, a bare type announces three chunks, and *)
(* type 2 the two of a header.                                              *)
EXTENDS PeerConn

CONSTANTS Type1, Type2

MCMessage == {Ping, Query, Short, Type1, Type2}
MCChunks ==
  [m \in MCMessage |-> CASE m = Query -> 3 [] m \in {Type1, Type2} -> 2 [] OTHER -> 1]
MCAnnounced == [m \in MCMessage |-> IF m = Type2 THEN 2 ELSE 3]
==============================================================================
