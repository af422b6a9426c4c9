--------------------------- MODULE MC_NoiseCipher ----------------------------
(* A connection with two kinds of message: a short one, and one over 255    *)
(* bytes whose length field is not a single byte.                           *)
EXTENDS NoiseCipher

CONSTANTS short, long

MCMessage == {short, long}
MCSize == [m \in MCMessage |-> IF m = short THEN 4 ELSE 300]
MCMaxSends == [e \in Endpoint |-> IF e = Initiator THEN 3 ELSE 1]
==============================================================================
