------------------------- MODULE MC_NoiseHandshake ---------------------------
(* One node dials twice, with its one static key and for one and the same   *)
(* key; two connections of the node that holds that key answer, and one of  *)
(* another node that does not.                                              *)
EXTENDS NoiseHandshake, TLC

CONSTANTS i1, i2, r1, r2, stranger, us, them, other

MCStatic ==
  [o \in Object |-> CASE o \in Initiators -> us [] o = stranger -> other [] OTHER -> them]
MCExpected == [i \in Initiators |-> them]

\* The two dials are alike, and so are the two connections that answer them.
MCSymmetry == Permutations(Initiators) \cup Permutations(Responders \ {stranger})
==============================================================================
