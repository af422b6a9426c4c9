------------------------------ MODULE MC_Gossip ------------------------------
(* Two clients and one peer.  The keys of SEED and SEED_2 are in their real *)
(* order; the fields of an scid are a few bits wide.                        *)
EXTENDS Gossip, TLC

MCTyped == {<<1, 0, 0>>, <<0, 4, 0>>, <<1, 3, 8>>}

\* The clients are alike.
MCSymmetry == Permutations(Client)
==============================================================================
