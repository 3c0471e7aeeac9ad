---------------------------- MODULE MCRoundRobin ----------------------------
(* Instances of RoundRobin for TLC. *)
EXTENDS RoundRobin, TLC

CONSTANTS b1, b2, w1, w2

TwoAddrs == (0 :> b1) @@ (1 :> b2)

\* The workers run the same code and no property tells them apart.
Symmetry == Permutations(Workers)
=============================================================================
