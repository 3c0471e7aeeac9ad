------------------------------- MODULE MCPool -------------------------------
(* Instances of Pool for TLC. *)
EXTENDS Pool, TLC

CONSTANTS s1, s2, c1, c2, c3

\* Neither the submitters nor the connections are told apart.
Symmetry == Permutations(Submitters) \cup Permutations(Conns)
=============================================================================
