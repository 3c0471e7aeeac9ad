--------------------------- MODULE MCProbeHistory ---------------------------
(* An instance of ProbeHistory for TLC. *)
EXTENDS ProbeHistory, TLC

CONSTANTS b1, b2, w1

TwoAddrs == (0 :> b1) @@ (1 :> b2)
=============================================================================
