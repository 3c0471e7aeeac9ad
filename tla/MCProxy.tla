------------------------------- MODULE MCProxy -------------------------------
(* Instances of Proxy for TLC. *)
EXTENDS Proxy, TLC

CONSTANTS r1, r2
=============================================================================
