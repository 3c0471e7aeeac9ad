---------------------------- MODULE MCBackendSet ----------------------------
(* Instances of BackendSet for TLC. *)
EXTENDS BackendSet, TLC

CONSTANTS b1, b2, w1, w2

TwoAddrs == (0 :> b1) @@ (1 :> b2)
SameAddr == (0 :> b1) @@ (1 :> b1)
=============================================================================
