--------------------------- MODULE MCObservability ---------------------------
(* Instances of Observability for TLC. *)
EXTENDS Observability, TLC

CONSTANTS e1, e2, b1, b2

\* A request that failed and one that did not, to two backends.
MCStats == {[backend |-> b1, request_len |-> 1, response_len |-> 0, duration |-> 3, error |-> TRUE],
            [backend |-> b2, request_len |-> 2, response_len |-> 5, duration |-> 2, error |-> FALSE]}
=============================================================================
