------------------------------ MODULE MCStartup ------------------------------
(* Instances of Startup for TLC. *)
EXTENDS Startup, TLC

\* At most two fields are zero.
MCAsked == {[f \in Fields |-> IF f \in zero THEN 0 ELSE 1] :
                zero \in {{f, g} : f, g \in Fields} \cup {{}}}

\* One or two parts.
MCParts == UNION {[1 .. n -> {"addr", "blank", "bad"}] : n \in 1 .. 2}

MCWorkerNames == <<"worker0", "worker1">>
=============================================================================
