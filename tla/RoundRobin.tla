----------------------------- MODULE RoundRobin -----------------------------
(***************************************************************************)
(* How evenly RoundRobinRouting spreads requests.  A history of the picks  *)
(* made since the last change of a health flag is added to BackendSet;     *)
(* the steps themselves are BackendSet's.                                  *)
(***************************************************************************)
EXTENDS BackendSet

VARIABLES
    picks,      \* how often each entry was returned since the last flag change
    counted     \* did the worker's call start after the last flag change

rr_vars == <<vars, picks, counted>>

RRInit ==
    /\ Init
    /\ picks = [e \in Entries |-> 0]
    /\ counted = [w \in Workers |-> TRUE]

\* The entry the worker's scan looks at next.
Candidate(w) == IndexAt(start[w], offset[w])

\* The worker's call returns an address in this step.
Returns(w) == pc[w] = "scan" /\ pc'[w] = "idle" /\ result'[w] # NoHealthyBackend

RRNext ==
    /\ Next
    /\ IF healthy' # healthy
       THEN /\ picks' = [e \in Entries |-> 0]
            /\ counted' = [w \in Workers |-> pc[w] = "idle"]
       ELSE /\ picks' = [e \in Entries |->
                picks[e] + Cardinality({w \in Workers :
                               Returns(w) /\ counted[w] /\ Candidate(w) = e})]
            /\ counted' = [w \in Workers |-> counted[w] \/ pc'[w] = "idle"]

RRSpec == RRInit /\ [][RRNext]_rr_vars

-----------------------------------------------------------------------------

\* Requests an entry has had or is about to get from calls under way.
Credit(e) ==
    picks[e] + Cardinality({w \in Workers :
                   pc[w] = "scan" /\ counted[w] /\ Candidate(w) = e})

\* While every backend is healthy, no backend is ever two requests ahead of
\* another, whichever worker returns from select_next first.
FairWhenAllUp ==
    Down = {} => \A e, f \in Entries : Credit(e) <= Credit(f) + 1
=============================================================================
