---------------------------- MODULE ProbeHistory ----------------------------
(***************************************************************************)
(* BackendSet with a history of the last probe results of each entry, and  *)
(* the policy its counters implement.  The steps are BackendSet's.         *)
(***************************************************************************)
EXTENDS BackendSet, Sequences

VARIABLE recent     \* the last probe results of each entry

Policy == INSTANCE HealthPolicy WITH up <- healthy, ended <- hpc = "exited"

ph_vars == <<vars, recent>>

\* The entry whose probe ends in this step.
Probed == {e \in Entries : hpc = "connect" /\ hpc' # "connect" /\ e = EntryFor(AddrOf[pos])}

PHInit == Init /\ recent = [e \in Entries |-> <<>>]

PHNext ==
    /\ Next
    /\ recent' = [e \in Entries |-> IF e \in Probed
                                    THEN Policy!Remember(recent[e], reachable[AddrOf[e]])
                                    ELSE recent[e]]

PHSpec == PHInit /\ [][PHNext]_ph_vars /\ Fairness

\* The probe counters, their resets and their saturation implement the policy
\* over results: after any sequence of probes, and whoever scans meanwhile, a
\* flag changes exactly when its threshold of equal results in a row is met.
ImplementsHealthPolicy == Policy!Spec
=============================================================================
