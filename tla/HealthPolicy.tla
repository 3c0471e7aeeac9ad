---------------------------- MODULE HealthPolicy ----------------------------
(***************************************************************************)
(* What HealthConfig promises of the health flags, in terms of probe       *)
(* results alone: a backend is taken out by the last FailureThreshold      *)
(* results all being failures and put back by the last RecoveryThreshold   *)
(* all being successes; any other run of results leaves it as it is, and   *)
(* nothing changes once the monitor has ended.                             *)
(* Module ProbeHistory shows that the counters of BackendSet implement it. *)
(***************************************************************************)
EXTENDS Integers, Sequences

CONSTANTS Entries, FailureThreshold, RecoveryThreshold

VARIABLES
    up,         \* is the entry used for routing
    recent,     \* its last probe results, as many as the policy looks at
    ended       \* the monitor is gone

vars == <<up, recent, ended>>

Depth == IF FailureThreshold > RecoveryThreshold THEN FailureThreshold ELSE RecoveryThreshold

\* The results to remember after one more.
Remember(results, ok) ==
    LET all == Append(results, ok)
    IN  IF Len(all) > Depth THEN Tail(all) ELSE all

\* Are the last n results all ok, or all failures?
LastAre(results, n, ok) ==
    /\ Len(results) >= n
    /\ \A i \in (Len(results) - n + 1) .. Len(results) : results[i] = ok

Init ==
    /\ up = [e \in Entries |-> TRUE]
    /\ recent = [e \in Entries |-> <<>>]
    /\ ended = FALSE

Probe(e) ==
    /\ ~ended
    /\ \E ok \in BOOLEAN : recent' = [recent EXCEPT ![e] = Remember(@, ok)]
    /\ up' = [up EXCEPT ![e] = \/ LastAre(recent'[e], RecoveryThreshold, TRUE)
                               \/ @ /\ ~LastAre(recent'[e], FailureThreshold, FALSE)]
    /\ UNCHANGED ended

End ==
    /\ ended' = TRUE
    /\ UNCHANGED <<up, recent>>

Next == End \/ \E e \in Entries : Probe(e)

Spec == Init /\ [][Next]_vars
=============================================================================
