--------------------------- MODULE ConnectionLife ---------------------------
(***************************************************************************)
(* What the worker pool promises to whoever hands it a connection, without *)
(* queues, threads or channels.  A connection that was taken gets one      *)
(* answer and no second one; it is refused only while the pool stops or    *)
(* after a worker has crashed, and rejected only when there are others to  *)
(* fill a queue; and a stop that is reported as a success comes after the  *)
(* last answer.  Module Pool implements this.                              *)
(***************************************************************************)
EXTENDS Integers, FiniteSets

CONSTANTS
    Conns,      \* client connections
    QueueCap    \* PoolConfig::per_worker_queue

VARIABLES
    life,       \* per connection: new, taken, or how it ended
    stopping,   \* the pool has been told to stop
    crashed,    \* a worker has panicked
    ended       \* the pool has reported a clean shutdown

vars == <<life, stopping, crashed, ended>>

Taken == {c \in Conns : life[c] = "taken"}

Init ==
    /\ life = [c \in Conns |-> "new"]
    /\ stopping = FALSE /\ crashed = FALSE /\ ended = FALSE

Take(c) ==
    /\ life[c] = "new" /\ ~ended
    /\ life' = [life EXCEPT ![c] = "taken"]
    /\ UNCHANGED <<stopping, crashed, ended>>

\* The ways a connection ends, and what it takes.
MayEnd(c, how) ==
    CASE how = "refused"  -> stopping \/ crashed
      [] how = "rejected" -> Cardinality({d \in Conns \ {c} : life[d] # "new"}) >= QueueCap
      [] OTHER            -> TRUE

Settle(c) ==
    /\ life[c] = "taken"
    /\ \E how \in {"served", "closed", "refused", "rejected"} :
           MayEnd(c, how) /\ life' = [life EXCEPT ![c] = how]
    /\ UNCHANGED <<stopping, crashed, ended>>

\* A worker panics, and what it held or had queued is closed with it.
Crash(lost) ==
    /\ Cardinality(lost) <= QueueCap + 1
    /\ life' = [c \in Conns |-> IF c \in lost THEN "closed" ELSE life[c]]
    /\ crashed' = TRUE
    /\ UNCHANGED <<stopping, ended>>

Stop ==
    /\ stopping' = TRUE
    /\ UNCHANGED <<life, crashed, ended>>

End ==
    /\ stopping /\ ~crashed /\ Taken = {}
    /\ ended' = TRUE
    /\ UNCHANGED <<life, stopping, crashed>>

Next ==
    \/ \E c \in Conns : Take(c) \/ Settle(c)
    \/ \E lost \in SUBSET Taken : Crash(lost)
    \/ Stop \/ End

\* Nobody who was taken waits for ever.
Spec == Init /\ [][Next]_vars /\ \A c \in Conns : WF_vars(Settle(c))
=============================================================================
