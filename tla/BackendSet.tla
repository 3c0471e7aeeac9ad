----------------------------- MODULE BackendSet -----------------------------
(***************************************************************************)
(* The backend registry (src/src/state/backend.rs), the round-robin        *)
(* routing strategy on top of it (src/src/routing.rs) and the health       *)
(* monitor thread that maintains it (src/src/state/health.rs).             *)
(*                                                                         *)
(* Worker threads call select_next while the one health thread probes the  *)
(* backends and flips their `healthy` flags.  select_next takes a ticket   *)
(* with one atomic fetch_add and then loads one flag after the other, so   *)
(* the health thread may write between any two loads.  The two probe       *)
(* counters are written by the health thread alone and read by nobody      *)
(* else, so recording one probe is a single step.                          *)
(***************************************************************************)
EXTENDS Integers, FiniteSets

CONSTANTS
    N,                  \* number of configured backends, entries.len()
    Addr,               \* socket addresses
    AddrOf,             \* address of each entry, in configuration order
    FailureThreshold,   \* HealthConfig::failure_threshold
    RecoveryThreshold,  \* HealthConfig::recovery_threshold
    U32Max,             \* where u32::saturating_add stops
    UsizeMod,           \* 2^w of the w-bit usize behind next_index
    MaxCalls,           \* bound: no call starts once next_index is here
    Workers             \* threads that call select_next

Entries == 0 .. (N - 1)

\* BalancerConfig::validate and HealthConfig::validate; the widths are any.
ASSUME ConfigAssumption ==
    /\ N \in Nat \ {0}
    /\ AddrOf \in [Entries -> Addr]
    /\ U32Max \in Nat
    /\ FailureThreshold \in 1 .. U32Max
    /\ RecoveryThreshold \in 1 .. U32Max
    /\ UsizeMod \in Nat \ {0}
    /\ MaxCalls \in Nat

\* The threads that hold the BackendSet are a pool's.
ASSUME WorkerAssumption == IsFiniteSet(Workers)

None == "none"
NoHealthyBackend == "no_healthy_backend"

ASSUME ErrorAssumption == {None, NoHealthyBackend} \cap Addr = {}

VARIABLES
    \* ---- BackendSet
    healthy,        \* BackendEntry::healthy, per entry
    failures,       \* BackendEntry::consecutive_failures
    successes,      \* BackendEntry::consecutive_successes
    next_index,     \* BackendSet::next_index
    \* ---- calls of select_next, per worker
    pc, start, offset, result,
    \* ---- the health thread
    hpc,            \* where health_loop is
    pos,            \* position in `addrs`
    was_healthy,    \* is_healthy before the probe
    stop,           \* HealthMonitor::stop flag
    monitor,        \* progress of HealthMonitor::stop in the owner
    event,          \* last health event logged, per address
    \* ---- the environment
    reachable,      \* does the address accept within connect_timeout
    \* ---- history of each select_next call
    up_seen,        \* entries healthy at some moment of the call
    down_seen,      \* entries unhealthy at some moment of the call
    all_down_seen   \* was every entry unhealthy at one moment of the call

entry_vars  == <<healthy, failures, successes>>
select_vars == <<next_index, pc, start, offset, result>>
health_vars == <<hpc, pos, was_healthy, event>>
owner_vars  == <<stop, monitor>>
seen_vars   == <<up_seen, down_seen, all_down_seen>>
vars == <<entry_vars, select_vars, health_vars, owner_vars, seen_vars, reachable>>

Up   == {e \in Entries : healthy[e]}
Down == Entries \ Up

\* BackendSet::new: every backend starts healthy.  The probe thread starts at
\* once, and nothing is known about which backends are really there.
Init ==
    /\ healthy     = [e \in Entries |-> TRUE]
    /\ failures    = [e \in Entries |-> 0]
    /\ successes   = [e \in Entries |-> 0]
    /\ next_index  = 0
    /\ pc     = [w \in Workers |-> "idle"]
    /\ start  = [w \in Workers |-> 0]
    /\ offset = [w \in Workers |-> 0]
    /\ result = [w \in Workers |-> None]
    /\ hpc = "top"
    /\ pos = 0
    /\ was_healthy = TRUE
    /\ stop = FALSE
    /\ monitor = "running"
    /\ event = [a \in Addr |-> None]
    /\ reachable \in [Addr -> BOOLEAN]
    /\ up_seen       = [w \in Workers |-> {}]
    /\ down_seen     = [w \in Workers |-> {}]
    /\ all_down_seen = [w \in Workers |-> FALSE]

-----------------------------------------------------------------------------
(* select_next *)

\* `(start + offset) % len`.  The sum wraps in a release build, where
\* overflow checks are off.
IndexAt_bug(s, o) == ((s + 2 * o) % UsizeMod) % N
IndexAt(s, o) == ((s + o) % UsizeMod) % N

\* fetch_add wraps.
NextTicket_bug == next_index
NextTicket == (next_index + 1) % UsizeMod

\* The fetch_add that hands out the ticket.
SelectStart(w) ==
    /\ pc[w] = "idle"
    /\ next_index < MaxCalls
    /\ pc'     = [pc EXCEPT ![w] = "scan"]
    /\ start'  = [start EXCEPT ![w] = next_index]
    /\ offset' = [offset EXCEPT ![w] = 0]
    /\ result' = [result EXCEPT ![w] = None]
    /\ next_index' = NextTicket
    /\ up_seen'       = [up_seen EXCEPT ![w] = Up]
    /\ down_seen'     = [down_seen EXCEPT ![w] = Down]
    /\ all_down_seen' = [all_down_seen EXCEPT ![w] = (Up = {})]
    /\ UNCHANGED <<entry_vars, health_vars, owner_vars, reachable>>

\* The load of a flag.
IsUp_bug(e) == TRUE
IsUp(e) == healthy[e]

\* One turn of the scan finds a healthy entry and returns its address.
SelectFound(w) ==
    /\ pc[w] = "scan"
    /\ IsUp(IndexAt(start[w], offset[w]))
    /\ pc' = [pc EXCEPT ![w] = "idle"]
    /\ result' = [result EXCEPT ![w] = AddrOf[IndexAt(start[w], offset[w])]]
    /\ UNCHANGED <<next_index, start, offset, entry_vars, health_vars,
                   owner_vars, seen_vars, reachable>>

\* One turn of the scan finds an unhealthy entry: on to the next offset.
SelectSkip(w) ==
    /\ pc[w] = "scan"
    /\ ~IsUp(IndexAt(start[w], offset[w]))
    /\ offset[w] + 1 < N
    /\ offset' = [offset EXCEPT ![w] = @ + 1]
    /\ UNCHANGED <<next_index, pc, start, result, entry_vars, health_vars,
                   owner_vars, seen_vars, reachable>>

\* The last turn finds an unhealthy entry.
SelectNone(w) ==
    /\ pc[w] = "scan"
    /\ ~IsUp(IndexAt(start[w], offset[w]))
    /\ offset[w] + 1 = N
    /\ pc' = [pc EXCEPT ![w] = "idle"]
    /\ result' = [result EXCEPT ![w] = NoHealthyBackend]
    /\ UNCHANGED <<next_index, start, offset, entry_vars, health_vars,
                   owner_vars, seen_vars, reachable>>

SelectNext(w) == SelectStart(w) \/ SelectFound(w) \/ SelectSkip(w) \/ SelectNone(w)

-----------------------------------------------------------------------------
(* The health thread *)

\* `self.entries.iter().find(..)`: the FIRST entry with the address.
EntryFor(a) ==
    CHOOSE e \in Entries : /\ AddrOf[e] = a
                           /\ \A f \in Entries : AddrOf[f] = a => e <= f

is_healthy(a) == healthy[EntryFor(a)]

SaturatingIncr_bug(n) == n + 1
SaturatingIncr_short(n) == IF n < FailureThreshold THEN n + 1 ELSE n
SaturatingIncr(n) == IF n < U32Max THEN n + 1 ELSE n

\* Are these enough successes, or failures, to change the flag?
Recovers_bug(n) == n > RecoveryThreshold
Recovers(n) == n >= RecoveryThreshold
Fails_bug(n) == n > FailureThreshold
Fails(n) == n >= FailureThreshold

\* record_probe_success: what it leaves in the entry of address a.
record_probe_success(e) ==
    /\ failures' = [failures EXCEPT ![e] = 0]
    /\ successes' = [successes EXCEPT ![e] = SaturatingIncr(@)]
    /\ healthy' = IF Recovers(successes'[e])
                  THEN [healthy EXCEPT ![e] = TRUE] ELSE healthy

\* record_probe_failure
record_probe_failure(e) ==
    /\ successes' = [successes EXCEPT ![e] = 0]
    /\ failures' = [failures EXCEPT ![e] = SaturatingIncr(@)]
    /\ healthy' = IF Fails(failures'[e])
                  THEN [healthy EXCEPT ![e] = FALSE] ELSE healthy

\* The event health_loop logs after a probe of address a, if any.
HealthEvent_bug(a, ok) ==
    IF ok THEN "backend_recovered" ELSE "backend_unhealthy"

HealthEvent(a, ok) ==
    CASE ok  /\ ~was_healthy /\ healthy'[EntryFor(a)]  -> "backend_recovered"
      [] ~ok /\ was_healthy  /\ ~healthy'[EntryFor(a)] -> "backend_unhealthy"
      [] OTHER -> event[a]

\* Calls in flight see the flags the probe leaves behind.
NoteFlags ==
    /\ up_seen'   = [w \in Workers |-> IF pc[w] = "scan" THEN up_seen[w] \cup Up' ELSE up_seen[w]]
    /\ down_seen' = [w \in Workers |-> IF pc[w] = "scan" THEN down_seen[w] \cup Down' ELSE down_seen[w]]
    /\ all_down_seen' = [w \in Workers |-> all_down_seen[w] \/ (pc[w] = "scan" /\ Up' = {})]

\* `while !stop` at the top of a round.
HealthTop ==
    /\ hpc = "top"
    /\ IF stop THEN hpc' = "exited" /\ UNCHANGED pos
               ELSE hpc' = "check" /\ pos' = 0
    /\ UNCHANGED <<entry_vars, select_vars, was_healthy, event, owner_vars,
                   seen_vars, reachable>>

\* The stop check and the is_healthy read before a probe.
HealthCheck ==
    /\ hpc = "check"
    /\ IF stop THEN hpc' = "exited" /\ UNCHANGED was_healthy
               ELSE hpc' = "connect" /\ was_healthy' = is_healthy(AddrOf[pos])
    /\ UNCHANGED <<entry_vars, select_vars, pos, event, owner_vars,
                   seen_vars, reachable>>

\* tcp_probe, the bookkeeping of its result and the log record, then the next
\* address or the sleep.
HealthProbe ==
    /\ hpc = "connect"
    /\ LET a  == AddrOf[pos]
           ok == reachable[a]
       IN  /\ IF ok THEN record_probe_success(EntryFor(a))
                    ELSE record_probe_failure(EntryFor(a))
           /\ event' = [event EXCEPT ![a] = HealthEvent(a, ok)]
    /\ NoteFlags
    /\ IF pos + 1 < N THEN hpc' = "check" /\ pos' = pos + 1
                      ELSE hpc' = "sleep" /\ pos' = 0
    /\ UNCHANGED <<select_vars, was_healthy, owner_vars, reachable>>

\* sleep_interruptible ends, by the interval or by the stop flag.
HealthSleep ==
    /\ hpc = "sleep"
    /\ hpc' = "top"
    /\ UNCHANGED <<entry_vars, select_vars, pos, was_healthy, event,
                   owner_vars, seen_vars, reachable>>

HealthStep == HealthTop \/ HealthCheck \/ HealthProbe \/ HealthSleep

Stored_bug == stop
Stored == TRUE

\* HealthMonitor::stop stores the flag ...
StopSignal ==
    /\ monitor = "running"
    /\ stop' = Stored
    /\ monitor' = "joining"
    /\ UNCHANGED <<entry_vars, select_vars, health_vars, seen_vars, reachable>>

\* ... and returns once the thread has been joined.
JoinReturns_bug == TRUE
JoinReturns == hpc = "exited"

StopJoin ==
    /\ monitor = "joining"
    /\ JoinReturns
    /\ monitor' = "joined"
    /\ UNCHANGED <<stop, entry_vars, select_vars, health_vars, seen_vars, reachable>>

\* A backend process comes up or goes away.
BackendChanges(a) ==
    /\ reachable' = [reachable EXCEPT ![a] = ~@]
    /\ UNCHANGED <<entry_vars, select_vars, health_vars, owner_vars, seen_vars>>

Next ==
    \/ \E w \in Workers : SelectNext(w)
    \/ HealthStep
    \/ StopSignal
    \/ StopJoin
    \/ \E a \in Addr : BackendChanges(a)

Spec == Init /\ [][Next]_vars

\* The operating system schedules every thread; nobody has to call stop() or
\* select_next, and backends change when they like.
Fairness ==
    /\ WF_vars(HealthStep)
    /\ WF_vars(StopJoin)
    /\ \A w \in Workers : WF_vars(SelectFound(w) \/ SelectSkip(w) \/ SelectNone(w))

FairSpec == Spec /\ Fairness

-----------------------------------------------------------------------------
(* Properties *)

\* The values every variable takes.
TypeOK ==
    /\ healthy \in [Entries -> BOOLEAN]
    /\ failures \in [Entries -> 0 .. U32Max]
    /\ successes \in [Entries -> 0 .. U32Max]
    /\ next_index \in 0 .. (UsizeMod - 1)
    /\ pc \in [Workers -> {"idle", "scan"}]
    /\ start \in [Workers -> 0 .. (UsizeMod - 1)]
    /\ offset \in [Workers -> Entries]
    /\ result \in [Workers -> Addr \cup {None, NoHealthyBackend}]
    /\ hpc \in {"top", "check", "connect", "sleep", "exited"}
    /\ pos \in Entries
    /\ was_healthy \in BOOLEAN
    /\ stop \in BOOLEAN
    /\ monitor \in {"running", "joining", "joined"}
    /\ event \in [Addr -> {None, "backend_recovered", "backend_unhealthy"}]
    /\ reachable \in [Addr -> BOOLEAN]
    /\ up_seen \in [Workers -> SUBSET Entries]
    /\ down_seen \in [Workers -> SUBSET Entries]
    /\ all_down_seen \in [Workers -> BOOLEAN]

\* The two probe counters and the flag of an entry always tell one story: at
\* most one streak is running, a healthy backend is short of the failures that
\* take it out and an unhealthy one short of the successes that bring it back.
FlagAgreesWithStreaks ==
    \A e \in Entries :
        /\ failures[e] = 0 \/ successes[e] = 0
        /\ healthy[e] => failures[e] < FailureThreshold
        /\ ~healthy[e] => successes[e] < RecoveryThreshold

\* select_next returns an address only if is_healthy was true of it at some
\* moment of the call, however the health thread interleaves with the scan.
SelectedWasHealthy ==
    \A w \in Workers : result[w] \in Addr => EntryFor(result[w]) \in up_seen[w]

\* select_next gives up only if every backend was unhealthy at some moment of
\* the call (not necessarily the same moment): the scan misses no entry.
NoHealthyMeansEachWasDown ==
    \A w \in Workers : result[w] = NoHealthyBackend => down_seen[w] = Entries

\* What the doc comment of select_next promises: NoHealthyBackend only if
\* every backend was unhealthy, at one moment of the call.
NoHealthyMeansAllDown ==
    \A w \in Workers : result[w] = NoHealthyBackend => all_down_seen[w]

\* Between two probes the last health event logged for an address is what
\* is_healthy says of it: backend_unhealthy and backend_recovered records come
\* once per change of the flag and never get out of step with it.
EventsFollowHealth ==
    \A e \in Entries :
        event[AddrOf[e]] = "backend_unhealthy" <=> ~is_healthy(AddrOf[e])

\* Once HealthMonitor::stop has returned, no flag changes any more.
QuietAfterStop == [][monitor = "joined" => UNCHANGED <<entry_vars, event>>]_vars

\* Probing converges, unless the monitor is stopped: a backend that stays away
\* is taken out for good, and one that stays up is routed to again, however the
\* health_loop, its sleeps and the scans of the workers interleave.
ProbingConverges ==
    \A e \in Entries :
        /\ <>[](~reachable[AddrOf[e]] /\ ~stop) => <>[]~healthy[e]
        /\ <>[](reachable[AddrOf[e]] /\ ~stop) => <>[]healthy[e]

\* HealthMonitor::stop returns.
StopReturns == monitor = "joining" ~> monitor = "joined"

=============================================================================
