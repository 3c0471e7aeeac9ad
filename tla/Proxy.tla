-------------------------------- MODULE Proxy --------------------------------
(***************************************************************************)
(* What a worker does with one connection: Context::handle_connection,     *)
(* proxy_with_retries and proxy_to_backend (state/context.rs), and         *)
(* Metrics::record_request (state/metrics.rs).                             *)
(*                                                                         *)
(* Requests run concurrently, one per worker, and share the routing        *)
(* counter, the health flags and the metrics.  What the network, the       *)
(* client and the backends do is the environment's choice, and the health  *)
(* thread may flip a flag between any two loads of a selection; module     *)
(* BackendSet has the thread itself.                                       *)
(***************************************************************************)
EXTENDS Integers, Sequences, FiniteSets

CONSTANTS
    N,                  \* number of configured backends, with distinct addresses
    MaxBackendRetries,  \* BalancerConfig::max_backend_retries
    U32Max,             \* where u32::saturating_add stops
    Requests            \* connections handed to handle_connection

Backends == 0 .. (N - 1)

ASSUME ProxyAssumption ==
    /\ N \in Nat \ {0}
    /\ U32Max \in Nat \ {0}
    /\ MaxBackendRetries \in 0 .. U32Max
    /\ IsFiniteSet(Requests)

NoBackend == N

VARIABLES
    listed,         \* how many of them are in the BackendSet
    healthy,        \* the flags select_next reads
    next_index,     \* ticket counter, modulo N
    stage,          \* where each request is
    start, offset,  \* its scan in select_next
    target,         \* `target` of handle_connection
    tried,          \* the backends proxy_with_retries went to, in order
    delivered,      \* how often a backend got the whole request
    reply,          \* what the client was sent
    records,        \* terminal log records: request_complete, request_failed
    requests, errors, \* Metrics::per_backend
    \* ---- history
    alone,          \* since its last ticket nobody drew one and every flag was up
    in_turn         \* its last ticket came right after the one before, flags up

route_vars == <<listed, healthy, next_index, start, offset, alone, in_turn>>
stat_vars  == <<requests, errors>>
vars == <<route_vars, stage, target, tried, delivered, reply, records, stat_vars>>

\* Context::from_config looks at the configuration, not at the BackendSet it is
\* given: an embedder's may be empty.
Init ==
    /\ listed \in {0, N}
    /\ healthy = [b \in Backends |-> TRUE]
    /\ next_index = 0
    /\ stage = [r \in Requests |-> "new"]
    /\ start = [r \in Requests |-> 0] /\ offset = [r \in Requests |-> 0]
    /\ target = [r \in Requests |-> NoBackend]
    /\ tried = [r \in Requests |-> <<>>]
    /\ delivered = [r \in Requests |-> 0]
    /\ reply = [r \in Requests |-> "none"]
    /\ records = [r \in Requests |-> <<>>]
    /\ requests = [b \in Backends |-> 0]
    /\ errors = [b \in Backends |-> 0]
    /\ alone = [r \in Requests |-> FALSE] /\ in_turn = [r \in Requests |-> FALSE]

-----------------------------------------------------------------------------
(* select_backend *)

\* The backend that the ticket n points at, o steps on.
Candidate(n, o) == (n + o) % N

NextTicket_bug == next_index
NextTicket == (next_index + 1) % N

\* Every call draws a ticket, also one that finds nothing.
StartSelect(r) ==
    LET allUp == \A b \in Backends : healthy[b] IN
    /\ stage' = [stage EXCEPT ![r] = "select"]
    /\ next_index' = NextTicket
    /\ start' = [start EXCEPT ![r] = next_index]
    /\ offset' = [offset EXCEPT ![r] = 0]
    /\ alone' = [q \in Requests |-> q = r /\ allUp]
    /\ in_turn' = [in_turn EXCEPT ![r] = alone[r] /\ allUp]
    /\ UNCHANGED <<listed, healthy>>

\* The scan looks at the next flag.
Looks(r) == Candidate(start[r], offset[r])

\* Is there another flag to look at?
MoreToScan_bug(r) == offset[r] + 1 <= N
MoreToScan(r) == offset[r] + 1 < N

SelectSkip(r) ==
    /\ stage[r] = "select" /\ ~healthy[Looks(r)] /\ MoreToScan(r)
    /\ offset' = [offset EXCEPT ![r] = @ + 1]
    /\ UNCHANGED <<listed, healthy, next_index, start, alone, in_turn, stage, target, tried,
                   delivered, reply, records, stat_vars>>

\* Has the scan of request r found a backend, or come to its end?
Found(r)   == stage[r] = "select" /\ healthy[Looks(r)]
NotFound(r) == stage[r] = "select" /\ ~healthy[Looks(r)] /\ ~MoreToScan(r)

-----------------------------------------------------------------------------
(* handle_connection *)

\* The request ends with one record.
Finish_bug(r, record) == stage' = [stage EXCEPT ![r] = "done"] /\ UNCHANGED records
Finish(r, record) ==
    /\ stage' = [stage EXCEPT ![r] = "done"]
    /\ records' = [records EXCEPT ![r] = Append(@, record)]

\* set_read_timeout fails on the client stream.
SetTimeoutFails(r) ==
    /\ stage[r] = "new"
    /\ Finish(r, "request_failed")
    /\ UNCHANGED <<route_vars, target, tried, delivered, reply, stat_vars>>

\* select_next has nothing to choose from and draws no ticket; the handler passes
\* its EmptyServerList on, with neither an answer nor a terminal record.
NoServers(r) ==
    /\ stage[r] = "new" /\ listed = 0
    /\ stage' = [stage EXCEPT ![r] = "done"]
    /\ UNCHANGED <<route_vars, target, tried, delivered, reply, records, stat_vars>>

\* The backend is chosen before the request has been read.
Select(r) ==
    /\ stage[r] = "new" /\ listed > 0
    /\ StartSelect(r)
    /\ UNCHANGED <<target, tried, delivered, reply, records, stat_vars>>

SelectTarget(r) ==
    /\ Found(r) /\ tried[r] = <<>>
    /\ target' = [target EXCEPT ![r] = Looks(r)]
    /\ stage' = [stage EXCEPT ![r] = "parse"]
    /\ UNCHANGED <<route_vars, tried, delivered, reply, records, stat_vars>>

\* No healthy backend: 503.
NoHealthyBackend(r) ==
    /\ NotFound(r) /\ tried[r] = <<>>
    /\ reply' = [reply EXCEPT ![r] = "503"]
    /\ Finish(r, "request_failed")
    /\ UNCHANGED <<route_vars, target, tried, delivered, stat_vars>>

\* Request::from_stream finds the body too large (413) ...
RequestTooLarge(r) ==
    /\ stage[r] = "parse"
    /\ reply' = [reply EXCEPT ![r] = "413"]
    /\ Finish(r, "request_failed")
    /\ UNCHANGED <<route_vars, target, tried, delivered, stat_vars>>

\* ... or no request at all: the connection is closed without an answer ...
ParseFails(r) ==
    /\ stage[r] = "parse"
    /\ Finish(r, "request_failed")
    /\ UNCHANGED <<route_vars, target, tried, delivered, reply, stat_vars>>

\* ... or a request, and the first attempt is due.
ParseOk(r) ==
    /\ stage[r] = "parse"
    /\ stage' = [stage EXCEPT ![r] = "attempt"]
    /\ tried' = [tried EXCEPT ![r] = <<target[r]>>]
    /\ UNCHANGED <<route_vars, target, delivered, reply, records, stat_vars>>

-----------------------------------------------------------------------------
(* proxy_with_retries *)

\* `max_backend_retries.saturating_add(1)`
Attempts_bug == MaxBackendRetries + 2
Attempts == IF MaxBackendRetries < U32Max THEN MaxBackendRetries + 1 ELSE U32Max

Current(r) == tried[r][Len(tried[r])]

\* The ways proxy_to_backend fails: before the backend has the whole request,
\* or after it, when the response is missing, malformed or too large.
Failures == {"connect", "response"}
Deliver(r, how) ==
    delivered' = IF how = "connect" THEN delivered ELSE [delivered EXCEPT ![r] = @ + 1]

\* record_request through the metrics channel (Pool models the channel).  The
\* backend is the first target, whoever answered.
RecordRequest(r, ok) ==
    /\ requests' = [requests EXCEPT ![target[r]] = @ + 1]
    /\ errors' = IF ok THEN errors ELSE [errors EXCEPT ![target[r]] = @ + 1]

\* An attempt succeeds.
AttemptOk(r) ==
    /\ stage[r] = "attempt"
    /\ Deliver(r, "answered")
    /\ stage' = [stage EXCEPT ![r] = "respond"]
    /\ UNCHANGED <<route_vars, target, tried, reply, records, stat_vars>>

\* The attempts made once backend b is tried as well.
Tried_bug(r, b) == tried[r]
Tried(r, b) == Append(tried[r], b)

\* An attempt fails and there is another: whatever the failure was, a backend
\* is selected anew ...
Retry(r, how) ==
    /\ stage[r] = "attempt"
    /\ Len(tried[r]) < Attempts
    /\ Deliver(r, how)
    /\ StartSelect(r)
    /\ UNCHANGED <<target, tried, reply, records, stat_vars>>

\* ... or the old one kept if none is found.
NextAttempt(r) ==
    /\ tried[r] # <<>>
    /\ \/ Found(r) /\ tried' = [tried EXCEPT ![r] = Tried(r, Looks(r))]
       \/ NotFound(r) /\ tried' = [tried EXCEPT ![r] = Tried(r, Current(r))]
    /\ stage' = [stage EXCEPT ![r] = "attempt"]
    /\ UNCHANGED <<route_vars, target, delivered, reply, records, stat_vars>>

\* The last attempt fails: the client gets nothing.
GiveUp(r, how) ==
    /\ stage[r] = "attempt"
    /\ Len(tried[r]) >= Attempts
    /\ Deliver(r, how)
    /\ Finish(r, "request_failed")
    /\ RecordRequest(r, FALSE)
    /\ UNCHANGED <<route_vars, target, tried, reply>>

-----------------------------------------------------------------------------
(* The answer *)

\* The client takes the response: statistics, then request_complete.
ClientTakes(r) ==
    /\ stage[r] = "respond"
    /\ reply' = [reply EXCEPT ![r] = "response"]
    /\ RecordRequest(r, TRUE)
    /\ Finish(r, "request_complete")
    /\ UNCHANGED <<route_vars, target, tried, delivered>>

\* The write, the flush or the shutdown of the client stream fails; nothing,
\* a part or all of the response has gone out, and no statistics are kept.
ClientFails(r) ==
    /\ stage[r] = "respond"
    /\ reply' \in {[reply EXCEPT ![r] = x] : x \in {"none", "partial", "response"}}
    /\ Finish(r, "request_failed")
    /\ UNCHANGED <<route_vars, target, tried, delivered, stat_vars>>

Handle(r) ==
    \/ SetTimeoutFails(r) \/ NoServers(r) \/ Select(r)
    \/ SelectSkip(r) \/ SelectTarget(r) \/ NoHealthyBackend(r) \/ NextAttempt(r)
    \/ RequestTooLarge(r) \/ ParseFails(r) \/ ParseOk(r)
    \/ AttemptOk(r)
    \/ \E how \in Failures : Retry(r, how) \/ GiveUp(r, how)
    \/ ClientTakes(r) \/ ClientFails(r)

\* The health thread flips a flag (module BackendSet).
HealthFlips(b) ==
    /\ listed > 0
    /\ healthy' = [healthy EXCEPT ![b] = ~@]
    /\ alone' = [r \in Requests |-> FALSE]
    /\ in_turn' = [r \in Requests |-> FALSE]
    /\ UNCHANGED <<listed, next_index, start, offset, stage, target, tried, delivered, reply,
                   records, stat_vars>>

Next ==
    \/ \E r \in Requests : Handle(r)
    \/ \E b \in Backends : HealthFlips(b)

Spec == Init /\ [][Next]_vars

\* Reads end, by an answer, an error or the read timeout.  A connect has no
\* timeout of its own and ends when the operating system gives up; the peers are
\* assumed to take what is written to them.
FairSpec == Spec /\ \A r \in Requests : WF_vars(Handle(r))

-----------------------------------------------------------------------------
(* Properties *)

\* The values every variable takes.
TypeOK ==
    /\ listed \in {0, N} /\ healthy \in [Backends -> BOOLEAN]
    /\ next_index \in Backends
    /\ start \in [Requests -> Backends] /\ offset \in [Requests -> Backends]
    /\ stage \in [Requests -> {"new", "select", "parse", "attempt", "respond", "done"}]
    /\ target \in [Requests -> Backends \cup {NoBackend}]
    /\ tried \in [Requests -> Seq(Backends)]
    /\ delivered \in [Requests -> Nat]
    /\ reply \in [Requests -> {"none", "503", "413", "partial", "response"}]
    /\ records \in [Requests -> Seq({"request_complete", "request_failed"})]
    /\ requests \in [Backends -> Nat]
    /\ errors \in [Backends -> Nat]
    /\ alone \in [Requests -> BOOLEAN] /\ in_turn \in [Requests -> BOOLEAN]

\* A request that ends leaves exactly one terminal record, and request_complete
\* only follows a response that the client took and a backend gave.  The one path
\* without a record is that of an empty BackendSet, and then the client has got
\* nothing either.
OneRecordPerRequest ==
    \A r \in Requests :
        /\ Len(records[r]) <= 1
        /\ stage[r] = "done" <=> \/ records[r] # <<>>
                                 \/ listed = 0 /\ stage[r] # "new" /\ reply[r] = "none"
        /\ records[r] = <<"request_complete">> =>
              reply[r] = "response" /\ delivered[r] > 0

\* A retry goes to another backend than the attempt that failed, unless other
\* requests drew tickets in between or a backend was down: then the round robin,
\* which knows nothing of the failure, may come back to the same one.
RetryMovesOn ==
    [][\A r \in Requests :
          N > 1 /\ in_turn[r] /\ tried[r] # <<>> /\ tried'[r] # tried[r]
              => tried'[r][Len(tried'[r])] # Current(r)]_vars

\* Retries multiply a request, but not without end: the backends get it whole at
\* most once per attempt, and there are at most max_backend_retries + 1 attempts,
\* also where that sum does not fit a u32.
DeliveriesAreBounded ==
    \A r \in Requests :
        /\ delivered[r] <= Len(tried[r])
        /\ Len(tried[r]) <= MaxBackendRetries + 1

\* Whatever clients, backends and the health thread do, every request ends.
RequestsFinish == \A r \in Requests : <>(stage[r] = "done")

-----------------------------------------------------------------------------
(* What the documentation says *)

\* "Maximum proxy retries ... on connect failure": a request that a backend
\* has received is not sent again.
DeliveredAtMostOnce ==
    \A r \in Requests : delivered[r] <= 1
=============================================================================
