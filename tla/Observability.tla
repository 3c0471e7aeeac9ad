---------------------------- MODULE Observability ----------------------------
(***************************************************************************)
(* What the balancer says about itself: Context::emit_log and              *)
(* record_metrics (state/context.rs), the aggregated Metrics               *)
(* (state/metrics.rs), the metrics and log threads (core/pool.rs), the     *)
(* filter and the file of the logger (utils/logger.rs, utils/log_record.rs) *)
(* and Balancer::metrics_snapshot (balancer.rs).                           *)
(*                                                                         *)
(* Module Pool has the life of the two threads and their channels; here    *)
(* they run, and the question is what is in the numbers and in the file.   *)
(* Every section under the metrics mutex is one step.                      *)
(***************************************************************************)
EXTENDS Integers, Sequences, SequencesExt, FiniteSets

CONSTANTS
    Emitters,           \* threads that hold the Context: workers, submitters
    Stats,              \* RequestStats: backend, request_len, response_len, duration, error
    LogCapacity, MetricsCapacity,
    NoticeEvery,        \* 100 in emit_log
    SnapshotEvery,      \* METRICS_SNAPSHOT_EVERY_N
    U32Max,             \* u32::MAX
    Settings,           \* values of MZANI_LOG
    MaxEmits,           \* bound: calls of emit_log
    MaxRejections,      \* bound: pool rejections
    MaxStats            \* bound: requests whose statistics get into the channel

ASSUME ObservabilityAssumption ==
    /\ {LogCapacity, MetricsCapacity, NoticeEvery, SnapshotEvery, U32Max} \subseteq Nat \ {0}
    /\ {MaxEmits, MaxRejections, MaxStats} \subseteq Nat
    /\ IsFiniteSet(Emitters)
    /\ \A s \in Stats : {s.request_len, s.response_len, s.duration} \subseteq Nat

VARIABLES
    log_queue, metrics_queue,
    dropped_logs,       \* the counter emit_log shares
    pc, prev,           \* each emitter: where in emit_log, and the count it was handed
    metrics,            \* Mutex<Metrics>
    agg, request_count, \* the aggregator: what it has yet to send, and its own count
    min_level, file,    \* the logger; of emit_log's records the file keeps no trace here
    \* ---- history
    emitted,            \* calls of emit_log
    handled,            \* records of emit_log that reached the log thread
    arrived             \* statistics accepted by the channel, in order

channel_vars == <<log_queue, metrics_queue>>
emit_vars    == <<dropped_logs, pc, prev, emitted>>
agg_vars     == <<agg, request_count, metrics>>
file_vars    == <<min_level, file, handled>>
vars == <<channel_vars, emit_vars, agg_vars, file_vars, arrived>>

-----------------------------------------------------------------------------
(* LogLevel and LogRecord *)

\* LogLevel::from_env: anything but the other three names means info.
from_env(setting) == IF setting \in {"debug", "warn", "error"} THEN setting ELSE "info"

Rank == [debug |-> 0, info |-> 1, warn |-> 2, error |-> 3]
meets_min_level(record) == Rank[record.level] >= Rank[min_level]

Record(event, level, n) == [event |-> event, level |-> level, n |-> n]

\* try_send on the log channel: the queue after it.
TrySend_bug(record) ==
    IF Len(log_queue) <= LogCapacity THEN Append(log_queue, record) ELSE log_queue
TrySend(record) ==
    IF Len(log_queue) < LogCapacity THEN Append(log_queue, record) ELSE log_queue

-----------------------------------------------------------------------------
(* Metrics *)

EmptyMetrics ==
    [total |-> 0, bytes |-> 0, duration |-> 0, last |-> 0, largest |-> 0,
     rejected |-> 0, per_backend |-> <<>>]

\* An entry of the map, made on first use.
Entry_bug(m, b) == [requests |-> 0, errors |-> 0]
Entry(m, b) == IF b \in DOMAIN m.per_backend THEN m.per_backend[b]
               ELSE [requests |-> 0, errors |-> 0]

record_request(m, s) ==
    LET e == Entry(m, s.backend)
        n == [requests |-> e.requests + 1, errors |-> e.errors + IF s.error THEN 1 ELSE 0]
    IN  [total |-> m.total + 1,
         bytes |-> m.bytes + s.request_len + s.response_len,
         duration |-> m.duration + s.duration,
         last |-> s.duration,
         largest |-> IF s.request_len > m.largest THEN s.request_len ELSE m.largest,
         rejected |-> m.rejected,
         per_backend |-> [b \in DOMAIN m.per_backend \cup {s.backend} |->
                             IF b = s.backend THEN n ELSE m.per_backend[b]]]

\* `u32::try_from(total_requests).unwrap_or(1)`: past u32::MAX the divisor is 1.
Average(m) ==
    IF m.total = 0 THEN 0
    ELSE m.duration \div (IF m.total <= U32Max THEN m.total ELSE 1)

\* Metrics::snapshot, and the numbers in the text of the report.
snapshot(m) ==
    [total |-> m.total, bytes |-> m.bytes, rejected |-> m.rejected,
     avg |-> Average(m), last |-> m.last, per_backend |-> m.per_backend]
format_report(m) == [shown |-> snapshot(m), largest |-> m.largest]

\* Balancer::metrics_snapshot.  It loads dropped_logs before it takes the mutex;
\* both only grow, so each lies between its values at the call and at the return.
metrics_snapshot == [shown |-> snapshot(metrics), dropped |-> dropped_logs]

snapshot_record == Record("metrics_snapshot", "info", metrics.total)

Init ==
    /\ log_queue = <<>> /\ metrics_queue = <<>>
    /\ dropped_logs = 0
    /\ pc = [e \in Emitters |-> "idle"] /\ prev = [e \in Emitters |-> 0]
    /\ metrics = EmptyMetrics
    /\ agg = <<>> /\ request_count = 0
    /\ min_level \in {from_env(s) : s \in Settings}
    /\ file = <<>>
    /\ emitted = 0 /\ handled = 0 /\ arrived = <<>>

-----------------------------------------------------------------------------
(* emit_log *)

\* try_send succeeds, or the record is lost and will be counted.  The level of
\* these records tells nothing apart here.
EmitLog(e) ==
    /\ pc[e] = "saturated" \/ (pc[e] = "idle" /\ emitted < MaxEmits)
    /\ log_queue' = TrySend(Record("emitted", "info", 0))
    /\ pc' = [pc EXCEPT ![e] = IF Len(log_queue) < LogCapacity THEN "idle" ELSE "count"]
    /\ emitted' = emitted + 1
    /\ UNCHANGED <<metrics_queue, dropped_logs, prev, agg_vars, file_vars, arrived>>

NoticeDue_bug(n) == n % NoticeEvery = 0
NoticeDue(n) == n > 0 /\ n % NoticeEvery = 0

\* fetch_add on the counter.
Counted_bug == IF dropped_logs < NoticeEvery THEN dropped_logs + 1 ELSE dropped_logs
Counted == dropped_logs + 1

CountDrop(e) ==
    /\ pc[e] = "count"
    /\ dropped_logs' = Counted
    /\ prev' = [prev EXCEPT ![e] = IF NoticeDue(dropped_logs) THEN dropped_logs ELSE 0]
    /\ pc' = [pc EXCEPT ![e] = IF NoticeDue(dropped_logs) THEN "notice" ELSE "idle"]
    /\ UNCHANGED <<channel_vars, emitted, agg_vars, file_vars, arrived>>

\* The notice goes the same way, and is not counted when it is lost.
SendNotice(e) ==
    /\ pc[e] = "notice"
    /\ log_queue' = TrySend(Record("log_dropped", "warn", prev[e] + 1))
    /\ pc' = [pc EXCEPT ![e] = "idle"]
    /\ prev' = [prev EXCEPT ![e] = 0]
    /\ UNCHANGED <<metrics_queue, dropped_logs, emitted, agg_vars, file_vars, arrived>>

\* record_pool_rejected: under the mutex, then the log record.
RecordPoolRejected(e) ==
    /\ pc[e] = "idle" /\ metrics.rejected < MaxRejections
    /\ metrics' = [metrics EXCEPT !.rejected = @ + 1]
    /\ pc' = [pc EXCEPT ![e] = "saturated"]
    /\ UNCHANGED <<channel_vars, dropped_logs, prev, emitted, agg, request_count, file_vars,
                   arrived>>

\* record_metrics: try_send, and nothing is said of what is lost.
RecordMetrics(s) ==
    /\ Len(arrived) < MaxStats
    /\ Len(metrics_queue) < MetricsCapacity
    /\ metrics_queue' = Append(metrics_queue, s)
    /\ arrived' = Append(arrived, s)
    /\ UNCHANGED <<log_queue, emit_vars, agg_vars, file_vars>>

\* HealthMonitor's ChannelLogSink and the server_start record: try_send alone.
OtherSender ==
    /\ Len(log_queue) < LogCapacity
    /\ log_queue' = TrySend(Record("other", "info", 0))
    /\ UNCHANGED <<metrics_queue, emit_vars, agg_vars, file_vars, arrived>>

-----------------------------------------------------------------------------
(* metrics_aggregator_loop *)

Aggregate_bug(s) == IF s.error THEN metrics ELSE record_request(metrics, s)
Aggregate(s) == record_request(metrics, s)

\* A snapshot is due after every SnapshotEvery requests, or when the interval
\* has passed; the request's own record goes out first.
ToSend_bug(due) == IF due THEN <<"snapshot", "record">> ELSE <<"record">>
ToSend(due) == IF due THEN <<"record", "snapshot">> ELSE <<"record">>

MetricsRecv ==
    /\ agg = <<>> /\ metrics_queue # <<>>
    /\ metrics_queue' = Tail(metrics_queue)
    /\ request_count' = request_count + 1
    /\ metrics' = Aggregate(Head(metrics_queue))
    /\ \E elapsed \in BOOLEAN : agg' = ToSend(request_count' % SnapshotEvery = 0 \/ elapsed)
    /\ UNCHANGED <<log_queue, emit_vars, file_vars, arrived>>

MetricsSend(what, record) ==
    /\ agg # <<>> /\ Head(agg) = what
    /\ log_queue' = TrySend(record)
    /\ agg' = Tail(agg)
    /\ UNCHANGED <<metrics_queue, emit_vars, request_count, metrics, file_vars, arrived>>

MetricsLog == MetricsSend("record", Record("metrics_record", "info", request_count))

\* The mutex is taken a second time; nobody else records requests.
MetricsSnapshot == MetricsSend("snapshot", snapshot_record)

-----------------------------------------------------------------------------
(* log_writer_loop and Logger::write_record *)

\* Records below the level are dropped, and a failing write loses its record.
LogWrite ==
    /\ log_queue # <<>>
    /\ log_queue' = Tail(log_queue)
    /\ LET record == Head(log_queue)
           \* a record of emit_log or another sender is not kept in `file`
           kept == record.event \notin {"emitted", "other"} /\ meets_min_level(record)
       IN  /\ \E written \in BOOLEAN :
                 file' = IF kept /\ written THEN Append(file, record) ELSE file
           /\ handled' = IF record.event = "emitted" THEN handled + 1 ELSE handled
    /\ UNCHANGED <<metrics_queue, emit_vars, agg_vars, min_level, arrived>>

-----------------------------------------------------------------------------
Aggregator == MetricsRecv \/ MetricsLog \/ MetricsSnapshot

Next ==
    \/ \E e \in Emitters : EmitLog(e) \/ CountDrop(e) \/ SendNotice(e) \/ RecordPoolRejected(e)
    \/ \E s \in Stats : RecordMetrics(s)
    \/ OtherSender
    \/ Aggregator
    \/ LogWrite

\* The threads of the pool keep running.
Spec == Init /\ [][Next]_vars /\ WF_vars(Aggregator) /\ WF_vars(LogWrite)

-----------------------------------------------------------------------------
(* Properties *)

\* The values every variable takes; the channels keep their capacity.
TypeOK ==
    /\ Len(log_queue) <= LogCapacity /\ Len(metrics_queue) <= MetricsCapacity
    /\ dropped_logs \in Nat /\ handled \in Nat /\ request_count \in Nat
    /\ pc \in [Emitters -> {"idle", "saturated", "count", "notice"}]
    /\ prev \in [Emitters -> Nat]
    /\ agg \in {<<>>, <<"record">>, <<"snapshot">>, <<"record", "snapshot">>}
    /\ min_level \in DOMAIN Rank
    /\ emitted \in 0 .. (MaxEmits + MaxRejections)
    /\ arrived \in Seq(Stats)

\* The sum of the numbers of a sequence.
Total(v) ==
    LET upto[i \in 0 .. Len(v)] == IF i = 0 THEN 0 ELSE upto[i - 1] + v[i] IN upto[Len(v)]

\* What Balancer::metrics_snapshot returns at any moment tells of exactly the
\* requests aggregated so far, in the order the channel took them and in all
\* its fields at once: none is counted twice or half.  The average is the sum
\* over the count as long as the count fits into 32 bits; past that it is not (the
\* divisor is 1), and nothing is claimed of it here.
SnapshotIsAPrefix ==
    LET k == Len(arrived) - Len(metrics_queue)
        first == SubSeq(arrived, 1, k)
        sum == Total([i \in 1 .. k |-> first[i].duration])
        To(b) == {i \in 1 .. k : first[i].backend = b}
        snap == metrics_snapshot.shown
    IN  /\ snap.total = k
        /\ snap.bytes = Total([i \in 1 .. k |-> first[i].request_len + first[i].response_len])
        /\ snap.last = IF k = 0 THEN 0 ELSE first[k].duration
        /\ k <= U32Max => snap.avg = IF k = 0 THEN 0 ELSE sum \div k
        /\ format_report(metrics).largest = Max({0} \cup {first[i].request_len : i \in 1 .. k})
        /\ DOMAIN snap.per_backend = {first[i].backend : i \in 1 .. k}
        /\ \A b \in DOMAIN snap.per_backend :
              snap.per_backend[b] = [requests |-> Cardinality(To(b)),
                                     errors |-> Cardinality({i \in To(b) : first[i].error})]

\* The lines of the file, and those on their way to it.
Lines == file \o log_queue

\* In the log file a snapshot stands below the records of the requests it
\* includes and above those of the requests it does not.
FileIsInOrder ==
    LET about == {i \in DOMAIN Lines : Lines[i].event \in {"metrics_record", "metrics_snapshot"}}
    IN  \A i, j \in about :
            i < j => IF Lines[j].event = "metrics_record" THEN Lines[i].n < Lines[j].n
                                                          ELSE Lines[i].n <= Lines[j].n

\* Every record given to emit_log is in the channel, has reached the log
\* thread, or is counted as dropped (or about to be): concurrent losses are
\* neither missed nor counted twice.  Notices, and what the health and the
\* metrics thread send, do not go through emit_log; their losses go uncounted.
DropsAreCounted ==
    emitted =
        handled + dropped_logs
        + Cardinality({i \in DOMAIN log_queue : log_queue[i].event = "emitted"})
        + Cardinality({e \in Emitters : pc[e] = "count"})

\* A log_dropped notice gives a number of lost records that has been reached,
\* the first one after more than NoticeEvery of them, and none is given twice.
NoticesAreTrue ==
    LET notices == {i \in DOMAIN Lines : Lines[i].event = "log_dropped"}
    IN  /\ \A i \in notices :
              /\ Lines[i].n \in (NoticeEvery + 1) .. dropped_logs
              /\ (Lines[i].n - 1) % NoticeEvery = 0
        /\ \A i, j \in notices : i # j => Lines[i].n # Lines[j].n

\* What the metrics channel took is aggregated.
AcceptedIsAggregated ==
    \A k \in 1 .. MaxStats : (Len(arrived) >= k) ~> (metrics.total >= k)
=============================================================================
