-------------------------------- MODULE Pool --------------------------------
(***************************************************************************)
(* The worker pool with its log and metrics threads (core/pool.rs), the    *)
(* observability half of Context (state/context.rs) and the life cycle of  *)
(* the Balancer that owns them (balancer.rs).                              *)
(*                                                                         *)
(* Threads that hand over connections, the workers, the log writer, the    *)
(* metrics aggregator, the health thread and the owner talk through        *)
(* bounded channels.  A channel closes when its last sender is dropped;    *)
(* senders live in the pool, in the Context shared by the workers and in   *)
(* threads, and shutdown is a matter of dropping and joining them in an    *)
(* order in which nobody waits for ever.                                   *)
(*                                                                         *)
(* handle_connection is here the sequence of its effects on the channels   *)
(* and on the client connection; module Proxy models what it decides.      *)
(***************************************************************************)
EXTENDS Integers, Sequences, FiniteSets

CONSTANTS
    W,              \* PoolConfig::workers
    QueueCap,       \* PoolConfig::per_worker_queue
    LogCap,         \* PoolConfig::log_channel_capacity
    MetricsCap,     \* PoolConfig::metrics_channel_capacity
    SnapshotEvery,  \* METRICS_SNAPSHOT_EVERY_N
    Conns,          \* client connections, each accepted at most once
    Submitters,     \* threads that hand connections to the pool
    Modes,          \* ways to use the crate, see Init
    MayKeep,        \* what the embedder may keep of the pool's, see Keep
    InfoWritten,    \* does MZANI_LOG let info records through, as by default
    MaxPanics,      \* bound: workers that panic while handling a request
    MaxRecords,     \* bound: log records in a row of one request, 5 in the code
    MaxNoise        \* bound: log records of the health thread, the embedder and accept errors

\* PoolConfig::validate, and the literals of the code.
ASSUME PoolAssumption ==
    /\ W \in Nat \ {0}
    /\ QueueCap \in Nat \ {0}
    /\ LogCap \in Nat \ {0}
    /\ MetricsCap \in Nat \ {0}
    /\ SnapshotEvery \in Nat \ {0}
    /\ Modes \subseteq {"run", "balancer", "pool"}
    /\ MayKeep \subseteq {"context", "log_tx"}
    /\ InfoWritten \in BOOLEAN
    /\ MaxPanics \in Nat
    /\ MaxRecords \in Nat \ {0}
    /\ MaxNoise \in Nat

Workers == 0 .. (W - 1)

ASSUME ThreadAssumption == Submitters \cap Workers = {} /\ IsFiniteSet(Submitters)

Threads == Submitters \cup Workers

NoConn == "no_conn"

ASSUME ConnAssumption == NoConn \notin Conns /\ IsFiniteSet(Conns)

VARIABLES
    mode,           \* how the crate is used
    conn,           \* what became of each connection
    pc,             \* per submitter and worker
    cur,            \* the connection a thread holds
    todo,           \* what is left of the handler the thread is in
    slot,           \* the queue a submitter has drawn
    \* ---- ThreadPool
    queue,          \* one sync_channel per worker
    txs,            \* connection_txs not yet cleared
    dispatch_index,
    shutting_down,
    \* ---- Observability, Context and their threads
    log_q, metrics_q,
    log_tx, metrics_tx,     \* Observability::log_tx and ::metrics_tx are Some
    attached,               \* Context::log_tx and ::metrics_tx are Some
    pool_ctx,               \* the pool still holds its Arc<Context>
    lpc, mpc,               \* log_writer_loop, metrics_aggregator_loop
    total_requests, pool_rejected,
    last_record,            \* the last record of the crate's own in the log file
    \* ---- the rest of the process
    health,                 \* the health thread, owner of a log sender
    kept,                   \* handles of the pool's that the embedder keeps
    owner,                  \* progress of shutdown or drop
    ending,                 \* which of the two it is
    result,                 \* what it returned
    \* ---- bounds and history
    noise, panics,
    stats_sent,             \* requests whose statistics reached the metrics channel
    final_sent,             \* did shutdown_log find room for its snapshot
    running_at_deadline,    \* workers alive when the grace period ended
    clone_met               \* was there a clone when Arc::get_mut looked

conn_vars   == <<conn, pc, cur, todo, slot, queue, dispatch_index>>
flag_vars   == <<shutting_down, txs>>
writer_vars == <<lpc, last_record>>
stat_vars   == <<metrics_q, stats_sent>>
agg_vars    == <<mpc, total_requests>>
sender_vars == <<log_tx, metrics_tx, attached, pool_ctx, final_sent>>
past_vars   == <<mode, running_at_deadline, clone_met>>
owner_vars  == <<owner, ending, result, past_vars>>
env_vars    == <<health, noise, panics, kept>>
obs_vars    == <<log_q, writer_vars, stat_vars, agg_vars, pool_rejected>>
vars == <<conn_vars, flag_vars, obs_vars, sender_vars, owner_vars, env_vars>>

Event == [kind |-> "event", total |-> 0]
Snapshot(n) == [kind |-> "snapshot", total |-> n]
OwnRecord == [kind |-> "own", total |-> 0]      \* of the embedder's

FinalStates == {"served", "refused", "rejected", "closed"}

\* ThreadPool::new and Observability::start.  Three ways to use the crate:
\* "run" is Balancer::run, which borrows the Balancer exclusively; "balancer"
\* hands connections to Balancer::pool() and ends in Balancer::shutdown or
\* drop; "pool" is a ThreadPool without a Balancer, where any holder of the
\* flag may raise it.  The server_start record is already queued.
Init ==
    /\ mode \in Modes
    /\ conn = [c \in Conns |-> "new"]
    /\ pc   = [t \in Threads |-> IF t \in Workers THEN "recv" ELSE "idle"]
    /\ cur  = [t \in Threads |-> NoConn]
    /\ todo = [t \in Threads |-> <<>>]
    /\ slot = [t \in Submitters |-> 0]
    /\ queue = [w \in Workers |-> <<>>]
    /\ txs = TRUE
    /\ dispatch_index = 0
    /\ shutting_down = FALSE
    /\ log_q = <<Event>> /\ metrics_q = <<>>
    /\ log_tx = TRUE /\ metrics_tx = TRUE /\ attached = TRUE /\ pool_ctx = TRUE
    /\ lpc = "recv" /\ mpc = "recv"
    /\ total_requests = 0 /\ pool_rejected = 0
    /\ last_record = Event
    /\ health = IF mode = "pool" THEN "exited" ELSE "up"
    /\ kept = {}
    /\ owner = "running" /\ ending = "none" /\ result = "none"
    /\ noise = 0 /\ panics = 0
    /\ stats_sent = {} /\ final_sent = FALSE /\ running_at_deadline = {}
    /\ clone_met = FALSE

-----------------------------------------------------------------------------
(* Channels *)

Dead(t) == pc[t] \in {"exited", "panicked"}

\* The Arc<Context> is gone once the pool, every worker and the embedder have
\* dropped theirs; its senders go with it.
ContextAlive == pool_ctx \/ "context" \in kept \/ \E w \in Workers : ~Dead(w)
ContextUnique == "context" \notin kept /\ \A w \in Workers : Dead(w)

LogOpen     == \/ log_tx \/ mpc # "exited" \/ health = "up" \/ "log_tx" \in kept
               \/ attached /\ ContextAlive
MetricsOpen == metrics_tx \/ (attached /\ ContextAlive)

LogHasRoom == Len(log_q) < LogCap /\ lpc # "exited"

\* A try_send whose failure nobody counts.
SendLog(r) == log_q' = IF LogHasRoom THEN Append(log_q, r) ELSE log_q

\* Thread t goes on with the rest of its handler, or back to its loop.
Proceed(t, rest) ==
    /\ todo' = [todo EXCEPT ![t] = rest]
    /\ IF rest # <<>>
       THEN UNCHANGED <<pc, cur>>
       ELSE /\ pc'  = [pc EXCEPT ![t] = IF t \in Workers THEN "recv" ELSE "idle"]
            /\ cur' = [cur EXCEPT ![t] = NoConn]

\* emit_log, as the next thing thread t does.  After a drop a log_dropped record
\* may be tried; module Observability counts the drops and says when.
EmitLog(t) ==
    /\ SendLog(Event)
    /\ \E notice \in IF LogHasRoom THEN {<<>>} ELSE {<<>>, <<"notice">>} :
           Proceed(t, notice \o Tail(todo[t]))

\* record_metrics: the statistics of a full channel are dropped silently.
RecordMetrics(c) ==
    IF Len(metrics_q) < MetricsCap /\ mpc # "exited"
    THEN /\ metrics_q' = Append(metrics_q, c)
         /\ stats_sent' = stats_sent \cup {c}
    ELSE UNCHANGED stat_vars

\* One effect of the handler thread t is in.
DoOp(t) ==
    /\ pc[t] = "work"
    /\ \/ /\ Head(todo[t]) = "log"
          /\ EmitLog(t)
          /\ UNCHANGED <<conn, pool_rejected, stat_vars>>
       \/ /\ Head(todo[t]) = "notice"
          /\ SendLog(Event)
          /\ Proceed(t, Tail(todo[t]))
          /\ UNCHANGED <<conn, pool_rejected, stat_vars>>
       \/ /\ Head(todo[t]) = "stat"
          /\ RecordMetrics(cur[t])
          /\ Proceed(t, Tail(todo[t]))
          /\ UNCHANGED <<conn, pool_rejected, log_q>>
       \/ /\ Head(todo[t]) = "count"
          /\ pool_rejected' = pool_rejected + 1
          /\ Proceed(t, Tail(todo[t]))
          /\ UNCHANGED <<conn, log_q, stat_vars>>
       \/ /\ Head(todo[t]) \in FinalStates
          /\ conn' = [conn EXCEPT ![cur[t]] = Head(todo[t])]
          /\ Proceed(t, Tail(todo[t]))
          /\ UNCHANGED <<pool_rejected, log_q, stat_vars>>
    /\ UNCHANGED <<slot, queue, dispatch_index, flag_vars, writer_vars,
                   agg_vars, sender_vars, owner_vars, env_vars>>

-----------------------------------------------------------------------------
(* Handing connections to the pool *)

\* Balancer::run has one accept loop.
LoopIsFree == mode = "run" => \A s \in Submitters : pc[s] = "idle"

\* A submitter gets hold of a connection.
Accept(s, c) ==
    /\ owner = "running"
    /\ pc[s] = "idle" /\ conn[c] = "new" /\ LoopIsFree
    /\ conn' = [conn EXCEPT ![c] = "held"]
    /\ cur'  = [cur EXCEPT ![s] = c]
    /\ pc'   = [pc EXCEPT ![s] = "check"]
    /\ UNCHANGED <<todo, slot, queue, dispatch_index, flag_vars,
                   obs_vars, sender_vars, owner_vars, env_vars>>

\* accept_connection cannot set the read timeout: it logs and drops the stream.
AcceptTimeoutFails(s) ==
    /\ mode = "run"
    /\ pc[s] = "check"
    /\ pc'   = [pc EXCEPT ![s] = "work"]
    /\ todo' = [todo EXCEPT ![s] = <<"log", "closed">>]
    /\ UNCHANGED <<conn, cur, slot, queue, dispatch_index, flag_vars,
                   obs_vars, sender_vars, owner_vars, env_vars>>

\* accept itself fails: the loop logs the error and goes on.
AcceptError(s) ==
    /\ mode = "run" /\ pc[s] = "idle" /\ LoopIsFree
    /\ noise < MaxNoise
    /\ noise' = noise + 1
    /\ pc'   = [pc EXCEPT ![s] = "work"]
    /\ todo' = [todo EXCEPT ![s] = <<"log">>]
    /\ UNCHANGED <<conn, cur, slot, queue, dispatch_index, flag_vars,
                   obs_vars, sender_vars, owner_vars, health, panics, kept>>

\* dispatch_worker_index
DrawnSlot_bug == (dispatch_index % W) + 1
DrawnSlot == dispatch_index % W

\* reject_pool_full: count, log and answer.
RejectPoolFull_bug == <<"log", "rejected">>
RejectPoolFull == <<"count", "log", "rejected">>

\* submit reads the flag; if it is down, it draws a queue.  A pool without queues
\* is full: submit says so too, though queues only go with the flag up.
SubmitCheck(s) ==
    /\ pc[s] = "check"
    /\ IF ~shutting_down /\ txs
       THEN /\ pc'   = [pc EXCEPT ![s] = "send"]
            /\ slot' = [slot EXCEPT ![s] = DrawnSlot]
            /\ dispatch_index' = dispatch_index + 1
            /\ UNCHANGED todo
       ELSE /\ pc'   = [pc EXCEPT ![s] = "work"]
            /\ todo' = [todo EXCEPT ![s] = IF shutting_down THEN <<"refused">> ELSE RejectPoolFull]
            /\ UNCHANGED <<slot, dispatch_index>>
    /\ UNCHANGED <<conn, cur, queue, flag_vars, obs_vars, sender_vars,
                   owner_vars, env_vars>>

QueueFull_bug(q) == Len(queue[q]) + 1 >= QueueCap
QueueFull(q) == Len(queue[q]) >= QueueCap

\* try_send to the queue drawn, and what accept_connection makes of the result:
\* queued; PoolFull and reject_pool_full; or ShutdownInProgress, when the
\* receiver is gone.
SubmitSend(s) ==
    LET q == slot[s] IN
    /\ pc[s] = "send"
    /\ \/ /\ ~Dead(q) /\ ~QueueFull(q)
          /\ queue' = [queue EXCEPT ![q] = Append(@, cur[s])]
          /\ conn' = [conn EXCEPT ![cur[s]] = "queued"]
          /\ cur'  = [cur EXCEPT ![s] = NoConn]
          /\ pc'   = [pc EXCEPT ![s] = "idle"]
          /\ UNCHANGED todo
       \/ /\ ~Dead(q) /\ QueueFull(q)
          /\ pc'   = [pc EXCEPT ![s] = "work"]
          /\ todo' = [todo EXCEPT ![s] = RejectPoolFull]
          /\ UNCHANGED <<queue, conn, cur>>
       \/ /\ Dead(q)
          /\ pc'   = [pc EXCEPT ![s] = "work"]
          /\ todo' = [todo EXCEPT ![s] = <<"refused">>]
          /\ UNCHANGED <<queue, conn, cur>>
    /\ UNCHANGED <<slot, dispatch_index, flag_vars, obs_vars, sender_vars,
                   owner_vars, env_vars>>

Submitter(s) ==
    \/ \E c \in Conns : Accept(s, c)
    \/ AcceptTimeoutFails(s) \/ AcceptError(s)
    \/ SubmitCheck(s) \/ SubmitSend(s) \/ DoOp(s)

-----------------------------------------------------------------------------
(* Connection workers *)

\* Consecutive log records, at most MaxRecords of them.
Records(n) == [i \in 1 .. (IF n < MaxRecords THEN n ELSE MaxRecords) |-> "log"]

\* The effects of handle_connection on the channels and the client, one
\* sequence per way through it.
Handlings ==
    { Records(1) \o <<"closed">>,                 \* set_read_timeout fails; no backend at all
      Records(1) \o <<"served", "log">>,          \* no healthy backend, 503
      Records(2) \o <<"served", "log">>,          \* request body too large, 413
      Records(3) \o <<"closed">>,                 \* no request to parse
      Records(5) \o <<"stat", "closed">>,         \* every backend attempt failed
      Records(5) \o <<"closed">>,                 \* the client went away
      Records(4) \o <<"served", "stat", "log">>,  \* complete
      Records(4) \o <<"served", "stat">> \o Records(2) } \* and slow

\* What recv leaves in the queue.
Received_bug(w) == queue[w]
Received(w) == Tail(queue[w])

\* recv returns a connection.
WorkerRecv(w) ==
    /\ pc[w] = "recv" /\ queue[w] # <<>>
    /\ queue' = [queue EXCEPT ![w] = Received(w)]
    /\ cur' = [cur EXCEPT ![w] = Head(queue[w])]
    /\ conn' = [conn EXCEPT ![Head(queue[w])] = "held"]
    /\ pc'  = [pc EXCEPT ![w] = "check"]
    /\ UNCHANGED <<todo, slot, dispatch_index, flag_vars, obs_vars,
                   sender_vars, owner_vars, env_vars>>

\* recv fails: the queue is empty and its sender is gone.
Disconnected_bug(w) == ~txs
Disconnected(w) == queue[w] = <<>> /\ ~txs

WorkerExit(w) ==
    /\ pc[w] = "recv" /\ Disconnected(w)
    /\ pc' = [pc EXCEPT ![w] = "exited"]
    /\ UNCHANGED <<conn, cur, todo, slot, queue, dispatch_index,
                   flag_vars, obs_vars, sender_vars, owner_vars, env_vars>>

\* The flag is read once per connection: 503, or handle_connection.
WorkerCheck(w) ==
    /\ pc[w] = "check"
    /\ pc' = [pc EXCEPT ![w] = "work"]
    /\ \/ shutting_down /\ todo' = [todo EXCEPT ![w] = <<"refused">>]
       \/ ~shutting_down /\ \E h \in Handlings : todo' = [todo EXCEPT ![w] = h]
    /\ UNCHANGED <<conn, cur, slot, queue, dispatch_index, flag_vars,
                   obs_vars, sender_vars, owner_vars, env_vars>>

\* A worker panics: its receiver goes, and with it the queued connections.
WorkerPanics(w) ==
    LET gone == {c \in Conns : c = cur[w] \/ \E i \in DOMAIN queue[w] : queue[w][i] = c}
    IN
    /\ pc[w] = "work" /\ panics < MaxPanics
    /\ panics' = panics + 1
    /\ pc'    = [pc EXCEPT ![w] = "panicked"]
    /\ conn'  = [c \in Conns |-> IF c \in gone /\ conn[c] \notin FinalStates
                                 THEN "closed" ELSE conn[c]]
    /\ cur'   = [cur EXCEPT ![w] = NoConn]
    /\ todo'  = [todo EXCEPT ![w] = <<>>]
    /\ queue' = [queue EXCEPT ![w] = <<>>]
    /\ UNCHANGED <<slot, dispatch_index, flag_vars, obs_vars,
                   sender_vars, owner_vars, health, noise, kept>>

Worker(w) ==
    WorkerRecv(w) \/ WorkerExit(w) \/ WorkerCheck(w) \/ DoOp(w)

-----------------------------------------------------------------------------
(* The log writer and the metrics aggregator *)

\* write_record: a record below the level of MZANI_LOG is not written.  The
\* snapshot is an info record, the other records are of any level; those of the
\* embedder are left out of last_record.
LastAfter(r) ==
    CASE r.kind = "own"      -> {last_record}
      [] r.kind = "snapshot" -> {IF InfoWritten THEN r ELSE last_record}
      [] r.kind = "event"    -> {r, last_record}

LogWrite ==
    /\ lpc = "recv" /\ log_q # <<>>
    /\ last_record' \in LastAfter(Head(log_q))
    /\ log_q' = Tail(log_q)
    /\ UNCHANGED <<conn_vars, flag_vars, lpc, stat_vars,
                   agg_vars, pool_rejected, sender_vars, owner_vars, env_vars>>

LogExit ==
    /\ lpc = "recv" /\ log_q = <<>> /\ ~LogOpen
    /\ lpc' = "exited"
    /\ UNCHANGED <<conn_vars, flag_vars, log_q, last_record,
                   stat_vars, agg_vars, pool_rejected, sender_vars, owner_vars,
                   env_vars>>

\* record_request under the lock, and whether a snapshot is due: every
\* SnapshotEvery requests, or because enough time has passed.
MetricsRecv ==
    /\ mpc = "recv" /\ metrics_q # <<>>
    /\ metrics_q' = Tail(metrics_q)
    /\ total_requests' = total_requests + 1
    /\ mpc' \in IF total_requests' % SnapshotEvery = 0 THEN {"log_due"} ELSE {"log", "log_due"}
    /\ UNCHANGED <<conn_vars, flag_vars, log_q, writer_vars,
                   stats_sent, pool_rejected, sender_vars, owner_vars,
                   env_vars>>

\* The metrics_record of the request.
MetricsLog ==
    /\ mpc \in {"log", "log_due"}
    /\ SendLog(Event)
    /\ mpc' = IF mpc = "log" THEN "recv" ELSE "snapshot"
    /\ UNCHANGED <<conn_vars, flag_vars, writer_vars, stat_vars,
                   total_requests, pool_rejected, sender_vars, owner_vars, env_vars>>

MetricsSnapshot ==
    /\ mpc = "snapshot"
    /\ SendLog(Snapshot(total_requests))
    /\ mpc' = "recv"
    /\ UNCHANGED <<conn_vars, flag_vars, writer_vars, stat_vars,
                   total_requests, pool_rejected, sender_vars, owner_vars, env_vars>>

MetricsExit ==
    /\ mpc = "recv" /\ metrics_q = <<>> /\ ~MetricsOpen
    /\ mpc' = "exited"
    /\ UNCHANGED <<conn_vars, flag_vars, log_q, writer_vars,
                   stat_vars, total_requests, pool_rejected, sender_vars, owner_vars,
                   env_vars>>

Writer     == LogWrite \/ LogExit
Aggregator == MetricsRecv \/ MetricsLog \/ MetricsSnapshot \/ MetricsExit

-----------------------------------------------------------------------------
(* The health thread, as far as it holds a log sender *)

\* A backend changed state: ChannelLogSink::emit.
HealthLogs ==
    /\ health = "up" /\ noise < MaxNoise
    /\ noise' = noise + 1
    /\ SendLog(Event)
    /\ UNCHANGED <<conn_vars, flag_vars, writer_vars, stat_vars,
                   agg_vars, pool_rejected, sender_vars, owner_vars, health, panics, kept>>

HealthExit ==
    /\ health = "up" /\ owner = "stop_health"
    /\ health' = "exited"
    /\ UNCHANGED <<conn_vars, flag_vars, obs_vars, sender_vars,
                   owner_vars, noise, panics, kept>>

-----------------------------------------------------------------------------
(* Shutdown *)

\* Every method that ends the pool takes the Balancer or the pool by value or
\* exclusively, so no submitter is inside a call.
Exclusive == mode # "run" /\ \A s \in Submitters : pc[s] = "idle"

\* A ThreadPool is built on a flag of the embedder's, who may raise it.
RaiseFlag ==
    /\ mode = "pool" /\ owner = "running" /\ ~shutting_down
    /\ shutting_down' = TRUE
    /\ UNCHANGED <<conn_vars, txs, obs_vars, sender_vars, owner_vars, env_vars>>

\* stop_accepting on a pool of one's own, before shutdown_threads or without it.
StopAccepting ==
    /\ mode = "pool" /\ owner = "running" /\ Exclusive /\ txs
    /\ shutting_down' = TRUE /\ txs' = FALSE
    /\ UNCHANGED <<conn_vars, obs_vars, sender_vars, owner_vars, env_vars>>

\* What the embedder may keep: a clone of the Arc that ThreadPool::context lends
\* it, and the clone of the log sender that ThreadPool::log_sender returns.
Lendable(h) == IF h = "context" THEN pool_ctx ELSE log_tx

Keep(h) ==
    /\ mode # "run" /\ owner = "running" /\ Lendable(h) /\ h \notin kept
    /\ kept' = kept \cup {h}
    /\ UNCHANGED <<conn_vars, flag_vars, obs_vars, sender_vars, owner_vars,
                   health, noise, panics>>

\* It lets go of it, now or never.
LetGo(h) ==
    /\ h \in kept
    /\ kept' = kept \ {h}
    /\ UNCHANGED <<conn_vars, flag_vars, obs_vars, sender_vars, owner_vars,
                   health, noise, panics>>

\* It sends a record of its own.
EmbedderLogs ==
    /\ "log_tx" \in kept /\ noise < MaxNoise
    /\ noise' = noise + 1
    /\ SendLog(OwnRecord)
    /\ UNCHANGED <<conn_vars, flag_vars, writer_vars, stat_vars,
                   agg_vars, pool_rejected, sender_vars, owner_vars, health, panics, kept>>

Embedder == EmbedderLogs \/ \E h \in MayKeep : Keep(h) \/ LetGo(h)

\* Balancer::shutdown, or Drop: the flag, then HealthMonitor::stop.
BeginShutdown(how) ==
    /\ mode = "balancer" /\ owner = "running" /\ Exclusive
    /\ shutting_down' = TRUE
    /\ ending' = how
    /\ owner' = "stop_health"
    /\ UNCHANGED <<conn_vars, txs, obs_vars, sender_vars, result, past_vars, env_vars>>

\* The health thread is joined.  Balancer::shutdown then stops accepting and
\* waits; Drop goes on to shutdown_threads.
HealthStopped ==
    /\ owner = "stop_health" /\ health = "exited"
    /\ IF ending = "shutdown"
       THEN owner' = "grace" /\ txs' = FALSE
       ELSE owner' = "threads" /\ UNCHANGED txs
    /\ UNCHANGED <<conn_vars, shutting_down, obs_vars, sender_vars,
                   ending, result, past_vars, env_vars>>

\* The grace period is always waited out.
GraceOver ==
    /\ owner = "grace"
    /\ owner' = "threads"
    /\ running_at_deadline' = {w \in Workers : ~Dead(w)}
    /\ UNCHANGED <<conn_vars, flag_vars, obs_vars, sender_vars, ending,
                   result, mode, clone_met, env_vars>>

\* shutdown_threads: stop_accepting, and take the handles.
ShutdownThreads ==
    /\ owner = "threads" \/ (mode = "pool" /\ owner = "running" /\ Exclusive)
    /\ shutting_down' = TRUE /\ txs' = FALSE
    /\ owner' = "join_workers"
    /\ UNCHANGED <<conn_vars, obs_vars, sender_vars, ending, result,
                   past_vars, env_vars>>

\* Does joining worker w succeed?
Joined_bug(w) == Dead(w)
Joined(w) == pc[w] = "exited"

\* Every worker is joined.
JoinWorkers ==
    /\ owner = "join_workers"
    /\ \A w \in Workers : Joined(w)
    /\ owner' = "detach"
    /\ UNCHANGED <<conn_vars, flag_vars, obs_vars, sender_vars, ending,
                   result, past_vars, env_vars>>

\* The pool is dropped: its senders and its Arc<Context> go.
DropPool_bug == metrics_tx' = FALSE /\ UNCHANGED <<log_tx, pool_ctx, attached, final_sent>>
DropPool ==
    /\ log_tx' = FALSE /\ metrics_tx' = FALSE /\ pool_ctx' = FALSE
    /\ UNCHANGED <<attached, final_sent>>

\* A panicked worker ends the joins.  Balancer::shutdown returns an error and
\* its Drop runs shutdown_threads once more, without handles; in the other
\* cases the pool is dropped as it is.
JoinFails ==
    /\ owner = "join_workers"
    /\ \E k \in Workers : pc[k] = "panicked" /\ \A i \in 0 .. (k - 1) : Joined(i)
    /\ result' = "error"
    /\ IF ending = "shutdown"
       THEN owner' = "detach" /\ UNCHANGED sender_vars
       ELSE owner' = "gone" /\ DropPool
    /\ UNCHANGED <<conn_vars, flag_vars, obs_vars, ending, past_vars, env_vars>>

\* A bare ThreadPool goes out of scope.  It has no Drop: the senders go, nobody
\* is told to stop and nobody is joined.
PoolDropped ==
    /\ mode = "pool" /\ owner = "running" /\ Exclusive
    /\ txs' = FALSE /\ DropPool
    /\ owner' = "gone"
    /\ UNCHANGED <<conn_vars, shutting_down, obs_vars, ending, result, past_vars, env_vars>>

\* Arc::get_mut gives the pool its Context back, unless somebody else has it.
Attached_bug == attached
Attached == attached /\ ~ContextUnique

\* Arc::get_mut, detach_observability, and the pool's own metrics sender.
Detach ==
    /\ owner = "detach"
    /\ attached' = Attached
    /\ clone_met' = ("context" \in kept)
    /\ metrics_tx' = FALSE
    /\ owner' = IF result = "error" THEN "final_log" ELSE "join_metrics"
    /\ UNCHANGED <<conn_vars, flag_vars, obs_vars, log_tx, pool_ctx, final_sent,
                   ending, result, mode, running_at_deadline, env_vars>>

\* The metrics thread is joined.
MetricsJoined_bug == TRUE
MetricsJoined == mpc = "exited"

JoinMetrics ==
    /\ owner = "join_metrics" /\ MetricsJoined
    /\ owner' = "final_log"
    /\ UNCHANGED <<conn_vars, flag_vars, obs_vars, sender_vars, ending,
                   result, past_vars, env_vars>>

\* shutdown_log: the last snapshot, then the pool's log sender is dropped.
ShutdownLog ==
    /\ owner = "final_log"
    /\ SendLog(Snapshot(total_requests))
    /\ final_sent' = LogHasRoom
    /\ log_tx' = FALSE
    /\ IF result = "error"
       THEN owner' = "gone" /\ pool_ctx' = FALSE
       ELSE owner' = "join_log" /\ UNCHANGED pool_ctx
    /\ UNCHANGED <<conn_vars, flag_vars, writer_vars, stat_vars,
                   agg_vars, pool_rejected, metrics_tx, attached, ending, result,
                   past_vars, env_vars>>

JoinLog ==
    /\ owner = "join_log" /\ lpc = "exited"
    /\ owner' = "done"
    /\ result' = "ok"
    /\ UNCHANGED <<conn_vars, flag_vars, obs_vars, sender_vars,
                   ending, past_vars, env_vars>>

Owner == HealthStopped \/ GraceOver \/ JoinWorkers \/ JoinFails
            \/ Detach \/ JoinMetrics \/ ShutdownLog \/ JoinLog

Next ==
    \/ \E s \in Submitters : Submitter(s)
    \/ \E w \in Workers : Worker(w) \/ WorkerPanics(w)
    \/ Writer \/ Aggregator
    \/ HealthLogs \/ HealthExit
    \/ RaiseFlag \/ StopAccepting \/ PoolDropped \/ Embedder
    \/ \E how \in {"shutdown", "drop"} : BeginShutdown(how)
    \/ ShutdownThreads
    \/ Owner

Spec == Init /\ [][Next]_vars

\* Every thread is scheduled, every handler returns (reads have timeouts; a
\* connect has none but the operating system's, and the peers are assumed to keep
\* reading what is written to them), and a shutdown that has begun goes on.
\* Nobody has to accept, log an event, raise the flag, begin a shutdown or let go
\* of what it keeps.
Fairness ==
    /\ \A s \in Submitters : WF_vars(SubmitCheck(s) \/ SubmitSend(s) \/ DoOp(s))
    /\ \A w \in Workers : WF_vars(Worker(w))
    /\ WF_vars(Writer) /\ WF_vars(Aggregator) /\ WF_vars(HealthExit)
    /\ WF_vars(Owner) /\ WF_vars(owner = "threads" /\ ShutdownThreads)

FairSpec == Spec /\ Fairness

-----------------------------------------------------------------------------
(* Properties *)

Ops == {"log", "notice", "stat", "count"} \cup FinalStates

LogRecords == [kind : {"event", "snapshot", "own"}, total : Nat]

ThreadTypes ==
    /\ conn \in [Conns -> {"new", "held", "queued"} \cup FinalStates]
    /\ pc \in [Threads -> {"idle", "recv", "check", "send", "work", "exited", "panicked"}]
    /\ cur \in [Threads -> Conns \cup {NoConn}]
    /\ todo \in [Threads -> Seq(Ops)]
    /\ slot \in [Submitters -> Workers]
    /\ queue \in [Workers -> Seq(Conns)]
    /\ dispatch_index \in Nat

SenderTypes ==
    /\ txs \in BOOLEAN /\ shutting_down \in BOOLEAN
    /\ log_tx \in BOOLEAN /\ metrics_tx \in BOOLEAN
    /\ attached \in BOOLEAN /\ pool_ctx \in BOOLEAN /\ final_sent \in BOOLEAN

ObservabilityTypes ==
    /\ log_q \in Seq(LogRecords) /\ last_record \in LogRecords
    /\ metrics_q \in Seq(Conns) /\ stats_sent \subseteq Conns
    /\ lpc \in {"recv", "exited"}
    /\ mpc \in {"recv", "log", "log_due", "snapshot", "exited"}
    /\ total_requests \in Nat /\ pool_rejected \in Nat

OwnerTypes ==
    /\ mode \in Modes
    /\ owner \in {"running", "stop_health", "grace", "threads", "join_workers", "detach",
                  "join_metrics", "final_log", "join_log", "done", "gone"}
    /\ ending \in {"none", "shutdown", "drop"}
    /\ result \in {"none", "ok", "error"}
    /\ running_at_deadline \subseteq Workers
    /\ health \in {"up", "exited"} /\ kept \subseteq MayKeep /\ clone_met \in BOOLEAN
    /\ noise \in Nat /\ panics \in Nat

\* The values every variable takes.
TypeOK == ThreadTypes /\ SenderTypes /\ ObservabilityTypes /\ OwnerTypes

\* A connection in the pool is in exactly one place: one slot of one queue, or
\* the hands of one thread.  No interleaving of submit, recv and a full queue
\* loses a client or serves it twice.
OnePlace ==
    \A c \in Conns :
        LET spots   == {p \in Workers \X (1 .. QueueCap) :
                            p[2] <= Len(queue[p[1]]) /\ queue[p[1]][p[2]] = c}
            holders == {t \in Threads : cur[t] = c}
        IN  /\ Cardinality(spots) = IF conn[c] = "queued" THEN 1 ELSE 0
            /\ Cardinality(holders) <= 1
            /\ conn[c] \in {"new", "queued"} => holders = {}
            /\ conn[c] = "held" => holders # {}

\* A thread leaves its loop only when its channel is empty and nobody can send
\* to it any more: what was queued is never abandoned.  A worker that panics
\* closes what its queue holds, and nothing is put there afterwards.
ExitedMeansDrained ==
    /\ \A w \in Workers : Dead(w) => queue[w] = <<>>
    /\ mpc = "exited" => metrics_q = <<>> /\ ~MetricsOpen
    /\ lpc = "exited" => log_q = <<>> /\ ~LogOpen

\* When shutdown has returned Ok, every thread is gone, no worker panicked and
\* every connection ever taken has been dealt with.
CleanShutdown ==
    owner = "done" =>
        /\ \A w \in Workers : pc[w] = "exited"
        /\ lpc = "exited" /\ mpc = "exited" /\ health = "exited"
        /\ \A c \in Conns : conn[c] \in {"new"} \cup FinalStates

\* The snapshot that shutdown_log queues covers every request whose statistics
\* reached the metrics channel, and is the last thing the crate writes to the log;
\* an embedder with a log sender may add to it.
FinalSnapshotIsComplete ==
    owner = "done" /\ final_sent /\ InfoWritten =>
        last_record = Snapshot(Cardinality(stats_sent))

\* pool_rejected counts the clients that were told "worker queue full", and
\* those about to be.
RejectionsAreCounted ==
    LET beingTold == {s \in Submitters : /\ pc[s] = "work" /\ todo[s] # <<>>
                                         /\ todo[s][Len(todo[s])] = "rejected"
                                         /\ Head(todo[s]) # "count"}
    IN  pool_rejected = Cardinality({c \in Conns : conn[c] = "rejected"}) + Cardinality(beingTold)

\* The pool implements ConnectionLife: queues, threads, the flag, panics and the
\* order of a shutdown are invisible to a client, who is taken once and answered
\* once; nobody is refused by a pool that goes on, or rejected for want of room
\* that is there, and everybody taken is answered or closed in the end.
Life == INSTANCE ConnectionLife WITH
            life     <- [c \in Conns |-> IF conn[c] \in {"held", "queued"} THEN "taken" ELSE conn[c]],
            stopping <- shutting_down,
            crashed  <- \E w \in Workers : pc[w] = "panicked",
            ended    <- owner = "done"

ImplementsConnectionLife == Life!Spec

\* A shutdown or drop that has begun comes to its end, with two exceptions.  If
\* somebody held a clone of the context when Arc::get_mut looked, the senders
\* inside it keep the metrics thread, and the owner, for ever, even if the clone
\* goes later.  And a log sender of the embedder's keeps the log thread, and the
\* owner, as long as it is held.
ShutdownCompletes ==
    owner # "running" ~> \/ owner \in {"done", "gone"}
                         \/ owner = "join_metrics" /\ clone_met
                         \/ [](owner = "join_log" /\ "log_tx" \in kept)

\* Also when the joins broke off, and when a pool is dropped without any, no
\* thread stays behind but for what the embedder keeps for good: the workers go
\* whatever it keeps, the metrics thread unless it keeps a context, the log thread
\* unless it keeps a context or a log sender.
ThreadsExit ==
    owner = "gone" ~> /\ \A w \in Workers : Dead(w)
                      /\ mpc = "exited" \/ []("context" \in kept)
                      /\ lpc = "exited" \/ [](kept # {})

-----------------------------------------------------------------------------
(* What the documentation says *)

\* shutdown "Returns ShutdownTimeout if threads do not exit before the deadline".
LateThreadsAreReported == owner = "done" /\ ending = "shutdown" => running_at_deadline = {}
=============================================================================
