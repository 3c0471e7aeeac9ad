# Mzani: a TLA+ model of the load balancer

Mzani is a synchronous HTTP/1 load balancer: a bounded pool of worker threads
takes accepted connections, forwards each request to one of a fixed list of
backends and copies the answer back.  A health thread probes the backends, a
log thread writes records and a metrics thread aggregates statistics.  There is
no async runtime: everything that can go wrong goes wrong between threads that
share atomics, bounded `sync_channel`s and one `Arc<Context>`.

This directory holds TLA+ modules translated from the Rust source, the TLC
configurations that check them, and TLAPS proofs.  `PROJECT.json` maps each
definition to the lines it stands for.

## 1. Inventory

| Component | Source | State it keeps | Operations | Talks to |
|---|---|---|---|---|
| Backend registry | `state/backend.rs` | per entry: `healthy`, `consecutive_failures`, `consecutive_successes`; shared `next_index` | `new`, `select_next`, `record_probe_success/failure`, `is_healthy` | read by workers, written by the health thread, all through atomics |
| Routing | `routing.rs` | none of its own | `select_backend` | registry |
| Health monitor | `state/health.rs` | stop flag, thread handle | `start`, `health_loop`, `tcp_probe`, `sleep_interruptible`, `stop`, `Drop` | registry, log channel |
| Worker pool | `core/pool.rs` | one queue per worker, `dispatch_index`, `shutting_down`, handles, `Observability` | `new`, `submit`, worker / log / metrics loops, `stop_accepting`, `shutdown_threads` | every thread, by channels and joins |
| Request handling | `state/context.rs` | `Arc<Context>`: senders, registry, configuration, counters | `handle_connection`, `proxy_with_retries`, `proxy_to_backend`, `emit_log`, `record_metrics`, `attach/detach_observability` | registry, log and metrics channels, client, backend |
| Balancer | `balancer.rs` | the pool, the health monitor, the flag | `build`, `run`, `run_on_listener`, `accept_connection`, `metrics_snapshot`, `shutdown`, `Drop` | pool, health monitor |
| Metrics | `state/metrics.rs` | totals and per-backend counters under a mutex, atomic counters of drops and rejections | `record_request`, `record_pool_rejected`, `snapshot`, `snapshot_record`, `format_report` | metrics thread writes, any thread reads |
| Logging | `utils/logger.rs`, `utils/log_record.rs` | the log file, the level | `new_in_dir`, `ChannelLogSink::emit`, `write_record`, formatting | log thread |
| HTTP parsing | `core/request.rs`, `core/response.rs` | a buffer per call | `Request::from_stream`, `read_http_response` | client and backend sockets |
| HTTP replies | `utils/http.rs` | none | 413 and 503 replies | client |
| Configuration | `config.rs` | none | `Default`, `validate` | every constructor |
| Errors | `utils/error.rs` | none | `Display`, `From<io::Error>` | every caller |
| Binary, legacy entry point | `main.rs`, `core/mod.rs`, `lib.rs` | none | `main`, `listen_addr_from_env`, `backends_from_env`, `create_server` | balancer |

What is hard here, and what makes each part correct:

* **Registry and health thread.** `select_next` draws a ticket with one
  `fetch_add` and then loads one flag after the other while the health thread
  writes them.  Correct means: what it returns was healthy during the call, it
  gives up only after having seen each backend down, requests are spread evenly,
  the counters and the flag never disagree, every change of a flag is logged
  once, a backend that stays away is taken out and one that stays up comes back.
* **Pool.** Connections race with the shutdown flag, queues fill up, workers
  panic, and a channel closes only when its last sender is dropped; senders
  live in the pool, in the context, in workers and in the health thread.
  An embedder may hold senders too: a clone of the `Arc` that `context()` lends,
  or of the sender that `log_sender()` returns.
  Correct means: no connection is lost or answered twice, no thread leaves with
  something in its queue, a shutdown ends unless such a handle is in the way, and
  one that returns `Ok` has left nothing behind, not even an unlogged statistic.
* **Request handling.** Requests share the ticket counter and the flags, any
  read, write or connect can fail, and attempts are repeated.  Correct means:
  one terminal record on every path (but that of an empty `BackendSet`, which has
  none), no more deliveries than attempts, retries that move on, and an end.
* **HTTP parsing.** Limits are checked around reads of arbitrary size.  Correct
  means: the result does not depend on how the bytes were cut into reads, nothing
  grows beyond its limit by more than a read, no body beyond the limit is accepted,
  and a part is never taken for the whole.
* **Metrics and log.** Several threads lose records on full channels at the same
  time, the counters are updated by some and read by others, and the aggregator
  lets go of its mutex between counting and logging.  Correct means: every loss
  of `emit_log` is counted once, a snapshot tells of a prefix of the requests in all its
  numbers, and the file can be read from top to bottom.
* **Start.** Five ways in: `main`, `Balancer::build`, `create_server` with a
  `Context` from either constructor, and `ThreadPool::new` without a balancer.
  They validate different things; a log file, a port and several threads may fail
  after others are there.  Correct means: nothing starts with sizes, limits or
  thresholds that the rest could not run with, a start succeeds or fails as a
  whole, and what is dropped or shut down ends.

## 2. Modules

`BackendSet` models the registry, routing and the health thread.  A call of
`select_next` is `SelectStart` (the `fetch_add`) and one step per flag loaded:
`SelectFound`, `SelectSkip`, `SelectNone`.  The health thread is `HealthTop`,
`HealthCheck` (stop check and `was_healthy`), `HealthProbe` (the connect, the
bookkeeping of its result and the log record) and `HealthSleep`; the owner stops
it with `StopSignal` and `StopJoin`.  `reachable` is the network.  Recording a
probe is one step although it is three atomic operations: the counters have one
writer and no other reader, and only the last operation touches `healthy`.
`up_seen`, `down_seen` and `all_down_seen` are history: what the flags were
while a call was under way.  The sum of ticket and offset is taken modulo
`UsizeMod`, as in a release build.

`RoundRobin` extends it with a history of picks since the last flag change.

`HealthPolicy` is what the thresholds promise, in terms of probe results alone:
a flag goes down on the last `FailureThreshold` results being failures and up on
the last `RecoveryThreshold` being successes, and never otherwise.
`ProbeHistory` adds those results to `BackendSet` and states that its counters,
their resets and their saturation implement the policy
(`ImplementsHealthPolicy`, with `up <- healthy`).

`Pool` models the pool, the observability half of the context, and the life
cycle of the balancer.  A submitter or worker has a `pc`, the connection it
holds (`cur`) and the rest of the handler it is in (`todo`), a sequence of
effects: `"log"` (`emit_log`, and perhaps a `"notice"` after a drop; which
drops, is for `Observability`), `"stat"` (`record_metrics`), `"count"` (`record_pool_rejected`) and the
answer to the client.  `Handlings` lists these sequences for every way through
`handle_connection`; `DoOp` performs the next effect, so effects of different
threads interleave one by one.  `LogOpen` and `MetricsOpen` say who still holds
a sender: this is where the `Arc` and the order of the drops matter.  The owner
goes through `BeginShutdown`, `HealthStopped`, `GraceOver`, `ShutdownThreads`,
`JoinWorkers` or `JoinFails`, `Detach`, `JoinMetrics`, `ShutdownLog`,
`JoinLog`.  The constant `Modes` gives the ways to use the crate: `Balancer::run`
(which never ends), a `Balancer` whose `pool()` is fed by the embedder and that
is shut down or dropped, and a bare `ThreadPool`, whose flag the embedder may
raise, that may stop accepting, be shut down, or go out of scope without any of
it (it has no `Drop`).  `kept` are the handles that the embedder has cloned, of
those `MayKeep` lists: the context (`ThreadPool::context`) and the log sender
(`ThreadPool::log_sender`), with which it may log records of its own
(`EmbedderLogs`).  It lets go of them at any time (`LetGo`) or never, and each of
them counts in `LogOpen` and `MetricsOpen`.  `LastAfter` is the level filter of
`write_record`: with `InfoWritten` false an info record, such as the final
snapshot, is taken from the channel and not written.

`ConnectionLife` is what the pool promises to whoever hands it a connection:
taken once, answered once, refused only by a pool that stops or has lost a
worker, rejected only when others may fill a queue, and answered or closed in
the end; a clean end comes after the last answer.  `Pool` implements it
(`ImplementsConnectionLife`): `life` is `conn` with "held" and "queued" taken
together, and queues, threads, panics and the order of the shutdown disappear.

`Proxy` models what a worker decides: `handle_connection`, the retries and
`record_request`, with concurrent requests that share tickets and flags.  `listed` is how many
backends are in the `BackendSet`: all that are configured, or none
(`Context::from_config` looks at the configuration only), in which case
`handle_connection` passes `EmptyServerList` on with neither a record nor an
answer (`NoServers`).  Every
selection, the first and those of retries, is the scan of `BackendSet`: the
ticket (`StartSelect`), one step per flag (`SelectSkip`), and what the caller
makes of the result (`SelectTarget`, `NoHealthyBackend`, `NextAttempt`).  The
channels are left out, since `Pool` has them; a flag flips at any time.  `alone`
and `in_turn` are history: did anybody else draw a ticket, or a flag change,
since the last attempt.

`Framing` models one reader at work: `Request::from_stream` or
`read_http_response`, read by read.  A wire is a sequence of tokens (start line,
field, line end, chunk size, datum), lengths count tokens, and a read returns
any number of tokens up to its buffer, so that every way TCP may cut a message
is a behaviour; the header terminator is two tokens and may be split.  The
constants `Inputs` give each wire together with the message it was written from,
a start line, fields and a body in parts.  The reference is the message itself:
`Written` is how it looks on the wire, `Framed` whether its head tells where it
ends, `Expected` what should become of it, none of them looking at any read.

`Observability` takes up where `Pool` only passes records along: what is in the
numbers and in the file.  `emit_log` is three steps, `EmitLog` (the `try_send`),
`CountDrop` (the `fetch_add`) and `SendNotice`, so that two threads may lose
records at the same time; the aggregator is `MetricsRecv` (under the mutex),
`MetricsLog` and `MetricsSnapshot`; `LogWrite` is the log thread with its level.
`metrics_snapshot` is an operator on the state: what a call at this moment
returns.  In `file` only records are kept that some property is about.

`Startup` is everything before that: `Main`, `Build`, `CreateServer` or `MakePool`
turn what they are given into a configuration, `Validate`, `LoggerFails` or
`LoggerOpens` follow, then one `Spawn` per thread, any of which may panic, and
`Bind`.  `MakePool` is `Context::from_config` followed by `ThreadPool::new`, which
validates the `PoolConfig` only; the `BackendSet` may be empty and there is no
health monitor.  `held` are the sending ends that the starting thread, the
`Balancer` or the pool owns, `kept` the handles an embedder has cloned;
`LastSenderGone` says when a loop ends.  `Drop` is the end of a Balancer that
never served, or of a pool that is shut down: with a clone of the context about,
`Arc::get_mut` fails and the senders inside stay (`KeptForLog`).  Dropped without a
shutdown, or unwound by a panic, a pool is "abandoned".  The states named
"serving" and "built" are where the other modules begin, and `StartedMeansValid` is
their assumption on the constants.

The modules `MC...` give TLC instances.  The eight modules `...Proofs` hold the
proofs (section 5).

Definitions whose name ends in `_bug` or `_short` are mistakes one could make in
the definition they stand next to; no action uses them.  Each
breaks a property when put in place of the operation, which shows that the
property depends on it.

## 3. Runs

| Run | Instance | Shows |
|---|---|---|
| `registry` | 2 backends, 2 workers, 3 calls, thresholds 2 and 1, counters saturating at 2 | `FlagAgreesWithStreaks`, `SelectedWasHealthy`, `EventsFollowHealth`, `FairWhenAllUp`, `QuietAfterStop` |
| `registry_live` | 2 backends, 1 worker with any number of calls, a ticket counter that wraps at 2, thresholds 2 and 3, counters saturating at 3 | `NoHealthyMeansEachWasDown`, `ImplementsHealthPolicy`, `ProbingConverges`, `StopReturns` |
| `pool` | 2 workers, 2 connections, all modes, one panic, every channel of capacity 1, an embedder with a clone of the context and a log sender | `ExitedMeansDrained`, `CleanShutdown`, `FinalSnapshotIsComplete` |
| `pool_live` | 1 worker, 2 submitters, 2 connections, one panic, queue of 1, the same embedder (which does not log) | `OnePlace`, `RejectionsAreCounted`, `ImplementsConnectionLife`, `ShutdownCompletes`, `ThreadsExit` |
| `proxy` | 2 requests, 2 backends or an empty set, 1 retry | `OneRecordPerRequest`, `DeliveriesAreBounded`, `RetryMovesOn`, `RequestsFinish` |
| `framing` | heads of 0 to 4 fields, bodies of 0 to 3 tokens in up to 2 chunks, limits of 7 and 2, reads of up to 2; complete, followed by 3 more tokens, or 1 or 2 short; closed or open | `ResponseIsExpected`, `RequestIsExpected`, `TruncationIsDetected`, `ForwardedIsFramed`, `BuffersAreBounded` |
| `observability` | 2 emitters, 3 requests to 2 backends, channels of 1, notices after every second loss, snapshots after 2 requests, a 32-bit limit of 2, two log levels | `SnapshotIsAPrefix`, `FileIsInOrder`, `DropsAreCounted`, `NoticesAreTrue`, `AcceptedIsAggregated` |
| `startup` | every way in, every pair of fields zero, 1 or 2 workers, one or two parts in `MZANI_BACKENDS`, every failure, both handles kept or not | `StartedMeansValid`, `StartIsAllOrNothing`, `StartupEnds` |
| `scan_race` | violated | `NoHealthyMeansAllDown` |
| `duplicate_addr` | violated | `SelectedWasHealthy` with one address configured twice |
| `late_threads` | violated | `LateThreadsAreReported` |
| `redelivery` | violated | `DeliveredAtMostOnce` |

The passing runs but for the two `_live` ones check `TypeOK` of their module too.

**Bounds.** `MaxCalls` stops the ticket counter, in `registry`: three calls of two workers over
two backends include a full turn plus one, two overlapping calls, and a call
that overlaps any number of probes (probes are not bounded; the counters
saturate at `U32Max`, set to the larger threshold, so saturation happens).  All
channels have capacity 1: a second sender finds them full, which is the only
thing a capacity decides; `NoticeEvery` and `SnapshotEvery` are 2 in place
of 100, so that both the due and the other case happen.  In `registry` the counter
does not reach the end of its range (`UsizeMod` is 8); in `registry_live` it wraps,
with calls without end, at a multiple of the number of backends, as 2^w is for two
of them.  The full queue, and the rejection that follows, are in `pool_live`: two
connections never meet in one of the two queues of `pool`.  `MaxRecords`
cuts consecutive log records of one request to one: a further record only
repeats the same `emit_log`.  `MaxNoise` bounds the events of the health thread,
of the accept loop and of the embedder, `MaxPanics` the panics; one of each suffices to fill a
channel or to break off the joins.  In `observability`, `MaxEmits`,
`MaxRejections` and `MaxStats` bound the calls: four losses (three of `emit_log` as
such and one of a rejection) contain one with a notice and others without, and
three requests are one more than the 32-bit limit and than a snapshot interval.  `Proxy` keeps `next_index` modulo the number
of backends, on which alone a scan depends short of the wrap that `BackendSet`
has.  In `startup`, `WorkerNames` has two names for the ten
default workers, and `DefaultSize`, their number, stands for each default.  Deadlock is not checked in the pool and startup runs, because the process
ends, nor in `proxy`, where nothing is left to happen once the requests to an
empty `BackendSet` are done; their liveness properties say that they end only
where they should.  It is checked in the others: probing goes on for ever, a reader
always has a step until it has returned, and records of other threads keep coming.

In `framing` the limits are crossed by one token and by more, a head exceeds the
header limit by less than a read (accepted or not, as it is cut), by exactly one
read, and by more (never accepted), bodies hold line ends and what looks like a chunk size,
and the line limit of chunk metadata is met with extensions.

**Fairness.** Weak fairness of each thread's own steps: the operating system
schedules it.  Reads have timeouts; the connect to a backend
(`TcpStream::connect`, `state/context.rs:386`) has none but the operating system's,
and *writes have none at all*.  So the runs assume that a connect ends and
that peers read what they are sent.  In `observability` only the two threads of the pool are fair, in
`startup` the starting thread (up to the point where an embedder has its
`Balancer` or its pool) and the exits of the threads.  Nobody is assumed to connect, to panic, to raise the flag, to call
`stop`, to begin a shutdown or to let go of a handle, and backends change as they
like.

## 4. Findings

Each is a run that TLC refutes; the quotations are in `PROJECT.json`.

* `scan_race`: `select_next` can report `NoHealthyBackend` although at every
  moment of the call some backend was healthy; the doc comment says it does so
  "if every backend is unhealthy".  What does hold is
  `NoHealthyMeansEachWasDown`.
* `duplicate_addr`: nothing rejects an address configured twice, probes are
  recorded for its first entry only, and the second stays healthy for ever.
* `late_threads`: after the grace period `shutdown` joins without a deadline, so
  threads that are late are waited for and reported as `joined_cleanly`.
  `ShutdownTimeout` comes back only when a worker has panicked
  (`balancer.rs:166-169`), whether or not there was time left.
* `redelivery`: retries follow every error, not only a "connect failure", so a
  request that a backend has received may be sent again.

Seen while modelling and without a run: the statistics of a
request go to the backend selected first, so the one that answered a retry is not
counted, and the one that failed is credited (`state/context.rs:319`;
`state/metrics.rs:61` says "Total proxied requests to this backend"); the header
limit is checked before a read and not after it, so a head beyond
`max_header_bytes`, by up to one read, is accepted and forwarded
(`core/request.rs:140`; `config.rs:12` says "Maximum HTTP header block size in
bytes", and `BuffersAreBounded` has the bound that holds); past `u32::MAX` requests
the divisor is 1 and the average latency is the total (`state/metrics.rs:141`;
line 78 says "Average request duration over all completed requests"); the sum of
ticket and offset wraps at 2^w, and a scan across the wrap can look at one entry
twice and miss another unless the number of backends divides 2^w (with
`UsizeMod = 4`, `N = 3` and `MaxCalls = 4` TLC refutes `NoHealthyMeansEachWasDown`;
the theorem `ScanMissesNone` has the exact condition); with a backend out, its successor
gets its share; a rejection looks at one queue only; `connections_dropped` is
the constant 0; `ThreadPool::context()` lends the `Arc`, and while a clone lives
`Arc::get_mut` fails, the metrics channel stays open and the join of the metrics
thread never returns, and a sender from `ThreadPool::log_sender()` holds up the join
of the log thread while it lives (the exceptions in `ShutdownCompletes`,
`ThreadsExit` and `StartupEnds`; `CHANGELOG.md:87`
says such a deadlock was fixed); with an empty `BackendSet` a request ends without
answer or record; only `Context::emit_log` counts the records it
drops, and a lost notice counts nowhere (`state/metrics.rs:76` speaks of all); the report inside a
snapshot record has line breaks, so that record is not one line of the file; a
value with a backslash is not escaped; zero timeouts pass `validate`, and then no
connection is served; `create_server` takes over limits and timeouts and replaces
the pool, health and retry settings by defaults; `InvalidConfig` is never
constructed; a read timeout is `WouldBlock` on Unix and becomes `Io`, not
`Timeout`; a `HEAD` request waits for a body until the timeout; the
statistics of a full metrics channel are lost; a full log channel loses the
final snapshot, which is why `FinalSnapshotIsComplete` speaks of a snapshot that
found room; an
oversized response is not answered with 413; a request that is chunked loses what
did not come with its head, and one with more behind it is forwarded with as
much of that as came along; an interim (1xx) response is taken for the answer; `run` does not return when the
listener is closed.

## 5. Proofs

`BackendSetProofs`, for any numbers of backends and workers, any thresholds,
any integer widths and any assignment of addresses:

* `TypeCorrect`: the type invariant.
* `StreaksAgree`: `FlagAgreesWithStreaks`, inductive together with the types.
* `StoppedIsQuiet`: `QuietAfterStop`, from `JoinedMeansExited` (a joined monitor
  has an exited thread).
* `ScanMissesNone`: `NoHealthyMeansEachWasDown`, if
  `MaxCalls + N <= UsizeMod + 1`, that is, short of the wrap.  The property says
  nothing of a scan half-way; the invariant `ScanInv` says that every offset
  passed was seen down, and the number-theoretic lemma `ScanCoversAll`
  that N consecutive offsets modulo N are all entries.
* `SelectionIsHealthy`: `SelectedWasHealthy`, if the addresses are distinct.
* `EventsAgree`: `EventsFollowHealth`, duplicates included.  Needs that
  `was_healthy` is still what the flag says when the probe returns
  (`ProbeReadIsFresh`): nobody else writes the flag.

`PoolProofs`, for any numbers of workers, submitters, connections and panics and
any capacities:

* `NothingAbandoned`: `ExitedMeansDrained`.  Inductive together with the shape of
  `pc`, `slot`, `queue`, `dispatch_index` and the sender flags (`DrainInv`; the
  slot a submitter drew must be a worker, or the send could miss the queues).
  Every step only closes channels (`OnlyCloses`: senders are dropped and dead
  threads stay dead, so `ContextStaysDead` and `ChannelsStayClosed`), and a thread
  leaves only an empty, closed channel that no later send reaches
  (`LeavesDrained`).  What the embedder keeps may come and go: it
  delays the exit of the threads, but does not make them lose anything.

* `EveryConnectionHasOnePlace`: `OnePlace`.  The property counts slots and
  holders; the induction is over `PlaceInv`, which says the same without
  counting (`Places`: no connection is in two slots, or in a slot and a hand) and
  adds what keeps it true: what a handler can have left to do (`Handlers`:
  exactly one answer while its connection is held, none once it is answered or
  where there is no connection).
* `EveryRejectionIsCounted`: `RejectionsAreCounted`.  Needs `Rejecting`: only a
  submitter has a rejection to give, and it counts it before it gives it.
* `PoolTypes`: `TypeOK`, which rests on the shapes of the two invariants.

`PoolPromiseProofs`, on top of it:

* `ShutdownIsClean`: `CleanShutdown`.  The invariant `Joins` says what each stage
  of the shutdown has already joined; `ExitedMeansDrained` and `OnePlace` then
  leave no place where a connection could be.
* `FinalSnapshotIsLastAndComplete`: `FinalSnapshotIsComplete`.  `Stats` says that
  what was sent to the metrics channel is aggregated or still in it, each
  connection once; `FinalLine`, that the last line written or queued is the
  snapshot: once the aggregator and the workers are gone, nobody else writes but
  the embedder, whose records are left out of `last_record`.
* `PoolKeepsItsPromise`: the initial states of `Pool` are initial states of
  `ConnectionLife`, and each of its steps is one of its steps or leaves
  connections alone.  `Flags` and `Reasons` say why clients are turned away: a
  refusal finds the flag up or a worker dead, and a rejection other
  connections in the pool.

`HistoryProofs`:

* `ProbingImplementsPolicy`: `ImplementsHealthPolicy` as it stands (the policy has no
  liveness), for any thresholds and any saturation bound not below them.  The invariant
  `Remembers`: for every n up to the larger threshold, a counter is at least n exactly if
  the last n results agree.
* `RoundRobinIsFair`: `FairWhenAllUp`, if `MaxCalls < UsizeMod` or `N` divides
  `UsizeMod`.  The difference of two counts is not inductive; `Level` says which
  entries are ahead: those of the last k tickets, for some k.  Without the
  hypothesis it is false: across a wrap at another number the entries after the
  wrap come early.

`ProxyProofs`, for any numbers of requests, backends and retries:

* `TypeCorrect`; `OneRecord` for `OneRecordPerRequest` and `DeliveriesBounded` for
  `DeliveriesAreBounded`, from `Progress` (what a request at each stage has done and
  not done).
* `RetriesMoveOn`: the action property `RetryMovesOn`, from `Tickets`: as long as nobody
  else drew a ticket, the counter stands just behind the last target, and the
  next scan begins there.

`ObservabilityProofs`, for any numbers of threads, capacities and intervals:

* `ObservabilityTypes`; `EveryDropIsCounted` for `DropsAreCounted`.
* `SnapshotsAreInOrder`: `FileIsInOrder`.  It speaks of the file and of what is on its way to
  it; `Ahead` adds what the aggregator has counted and not yet sent, which is
  where letting go of the mutex could hurt.
* `NoticesTellTheTruth`: `NoticesAreTrue`.  `Pending` adds the notices that
  threads are about to send: no two alike, and none like one sent before.
* `SnapshotsTellOfAPrefix`: `SnapshotIsAPrefix`.  The metrics equal the sums, counts and
  maxima over the requests aggregated (`Aggregated`); taking one more from the channel adds one
  term to each, and a request that enters the channel changes none of them.
  What `Total` does with one more term is an induction (below).

`StartupProofs`, for any list of worker names and any configuration passed that
asks for no more workers than there are names:

* `StartupTypes`; `OnlyValidStarts` for `StartedMeansValid` and
  `StartsAreAllOrNothing` for `StartIsAllOrNothing`.  `Checked` says from which stage on
  the configuration has passed which checks; `SpawnOrder`, which threads there are
  while they are started; `Whole`, that a Balancer or pool that stands has all of
  them and all of its senders; `WindDown`, what `Drop` has already joined.

`FramingProofs`, for any limits, any wire and any way it is cut into reads:

* `FramingTypes`; `ReadersAreBounded` for `BuffersAreBounded`.  What is bounded
  while a body is read is what was read together with what is still due
  (`BodyBound`): an announced length is refused before anything is read for it.
* `MessagesArriveIntact`: `BodiesAreExact`, which no run names (it says of any
  wire, a message or not, what the next theorems say of messages).  A request is forwarded as the tokens that were read, and with no less than
  the body it announces; a response that is not chunked has the announced
  length, or is all that the backend sent.  The invariant `Stream`: head, body and
  prefix, put together, are what the socket handed out; `Due`: what is read and
  what is still due add up to what the head announces.
* `ForwardedResponsesAreFramed`: `ForwardedIsFramed`, for any wire as well.  `encode_forwarded_response`
  writes lines that hold no line end and one empty line, so the first place where
  a head can end is where the body begins (`HeadEnd`), and what was kept and
  what was added can be told apart again (`FieldsOfHead`).
* `ResponsesAreRead`, `RequestsAreRead` and `TruncationsAreDetected`:
  `ResponseIsExpected`, `RequestIsExpected` and `TruncationIsDetected`, for any message.  None of
  the three says anything before the reader returns.  First the written message
  is laid out: `WrittenFacts` for head and body, `ChunkedFacts` for where the i-th
  size line, its extension and its data are.  Then `PlaceInv` says where the
  reader is: what it has of the head is what was written, the head it parsed is
  the message's (the header terminator cannot be found earlier, and is not
  missed when split), and the prefix is what the wire has next.  `InChunks` says it of the
  chunks: at the i-th, with the payload before it read, and with so much of the size
  line.  From these, each way to return has its lemma (`HeadVerdict` to `EndVerdict`), and
  `VerdictStep` puts them together.

The assumptions are those on the constants, which TLC evaluates in the runs:
what `validate` checks, widths and bounds that are numbers, sets of threads,
connections and requests that are finite (`IsFiniteSet`, for counting), names
that are distinct, wires made of strings (`InputAssumption`), and inputs that agree
with their message as far as both go (`MessageAssumption`; where a wire ends is
free).  `IsMessage` says what a message is: line ends are only in data, a chunk
extension begins with a semicolon, and sizes can be written as tokens; which
fields there are, how often, and what they announce is free.  `LimitAssumption`
asks for lines of more than one token, since the code allows 8 KiB.  The hypotheses of
three theorems are stated with them: no wrap (`ScanMissesNone`,
`RoundRobinIsFair`) and distinct addresses (`SelectionIsHealthy`).

Small definitions that only name a condition (`NextTicket`, `IsUp`, `Recovers` ...)
are expanded throughout by one `USE DEF` at the top of a proof module.

Inductions.  The library's induction theorems take a predicate as a parameter,
which the provers here cannot instantiate.  `SetInduction` takes a set
instead, and follows from the well-foundedness of `<` on the naturals.  With it go what
the model needs of sequences: `FlattenSeq` (its length, where each part begins,
what one more part adds) and the sums of `Total`.  Both are recursive functions in
a LET, whose existence is shown first (`FlattenExists`,
`SumExists`).

Only model-checked are eight temporal properties: `ProbingConverges`, `StopReturns`,
`ShutdownCompletes`, `ThreadsExit`, `RequestsFinish`, `AcceptedIsAggregated`,
`StartupEnds`, and of `ImplementsConnectionLife` the fairness (its steps are
`PoolKeepsItsPromise`).  They rest on weak fairness, hence on ENABLED, which this
prover does not handle.  Every invariant and every action property of the passing
runs is a theorem.

## 6. Not modelled

* The bytes of start lines, header fields and replies; `Framing` has only
  whether they can be parsed and what they say about the body.
* The text of reports and log lines, uptime and rate, names of fields and the
  correlation identifiers in them.
* Text and source of errors.
* `Debug`, `Display` and the accessors that return numbers or configuration: they
  change nothing and nothing depends on them.  The two that lend a handle,
  `context()` and `log_sender()`, are modelled.  What an embedder does with a cloned
  context is not: it could call `handle_connection`, which is public, on a thread of
  its own, and `Pool` has no handler outside its workers.
* Poisoned mutexes: no code that holds one of the mutexes can panic short of
  overflowing a 64-bit counter.
* `panic = "abort"`: the repository's release profile ends the process with the
  first panic, and there is nothing left to model.  `Pool` and `Startup` have the
  panics of the other builds: tests, and a crate that depends on this one and
  brings its own profile.
* An empty `BackendSet` in `BackendSet` and `RoundRobin`, which have at least one
  entry: `select_next` returns `EmptyServerList` before it touches anything, and what
  becomes of that is in `Proxy`.
* Memory ordering weaker than sequential consistency: the flag and the ticket
  counter are single atomics, and no property relates two of them that the code
  accesses relaxed.
* The end of `Balancer::run`: `incoming()` has none.

## 7. Plan

1. Done: registry, health thread and routing; pool and shutdown; request
   handling; reading of requests and responses; metrics and log; start.
2. Done: the abstract specifications `HealthPolicy` and `ConnectionLife`.
3. Done: proofs of the safety of every module and of both refinements.
4. Open: proofs of the liveness properties, once a prover handles ENABLED; the
   hazards without a property in `PROJECT.json`, each with its reason (writes
   without a timeout, the accept loop without an end).
