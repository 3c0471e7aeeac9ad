------------------------------- MODULE Startup -------------------------------
(***************************************************************************)
(* From a configuration to a listening balancer or a pool, or to an error: *)
(* main (main.rs), create_server (core/mod.rs), the validate methods       *)
(* (config.rs), Context::from_config and new_with_options                  *)
(* (state/context.rs), Balancer::build and run (balancer.rs) with          *)
(* Observability::start and ThreadPool::new (core/pool.rs), which an       *)
(* embedder may also call by itself, and HealthMonitor::start              *)
(* (state/health.rs); and the end of what an embedder has started.         *)
(*                                                                         *)
(* The log file may be impossible to open, the port taken, and             *)
(* thread::spawn panics when the system has no thread left: then the       *)
(* senders go with the stack and the threads started so far have to find   *)
(* out for themselves.  Modules BackendSet, Pool and Proxy begin where     *)
(* this one says "serving".                                                *)
(***************************************************************************)
EXTENDS Integers, Sequences, FiniteSets

CONSTANTS
    Asked,      \* the configurations a caller passes: functions from Fields to numbers
    Parts,      \* the values of MZANI_BACKENDS: its parts, in order
    WorkerNames, \* the workers there may be, in the order they are started
    MayKeep     \* handles of the pool that an embedder may clone

Limits  == {"max_header_bytes", "max_body_bytes", "max_response_bytes"}
Durations  == {"interval", "connect_timeout"}
Thresholds == {"failure_threshold", "recovery_threshold"}
PoolSizes  == {"workers", "per_worker_queue"}
Capacities == {"log_channel_capacity", "metrics_channel_capacity"}
Timeouts == {"read", "accept_read"}
Fields == {"backends", "max_backend_retries"} \cup Limits \cup Timeouts
          \cup Durations \cup Thresholds \cup PoolSizes \cup Capacities

\* Default for BalancerConfig and its parts: no backend, all else positive.
DefaultSize == Len(WorkerNames)     \* stands for each default, 10 workers included
Default == [f \in Fields |-> IF f = "backends" THEN 0 ELSE DefaultSize]

\* new_with_options: n backends and defaults.
Options(n) == [Default EXCEPT !["backends"] = n]

ASSUME StartupAssumption ==
    /\ \A c \in Asked : c \in [Fields -> Nat] /\ c["workers"] <= DefaultSize
    /\ \A p \in Parts : p \in Seq({"addr", "blank", "bad"})
    /\ WorkerNames \in Seq(STRING \ {"log", "metrics", "health"}) /\ WorkerNames # <<>>
    /\ \A i, j \in DOMAIN WorkerNames : WorkerNames[i] = WorkerNames[j] => i = j
    /\ MayKeep \subseteq {"context", "log_tx"}

VARIABLES
    entry,      \* how the balancer or the pool is started
    asked,      \* the configuration passed, or the default
    pool_config, \* the one whose PoolConfig is given to ThreadPool::new directly
    listed,     \* backends of the BackendSet given to Context::from_config
    listen, parts, \* the environment variables of main
    config,     \* the configuration in effect
    stage,      \* where the starting thread is
    result,     \* what the caller gets
    log_dir,    \* the log directory may have been created
    thread,     \* the threads started so far: "running", "exited"
    held,       \* the sending ends that the starting thread or the Balancer owns
    kept        \* the handles an embedder has from ThreadPool::context and log_sender

inputs == <<entry, asked, pool_config, listed, listen, parts>>
vars == <<inputs, config, stage, result, log_dir, thread, held, kept>>

-----------------------------------------------------------------------------
(* validate *)

\* The validate methods.  The order of the nested ones shows only in the text
\* of the error.
AnyZero_bug(c, fields) == \A f \in fields : c[f] = 0
AnyZero(c, fields) == \E f \in fields : c[f] = 0

LimitsFault(c) == AnyZero(c, Limits)
HealthFault(c) == AnyZero(c, Durations \cup Thresholds)
PoolFault(c)   == AnyZero(c, PoolSizes \cup Capacities)

validate(c) ==
    IF c["backends"] = 0 THEN "EmptyServerList"
    ELSE IF LimitsFault(c) \/ HealthFault(c) \/ PoolFault(c) THEN "ParseError" ELSE "none"

\* The threads in the order they are started: log writer, aggregator, workers
\* and, with a Balancer, the health monitor.
Threads(c) ==
    <<"log", "metrics">> \o SubSeq(WorkerNames, 1, c["workers"])
        \o IF entry = "pool" THEN <<>> ELSE <<"health">>

Workers == DOMAIN thread \ {"log", "metrics", "health"}
Running == {t \in DOMAIN thread : thread[t] = "running"}

Init ==
    /\ \/ entry = "main" /\ asked = Default /\ pool_config = Default /\ listed = 0
          /\ listen \in {"unset", "addr", "bad"} /\ parts \in Parts
       \/ entry \in {"build", "create_server"} /\ asked \in Asked /\ listed \in 0 .. 1
          /\ listen = "unset" /\ parts = <<>>
          /\ pool_config = asked
       \/ entry = "new_with_options" /\ listed \in 0 .. 1
          /\ asked = Options(listed) /\ pool_config = asked
          /\ listen = "unset" /\ parts = <<>>
       \/ entry = "pool" /\ asked \in Asked /\ listed \in 0 .. 1
          /\ pool_config \in {c \in Asked :
                               \A f \in Fields \ (PoolSizes \cup Capacities) : c[f] = asked[f]}
          /\ listen = "unset" /\ parts = <<>>
    /\ config = Default
    /\ stage = "enter" /\ result = "none"
    /\ log_dir = FALSE
    /\ thread = <<>> /\ held = {} /\ kept = {}

Return(error) == stage' = "returned" /\ result' = error

-----------------------------------------------------------------------------
(* The ways in *)

\* listen_addr_from_env, then backends_from_env: the first bad part ends it,
\* blank ones do not count.
FromEnv ==
    IF listen = "bad" \/ \E i \in DOMAIN parts : parts[i] = "bad" THEN "ParseError"
    ELSE IF \A i \in DOMAIN parts : parts[i] = "blank" THEN "EmptyServerList" ELSE "none"

Main ==
    /\ stage = "enter" /\ entry = "main"
    /\ IF FromEnv = "none"
       THEN /\ config' = [Default EXCEPT !["backends"] =
                             Cardinality({i \in DOMAIN parts : parts[i] = "addr"})]
            /\ stage' = "build" /\ UNCHANGED result
       ELSE Return(FromEnv) /\ UNCHANGED config
    /\ UNCHANGED <<inputs, log_dir, thread, held, kept>>

\* The embedder calls Balancer::build.
Build ==
    /\ stage = "enter" /\ entry = "build"
    /\ config' = asked /\ stage' = "build"
    /\ UNCHANGED <<inputs, result, log_dir, thread, held, kept>>

\* Context::from_config validates against the backends of the configuration,
\* and not those of the BackendSet the Context will route to.
from_config == validate(asked)

\* The embedder goes on to ThreadPool::new, with a PoolConfig of its own choice
\* and routing to the BackendSet it gave, an empty one too; no health monitor.
\* (Context::new_with_options makes such a Context as well, of default settings.)
MakePool ==
    /\ stage = "enter" /\ entry = "pool"
    /\ IF from_config = "none"
       THEN /\ config' = [pool_config EXCEPT !["backends"] = listed]
            /\ stage' = "build" /\ UNCHANGED result
       ELSE Return(from_config) /\ UNCHANGED config
    /\ UNCHANGED <<inputs, log_dir, thread, held, kept>>

\* create_server takes over those, the limits and the timeouts, nothing else.
Kept == Limits \cup Timeouts
CreateServer ==
    /\ stage = "enter" /\ entry \in {"create_server", "new_with_options"}
    /\ IF from_config = "none"
       THEN /\ config' = [f \in Fields |-> IF f = "backends" THEN listed
                                           ELSE IF f \in Kept THEN asked[f] ELSE Default[f]]
            /\ stage' = "build" /\ UNCHANGED result
       ELSE Return(from_config) /\ UNCHANGED config
    /\ UNCHANGED <<inputs, log_dir, thread, held, kept>>

-----------------------------------------------------------------------------
(* Balancer::build and ThreadPool::new *)

\* Balancer::build validates all of the configuration it is given,
\* ThreadPool::new the PoolConfig.
Fault(c) ==
    IF entry = "pool" THEN (IF PoolFault(c) THEN "ParseError" ELSE "none") ELSE validate(c)

Validate ==
    /\ stage = "build"
    /\ IF Fault(config) = "none" THEN stage' = "logger" /\ UNCHANGED result
                                 ELSE Return(Fault(config))
    /\ UNCHANGED <<inputs, config, log_dir, thread, held, kept>>

\* Logger::new_in_dir, before the first thread: the directory or the file fails.
LoggerFails ==
    /\ stage = "logger"
    /\ log_dir' \in BOOLEAN
    /\ Return("LoggerInit")
    /\ UNCHANGED <<inputs, config, thread, held, kept>>

\* The context gets its senders; the pool keeps a pair of its own.
LoggerOpens ==
    /\ stage = "logger"
    /\ log_dir' = TRUE
    /\ held' = {"context", "metrics_tx", "log_tx"}
    /\ stage' = "spawn"
    /\ UNCHANGED <<inputs, config, result, thread, kept>>

NextThread == Threads(config)[Cardinality(DOMAIN thread) + 1]

\* Is it the last one?
AllSpawned_bug == Cardinality(DOMAIN thread) = Len(Threads(config))
AllSpawned == Cardinality(DOMAIN thread) + 1 = Len(Threads(config))

\* thread::spawn; a worker's queue is made first.
Spawned(t) == [u \in DOMAIN thread \cup {t} |-> IF u = t THEN "running" ELSE thread[u]]

Spawn ==
    /\ stage = "spawn"
    /\ thread' = Spawned(NextThread)
    /\ held' = IF NextThread \notin {"log", "metrics", "health"} THEN held \cup {"connection_txs"} ELSE held
    /\ stage' = IF AllSpawned THEN "built" ELSE "spawn"
    /\ UNCHANGED <<inputs, config, result, log_dir, kept>>

\* It panics: the stack is unwound, handles are let go and senders dropped.
\* (Under main that ends the process, and the threads with it.)
SpawnPanics ==
    /\ stage = "spawn"
    /\ stage' = "abandoned" /\ result' = "panic"
    /\ held' = {}
    /\ UNCHANGED <<inputs, config, log_dir, thread, kept>>

-----------------------------------------------------------------------------
(* What an embedder does with what it has built *)

Embedded == entry \in {"build", "pool"}

\* It may clone the handles that ThreadPool::context and log_sender show; a clone
\* goes when the embedder wants, or never.
Keep(h) ==
    /\ stage = "built" /\ Embedded /\ h \in MayKeep \ kept
    /\ kept' = kept \cup {h}
    /\ UNCHANGED <<inputs, config, stage, result, log_dir, thread, held>>

LetGo(h) ==
    /\ h \in kept
    /\ kept' = kept \ {h}
    /\ UNCHANGED <<inputs, config, stage, result, log_dir, thread, held>>

\* It may drop a Balancer, and shut a pool down ...
DropBalancer ==
    /\ stage = "built" /\ entry = "build"
    /\ stage' = "drop"
    /\ UNCHANGED <<inputs, config, result, log_dir, thread, held, kept>>

ShutDownPool ==
    /\ stage = "built" /\ entry = "pool"
    /\ stage' = "drop_workers" /\ held' = held \ {"connection_txs"}
    /\ UNCHANGED <<inputs, config, result, log_dir, thread, kept>>

\* ... or drop a pool, which has no Drop of its own: nobody joins its threads.
DropPool ==
    /\ stage = "built" /\ entry = "pool"
    /\ stage' = "abandoned" /\ held' = {}
    /\ UNCHANGED <<inputs, config, result, log_dir, thread, kept>>

Embedder ==
    \/ \E h \in MayKeep : Keep(h) \/ LetGo(h)
    \/ DropBalancer \/ ShutDownPool \/ DropPool

-----------------------------------------------------------------------------
(* Balancer::run, and the end of a Balancer *)

\* From<io::Error> for MzaniError
from_io(kind) == IF kind = "TimedOut" THEN "Timeout" ELSE "Io"

Bind ==
    /\ stage = "built" /\ entry # "pool"
    /\ stage' = "serving" /\ result' = "none"
    /\ UNCHANGED <<inputs, config, log_dir, thread, held, kept>>

\* The Balancer is local to main and create_server and is dropped with the
\* error; an embedder keeps it and may try again.
BindFails ==
    /\ stage = "built" /\ entry # "pool"
    /\ \E kind \in {"TimedOut", "AddrInUse"} : result' = from_io(kind)
    /\ stage' = IF entry = "build" THEN "built" ELSE "drop"
    /\ UNCHANGED <<inputs, config, log_dir, thread, held, kept>>

\* Balancer::drop waits for one kind of thread after the other, letting go of
\* what keeps the next one alive (module Pool has this with requests running).
Gone_bug(ts) == TRUE
Gone(ts) == ts \cap Running = {}

\* With the workers gone metrics_tx is dropped and the context detached, unless
\* somebody else has a clone of it: Arc::get_mut fails.
KeptForLog_bug == {"context", "log_tx"}
KeptForLog == {"log_tx"} \cup (kept \cap {"context"})

DropStep(from, ts, to, rest) ==
    /\ stage = from /\ Gone(ts)
    /\ stage' = to /\ held' = held \cap rest
    /\ UNCHANGED <<inputs, config, result, log_dir, thread, kept>>

Drop ==
    \/ DropStep("drop", {"health"}, "drop_workers", {"context", "metrics_tx", "log_tx"})
    \/ DropStep("drop_workers", Workers, "drop_metrics", KeptForLog)
    \/ DropStep("drop_metrics", {"metrics"}, "drop_log", {})
    \/ DropStep("drop_log", {"log"}, "returned", {})

-----------------------------------------------------------------------------
(* The threads *)

\* The health monitor ends when it is told to, the Balancer being dropped.
\* The Context, and the senders in it, live while the pool, a worker or an
\* embedder has it.
ContextAlive == "context" \in held \cup kept \/ Workers \cap Running # {}

\* A loop ends when its channel has lost its last sender: the aggregator and
\* the health monitor send to the log.
LastSenderGone(t) ==
    CASE t = "health" -> stage = "drop"
      [] t = "metrics" -> "metrics_tx" \notin held /\ ~ContextAlive
      [] t = "log" -> /\ "log_tx" \notin held \cup kept /\ ~ContextAlive
                      /\ {"metrics", "health"} \cap Running = {}
      [] OTHER -> "connection_txs" \notin held

ThreadExits(t) ==
    /\ t \in Running /\ LastSenderGone(t)
    /\ thread' = [thread EXCEPT ![t] = "exited"]
    /\ UNCHANGED <<inputs, config, stage, result, log_dir, held, kept>>

Starting == Main \/ Build \/ CreateServer \/ MakePool \/ Validate \/ LoggerFails \/ LoggerOpens
            \/ Spawn \/ SpawnPanics \/ Drop

Next ==
    \/ Starting
    \/ Bind \/ BindFails
    \/ Embedder
    \/ \E t \in DOMAIN thread : ThreadExits(t)

\* main and create_server go on to run; whether and how often an embedder does
\* is up to it.
Proceeds == Starting \/ (~Embedded /\ (Bind \/ BindFails))

Spec == Init /\ [][Next]_vars
        /\ WF_vars(Proceeds) /\ WF_vars(\E t \in DOMAIN thread : ThreadExits(t))

-----------------------------------------------------------------------------
(* Properties *)

\* The values every variable takes; while threads are being started, there is a
\* next one to start.
TypeOK ==
    /\ entry \in {"main", "build", "create_server", "new_with_options", "pool"}
    /\ config \in [Fields -> Nat]
    /\ stage \in {"enter", "build", "logger", "spawn", "built", "serving", "abandoned", "drop",
                  "drop_workers", "drop_metrics", "drop_log", "returned"}
    /\ result \in {"none", "EmptyServerList", "ParseError", "LoggerInit", "Io", "Timeout", "panic"}
    /\ log_dir \in BOOLEAN
    /\ DOMAIN thread \subseteq {"log", "metrics", "health"}
                               \cup {WorkerNames[i] : i \in DOMAIN WorkerNames}
    /\ \A t \in DOMAIN thread : thread[t] \in {"running", "exited"}
    /\ held \subseteq {"context", "metrics_tx", "log_tx", "connection_txs"}
    /\ kept \subseteq MayKeep
    /\ stage = "spawn" => Cardinality(DOMAIN thread) < Len(Threads(config))

\* Nothing is created and no thread started unless the configuration in effect,
\* patched together from several ones on some of the ways in, is one that
\* modules BackendSet, Pool and Proxy assume: a worker, room in every queue and
\* thresholds of at least one; and a backend, unless the embedder made the pool
\* itself, for an empty BackendSet (Proxy has what becomes of its requests).
\* (Timeouts are not among them: validate lets a zero through.)
StartedMeansValid ==
    log_dir \/ DOMAIN thread # {} \/ stage = "serving" =>
        /\ \A f \in Fields \ (Timeouts \cup {"max_backend_retries", "backends"}) : config[f] > 0
        /\ config["backends"] > 0 \/ entry = "pool"

\* A start succeeds or fails as a whole.  A Balancer or a pool in somebody's
\* hands has every thread and every sender it was built with, also after a
\* `run` that could not bind.  When build, create_server, main or ThreadPool::new
\* come back with an error, or a drop or a shutdown comes back, no thread is left.
StartIsAllOrNothing ==
    /\ stage \in {"built", "serving"} =>
          /\ Running = {Threads(config)[i] : i \in DOMAIN Threads(config)}
          /\ held = {"context", "metrics_tx", "log_tx", "connection_txs"}
    /\ stage = "returned" => Running = {} /\ held = {}

\* Starting ends: in something that serves or is in the embedder's hands, or
\* with every thread gone, also where nobody joins them.  So does the drop of a
\* Balancer and the shutdown of a pool, with two exceptions that an embedder
\* brings about: a clone of the context that is there when Arc::get_mut wants to
\* be alone, and a log sender that is never let go of.
StartupEnds ==
    LET over == stage \in {"returned", "abandoned"} /\ Running = {} IN
    /\ <>(over \/ stage = "serving" \/ (stage = "built" /\ Embedded))
    /\ stage \in {"drop", "drop_workers"} /\ "context" \notin kept
          ~> over \/ []("log_tx" \in kept)
    /\ stage = "abandoned" ~> over \/ [](kept # {})
=============================================================================
