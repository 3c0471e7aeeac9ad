---------------------------- MODULE StartupProofs ----------------------------
(***************************************************************************)
(* Proofs about module Startup, for any configurations a caller may pass   *)
(* and any value of MZANI_BACKENDS.                                        *)
(*                                                                         *)
(* The argument is about what each stage of the start has behind it:       *)
(* nothing exists before the configuration in effect is validated          *)
(* (Checked), the threads are started in the order of Threads              *)
(* (SpawnOrder), none of them ends while the senders are held (Whole), and *)
(* Balancer::drop has waited for one kind of thread after the other        *)
(* (WindDown).                                                             *)
(***************************************************************************)
EXTENDS Startup, FiniteSetTheorems, TLAPS

\* What the callers and the environment pass in.
InputsOK ==
    /\ asked \in [Fields -> Nat] /\ asked["workers"] <= DefaultSize
    /\ pool_config \in [Fields -> Nat] /\ pool_config["workers"] <= DefaultSize
    /\ entry = "pool" => \A f \in Fields \ (PoolSizes \cup Capacities) : pool_config[f] = asked[f]
    /\ listed \in 0 .. 1
    /\ parts \in Seq({"addr", "blank", "bad"})

\* The fields that have to be positive, and those of them that a PoolConfig has.
Sizes == Fields \ (Timeouts \cup {"max_backend_retries", "backends"})
PoolFields == PoolSizes \cup Capacities

Usable(c) == (\A f \in Sizes : c[f] > 0) /\ (c["backends"] > 0 \/ entry = "pool")

\* Nothing exists before the configuration is validated, and nothing changes it
\* afterwards.  What ThreadPool::new does not look at Context::from_config has.
Checked ==
    /\ config["workers"] <= DefaultSize
    /\ stage \in {"enter", "build", "logger"} =>
          DOMAIN thread = {} /\ held = {} /\ ~log_dir
    /\ entry = "pool" /\ stage = "build" => \A f \in Sizes \ PoolFields : config[f] > 0
    /\ log_dir \/ DOMAIN thread # {} \/ stage \notin {"enter", "build", "returned"} =>
          Usable(config)

\* The first k threads of the order in which they are started.
FirstThreads(k) == {Threads(config)[i] : i \in 1 .. k}

\* While the pool is being started there are the first few of its threads, and
\* not yet all of them.
SpawnOrder ==
    stage = "spawn" => \E k \in 0 .. (Len(Threads(config)) - 1) : DOMAIN thread = FirstThreads(k)

\* Until a Balancer or a pool is let go of, its senders keep every thread alive.
Whole ==
    /\ stage \in {"spawn", "built", "serving"} =>
          /\ {"context", "metrics_tx", "log_tx"} \subseteq held
          /\ Running = DOMAIN thread
          /\ Workers # {} => "connection_txs" \in held
    /\ stage \in {"built", "serving"} => DOMAIN thread = FirstThreads(Len(Threads(config)))

\* How far Balancer::drop has come.
WindDown ==
    /\ stage \in {"drop_workers", "drop_metrics", "drop_log", "returned"} =>
          "health" \notin Running
    /\ stage \in {"drop_metrics", "drop_log", "returned"} => Workers \cap Running = {}
    /\ stage \in {"drop_log", "returned"} => "metrics" \notin Running /\ held = {}
    /\ stage = "returned" => "log" \notin Running

StartupInv == TypeOK /\ InputsOK /\ Checked /\ SpawnOrder /\ Whole /\ WindDown

-----------------------------------------------------------------------------
(* The operators *)

Names == {"log", "metrics", "health"} \cup {WorkerNames[i] : i \in DOMAIN WorkerNames}

LEMMA DefaultType == Default \in [Fields -> Nat] /\ Default["workers"] = DefaultSize
                     /\ DefaultSize \in Nat \ {0}
<1>1. DefaultSize \in Nat \ {0}
  BY StartupAssumption DEF DefaultSize
<1>2. "workers" \in Fields /\ "workers" # "backends"
  BY DEF Fields, PoolSizes
<1> QED BY <1>1, <1>2 DEF Default

\* The validated fields are positive.
LEMMA ValidMeansUsable ==
    ASSUME NEW c \in [Fields -> Nat], Fault(c) = "none",
           entry = "pool" => \A f \in Sizes \ PoolFields : c[f] > 0
    PROVE  Usable(c)
<1>0. \A f \in Fields : c[f] \in Nat /\ (c[f] # 0 => c[f] > 0)
  OBVIOUS
<1>1. CASE entry = "pool"
  <2>1. ~PoolFault(c)
    BY <1>1 DEF Fault
  <2>2. \A f \in PoolFields : c[f] # 0
    BY <2>1 DEF PoolFault, AnyZero, PoolFields
  <2> QED BY <1>0, <1>1, <2>2 DEF Usable, Sizes
<1>2. CASE entry # "pool"
  <2>1. c["backends"] # 0 /\ ~LimitsFault(c) /\ ~HealthFault(c) /\ ~PoolFault(c)
    BY <1>2 DEF Fault, validate
  <2>2. \A f \in Sizes \cup {"backends"} : c[f] # 0
    BY <2>1 DEF LimitsFault, HealthFault, PoolFault, AnyZero, Sizes, Fields
  <2>3. Sizes \cup {"backends"} \subseteq Fields
    BY DEF Sizes, Fields
  <2> QED BY <1>0, <2>2, <2>3 DEF Usable
<1> QED BY <1>1, <1>2

LEMMA WorkersOfUsable ==
    ASSUME NEW c \in [Fields -> Nat], Usable(c), c["workers"] <= DefaultSize
    PROVE  c["workers"] \in 1 .. Len(WorkerNames)
<1>1. "workers" \in Sizes /\ "workers" \in Fields
  BY DEF Sizes, Fields, PoolSizes, Timeouts
<1>2. c["workers"] > 0 /\ c["workers"] \in Nat
  BY <1>1 DEF Usable
<1> QED BY <1>2, StartupAssumption DEF DefaultSize

\* The threads of a usable configuration, one by one.
Monitors == IF entry = "pool" THEN 0 ELSE 1

LEMMA ThreadsInOrder ==
    ASSUME NEW c, c["workers"] \in 1 .. Len(WorkerNames)
    PROVE  /\ Len(Threads(c)) = c["workers"] + 2 + Monitors
           /\ Threads(c)[1] = "log" /\ Threads(c)[2] = "metrics"
           /\ \A i \in 3 .. (c["workers"] + 2) : Threads(c)[i] = WorkerNames[i - 2]
           /\ Monitors = 1 => Threads(c)[c["workers"] + 3] = "health"
<1> DEFINE n == c["workers"]
           ws == SubSeq(WorkerNames, 1, n)
           S == STRING \cup {"log", "metrics", "health"}
<1>1. /\ WorkerNames \in Seq(S) /\ Len(WorkerNames) \in Nat /\ n \in 1 .. Len(WorkerNames)
  BY StartupAssumption
<1>2. ws \in Seq(S) /\ Len(ws) = n /\ \A i \in 1 .. n : ws[i] = WorkerNames[i]
  BY <1>1
<1>3. <<"log", "metrics">> \in Seq(S) /\ <<"health">> \in Seq(S) /\ <<>> \in Seq(S)
  OBVIOUS
<1> HIDE DEF n, ws, S
<1> DEFINE a == <<"log", "metrics">> \o ws
<1>4. a \in Seq(S) /\ Len(a) = n + 2 /\ a[1] = "log" /\ a[2] = "metrics"
      /\ \A i \in 3 .. (n + 2) : a[i] = ws[i - 2]
  BY <1>1, <1>2, <1>3
<1>5. Threads(c) = a \o IF entry = "pool" THEN <<>> ELSE <<"health">>
  BY DEF Threads, ws, n
<1> HIDE DEF a
<1>6. /\ Len(a \o <<"health">>) = n + 3
      /\ \A i \in 1 .. (n + 2) : (a \o <<"health">>)[i] = a[i]
      /\ (a \o <<"health">>)[n + 3] = "health"
  BY <1>1, <1>3, <1>4
<1>7. Len(a \o <<>>) = n + 2 /\ \A i \in 1 .. (n + 2) : (a \o <<>>)[i] = a[i]
  BY <1>1, <1>3, <1>4
<1>8. CASE entry = "pool"
  <2>1. Threads(c) = a \o <<>> /\ Monitors = 0
    BY <1>5, <1>8 DEF Monitors
  <2>2. Len(Threads(c)) = n + 2 /\ \A i \in 1 .. (n + 2) : Threads(c)[i] = a[i]
    BY <1>7, <2>1
  <2>3. Threads(c)[1] = "log" /\ Threads(c)[2] = "metrics"
    BY <1>1, <1>4, <2>2
  <2>4. \A i \in 3 .. (n + 2) : Threads(c)[i] = WorkerNames[i - 2]
    <3>1. \A i \in 3 .. (n + 2) : i \in 1 .. (n + 2) /\ i - 2 \in 1 .. n
      BY <1>1
    <3> QED BY <1>2, <1>4, <2>2, <3>1
  <2>5. Len(Threads(c)) = n + 2 + Monitors /\ Monitors # 1
    BY <1>1, <2>1, <2>2
  <2> QED BY <2>3, <2>4, <2>5 DEF n
<1>9. CASE entry # "pool"
  <2>1. Threads(c) = a \o <<"health">> /\ Monitors = 1
    BY <1>5, <1>9 DEF Monitors
  <2>2. Len(Threads(c)) = n + 3 /\ \A i \in 1 .. (n + 2) : Threads(c)[i] = a[i]
    BY <1>6, <2>1
  <2>3. Threads(c)[1] = "log" /\ Threads(c)[2] = "metrics"
    BY <1>1, <1>4, <2>2
  <2>4. \A i \in 3 .. (n + 2) : Threads(c)[i] = WorkerNames[i - 2]
    <3>1. \A i \in 3 .. (n + 2) : i \in 1 .. (n + 2) /\ i - 2 \in 1 .. n
      BY <1>1
    <3> QED BY <1>2, <1>4, <2>2, <3>1
  <2>5. Threads(c)[n + 3] = "health"
    BY <1>6, <2>1
  <2>6. Len(Threads(c)) = n + 2 + Monitors
    BY <1>1, <2>1, <2>2
  <2> QED BY <2>3, <2>4, <2>5, <2>6 DEF n
<1> QED BY <1>8, <1>9

LEMMA ThreadsAreSequence ==
    ASSUME NEW c, c["workers"] \in 1 .. Len(WorkerNames)
    PROVE  DOMAIN Threads(c) = 1 .. Len(Threads(c))
<1> DEFINE S == STRING \cup {"log", "metrics", "health"}
<1>1. WorkerNames \in Seq(S) /\ c["workers"] \in 1 .. Len(WorkerNames)
  BY StartupAssumption
<1>2. SubSeq(WorkerNames, 1, c["workers"]) \in Seq(S)
  BY <1>1
<1>3. <<"log", "metrics">> \in Seq(S) /\ <<"health">> \in Seq(S) /\ <<>> \in Seq(S)
  OBVIOUS
<1>4. Threads(c) \in Seq(S)
  <2> HIDE DEF S
  <2> QED BY <1>2, <1>3 DEF Threads
<1> QED BY <1>4

LEMMA ThreadsDistinct ==
    ASSUME NEW c, c["workers"] \in 1 .. Len(WorkerNames)
    PROVE  /\ \A i \in 1 .. Len(Threads(c)) : Threads(c)[i] \in Names
           /\ \A i, j \in 1 .. Len(Threads(c)) : Threads(c)[i] = Threads(c)[j] => i = j
<1> DEFINE n == c["workers"]
<1>1. /\ WorkerNames \in Seq(STRING \ {"log", "metrics", "health"})
      /\ \A i, j \in DOMAIN WorkerNames : WorkerNames[i] = WorkerNames[j] => i = j
  BY StartupAssumption
<1>2. n \in 1 .. Len(WorkerNames) /\ Len(WorkerNames) \in Nat
  BY <1>1
<1>3. ASSUME NEW i \in 3 .. (n + 2)
      PROVE  i - 2 \in DOMAIN WorkerNames /\ Threads(c)[i] = WorkerNames[i - 2]
             /\ Threads(c)[i] \notin {"log", "metrics", "health"}
  <2>1. i - 2 \in DOMAIN WorkerNames
    BY <1>1, <1>2
  <2>2. WorkerNames[i - 2] \in STRING \ {"log", "metrics", "health"}
    BY <1>1, <2>1
  <2> QED BY <2>1, <2>2, ThreadsInOrder
<1>4. /\ Len(Threads(c)) = n + 2 + Monitors /\ Monitors \in {0, 1}
      /\ Threads(c)[1] = "log" /\ Threads(c)[2] = "metrics"
      /\ Monitors = 1 => Threads(c)[n + 3] = "health"
  BY ThreadsInOrder DEF Monitors
<1> HIDE DEF n
<1>5. ASSUME NEW i \in 1 .. Len(Threads(c))
      PROVE  i \in {1, 2} \/ i \in 3 .. (n + 2) \/ (i = n + 3 /\ Monitors = 1)
  BY <1>2, <1>4
<1>6. \A i \in 1 .. Len(Threads(c)) : Threads(c)[i] \in Names
  BY <1>3, <1>4, <1>5 DEF Names
<1>7. ASSUME NEW i \in 1 .. Len(Threads(c)), NEW j \in 1 .. Len(Threads(c)),
             Threads(c)[i] = Threads(c)[j]
      PROVE  i = j
  <2>1. CASE i \in 3 .. (n + 2) /\ j \in 3 .. (n + 2)
    <3>1. i - 2 = j - 2
      BY <1>1, <1>3, <1>7, <2>1
    <3> QED BY <1>2, <2>1, <3>1
  <2> DEFINE Named(x) == x \in {1, 2} \/ (x = n + 3 /\ Monitors = 1)
  <2>2. CASE Named(i) /\ Named(j)
    BY <1>2, <1>4, <1>7, <2>2
  <2>3. CASE Named(i) /\ j \in 3 .. (n + 2)
    BY <1>3, <1>4, <1>7, <2>3
  <2>4. CASE i \in 3 .. (n + 2) /\ Named(j)
    BY <1>3, <1>4, <1>7, <2>4
  <2> QED BY <1>5, <2>1, <2>2, <2>3, <2>4
<1> QED BY <1>6, <1>7

\* ThreadPool::new starts no health monitor.
LEMMA NoMonitorInPool ==
    ASSUME config["workers"] \in 1 .. Len(WorkerNames), entry = "pool"
    PROVE  "health" \notin FirstThreads(Len(Threads(config)))
<1> DEFINE n == config["workers"]
<1>1. n \in Nat /\ Len(Threads(config)) = n + 2
  BY ThreadsInOrder, StartupAssumption DEF Monitors
<1>2. ASSUME NEW i \in 1 .. (n + 2) PROVE Threads(config)[i] # "health"
  <2>1. CASE i \in {1, 2}
    BY <2>1, ThreadsInOrder
  <2>2. CASE i \in 3 .. (n + 2)
    <3>1. Threads(config)[i] = WorkerNames[i - 2]
      BY <2>2, ThreadsInOrder
    <3>2. WorkerNames \in Seq(STRING \ {"log", "metrics", "health"}) /\ i - 2 \in 1 .. Len(WorkerNames)
      BY <1>1, <2>2, StartupAssumption
    <3>3. WorkerNames[i - 2] \in STRING \ {"log", "metrics", "health"}
      BY <3>2
    <3> QED BY <3>1, <3>3
  <2> QED BY <1>1, <2>1, <2>2
<1> QED BY <1>1, <1>2 DEF FirstThreads

LEMMA CountFirstThreads ==
    ASSUME config["workers"] \in 1 .. Len(WorkerNames), NEW k \in 0 .. Len(Threads(config))
    PROVE  Cardinality(FirstThreads(k)) = k
<1> DEFINE f == [i \in 1 .. k |-> Threads(config)[i]]
           T == FirstThreads(k)
<1>0. Len(Threads(config)) \in Nat /\ k \in Nat /\ 1 .. k \subseteq 1 .. Len(Threads(config))
  <2>1. Len(Threads(config)) = config["workers"] + 2 + Monitors /\ Monitors \in {0, 1}
    BY ThreadsInOrder DEF Monitors
  <2>2. Len(WorkerNames) \in Nat
    BY StartupAssumption
  <2> QED BY <2>1, <2>2
<1>1. f \in [1 .. k -> T] /\ \A t \in T : \E i \in 1 .. k : f[i] = t
  BY DEF FirstThreads
<1>2. \A i, j \in 1 .. k : f[i] = f[j] => i = j
  BY <1>0, ThreadsDistinct
<1> HIDE DEF f, T
<1>3. f \in Injection(1 .. k, T) /\ f \in Surjection(1 .. k, T)
  BY <1>1, <1>2 DEF Injection, IsInjective, Surjection
<1>4. ExistsBijection(1 .. k, T)
  BY <1>3 DEF ExistsBijection, Bijection
<1>5. IsFiniteSet(1 .. k) /\ Cardinality(1 .. k) = k
  BY <1>0, FS_Interval
<1>6. Cardinality(T) = k
  BY <1>4, <1>5, FS_Bijection
<1> QED BY <1>6 DEF T

\* thread::spawn is due for the next thread of the order.
LEMMA NextThreadInOrder ==
    ASSUME TypeOK, Checked, SpawnOrder, stage = "spawn"
    PROVE  \E k \in 0 .. (Len(Threads(config)) - 1) :
              /\ DOMAIN thread = FirstThreads(k)
              /\ NextThread = Threads(config)[k + 1]
              /\ NextThread \in Names
              /\ IF AllSpawned THEN k + 1 = Len(Threads(config))
                 ELSE k + 1 \in 0 .. (Len(Threads(config)) - 1)
              /\ Cardinality(DOMAIN thread) = k
<1>1. config["workers"] \in 1 .. Len(WorkerNames)
  BY WorkersOfUsable DEF TypeOK, Checked
<1>2. PICK k \in 0 .. (Len(Threads(config)) - 1) : DOMAIN thread = FirstThreads(k)
  BY DEF SpawnOrder
<1>3. Len(Threads(config)) \in Nat
  BY <1>1, ThreadsInOrder, StartupAssumption DEF Monitors
<1>4. Cardinality(FirstThreads(k)) = k
  BY <1>1, <1>3, CountFirstThreads
<1>5. NextThread = Threads(config)[k + 1]
  BY <1>2, <1>4 DEF NextThread
<1>6. NextThread \in Names
  BY <1>1, <1>3, <1>5, ThreadsDistinct
<1>7. AllSpawned <=> k + 1 = Len(Threads(config))
  BY <1>2, <1>4 DEF AllSpawned
<1> QED BY <1>2, <1>3, <1>4, <1>5, <1>6, <1>7

-----------------------------------------------------------------------------
(* The first state *)

LEMMA StartupInit == Init => StartupInv
<1> SUFFICES ASSUME Init PROVE StartupInv
  OBVIOUS
<1>1. DOMAIN thread = {}
  BY DEF Init
<1>2. TypeOK
  BY <1>1, DefaultType DEF Init, TypeOK
<1>3. InputsOK
  <2>1. CASE entry = "main"
    BY <2>1, DefaultType, StartupAssumption DEF Init, InputsOK
  <2>2. CASE entry \in {"build", "create_server"}
    <3>1. asked \in Asked /\ pool_config = asked /\ listed \in 0 .. 1 /\ parts = <<>>
      BY <2>2 DEF Init
    <3> QED BY <2>2, <3>1, StartupAssumption DEF InputsOK
  <2>3. CASE entry = "new_with_options"
    <3>1. listed \in 0 .. 1 /\ asked = Options(listed) /\ pool_config = asked /\ parts = <<>>
      BY <2>3 DEF Init
    <3>2. Options(listed) \in [Fields -> Nat]
      <4>1. listed \in Nat
        BY <3>1
      <4> QED BY <4>1, DefaultType DEF Options
    <3>3. Options(listed)["workers"] = DefaultSize
      BY DefaultType DEF Options, Fields, PoolSizes
    <3> QED BY <2>3, <3>1, <3>2, <3>3, DefaultType DEF InputsOK
  <2>4. CASE entry = "pool"
    <3>1. /\ asked \in Asked /\ pool_config \in Asked /\ listed \in 0 .. 1 /\ parts = <<>>
          /\ \A f \in Fields \ (PoolSizes \cup Capacities) : pool_config[f] = asked[f]
      BY <2>4 DEF Init
    <3> QED BY <3>1, StartupAssumption DEF InputsOK
  <2> QED BY <2>1, <2>2, <2>3, <2>4 DEF Init
<1>4. Checked
  BY <1>1, DefaultType DEF Init, Checked
<1>5. SpawnOrder /\ Whole /\ WindDown
  BY <1>1 DEF Init, SpawnOrder, Whole, WindDown
<1> QED BY <1>2, <1>3, <1>4, <1>5 DEF StartupInv

-----------------------------------------------------------------------------
(* The steps *)

\* A step that starts no thread, creates no log directory and leaves the
\* configuration and the inputs alone; senders go only where threads may end.
LEMMA QuietStep ==
    ASSUME StartupInv, UNCHANGED <<inputs, config, log_dir, thread>>,
           \/ stage' = stage
           \/ stage \in {"spawn", "built"} /\ stage' \in {"abandoned", "drop", "drop_workers"}
              /\ (stage' = "drop_workers" => entry = "pool" /\ stage = "built")
           \/ stage = "built" /\ stage' = "serving",
           held' \subseteq held, stage' \in {stage, "serving"} => held' = held,
           kept' \subseteq MayKeep,
           result' \in {"none", "Io", "Timeout", "panic"} \cup {result}
    PROVE  StartupInv'
<1> USE DEF StartupInv, inputs
<1>0. Running' = Running /\ Workers' = Workers
  BY DEF Running, Workers
<1>1. TypeOK'
  BY DEF TypeOK, Threads
<1>2. InputsOK' /\ Checked'
  BY DEF InputsOK, Checked, Usable
<1>3. SpawnOrder'
  BY DEF SpawnOrder, FirstThreads, Threads
<1>4. Whole'
  BY <1>0 DEF Whole, FirstThreads, Threads
<1>5. WindDown'
  <2>1. ASSUME stage' = "drop_workers", stage = "built", entry = "pool"
        PROVE  "health" \notin Running
    <3>1. "health" \notin FirstThreads(Len(Threads(config)))
      <4>1. config["workers"] \in 1 .. Len(WorkerNames)
        BY <2>1, WorkersOfUsable DEF TypeOK, Checked
      <4> QED BY <2>1, <4>1, NoMonitorInPool
    <3> QED BY <2>1, <3>1 DEF Whole, Running
  <2>2. CASE stage' = stage
    BY <1>0, <2>2 DEF WindDown
  <2>3. CASE stage' = "drop_workers" /\ stage = "built"
    BY <1>0, <2>1, <2>3 DEF WindDown
  <2>4. CASE stage' \in {"abandoned", "drop", "serving"}
    BY <2>4 DEF WindDown
  <2> QED BY <2>2, <2>3, <2>4
<1> QED BY <1>1, <1>2, <1>3, <1>4, <1>5

\* A start that ends with an error before the first thread.
LEMMA EarlyReturn ==
    ASSUME StartupInv, UNCHANGED <<inputs, config, thread, held, kept>>,
           stage \in {"enter", "build", "logger"}, stage' = "returned",
           result' \in {"EmptyServerList", "ParseError", "LoggerInit"},
           log_dir' \in BOOLEAN, log_dir' => stage = "logger"
    PROVE  StartupInv'
<1> USE DEF StartupInv, inputs
<1>0. DOMAIN thread = {} /\ held = {} /\ ~log_dir
  BY DEF Checked
<1>1. TypeOK'
  BY DEF TypeOK
<1>2. InputsOK' /\ Checked'
  BY <1>0 DEF InputsOK, Checked, Usable
<1>3. SpawnOrder' /\ Whole' /\ WindDown'
  BY <1>0 DEF SpawnOrder, Whole, WindDown, Running, Workers
<1> QED BY <1>1, <1>2, <1>3

\* A step of the start before the first thread.
LEMMA EarlyStep ==
    ASSUME StartupInv, UNCHANGED <<inputs, result, log_dir, thread, held, kept>>,
           \/ /\ stage = "enter" /\ stage' = "build"
              /\ entry = "pool" => \A f \in Sizes \ PoolFields : config'[f] > 0
           \/ stage = "build" /\ stage' = "logger" /\ Usable(config)',
           config' \in [Fields -> Nat], config'["workers"] <= DefaultSize
    PROVE  StartupInv'
<1> USE DEF StartupInv, inputs
<1>0. DOMAIN thread = {} /\ held = {} /\ ~log_dir
  BY DEF Checked
<1>1. TypeOK'
  BY DEF TypeOK
<1>2. InputsOK' /\ Checked'
  BY <1>0 DEF InputsOK, Checked
<1>3. SpawnOrder' /\ Whole' /\ WindDown'
  BY <1>0 DEF SpawnOrder, Whole, WindDown
<1> QED BY <1>1, <1>2, <1>3

LEMMA MainStep == ASSUME StartupInv, Main PROVE StartupInv'
<1> DEFINE A == {i \in DOMAIN parts : parts[i] = "addr"}
<1>1. CASE FromEnv = "none"
  <2>1. Cardinality(A) \in Nat
    <3>1. IsFiniteSet(DOMAIN parts)
      <4>1. DOMAIN parts = 1 .. Len(parts) /\ Len(parts) \in Nat
        BY DEF StartupInv, InputsOK
      <4> QED BY <4>1, FS_Interval
    <3> QED BY <3>1, FS_Subset, FS_CardinalityType
  <2> HIDE DEF A
  <2>2. config' = [Default EXCEPT !["backends"] = Cardinality(A)] /\ stage' = "build"
        /\ stage = "enter" /\ UNCHANGED <<inputs, result, log_dir, thread, held, kept>>
    BY <1>1 DEF Main, A
  <2>3. config' \in [Fields -> Nat]
    BY <2>1, <2>2, DefaultType
  <2>4. config'["workers"] = DefaultSize
    BY <2>2, DefaultType DEF Fields, PoolSizes
  <2>5. entry # "pool"
    BY DEF Main
  <2> QED BY <2>2, <2>3, <2>4, <2>5, DefaultType, EarlyStep
<1>2. CASE FromEnv # "none"
  <2>1. FromEnv \in {"EmptyServerList", "ParseError"}
    BY <1>2 DEF FromEnv
  <2> HIDE DEF A
  <2>2. stage = "enter" /\ stage' = "returned" /\ result' = FromEnv
        /\ UNCHANGED <<inputs, config, log_dir, thread, held, kept>>
    BY <1>2 DEF Main, Return
  <2>3. log_dir' \in BOOLEAN /\ (log_dir' => stage = "logger")
    BY <2>2 DEF StartupInv, TypeOK, Checked
  <2> QED BY <2>1, <2>2, <2>3, EarlyReturn
<1> QED BY <1>1, <1>2

LEMMA CreateServerStep == ASSUME StartupInv, CreateServer PROVE StartupInv'
<1>1. CASE from_config = "none"
  <2>1. config' = [f \in Fields |-> IF f = "backends" THEN listed
                                    ELSE IF f \in Kept THEN asked[f] ELSE Default[f]]
    BY <1>1 DEF CreateServer
  <2>2. stage = "enter" /\ stage' = "build" /\ UNCHANGED <<inputs, result, log_dir, thread, held, kept>>
    BY <1>1 DEF CreateServer
  <2>3. asked \in [Fields -> Nat] /\ listed \in Nat
    BY DEF StartupInv, InputsOK
  <2>4. config' \in [Fields -> Nat]
    BY <2>1, <2>3, DefaultType
  <2>5. config'["workers"] = DefaultSize
    BY <2>1, DefaultType DEF Fields, PoolSizes, Kept, Limits, Timeouts
  <2>6. entry # "pool"
    BY DEF CreateServer
  <2> QED BY <2>2, <2>4, <2>5, <2>6, DefaultType, EarlyStep
<1>2. CASE from_config # "none"
  <2>1. from_config \in {"EmptyServerList", "ParseError"}
    BY <1>2 DEF from_config, validate
  <2>2. stage = "enter" /\ stage' = "returned" /\ result' = from_config
        /\ UNCHANGED <<inputs, config, log_dir, thread, held, kept>>
    BY <1>2 DEF CreateServer, Return
  <2>3. log_dir' \in BOOLEAN /\ (log_dir' => stage = "logger")
    BY <2>2 DEF StartupInv, TypeOK, Checked
  <2> QED BY <2>1, <2>2, <2>3, EarlyReturn
<1> QED BY <1>1, <1>2

LEMMA MakePoolStep == ASSUME StartupInv, MakePool PROVE StartupInv'
<1>0. InputsOK /\ stage = "enter" /\ entry = "pool"
  BY DEF MakePool, StartupInv
<1>1. CASE from_config = "none"
  <2>1. config' = [pool_config EXCEPT !["backends"] = listed]
    BY <1>1 DEF MakePool
  <2>2. stage' = "build" /\ UNCHANGED <<inputs, result, log_dir, thread, held, kept>>
    BY <1>1 DEF MakePool
  <2>3. asked \in [Fields -> Nat] /\ listed \in Nat /\ pool_config \in [Fields -> Nat]
    BY <1>0 DEF InputsOK
  <2>4. config' \in [Fields -> Nat]
    BY <2>1, <2>3
  <2>5. config'["workers"] <= DefaultSize
    <3>1. "workers" \in Fields /\ "workers" # "backends"
      BY DEF Fields, PoolSizes
    <3> QED BY <1>0, <2>1, <2>3, <3>1 DEF InputsOK
  <2>6. ASSUME NEW f \in Sizes \ PoolFields PROVE config'[f] > 0
    <3>1. f \in Fields /\ f # "backends" /\ f \in Limits \cup Durations \cup Thresholds
      BY DEF Sizes, PoolFields, Fields
    <3>2. config'[f] = asked[f]
      BY <1>0, <2>1, <2>3, <3>1 DEF InputsOK, PoolFields
    <3>3. asked[f] # 0
      <4>1. ~LimitsFault(asked) /\ ~HealthFault(asked)
        BY <1>1 DEF from_config, validate
      <4> QED BY <3>1, <4>1 DEF LimitsFault, HealthFault, AnyZero
    <3> QED BY <2>3, <3>1, <3>2, <3>3
  <2> QED BY <1>0, <2>2, <2>4, <2>5, <2>6, EarlyStep
<1>2. CASE from_config # "none"
  <2>1. from_config \in {"EmptyServerList", "ParseError"}
    BY <1>2 DEF from_config, validate
  <2>2. stage' = "returned" /\ result' = from_config
        /\ UNCHANGED <<inputs, config, log_dir, thread, held, kept>>
    BY <1>2 DEF MakePool, Return
  <2>3. log_dir' \in BOOLEAN /\ (log_dir' => stage = "logger")
    BY <1>0, <2>2 DEF StartupInv, TypeOK, Checked
  <2> QED BY <1>0, <2>1, <2>2, <2>3, EarlyReturn
<1> QED BY <1>1, <1>2

LEMMA ValidateStep == ASSUME StartupInv, Validate PROVE StartupInv'
<1>1. stage = "build" /\ UNCHANGED <<inputs, config, log_dir, thread, held, kept>>
      /\ log_dir' \in BOOLEAN /\ ~log_dir'
  BY DEF Validate, StartupInv, TypeOK, Checked
<1>2. CASE Fault(config) = "none"
  <2>1. stage' = "logger" /\ UNCHANGED result
    BY <1>2 DEF Validate
  <2>2. config \in [Fields -> Nat] /\ config["workers"] <= DefaultSize
        /\ (entry = "pool" => \A f \in Sizes \ PoolFields : config[f] > 0)
    BY <1>1 DEF StartupInv, TypeOK, Checked
  <2>3. Usable(config)
    BY <1>2, <2>2, ValidMeansUsable
  <2>4. Usable(config)'
    BY <1>1, <2>3 DEF Usable, inputs
  <2> QED BY <1>1, <2>1, <2>2, <2>4, EarlyStep
<1>3. CASE Fault(config) # "none"
  <2>1. stage' = "returned" /\ result' = Fault(config)
    BY <1>3 DEF Validate, Return
  <2>2. Fault(config) \in {"EmptyServerList", "ParseError"}
    BY <1>3 DEF Fault, validate
  <2> QED BY <1>1, <2>1, <2>2, EarlyReturn
<1> QED BY <1>2, <1>3

LEMMA LoggerOpensStep == ASSUME StartupInv, LoggerOpens PROVE StartupInv'
<1> USE DEF StartupInv, inputs
<1>0. DOMAIN thread = {} /\ Usable(config)
  BY DEF LoggerOpens, Checked
<1>1. Len(Threads(config)) \in Nat \ {0}
  <2>1. config["workers"] \in 1 .. Len(WorkerNames)
    BY <1>0, WorkersOfUsable DEF TypeOK, Checked
  <2> QED BY <2>1, ThreadsInOrder, StartupAssumption DEF Monitors
<1>2. Threads(config)' = Threads(config) /\ Usable(config)'
  BY <1>0 DEF LoggerOpens, Threads, Usable
<1>3. TypeOK'
  <2>1. Cardinality(DOMAIN thread) = 0
    BY <1>0, FS_EmptySet
  <2> QED BY <1>1, <1>2, <2>1 DEF LoggerOpens, TypeOK
<1>4. InputsOK' /\ Checked'
  BY <1>0, <1>2 DEF LoggerOpens, InputsOK, Checked
<1>5. SpawnOrder'
  <2>1. 0 \in 0 .. (Len(Threads(config)') - 1)
    BY <1>1, <1>2
  <2>2. FirstThreads(0)' = {}
    BY DEF FirstThreads
  <2> QED BY <1>0, <2>1, <2>2 DEF LoggerOpens, SpawnOrder
<1>6. Whole' /\ WindDown'
  BY <1>0 DEF LoggerOpens, Whole, WindDown, Running, Workers
<1> QED BY <1>3, <1>4, <1>5, <1>6

LEMMA SpawnStep == ASSUME StartupInv, Spawn PROVE StartupInv'
<1>0. stage = "spawn" /\ TypeOK /\ Checked /\ SpawnOrder /\ Whole
  BY DEF Spawn, StartupInv
<1>1. PICK k \in 0 .. (Len(Threads(config)) - 1) :
              /\ DOMAIN thread = FirstThreads(k)
              /\ NextThread = Threads(config)[k + 1]
              /\ NextThread \in Names
              /\ IF AllSpawned THEN k + 1 = Len(Threads(config))
                 ELSE k + 1 \in 0 .. (Len(Threads(config)) - 1)
              /\ Cardinality(DOMAIN thread) = k
  BY <1>0, NextThreadInOrder
<1>2. /\ thread' = Spawned(NextThread)
      /\ held' = IF NextThread \notin {"log", "metrics", "health"}
                 THEN held \cup {"connection_txs"} ELSE held
      /\ stage' = IF AllSpawned THEN "built" ELSE "spawn"
      /\ UNCHANGED <<entry, asked, pool_config, listed, listen, parts, config, result, log_dir, kept>>
  BY DEF Spawn, inputs
<1>3. DOMAIN thread' = DOMAIN thread \cup {NextThread}
  BY <1>2 DEF Spawned
<1>4. \A t \in DOMAIN thread' : thread'[t] \in {"running", "exited"}
  BY <1>0, <1>2 DEF Spawned, TypeOK
<1>5. Threads(config)' = Threads(config) /\ Len(Threads(config)) \in Nat
  <2>1. config["workers"] \in 1 .. Len(WorkerNames)
    BY <1>0, WorkersOfUsable DEF TypeOK, Checked
  <2>2. Len(Threads(config)) \in Nat
    BY <2>1, ThreadsInOrder, StartupAssumption DEF Monitors
  <2> QED BY <1>2, <2>2 DEF Threads
<1>6. DOMAIN thread' = FirstThreads(k + 1)'
  <2>1. FirstThreads(k) \cup {Threads(config)[k + 1]} = {Threads(config)[i] : i \in 1 .. (k + 1)}
    <3>1. 1 .. (k + 1) = (1 .. k) \cup {k + 1}
      OBVIOUS
    <3> QED BY <3>1 DEF FirstThreads
  <2>2. FirstThreads(k + 1)' = {Threads(config)[i] : i \in 1 .. (k + 1)}
    BY <1>5 DEF FirstThreads
  <2> QED BY <1>1, <1>3, <2>1, <2>2
<1>7. TypeOK'
  <2>1. stage' = "spawn" => Cardinality(DOMAIN thread') < Len(Threads(config)')
    <3>1. SUFFICES ASSUME ~AllSpawned PROVE Cardinality(DOMAIN thread') < Len(Threads(config))
      BY <1>2, <1>5
    <3>2. k + 1 \in 0 .. Len(Threads(config)) /\ k + 1 < Len(Threads(config))
      BY <1>1, <1>5, <3>1
    <3>3. config["workers"] \in 1 .. Len(WorkerNames)
      BY <1>0, WorkersOfUsable DEF TypeOK, Checked
    <3>4. Cardinality(FirstThreads(k + 1)) = k + 1
      BY <3>2, <3>3, CountFirstThreads
    <3>5. FirstThreads(k + 1)' = FirstThreads(k + 1)
      BY <1>5 DEF FirstThreads
    <3> QED BY <1>6, <3>2, <3>4, <3>5
  <2> QED BY <1>0, <1>1, <1>2, <1>3, <1>4, <2>1 DEF TypeOK, Names
<1>8. InputsOK' /\ Checked'
  BY <1>0, <1>2 DEF StartupInv, InputsOK, Checked, Usable
<1>9. SpawnOrder'
  BY <1>1, <1>2, <1>5, <1>6 DEF SpawnOrder
<1>10. Whole'
  <2>1. {"context", "metrics_tx", "log_tx"} \subseteq held'
    BY <1>0, <1>2 DEF Whole
  <2>2. Running' = DOMAIN thread'
    <3>1. \A t \in DOMAIN thread : thread[t] = "running"
      BY <1>0 DEF Whole, Running
    <3> QED BY <1>2, <1>3, <3>1 DEF Running, Spawned
  <2>3. Workers' # {} => "connection_txs" \in held'
    <3>1. CASE NextThread \in {"log", "metrics", "health"}
      <4>1. Workers' = Workers
        BY <1>3, <3>1 DEF Workers
      <4> QED BY <1>0, <1>2, <3>1, <4>1 DEF Whole
    <3>2. CASE NextThread \notin {"log", "metrics", "health"}
      BY <1>2, <3>2
    <3> QED BY <3>1, <3>2
  <2>4. stage' \in {"built", "serving"} => DOMAIN thread' = FirstThreads(Len(Threads(config)))'
    <3>1. stage' \in {"built", "serving"} => k + 1 = Len(Threads(config))
      BY <1>1, <1>2
    <3> QED BY <1>5, <1>6, <3>1
  <2> QED BY <2>1, <2>2, <2>3, <2>4 DEF Whole
<1>11. WindDown'
  BY <1>2 DEF WindDown
<1> QED BY <1>7, <1>8, <1>9, <1>10, <1>11 DEF StartupInv

\* Balancer::drop: the threads it waited for are gone for good.
LEMMA DropStepKeeps == ASSUME StartupInv, Drop PROVE StartupInv'
<1>0. UNCHANGED <<entry, asked, pool_config, listed, listen, parts, config, result, log_dir, thread, kept>>
  BY DEF Drop, DropStep, inputs
<1>1. Running' = Running /\ Workers' = Workers
  BY <1>0 DEF Running, Workers
<1>2. /\ stage \in {"drop", "drop_workers", "drop_metrics", "drop_log"}
      /\ stage' \in {"drop_workers", "drop_metrics", "drop_log", "returned"}
      /\ held' \subseteq held
  BY DEF Drop, DropStep
<1>3. TypeOK'
  BY <1>0, <1>2 DEF StartupInv, TypeOK
<1>4. InputsOK' /\ Checked'
  BY <1>0, <1>2 DEF StartupInv, InputsOK, Checked, Usable
<1>5. SpawnOrder' /\ Whole'
  BY <1>2 DEF SpawnOrder, Whole
<1>6. WindDown'
  <2>1. \/ stage = "drop" /\ stage' = "drop_workers" /\ "health" \notin Running
        \/ stage = "drop_workers" /\ stage' = "drop_metrics" /\ Workers \cap Running = {}
        \/ stage = "drop_metrics" /\ stage' = "drop_log" /\ "metrics" \notin Running /\ held' = {}
        \/ stage = "drop_log" /\ stage' = "returned" /\ "log" \notin Running /\ held' = {}
    BY DEF Drop, DropStep, Gone
  <2> QED BY <1>1, <2>1 DEF StartupInv, WindDown
<1> QED BY <1>3, <1>4, <1>5, <1>6 DEF StartupInv

\* While the senders are held no thread ends.
LEMMA NoneEnds ==
    ASSUME StartupInv, NEW t \in DOMAIN thread, ThreadExits(t)
    PROVE  stage \notin {"spawn", "built", "serving"}
<1> SUFFICES ASSUME stage \in {"spawn", "built", "serving"} PROVE FALSE
  OBVIOUS
<1>1. /\ {"context", "metrics_tx", "log_tx"} \subseteq held
      /\ Workers # {} => "connection_txs" \in held
  BY DEF StartupInv, Whole
<1>2. LastSenderGone(t)
  BY DEF ThreadExits
<1>3. CASE t \in {"health", "metrics", "log"}
  BY <1>1, <1>2, <1>3 DEF LastSenderGone, ContextAlive
<1>4. CASE t \notin {"health", "metrics", "log"}
  <2>1. t \in Workers
    BY <1>4 DEF Workers
  <2>2. "connection_txs" \notin held
    BY <1>2, <1>4 DEF LastSenderGone
  <2> QED BY <1>1, <2>1, <2>2
<1> QED BY <1>3, <1>4

LEMMA ThreadExitsStep ==
    ASSUME StartupInv, NEW t \in DOMAIN thread, ThreadExits(t)
    PROVE  StartupInv'
<1>1. /\ DOMAIN thread' = DOMAIN thread
      /\ \A u \in DOMAIN thread : thread'[u] = thread[u] \/ thread'[u] = "exited"
  BY DEF ThreadExits
<1>2. Running' \subseteq Running /\ Workers' = Workers
  BY <1>1 DEF Running, Workers
<1>3. UNCHANGED <<entry, asked, pool_config, listed, listen, parts, config, stage, result, log_dir,
                  held, kept>>
  BY DEF ThreadExits, inputs
<1>4. TypeOK'
  BY <1>1, <1>3 DEF StartupInv, TypeOK, Threads
<1>5. InputsOK' /\ Checked'
  BY <1>1, <1>3 DEF StartupInv, InputsOK, Checked, Usable
<1>6. SpawnOrder' /\ Whole'
  <2>1. stage \notin {"spawn", "built", "serving"}
    BY NoneEnds
  <2> QED BY <1>3, <2>1 DEF SpawnOrder, Whole
<1>7. WindDown'
  BY <1>2, <1>3 DEF StartupInv, WindDown
<1> QED BY <1>4, <1>5, <1>6, <1>7 DEF StartupInv

LEMMA StartupStep == ASSUME StartupInv, [Next]_vars PROVE StartupInv'
<1>1. CASE Main  BY <1>1, MainStep
<1>2. CASE Build
  <2>1. asked \in [Fields -> Nat] /\ asked["workers"] <= DefaultSize /\ entry # "pool"
    BY <1>2 DEF StartupInv, InputsOK, Build
  <2> QED BY <1>2, <2>1, EarlyStep DEF Build
<1>3. CASE CreateServer  BY <1>3, CreateServerStep
<1>4. CASE Validate  BY <1>4, ValidateStep
<1>5. CASE LoggerFails  BY <1>5, EarlyReturn DEF LoggerFails, Return
<1>6. CASE LoggerOpens  BY <1>6, LoggerOpensStep
<1>7. CASE Spawn  BY <1>7, SpawnStep
<1>p. CASE MakePool  BY <1>p, MakePoolStep
<1>k. kept \subseteq MayKeep
  BY DEF StartupInv, TypeOK
<1>8. CASE SpawnPanics  BY <1>8, <1>k, QuietStep DEF SpawnPanics
<1>9. CASE Drop  BY <1>9, DropStepKeeps
<1>10. CASE Bind  BY <1>10, <1>k, QuietStep DEF Bind
<1>11. CASE BindFails
  <2>1. result' \in {"Io", "Timeout"}
    BY <1>11 DEF BindFails, from_io
  <2> QED BY <1>11, <1>k, <2>1, QuietStep DEF BindFails
<1>12. CASE Embedder
  <2>1. ASSUME NEW h \in MayKeep, Keep(h) \/ LetGo(h) PROVE StartupInv'
    BY <1>k, <2>1, QuietStep DEF Keep, LetGo
  <2>2. CASE DropBalancer  BY <1>k, <2>2, QuietStep DEF DropBalancer
  <2>3. CASE ShutDownPool  BY <1>k, <2>3, QuietStep DEF ShutDownPool
  <2>4. CASE DropPool  BY <1>k, <2>4, QuietStep DEF DropPool
  <2> QED BY <1>12, <2>1, <2>2, <2>3, <2>4 DEF Embedder
<1>13. CASE \E t \in DOMAIN thread : ThreadExits(t)  BY <1>13, ThreadExitsStep
<1>14. CASE UNCHANGED vars
  <2>1. /\ UNCHANGED <<inputs, config, log_dir, thread>> /\ stage' = stage /\ held' = held
        /\ kept' = kept /\ result' = result
    BY <1>14 DEF vars
  <2> QED BY <1>k, <2>1, QuietStep
<1> QED BY <1>1, <1>2, <1>3, <1>4, <1>5, <1>6, <1>7, <1>p, <1>8, <1>9, <1>10, <1>11, <1>12, <1>13, <1>14
        DEF Next, Starting

-----------------------------------------------------------------------------
(* The theorems *)

LEMMA StartupInvariant == Spec => []StartupInv
<1>1. Init => StartupInv
  BY StartupInit
<1>2. StartupInv /\ [Next]_vars => StartupInv'
  BY StartupStep
<1> QED BY <1>1, <1>2, PTL DEF Spec

\* Every variable of the start keeps its type: the threads that build or
\* ThreadPool::new starts are the log writer, the aggregator, the configured
\* workers and, for a Balancer, the health monitor, and spawning never runs past
\* the end of that list.
THEOREM StartupTypes == Spec => []TypeOK
<1>1. StartupInv => TypeOK
  BY DEF StartupInv
<1> QED BY <1>1, StartupInvariant, PTL

\* Through main, build, create_server, new_with_options or ThreadPool::new, no
\* log directory is created, no thread started and no port served with a size,
\* a capacity or a threshold of zero; nor without a backend, except in a pool
\* that the embedder made for an empty BackendSet.
THEOREM OnlyValidStarts == Spec => []StartedMeansValid
<1>1. StartupInv => StartedMeansValid
  BY DEF StartupInv, Checked, Usable, Sizes, StartedMeansValid
<1> QED BY <1>1, StartupInvariant, PTL

\* What is in somebody's hands is whole, also after a `run` that could not bind;
\* and when a start, a drop or a shutdown comes back, with an error or without,
\* none of its threads is left running and none of its senders is held.
THEOREM StartsAreAllOrNothing == Spec => []StartIsAllOrNothing
<1>1. ASSUME StartupInv, stage \in {"built", "serving"}
      PROVE  /\ Running = {Threads(config)[i] : i \in DOMAIN Threads(config)}
             /\ held = {"context", "metrics_tx", "log_tx", "connection_txs"}
  <2>1. config["workers"] \in 1 .. Len(WorkerNames)
    BY <1>1, WorkersOfUsable DEF StartupInv, TypeOK, Checked
  <2>2. /\ Running = FirstThreads(Len(Threads(config))) /\ DOMAIN thread = Running
        /\ {"context", "metrics_tx", "log_tx"} \subseteq held
        /\ Workers # {} => "connection_txs" \in held
    BY <1>1 DEF StartupInv, Whole
  <2>3. DOMAIN Threads(config) = 1 .. Len(Threads(config))
    BY <2>1, ThreadsAreSequence
  <2>4. Threads(config)[3] \in Workers
    <3>1. Threads(config)[3] = WorkerNames[1] /\ 3 \in 1 .. Len(Threads(config))
      BY <2>1, ThreadsInOrder, StartupAssumption DEF Monitors
    <3>2. WorkerNames[1] \notin {"log", "metrics", "health"}
      BY StartupAssumption
    <3>3. Threads(config)[3] \in DOMAIN thread
      BY <2>2, <3>1 DEF FirstThreads
    <3> QED BY <3>1, <3>2, <3>3 DEF Workers
  <2>5. held \subseteq {"context", "metrics_tx", "log_tx", "connection_txs"}
    BY <1>1 DEF StartupInv, TypeOK
  <2> QED BY <2>2, <2>3, <2>4, <2>5 DEF FirstThreads
<1>2. StartupInv => StartIsAllOrNothing
  BY <1>1 DEF StartupInv, WindDown, StartIsAllOrNothing, Workers, Running
<1> QED BY <1>2, StartupInvariant, PTL
=============================================================================
