-------------------------- MODULE PoolPromiseProofs --------------------------
(***************************************************************************)
(* Proofs about module Pool: what a shutdown that succeeds has achieved,   *)
(* what its last log line says, and that the pool keeps the safety part of *)
(* ConnectionLife, for any numbers of workers, submitters and connections. *)
(*                                                                         *)
(* All of it is an argument about order.  What the owner has joined stays  *)
(* joined (Joins); a refusal or a rejection that is still to be written    *)
(* has its reason already, and reasons do not go away (Reasons); and a     *)
(* request's statistics are sent once (Stats), so that what the aggregator *)
(* has counted and what is still in its channel add up.                    *)
(***************************************************************************)
EXTENDS PoolProofs

\* What holds at each stage of a shutdown.
Joins ==
    /\ owner # "running" => mode # "run" /\ \A s \in Submitters : pc[s] = "idle"
    /\ mode = "pool" \/ owner \notin {"running", "stop_health"} => health = "exited"
    /\ owner \in {"join_metrics", "join_log", "done"} \/ (owner \in {"detach", "final_log"} /\ result # "error")
         => \A w \in Workers : pc[w] = "exited"
    /\ owner \in {"join_log", "done"} \/ (owner = "final_log" /\ result # "error") => mpc = "exited"
    /\ owner = "done" => lpc = "exited"

\* The flag is up when the queues are closed, unless the pool was dropped.
Flags ==
    /\ \A w \in Workers : pc[w] = "exited" => ~txs
    /\ ~txs => shutting_down \/ owner = "gone"
    /\ owner \notin {"running", "gone"} => shutting_down

Has(q, op) == \E i \in 1 .. Len(q) : q[i] = op

Panicked == \E w \in Workers : pc[w] = "panicked"

\* The other connections that have been accepted.
Others(c) == {d \in Conns \ {c} : conn[d] # "new"}

\* Why clients are turned away.
Reasons ==
    /\ \A t \in Threads : Has(todo[t], "refused") => shutting_down \/ Panicked
    /\ \A s \in Submitters : Has(todo[s], "rejected") => Cardinality(Others(cur[s])) >= QueueCap

\* Statistics are sent once per connection, and counted or on their way.
OneStat(q) == \A i, j \in 1 .. Len(q) : q[i] = "stat" /\ q[j] = "stat" => i = j

Stats ==
    /\ \A t \in Threads : OneStat(todo[t])
    /\ \A c \in stats_sent : /\ conn[c] \notin {"new", "queued"}
                             /\ \A t \in Threads : cur[t] = c => pc[t] = "work" /\ ~Has(todo[t], "stat")
    /\ total_requests + Len(metrics_q) = Cardinality(stats_sent)

\* From place k on, the log channel holds records of the embedder's only.
OwnFrom(q, k) == \A i \in 1 .. Len(q) : i >= k => q[i] = OwnRecord

\* The crate's last record, written or queued, once shutdown_log has spoken.
FinalLine ==
    owner \in {"join_log", "done"} /\ final_sent /\ InfoWritten =>
        \/ last_record = Snapshot(total_requests) /\ OwnFrom(log_q, 1)
        \/ \E k \in 1 .. Len(log_q) : log_q[k] = Snapshot(total_requests) /\ OwnFrom(log_q, k + 1)

Base == PlaceInv /\ Rejecting /\ TypeOK /\ ExitedMeansDrained

LEMMA BaseInvariant == Spec => []Base
<1>1. RejectInv /\ TypeOK /\ ExitedMeansDrained => Base
  BY DEF RejectInv, Base
<1> QED BY <1>1, RejectInvariant, PoolTypes, NothingAbandoned, PTL

-----------------------------------------------------------------------------
(* What the steps of the connection threads are *)

ThreadStep(t) ==
    \/ t \in Submitters /\ Submitter(t)
    \/ t \in Workers /\ (Worker(t) \/ WorkerPanics(t))

\* A connection thread moves nobody but itself, out of a state it can move from.
LEMMA OnlyItself ==
    ASSUME ThreadTypes, NEW t \in Threads, ThreadStep(t)
    PROVE  /\ \A u \in Threads : u # t => pc'[u] = pc[u] /\ cur'[u] = cur[u] /\ todo'[u] = todo[u]
           /\ pc[t] \notin {"exited", "panicked"}
           /\ pc'[t] = "exited" => ~txs
           /\ pc[t] = "idle" => owner = "running" \/ mode = "run"
<1> USE DEF ThreadTypes
<1>1. CASE DoOp(t)
  <2>1. PICK rest : Proceed(t, rest)
    BY <1>1 DEF DoOp, EmitLog
  <2>2. pc[t] = "work"
    BY <1>1 DEF DoOp
  <2> QED BY <2>1, <2>2 DEF Proceed
<1>2. CASE \E c \in Conns : Accept(t, c)
  BY <1>2 DEF Accept
<1>3. CASE AcceptTimeoutFails(t)
  BY <1>3 DEF AcceptTimeoutFails
<1>4. CASE AcceptError(t)
  BY <1>4 DEF AcceptError
<1>5. CASE SubmitCheck(t)
  BY <1>5 DEF SubmitCheck
<1>6. CASE SubmitSend(t)
  BY <1>6 DEF SubmitSend
<1>7. CASE WorkerRecv(t)
  BY <1>7 DEF WorkerRecv
<1>8. CASE WorkerExit(t)
  BY <1>8 DEF WorkerExit, Disconnected
<1>9. CASE WorkerCheck(t)
  BY <1>9 DEF WorkerCheck
<1>10. CASE WorkerPanics(t)
  BY <1>10 DEF WorkerPanics
<1> QED BY <1>1, <1>2, <1>3, <1>4, <1>5, <1>6, <1>7, <1>8, <1>9, <1>10 DEF ThreadStep, Submitter, Worker

-----------------------------------------------------------------------------
(* The order of a shutdown *)

Order == Joins /\ Flags

LEMMA ThreadOrder ==
    ASSUME Base, Order, NEW t \in Threads, ThreadStep(t)
    PROVE  Order'
<1>1. /\ \A u \in Threads : u # t => pc'[u] = pc[u] /\ cur'[u] = cur[u] /\ todo'[u] = todo[u]
      /\ pc[t] \notin {"exited", "panicked"}
      /\ pc'[t] = "exited" => ~txs
      /\ pc[t] = "idle" => owner = "running" \/ mode = "run"
  BY OnlyItself DEF Base, PlaceInv
<1>2. UNCHANGED <<shutting_down, txs, lpc, mpc, owner, result, mode, health>>
  BY ThreadStepKeeps DEF ThreadStep, flag_vars, writer_vars, agg_vars, owner_vars, past_vars
<1>3. Submitters \subseteq Threads /\ Workers \subseteq Threads
  BY DEF Threads
<1>4. Joins'
  BY <1>1, <1>2, <1>3 DEF Order, Joins
<1>5. Flags'
  BY <1>1, <1>2, <1>3 DEF Order, Flags
<1> QED BY <1>4, <1>5 DEF Order

\* A step that leaves the owner, the flag and the queues' senders alone.
LEMMA ServiceOrder ==
    ASSUME Order, Writer \/ Aggregator \/ HealthLogs \/ HealthExit \/ Embedder
                  \/ UNCHANGED vars
    PROVE  Order'
<1> USE DEF Writer, LogWrite, LogExit, Aggregator, MetricsRecv, MetricsLog, MetricsSnapshot,
            MetricsExit, HealthLogs, HealthExit, Embedder, EmbedderLogs, Keep, LetGo, vars
<1>1. UNCHANGED <<pc, shutting_down, txs, owner, result, mode>>
  BY DEF conn_vars, flag_vars, owner_vars, past_vars
<1>2. mpc = "exited" => mpc' = "exited"
  BY DEF obs_vars, agg_vars
<1>3. lpc = "exited" => lpc' = "exited"
  BY DEF obs_vars, writer_vars
<1>4. health' \in {health, "exited"}
  BY DEF env_vars
<1> HIDE DEF Writer, Aggregator, HealthLogs, HealthExit, Embedder, EmbedderLogs, Keep, LetGo, vars
<1>5. Joins'
  BY <1>1, <1>2, <1>3, <1>4 DEF Order, Joins
<1>6. Flags'
  BY <1>1 DEF Order, Flags
<1> QED BY <1>5, <1>6 DEF Order

LEMMA OwnerOrder ==
    ASSUME Base, Order, OwnerStep
    PROVE  Order'
<1>0. UNCHANGED <<pc, mpc, lpc, mode, health>>
  BY DEF OwnerStep, RaiseFlag, StopAccepting, PoolDropped, BeginShutdown, ShutdownThreads, Owner,
         HealthStopped, GraceOver, JoinWorkers, JoinFails, Detach, JoinMetrics, ShutdownLog, JoinLog,
         conn_vars, obs_vars, agg_vars, writer_vars, env_vars, owner_vars, past_vars
<1>t. shutting_down \in BOOLEAN /\ txs \in BOOLEAN
  BY DEF Base, TypeOK, SenderTypes
<1> USE DEF Order, Joins, Flags
<1>1. CASE RaiseFlag \/ StopAccepting
  <2>1. UNCHANGED <<owner, result>> /\ shutting_down' = TRUE /\ (txs' = txs \/ txs' = FALSE)
    BY <1>1 DEF RaiseFlag, StopAccepting, owner_vars
  <2> QED BY <1>0, <1>t, <2>1
<1>2. CASE PoolDropped
  <2>1. owner' = "gone" /\ UNCHANGED shutting_down /\ txs' = FALSE /\ mode = "pool" /\ Exclusive
    BY <1>2 DEF PoolDropped
  <2> QED BY <1>0, <1>t, <2>1 DEF Exclusive
<1>3. CASE \E how \in {"shutdown", "drop"} : BeginShutdown(how)
  <2>1. owner' = "stop_health" /\ UNCHANGED <<txs, result>> /\ shutting_down' = TRUE /\ Exclusive
        /\ mode = "balancer"
    BY <1>3 DEF BeginShutdown
  <2> QED BY <1>0, <1>t, <2>1 DEF Exclusive
<1>4. CASE ShutdownThreads
  <2>1. owner' = "join_workers" /\ txs' = FALSE /\ shutting_down' = TRUE /\ UNCHANGED result
        /\ (owner = "threads" \/ (mode = "pool" /\ owner = "running" /\ Exclusive))
    BY <1>4 DEF ShutdownThreads
  <2> QED BY <1>0, <1>t, <2>1 DEF Exclusive
<1>5. CASE HealthStopped
  <2>1. owner = "stop_health" /\ health = "exited" /\ owner' \in {"grace", "threads"}
        /\ (txs' = txs \/ txs' = FALSE) /\ UNCHANGED <<shutting_down, result>>
    BY <1>5 DEF HealthStopped
  <2> QED BY <1>0, <1>t, <2>1
<1>6. CASE GraceOver
  <2>1. owner = "grace" /\ owner' = "threads" /\ UNCHANGED <<txs, shutting_down, result>>
    BY <1>6 DEF GraceOver, flag_vars
  <2> QED BY <1>0, <2>1
<1>7. CASE JoinWorkers
  <2>1. owner = "join_workers" /\ owner' = "detach" /\ UNCHANGED <<txs, shutting_down, result>>
        /\ \A w \in Workers : pc[w] = "exited"
    BY <1>7 DEF JoinWorkers, flag_vars, Joined
  <2> QED BY <1>0, <2>1
<1>8. CASE JoinFails
  <2>1. owner = "join_workers" /\ owner' \in {"detach", "gone"} /\ UNCHANGED <<txs, shutting_down>>
        /\ result' = "error"
    BY <1>8 DEF JoinFails, flag_vars
  <2> QED BY <1>0, <2>1
<1>9. CASE Detach
  <2>1. owner = "detach" /\ UNCHANGED <<txs, shutting_down, result>>
        /\ owner' = IF result = "error" THEN "final_log" ELSE "join_metrics"
    BY <1>9 DEF Detach, flag_vars
  <2> QED BY <1>0, <2>1
<1>10. CASE JoinMetrics
  <2>1. owner = "join_metrics" /\ mpc = "exited" /\ owner' = "final_log"
        /\ UNCHANGED <<txs, shutting_down, result>>
    BY <1>10 DEF JoinMetrics, flag_vars, MetricsJoined
  <2> QED BY <1>0, <2>1
<1>11. CASE ShutdownLog
  <2>1. owner = "final_log" /\ UNCHANGED <<txs, shutting_down, result>>
        /\ owner' = IF result = "error" THEN "gone" ELSE "join_log"
    BY <1>11 DEF ShutdownLog, flag_vars
  <2> QED BY <1>0, <2>1
<1>12. CASE JoinLog
  <2>1. owner = "join_log" /\ lpc = "exited" /\ owner' = "done" /\ UNCHANGED <<txs, shutting_down>>
    BY <1>12 DEF JoinLog, flag_vars
  <2> QED BY <1>0, <2>1
<1> QED BY <1>1, <1>2, <1>3, <1>4, <1>5, <1>6, <1>7, <1>8, <1>9, <1>10, <1>11, <1>12
        DEF OwnerStep, Owner

LEMMA StepKinds ==
    ASSUME [Next]_vars
    PROVE  \/ \E t \in Threads : ThreadStep(t)
           \/ Writer \/ Aggregator \/ HealthLogs \/ HealthExit \/ Embedder
           \/ OwnerStep
           \/ UNCHANGED vars
  BY DEF Next, ThreadStep, OwnerStep, Threads

LEMMA OrderInvariant == Spec => []Order
<1>1. Init => Order
  BY ThreadAssumption DEF Init, Order, Joins, Flags, Threads
<1>2. Base /\ Order /\ [Next]_vars => Order'
  BY StepKinds, ThreadOrder, ServiceOrder, OwnerOrder
<1> QED BY <1>1, <1>2, BaseInvariant, PTL DEF Spec

\* CleanShutdown for every instance: when shutdown_threads has returned Ok,
\* every thread has exited, none by a panic, and no connection is left in a queue
\* or in the hands of a thread.
THEOREM ShutdownIsClean == Spec => []CleanShutdown
<1>1. Base /\ Order => CleanShutdown
  <2> SUFFICES ASSUME Base, Order, owner = "done"
               PROVE  /\ \A w \in Workers : pc[w] = "exited"
                      /\ lpc = "exited" /\ mpc = "exited" /\ health = "exited"
                      /\ \A c \in Conns : conn[c] \in {"new"} \cup FinalStates
    BY DEF CleanShutdown
  <2>1. /\ \A w \in Workers : pc[w] = "exited"
        /\ \A s \in Submitters : pc[s] = "idle"
        /\ lpc = "exited" /\ mpc = "exited" /\ health = "exited"
    BY DEF Order, Joins
  <2>2. \A t \in Threads : cur[t] = NoConn
    BY <2>1 DEF Base, PlaceInv, Handlers, Handler, Threads
  <2>3. \A w \in Workers : queue[w] = <<>>
    BY <2>1 DEF Base, ExitedMeansDrained, Dead
  <2>4. ASSUME NEW c \in Conns PROVE conn[c] \notin {"held", "queued"}
    <3>1. conn[c] # "held"
      BY <2>2, ConnAssumption DEF Base, PlaceInv, Places
    <3>2. conn[c] # "queued"
      BY <2>3 DEF Base, PlaceInv, Places, InSlot
    <3> QED BY <3>1, <3>2
  <2>5. \A c \in Conns : conn[c] \in {"new", "held", "queued"} \cup FinalStates
    BY DEF Base, TypeOK, ThreadTypes
  <2> QED BY <2>1, <2>4, <2>5
<1> QED BY <1>1, BaseInvariant, OrderInvariant, PTL

-----------------------------------------------------------------------------
(* The statistics of a request *)

\* What is left after one effect holds nothing new but a notice.
LEMMA RestOf ==
    ASSUME NEW q \in Seq(Ops), q # <<>>, NEW rest,
           rest = Tail(q) \/ (Head(q) = "log" /\ rest = <<"notice">> \o Tail(q))
    PROVE  /\ \A op \in Ops \ {"notice"} : Has(rest, op) => Has(q, op)
           /\ OneStat(q) => OneStat(rest)
           /\ OneStat(q) /\ Head(q) = "stat" => ~Has(rest, "stat")
<1>1. Len(q) \in Nat /\ Head(q) = q[1] /\ 1 \in 1 .. Len(q)
  OBVIOUS
<1>2. CASE rest = Tail(q)
  <2>1. Len(rest) = Len(q) - 1 /\ \A i \in 1 .. Len(rest) : rest[i] = q[i + 1] /\ i + 1 \in 1 .. Len(q)
    BY <1>1, <1>2
  <2> HIDE <1>2
  <2>2. \A op \in Ops \ {"notice"} : Has(rest, op) => Has(q, op)
    BY <2>1 DEF Has
  <2>3. ASSUME OneStat(q) PROVE OneStat(rest)
    <3> SUFFICES ASSUME NEW i \in 1 .. Len(rest), NEW j \in 1 .. Len(rest),
                        rest[i] = "stat", rest[j] = "stat"
                 PROVE  i = j
      BY DEF OneStat
    <3>1. i + 1 = j + 1
      BY <2>1, <2>3 DEF OneStat
    <3> QED BY <3>1
  <2>4. OneStat(q) /\ Head(q) = "stat" => ~Has(rest, "stat")
    BY <1>1, <2>1 DEF OneStat, Has
  <2> QED BY <2>2, <2>3, <2>4
<1>3. CASE Head(q) = "log" /\ rest = <<"notice">> \o Tail(q)
  <2>1. Tail(q) \in Seq(Ops) /\ Len(Tail(q)) = Len(q) - 1 /\ \A i \in 1 .. Len(Tail(q)) : Tail(q)[i] = q[i + 1]
    BY <1>1
  <2>2. Len(rest) = Len(q) /\ rest[1] = "notice"
        /\ \A i \in 2 .. Len(q) : rest[i] = q[i]
    <3> DEFINE T == Tail(q)
    <3>1. T \in Seq(Ops) /\ rest = <<"notice">> \o T
          /\ Len(T) = Len(q) - 1 /\ \A i \in 1 .. Len(T) : T[i] = q[i + 1]
      BY <1>3, <2>1, Zenon
    <3> HIDE DEF T
    <3>2. Len(rest) = Len(T) + 1 /\ rest[1] = "notice"
          /\ \A i \in 2 .. Len(rest) : rest[i] = T[i - 1] /\ i - 1 \in 1 .. Len(T)
      BY <3>1
    <3>3. Len(rest) = Len(q)
      BY <1>1, <3>1, <3>2
    <3>4. \A i \in 2 .. Len(q) : rest[i] = q[i]
      BY <1>1, <3>1, <3>2, <3>3
    <3> QED BY <3>2, <3>3, <3>4
  <2> HIDE <1>3
  <2>3. \A op \in Ops \ {"notice"} : Has(rest, op) => Has(q, op)
    BY <1>1, <2>2 DEF Has
  <2>4. OneStat(q) => OneStat(rest)
    BY <1>1, <2>2 DEF OneStat
  <2> QED BY <1>3, <2>3, <2>4
<1> QED BY <1>2, <1>3

LEMMA OneStatAt ==
    ASSUME NEW q, NEW i, \A j \in 1 .. Len(q) : j # i => q[j] # "stat"
    PROVE  OneStat(q)
  BY DEF OneStat

\* No way through handle_connection sends its statistics twice, or refuses.
LEMMA HandlingsStat ==
    ASSUME NEW h \in Handlings
    PROVE  OneStat(h) /\ ~Has(h, "refused")
<1> DEFINE Good(q) == OneStat(q) /\ ~Has(q, "refused")
<1>r. \A n \in Nat : Records(n) \in Seq({"log"})
  BY RecordsType
<1> SUFFICES Good(h)
  OBVIOUS
<1>1. ASSUME NEW r \in Seq({"log"}), h = r \o <<"closed">> PROVE Good(h)
  <2>1. Len(h) = Len(r) + 1 /\ Len(r) \in Nat /\ h[Len(r) + 1] = "closed"
        /\ \A j \in 1 .. Len(r) : h[j] = "log"
    BY <1>1
  <2>2. \A j \in 1 .. Len(h) : h[j] \in {"log", "closed"}
    BY <2>1
  <2> QED BY <2>2 DEF OneStat, Has
<1>2. ASSUME NEW r \in Seq({"log"}), h = r \o <<"served", "log">> PROVE Good(h)
  <2>1. Len(h) = Len(r) + 2 /\ Len(r) \in Nat /\ h[Len(r) + 1] = "served" /\ h[Len(r) + 2] = "log"
        /\ \A j \in 1 .. Len(r) : h[j] = "log"
    BY <1>2
  <2>2. \A j \in 1 .. Len(h) : h[j] \in {"log", "served"}
    BY <2>1
  <2> QED BY <2>2 DEF OneStat, Has
<1>3. ASSUME NEW r \in Seq({"log"}), h = r \o <<"stat", "closed">> PROVE Good(h)
  <2>1. Len(h) = Len(r) + 2 /\ Len(r) \in Nat /\ h[Len(r) + 1] = "stat" /\ h[Len(r) + 2] = "closed"
        /\ \A j \in 1 .. Len(r) : h[j] = "log"
    BY <1>3
  <2>2. \A j \in 1 .. Len(h) : h[j] # "refused" /\ (j # Len(r) + 1 => h[j] # "stat")
    BY <2>1
  <2> QED BY <2>2, OneStatAt DEF Has
<1>4. ASSUME NEW r \in Seq({"log"}), h = r \o <<"served", "stat", "log">> PROVE Good(h)
  <2>1. Len(h) = Len(r) + 3 /\ Len(r) \in Nat /\ h[Len(r) + 1] = "served" /\ h[Len(r) + 2] = "stat"
        /\ h[Len(r) + 3] = "log" /\ \A j \in 1 .. Len(r) : h[j] = "log"
    BY <1>4
  <2>2. \A j \in 1 .. Len(h) : h[j] # "refused" /\ (j # Len(r) + 2 => h[j] # "stat")
    BY <2>1
  <2> QED BY <2>2, OneStatAt DEF Has
<1>5. ASSUME NEW r \in Seq({"log"}), NEW u \in Seq({"log"}), h = r \o <<"served", "stat">> \o u
      PROVE  Good(h)
  <2> DEFINE p == r \o <<"served", "stat">>
  <2>1. Len(p) = Len(r) + 2 /\ Len(r) \in Nat /\ p[Len(r) + 1] = "served" /\ p[Len(r) + 2] = "stat"
        /\ \A j \in 1 .. Len(r) : p[j] = "log"
    OBVIOUS
  <2>2. p \in Seq({"log", "served", "stat"}) /\ u \in Seq({"log", "served", "stat"}) /\ h = p \o u
    BY <1>5
  <2> HIDE DEF p
  <2>3. Len(p) \in Nat /\ Len(u) \in Nat /\ Len(h) = Len(p) + Len(u)
    BY <2>2
  <2>4. \A j \in 1 .. Len(p) : h[j] = p[j]
    BY <2>2, <2>3
  <2>5. \A j \in (Len(p) + 1) .. Len(h) : h[j] = u[j - Len(p)] /\ j - Len(p) \in 1 .. Len(u)
    BY <2>2, <2>3
  <2>6. \A j \in 1 .. Len(u) : u[j] = "log"
    OBVIOUS
  <2>7. ASSUME NEW j \in 1 .. Len(h) PROVE h[j] # "refused" /\ (j # Len(r) + 2 => h[j] # "stat")
    <3>1. CASE j \in 1 .. Len(p)
      BY <2>1, <2>4, <3>1
    <3>2. CASE j \in (Len(p) + 1) .. Len(h)
      BY <2>5, <2>6, <3>2
    <3> QED BY <2>3, <3>1, <3>2
  <2> QED BY <2>7, OneStatAt DEF Has
<1>6. Records(1) \in Seq({"log"}) /\ Records(2) \in Seq({"log"}) /\ Records(3) \in Seq({"log"})
      /\ Records(4) \in Seq({"log"}) /\ Records(5) \in Seq({"log"})
  BY <1>r
<1> HIDE DEF Good
<1> QED BY <1>1, <1>2, <1>3, <1>4, <1>5, <1>6, Zenon DEF Handlings

\* What one effect does to the statistics.
LEMMA DoOpStats ==
    ASSUME ThreadTypes, NEW t \in Threads, Handler(t), DoOp(t)
    PROVE  \E rest :
              /\ Proceed(t, rest)
              /\ rest = Tail(todo[t]) \/ (Head(todo[t]) = "log" /\ rest = <<"notice">> \o Tail(todo[t]))
              /\ conn' = conn \/ (/\ Head(todo[t]) \in FinalStates
                                  /\ conn' = [conn EXCEPT ![cur[t]] = Head(todo[t])])
              /\ \/ Head(todo[t]) = "stat" /\ RecordMetrics(cur[t])
                 \/ UNCHANGED stat_vars
<1>1. todo[t] \in Seq(Ops) /\ todo[t] # <<>>
  BY DEF DoOp, Handler, ThreadTypes
<1>2. <<>> \o Tail(todo[t]) = Tail(todo[t])
  BY <1>1, ConcatEmptySeq
<1>3. CASE Head(todo[t]) = "log" /\ EmitLog(t) /\ UNCHANGED <<conn, stat_vars>>
  <2>1. PICK notice \in {<<>>, <<"notice">>} : Proceed(t, notice \o Tail(todo[t]))
    BY <1>3 DEF EmitLog
  <2>2. CASE notice = <<>>
    <3>1. Proceed(t, Tail(todo[t]))
      BY <1>2, <2>1, <2>2
    <3> QED BY <1>3, <3>1
  <2>3. CASE notice = <<"notice">>
    <3>1. Proceed(t, <<"notice">> \o Tail(todo[t]))
      BY <2>1, <2>3
    <3> QED BY <1>3, <3>1
  <2> QED BY <2>1, <2>2, <2>3
<1>4. CASE Proceed(t, Tail(todo[t])) /\ UNCHANGED <<conn, stat_vars>>
  BY <1>4
<1>5. CASE Head(todo[t]) = "stat" /\ Proceed(t, Tail(todo[t])) /\ RecordMetrics(cur[t]) /\ UNCHANGED conn
  BY <1>5
<1>6. CASE /\ Head(todo[t]) \in FinalStates /\ Proceed(t, Tail(todo[t]))
           /\ conn' = [conn EXCEPT ![cur[t]] = Head(todo[t])] /\ UNCHANGED stat_vars
  BY <1>6
<1> QED BY <1>3, <1>4, <1>5, <1>6 DEF DoOp

\* A step of thread t that sends no statistics, and neither takes nor queues a
\* connection whose statistics were sent.
LEMMA StatsKept ==
    ASSUME Stats, NEW t \in Threads, UNCHANGED <<stat_vars, total_requests>>,
           \A u \in Threads : u # t => pc'[u] = pc[u] /\ cur'[u] = cur[u] /\ todo'[u] = todo[u],
           OneStat(todo'[t]),
           \A c \in stats_sent : conn'[c] \notin {"new", "queued"},
           cur'[t] \in stats_sent => pc'[t] = "work" /\ ~Has(todo'[t], "stat")
    PROVE  Stats'
<1>1. \A u \in Threads : OneStat(todo'[u])
  BY DEF Stats
<1>2. stats_sent' = stats_sent /\ total_requests' = total_requests /\ metrics_q' = metrics_q
  BY DEF stat_vars
<1>3. \A c \in stats_sent : \A u \in Threads : cur'[u] = c => pc'[u] = "work" /\ ~Has(todo'[u], "stat")
  BY DEF Stats
<1> QED BY <1>1, <1>2, <1>3 DEF Stats

LEMMA DoOpStatsKept ==
    ASSUME Base, Stats, NEW t \in Threads, ThreadStep(t), DoOp(t)
    PROVE  Stats'
<1> USE DEF Base, PlaceInv
<1>0. Handler(t) /\ pc[t] = "work" /\ todo[t] # <<>> /\ todo[t] \in Seq(Ops) /\ OneStat(todo[t])
  BY DEF Handlers, Handler, DoOp, ThreadTypes, Stats
<1>1. PICK rest :
              /\ Proceed(t, rest)
              /\ rest = Tail(todo[t]) \/ (Head(todo[t]) = "log" /\ rest = <<"notice">> \o Tail(todo[t]))
              /\ conn' = conn \/ (/\ Head(todo[t]) \in FinalStates
                                  /\ conn' = [conn EXCEPT ![cur[t]] = Head(todo[t])])
              /\ \/ Head(todo[t]) = "stat" /\ RecordMetrics(cur[t])
                 \/ UNCHANGED stat_vars
  BY <1>0, DoOpStats
<1>2. "stat" \in Ops \ {"notice"}
  BY DEF Ops
<1>3. /\ Has(rest, "stat") => Has(todo[t], "stat")
      /\ OneStat(rest)
      /\ Head(todo[t]) = "stat" => ~Has(rest, "stat")
  BY <1>0, <1>1, <1>2, RestOf
<1>4. todo'[t] = rest /\ (\/ rest # <<>> /\ pc' = pc /\ cur' = cur
                          \/ cur'[t] = NoConn)
  BY <1>1 DEF Proceed, ThreadTypes
<1>5. \A u \in Threads : u # t => pc'[u] = pc[u] /\ cur'[u] = cur[u] /\ todo'[u] = todo[u]
  BY OnlyItself
<1>6. UNCHANGED total_requests
  BY ThreadStepKeeps DEF ThreadStep, agg_vars
<1>7. stats_sent \subseteq Conns /\ NoConn \notin Conns /\ metrics_q \in Seq(Conns) /\ total_requests \in Nat
  BY ConnAssumption DEF TypeOK, ObservabilityTypes
<1>8. \A c \in stats_sent : conn'[c] \notin {"new", "queued"}
  BY <1>1, <1>7 DEF Stats, ThreadTypes, FinalStates
<1>9. CASE UNCHANGED stat_vars
  <2>1. cur'[t] \in stats_sent => pc'[t] = "work" /\ ~Has(todo'[t], "stat")
    BY <1>0, <1>3, <1>4, <1>7 DEF Stats
  <2> QED BY <1>3, <1>4, <1>5, <1>6, <1>8, <1>9, <2>1, StatsKept
<1>10. CASE /\ Head(todo[t]) = "stat"
            /\ metrics_q' = Append(metrics_q, cur[t]) /\ stats_sent' = stats_sent \cup {cur[t]}
  <2>1. cur[t] \in Conns
    BY <1>0, <1>10, StatHasConn
  <2>2. cur[t] \notin stats_sent
    <3>1. Head(todo[t]) = todo[t][1] /\ 1 \in 1 .. Len(todo[t])
      BY <1>0
    <3>2. Has(todo[t], "stat")
      BY <1>10, <3>1 DEF Has
    <3> QED BY <3>2 DEF Stats
  <2>3. IsFiniteSet(stats_sent)
    BY <1>7, ConnAssumption, FS_Subset
  <2>4. Cardinality(stats_sent') = Cardinality(stats_sent) + 1 /\ Cardinality(stats_sent) \in Nat
    BY <1>10, <2>2, <2>3, FS_AddElement, FS_CardinalityType
  <2>5. total_requests' + Len(metrics_q') = Cardinality(stats_sent')
    BY <1>6, <1>7, <1>10, <2>1, <2>4 DEF Stats
  <2>6. conn'[cur[t]] \notin {"new", "queued"}
    <3>1. conn' = conn
      BY <1>1, <1>10 DEF FinalStates
    <3> QED BY <2>1, <3>1, ConnAssumption DEF Places
  <2>7. \A c \in stats_sent' : conn'[c] \notin {"new", "queued"}
    BY <1>8, <1>10, <2>6
  <2>8. ASSUME NEW c \in stats_sent', NEW u \in Threads, cur'[u] = c
        PROVE  pc'[u] = "work" /\ ~Has(todo'[u], "stat")
    <3>1. c \in Conns /\ c # NoConn
      BY <1>7, <1>10, <2>1
    <3>2. CASE u = t
      <4>1. pc' = pc /\ cur' = cur
        BY <1>4, <2>8, <3>1, <3>2
      <4> QED BY <1>0, <1>3, <1>4, <1>10, <3>2, <4>1
    <3>3. CASE u # t
      <4>1. cur[u] = c /\ pc'[u] = pc[u] /\ todo'[u] = todo[u]
        BY <1>5, <2>8, <3>3
      <4>2. c # cur[t]
        BY <3>1, <3>3, <4>1 DEF Places
      <4> QED BY <1>10, <4>1, <4>2 DEF Stats
    <3> QED BY <3>2, <3>3
  <2>9. \A u \in Threads : OneStat(todo'[u])
    BY <1>3, <1>4, <1>5 DEF Stats
  <2> QED BY <2>5, <2>7, <2>8, <2>9 DEF Stats
<1> QED BY <1>1, <1>9, <1>10 DEF RecordMetrics

LEMMA ThreadStats ==
    ASSUME Base, Stats, NEW t \in Threads, ThreadStep(t)
    PROVE  Stats'
<1> USE DEF Base, PlaceInv
<1>0. Handler(t) /\ OneStat(todo[t]) /\ (pc[t] # "work" => todo[t] = <<>>)
  BY DEF Handlers, Handler, Stats
<1>1. CASE DoOp(t)
  BY <1>1, DoOpStatsKept
<1> SUFFICES ASSUME ~DoOp(t) PROVE Stats'
  BY <1>1
<1>2. \A u \in Threads : u # t => pc'[u] = pc[u] /\ cur'[u] = cur[u] /\ todo'[u] = todo[u]
  BY OnlyItself
<1>3. UNCHANGED <<stat_vars, total_requests>>
  BY ThreadStepKeeps DEF ThreadStep, agg_vars
<1>4. stats_sent \subseteq Conns /\ NoConn \notin Conns
  BY ConnAssumption DEF TypeOK, ObservabilityTypes
\* A connection that is new, queued, or not yet in a handler has no statistics.
<1>5. \A c \in stats_sent : conn[c] \notin {"new", "queued"} /\ (cur[t] = c => pc[t] = "work")
  BY DEF Stats
<1>6. OneStat(<<>>) /\ OneStat(<<"log">>) /\ OneStat(<<"refused">>) /\ OneStat(<<"log", "closed">>)
      /\ OneStat(<<"count", "log", "rejected">>)
  BY DEF OneStat
<1>7. ASSUME pc[t] # "work", OneStat(todo'[t]),
             \A c \in stats_sent : conn'[c] \notin {"new", "queued"},
             cur'[t] \in {cur[t], NoConn}
      PROVE  Stats'
  BY <1>2, <1>3, <1>4, <1>5, <1>7, StatsKept
<1>8. CASE \E c \in Conns : Accept(t, c)
  <2>1. PICK c \in Conns : Accept(t, c)
    BY <1>8
  <2>2. conn[c] = "new" /\ conn' = [conn EXCEPT ![c] = "held"] /\ cur'[t] = c /\ todo'[t] = <<>>
    BY <1>0, <2>1 DEF Accept, ThreadTypes
  <2>3. c \notin stats_sent
    BY <1>5, <2>2
  <2>4. \A d \in stats_sent : conn'[d] \notin {"new", "queued"}
    BY <1>4, <1>5, <2>2 DEF ThreadTypes
  <2> QED BY <1>2, <1>3, <1>6, <2>2, <2>3, <2>4, StatsKept
<1>9. CASE AcceptTimeoutFails(t)
  <2>1. pc[t] # "work" /\ todo'[t] = <<"log", "closed">> /\ UNCHANGED <<conn, cur>>
    BY <1>9 DEF AcceptTimeoutFails, ThreadTypes
  <2> QED BY <1>5, <1>6, <1>7, <2>1
<1>10. CASE AcceptError(t)
  <2>1. pc[t] # "work" /\ todo'[t] = <<"log">> /\ UNCHANGED <<conn, cur>>
    BY <1>10 DEF AcceptError, ThreadTypes
  <2> QED BY <1>5, <1>6, <1>7, <2>1
<1>11. CASE SubmitCheck(t)
  <2>1. pc[t] # "work" /\ todo'[t] \in {<<"refused">>, <<"count", "log", "rejected">>, todo[t]}
        /\ UNCHANGED <<conn, cur>>
    BY <1>11 DEF SubmitCheck, RejectPoolFull, ThreadTypes
  <2> QED BY <1>0, <1>5, <1>6, <1>7, <2>1
<1>12. CASE SubmitSend(t)
  <2>1. pc[t] = "send" /\ cur[t] \in Conns
    BY <1>0, <1>12 DEF SubmitSend, Handler
  <2>2. /\ todo'[t] \in {todo[t], <<"refused">>, <<"count", "log", "rejected">>}
        /\ cur'[t] \in {cur[t], NoConn}
        /\ conn' = conn \/ conn' = [conn EXCEPT ![cur[t]] = "queued"]
    BY <1>12 DEF SubmitSend, RejectPoolFull, ThreadTypes
  <2>3. \A c \in stats_sent : conn'[c] \notin {"new", "queued"}
    BY <1>4, <1>5, <2>1, <2>2 DEF ThreadTypes
  <2> QED BY <1>0, <1>6, <1>7, <2>1, <2>2, <2>3
<1>13. CASE t \in Workers /\ WorkerRecv(t)
  <2> DEFINE c == Head(queue[t])
  <2>1. queue[t] # <<>> /\ conn' = [conn EXCEPT ![c] = "held"] /\ cur'[t] = c /\ UNCHANGED todo
    BY <1>13 DEF WorkerRecv, ThreadTypes
  <2>2. InSlot(c, t, 1) /\ c \in Conns /\ 1 \in Nat
    BY <1>13, <2>1 DEF InSlot, ThreadTypes
  <2> HIDE DEF c
  <2>3. conn[c] = "queued"
    BY <1>13, <2>2 DEF Places
  <2>4. c \notin stats_sent
    BY <1>5, <2>3
  <2>5. \A d \in stats_sent : conn'[d] \notin {"new", "queued"}
    BY <1>4, <1>5, <2>1 DEF ThreadTypes
  <2> QED BY <1>0, <1>2, <1>3, <2>1, <2>4, <2>5, StatsKept
<1>14. CASE WorkerExit(t)
  <2>1. pc[t] # "work" /\ UNCHANGED <<todo, conn, cur>>
    BY <1>14 DEF WorkerExit
  <2> QED BY <1>0, <1>5, <1>7, <2>1
<1>15. CASE WorkerCheck(t)
  <2>1. pc[t] # "work" /\ UNCHANGED <<conn, cur>>
    BY <1>15 DEF WorkerCheck
  <2>2. PICK q \in Handlings \cup {<<"refused">>} : todo'[t] = q
    BY <1>15 DEF WorkerCheck, ThreadTypes
  <2>3. OneStat(q)
    BY <1>6, HandlingsStat
  <2> QED BY <1>5, <1>7, <2>1, <2>2, <2>3
<1>16. CASE WorkerPanics(t)
  <2>1. todo'[t] = <<>> /\ cur'[t] = NoConn
    BY <1>16 DEF WorkerPanics, ThreadTypes
  <2>2. \A c \in Conns : conn'[c] = conn[c] \/ conn'[c] = "closed"
    BY <1>16 DEF WorkerPanics
  <2>3. \A c \in stats_sent : conn'[c] \notin {"new", "queued"}
    BY <1>4, <1>5, <2>2
  <2> QED BY <1>2, <1>3, <1>4, <1>6, <2>1, <2>3, StatsKept
<1> QED BY <1>8, <1>9, <1>10, <1>11, <1>12, <1>13, <1>14, <1>15, <1>16
        DEF ThreadStep, Submitter, Worker

\* The other steps, of which only the aggregator's recv moves a statistic.
LEMMA OtherStats ==
    ASSUME Base, Stats,
           \/ Writer \/ Aggregator \/ HealthLogs \/ HealthExit \/ Embedder
           \/ OwnerStep \/ UNCHANGED vars
    PROVE  Stats'
<1>1. UNCHANGED <<conn, pc, cur, todo>>
  BY QuietSteps DEF conn_vars, OwnerStep
<1>2. stats_sent' = stats_sent
  BY DEF Writer, LogWrite, LogExit, Aggregator, MetricsRecv, MetricsLog, MetricsSnapshot,
         MetricsExit, HealthLogs, HealthExit, RaiseFlag, StopAccepting, PoolDropped, Embedder,
         EmbedderLogs, Keep, LetGo, BeginShutdown, ShutdownThreads, Owner, HealthStopped, GraceOver, JoinWorkers,
         JoinFails, Detach, JoinMetrics, ShutdownLog, JoinLog, vars, obs_vars, stat_vars, OwnerStep
<1>3. \/ metrics_q' = metrics_q /\ total_requests' = total_requests
      \/ metrics_q # <<>> /\ metrics_q' = Tail(metrics_q) /\ total_requests' = total_requests + 1
  BY DEF Writer, LogWrite, LogExit, Aggregator, MetricsRecv, MetricsLog, MetricsSnapshot,
         MetricsExit, HealthLogs, HealthExit, RaiseFlag, StopAccepting, PoolDropped, Embedder,
         EmbedderLogs, Keep, LetGo, BeginShutdown, ShutdownThreads, Owner, HealthStopped, GraceOver, JoinWorkers,
         JoinFails, Detach, JoinMetrics, ShutdownLog, JoinLog, vars, obs_vars, stat_vars, agg_vars,
         OwnerStep
<1>4. metrics_q \in Seq(Conns) /\ total_requests \in Nat
  BY DEF Base, TypeOK, ObservabilityTypes
<1>5. total_requests' + Len(metrics_q') = total_requests + Len(metrics_q)
  BY <1>3, <1>4
<1> QED BY <1>1, <1>2, <1>5 DEF Stats

LEMMA StatsInvariant == Spec => []Stats
<1>1. Init => Stats
  <2> SUFFICES ASSUME Init PROVE Stats
    OBVIOUS
  <2>1. \A t \in Threads : OneStat(todo[t])
    BY DEF Init, OneStat
  <2>2. stats_sent = {} /\ total_requests = 0 /\ Len(metrics_q) = 0
    BY DEF Init
  <2> QED BY <2>1, <2>2, FS_EmptySet DEF Stats
<1>2. Base /\ Stats /\ [Next]_vars => Stats'
  BY StepKinds, ThreadStats, OtherStats
<1> QED BY <1>1, <1>2, BaseInvariant, PTL DEF Spec

-----------------------------------------------------------------------------
(* The last line of the log *)

\* Once the metrics thread has been joined, only the owner and the embedder log.
LEMMA NobodyLogs ==
    ASSUME Base, Order, owner \in {"join_log", "done"}
    PROVE  /\ \A t \in Threads : ~ThreadStep(t)
           /\ ~Aggregator /\ ~HealthLogs
<1>1. /\ mode # "run" /\ health = "exited" /\ mpc = "exited"
      /\ \A s \in Submitters : pc[s] = "idle"
      /\ \A w \in Workers : pc[w] = "exited"
  BY DEF Order, Joins
<1>2. ASSUME NEW t \in Threads, ThreadStep(t) PROVE FALSE
  <2>1. pc[t] # "exited" /\ (pc[t] = "idle" => owner = "running" \/ mode = "run")
    BY <1>2, OnlyItself DEF Base, PlaceInv
  <2> QED BY <1>1, <2>1 DEF Threads
<1>3. ~Aggregator
  BY <1>1 DEF Aggregator, MetricsRecv, MetricsLog, MetricsSnapshot, MetricsExit
<1>4. ~HealthLogs
  BY <1>1 DEF HealthLogs
<1> QED BY <1>2, <1>3, <1>4

\* What writing a record, and one more record of the embedder's, make of the rest.
LEMMA OwnAfterTail ==
    ASSUME NEW q \in Seq(LogRecords), q # <<>>, NEW k \in Nat, OwnFrom(q, k + 1)
    PROVE  OwnFrom(Tail(q), k)
  BY DEF OwnFrom

LEMMA OwnAfterOwn ==
    ASSUME NEW q \in Seq(LogRecords), NEW k \in Nat, OwnFrom(q, k)
    PROVE  OwnFrom(Append(q, OwnRecord), k)
<1> DEFINE r == OwnRecord
<1>1. \A i \in 1 .. Len(q) : i >= k => q[i] = r
  BY DEF OwnFrom
<1> HIDE DEF r
<1>2. \A i \in 1 .. Len(Append(q, r)) : i >= k => Append(q, r)[i] = r
  BY <1>1
<1> QED BY <1>2 DEF OwnFrom, r

\* shutdown_log's own snapshot.
LEMMA FinalLineQueued ==
    ASSUME Base, ShutdownLog, final_sent'
    PROVE  FinalLine'
<1> DEFINE r == Snapshot(total_requests)
<1>0. log_q \in Seq(LogRecords)
  BY DEF Base, TypeOK, ObservabilityTypes
<1>1. SendLog(r) /\ (final_sent' = LogHasRoom) /\ UNCHANGED agg_vars
  BY Zenon DEF ShutdownLog
<1>2. LogHasRoom
  BY <1>1, Zenon
<1>3. total_requests' = total_requests /\ log_q' = Append(log_q, r)
  BY <1>1, <1>2 DEF agg_vars, SendLog
<1>4. Snapshot(total_requests') = r
  BY <1>3
<1> HIDE DEF r
<1>5. /\ Len(log_q') = Len(log_q) + 1 /\ Len(log_q) + 1 \in 1 .. Len(log_q')
      /\ log_q'[Len(log_q) + 1] = r
      /\ \A i \in 1 .. Len(log_q') : ~(i >= Len(log_q) + 1 + 1)
  BY <1>0, <1>3
<1>6. OwnFrom(log_q', Len(log_q) + 1 + 1)
  BY <1>5 DEF OwnFrom
<1> QED BY <1>4, <1>5, <1>6 DEF FinalLine

\* The log thread writes a record.
LEMMA FinalLineWritten ==
    ASSUME Base, FinalLine, LogWrite, owner \in {"join_log", "done"}, final_sent, InfoWritten
    PROVE  FinalLine'
<1> DEFINE r == Snapshot(total_requests)
<1>0. log_q \in Seq(LogRecords) /\ log_q # <<>> /\ log_q' = Tail(log_q)
      /\ last_record' \in LastAfter(Head(log_q)) /\ total_requests' = total_requests
  BY DEF Base, TypeOK, ObservabilityTypes, LogWrite, agg_vars
<1>1. Snapshot(total_requests') = r
  BY <1>0
<1>2. r.kind = "snapshot" /\ OwnRecord.kind = "own"
  BY DEF Snapshot, OwnRecord
<1>3. CASE last_record = r /\ OwnFrom(log_q, 1)
  <2>1. Head(log_q) = OwnRecord
    BY <1>0, <1>3 DEF OwnFrom
  <2>2. last_record' = r
    BY <1>0, <1>2, <1>3, <2>1 DEF LastAfter
  <2>3. OwnFrom(log_q', 1)
    BY <1>0, <1>3 DEF OwnFrom
  <2> QED BY <1>1, <2>2, <2>3 DEF FinalLine
<1>4. ASSUME NEW k \in 1 .. Len(log_q), log_q[k] = r, OwnFrom(log_q, k + 1)
      PROVE  FinalLine'
  <2>1. OwnFrom(log_q', k)
    BY <1>0, <1>4, OwnAfterTail
  <2>2. CASE k = 1
    <3>1. Head(log_q) = r
      BY <1>0, <1>4, <2>2
    <3>2. last_record' = r
      BY <1>0, <1>2, <3>1 DEF LastAfter
    <3> QED BY <1>1, <2>1, <2>2, <3>2 DEF FinalLine
  <2>3. CASE k # 1
    <3> HIDE DEF r
    <3>1. k - 1 \in 1 .. Len(log_q') /\ log_q'[k - 1] = r /\ (k - 1) + 1 = k
      BY <1>0, <1>4, <2>3
    <3> QED BY <1>1, <2>1, <3>1 DEF FinalLine
  <2> QED BY <2>2, <2>3
<1>5. \/ last_record = r /\ OwnFrom(log_q, 1)
      \/ \E k \in 1 .. Len(log_q) : log_q[k] = r /\ OwnFrom(log_q, k + 1)
  BY DEF FinalLine
<1> QED BY <1>3, <1>4, <1>5

\* The embedder sends a record of its own.
LEMMA FinalLineOutlasts ==
    ASSUME Base, FinalLine, EmbedderLogs, owner \in {"join_log", "done"}, final_sent, InfoWritten
    PROVE  FinalLine'
<1> DEFINE r == Snapshot(total_requests)
<1>0. log_q \in Seq(LogRecords) /\ last_record' = last_record /\ total_requests' = total_requests
      /\ (log_q' = log_q \/ log_q' = Append(log_q, OwnRecord))
  BY DEF Base, TypeOK, ObservabilityTypes, EmbedderLogs, SendLog, agg_vars, writer_vars
<1>1. Snapshot(total_requests') = r
  BY <1>0
<1> HIDE DEF r
<1>2. ASSUME NEW k \in Nat, OwnFrom(log_q, k) PROVE OwnFrom(log_q', k)
  BY <1>0, <1>2, OwnAfterOwn
<1>3. CASE last_record = r /\ OwnFrom(log_q, 1)
  BY <1>0, <1>1, <1>2, <1>3 DEF FinalLine
<1>4. ASSUME NEW k \in 1 .. Len(log_q), log_q[k] = r, OwnFrom(log_q, k + 1)
      PROVE  FinalLine'
  <2>1. OwnFrom(log_q', k + 1)
    BY <1>2, <1>4
  <2> DEFINE o == OwnRecord
  <2>2. log_q' = log_q \/ log_q' = Append(log_q, o)
    BY <1>0
  <2> HIDE DEF o
  <2>3. k \in 1 .. Len(log_q') /\ log_q'[k] = r
    BY <1>0, <1>4, <2>2
  <2> QED BY <1>1, <2>1, <2>3 DEF FinalLine
<1>5. \/ last_record = r /\ OwnFrom(log_q, 1)
      \/ \E k \in 1 .. Len(log_q) : log_q[k] = r /\ OwnFrom(log_q, k + 1)
  BY DEF FinalLine, r
<1> QED BY <1>3, <1>4, <1>5

LEMMA FinalLineStep ==
    ASSUME Base, Order, FinalLine, [Next]_vars
    PROVE  FinalLine'
<1> SUFFICES ASSUME owner' \in {"join_log", "done"}, final_sent', InfoWritten
             PROVE  FinalLine'
  BY DEF FinalLine
<1>1. CASE owner \notin {"join_log", "done"}
  <2>1. ShutdownLog
    <3>1. ASSUME NEW t \in Threads, ThreadStep(t) PROVE owner' = owner
      BY <3>1, ThreadStepKeeps DEF ThreadStep, owner_vars
    <3>2. ASSUME Writer \/ Aggregator \/ HealthLogs \/ HealthExit \/ Embedder
                 \/ UNCHANGED vars
          PROVE  owner' = owner
      BY <3>2 DEF Writer, LogWrite, LogExit, Aggregator, MetricsRecv, MetricsLog, MetricsSnapshot,
         MetricsExit, HealthLogs, HealthExit, Embedder, EmbedderLogs, Keep, LetGo, vars, owner_vars
    <3>3. ASSUME OwnerStep PROVE ShutdownLog
      BY <1>1, <3>3 DEF OwnerStep, RaiseFlag, StopAccepting, PoolDropped, BeginShutdown,
         ShutdownThreads, Owner, HealthStopped, GraceOver, JoinWorkers, JoinFails, Detach,
         JoinMetrics, JoinLog, owner_vars
    <3> QED BY <1>1, <3>1, <3>2, <3>3, StepKinds
  <2> QED BY <2>1, FinalLineQueued
<1>2. CASE owner \in {"join_log", "done"}
  <2>1. final_sent' = final_sent \/ ShutdownLog \/ \E t \in Threads : ThreadStep(t)
    BY StepKinds DEF OwnerStep, RaiseFlag, StopAccepting, PoolDropped, DropPool, BeginShutdown,
       ShutdownThreads, Owner, HealthStopped, GraceOver, JoinWorkers, JoinFails, Detach, JoinMetrics,
       JoinLog, Writer, LogWrite, LogExit, Aggregator, MetricsRecv, MetricsLog, MetricsSnapshot,
       MetricsExit, HealthLogs, HealthExit, Embedder, EmbedderLogs, Keep, LetGo, vars, sender_vars
  <2>2. final_sent
    <3>1. ~ShutdownLog
      BY <1>2 DEF ShutdownLog
    <3> QED BY <1>2, <2>1, <3>1, NobodyLogs
  <2>3. CASE LogWrite
    BY <1>2, <2>2, <2>3, FinalLineWritten
  <2>4. CASE EmbedderLogs
    BY <1>2, <2>2, <2>4, FinalLineOutlasts
  <2>5. CASE ~LogWrite /\ ~EmbedderLogs
    <3>1. UNCHANGED <<log_q, last_record, total_requests>>
      <4>1. CASE LogExit \/ HealthExit \/ (\E h \in MayKeep : Keep(h) \/ LetGo(h)) \/ UNCHANGED vars
        BY <4>1 DEF LogExit, HealthExit, Keep, LetGo, vars, obs_vars, agg_vars, writer_vars
      <4>2. CASE OwnerStep
        <5>1. JoinLog
          BY <1>2, <4>2 DEF OwnerStep, RaiseFlag, StopAccepting, PoolDropped, BeginShutdown,
             ShutdownThreads, Owner, HealthStopped, GraceOver, JoinWorkers, JoinFails, Detach,
             JoinMetrics, ShutdownLog
        <5>2. UNCHANGED obs_vars
          BY <5>1 DEF JoinLog
        <5> QED BY <5>2 DEF obs_vars, agg_vars, writer_vars
      <4> QED BY <1>2, <2>5, <4>1, <4>2, NobodyLogs, StepKinds DEF Writer, Embedder
    <3>2. log_q' = log_q /\ Snapshot(total_requests') = Snapshot(total_requests) /\ last_record' = last_record
      BY <3>1
    <3> QED BY <1>2, <2>2, <3>2 DEF FinalLine
  <2> QED BY <2>3, <2>4, <2>5
<1> QED BY <1>1, <1>2

\* FinalSnapshotIsComplete for every instance: when shutdown_threads has returned
\* Ok and shutdown_log found room for its snapshot, that snapshot is the last the
\* crate wrote to the log and its total is the number of requests whose statistics
\* reached the metrics channel, also when an embedder used a log sender meanwhile.
THEOREM FinalSnapshotIsLastAndComplete == Spec => []FinalSnapshotIsComplete
<1>1. Init => FinalLine
  BY DEF Init, FinalLine
<1>2. Base /\ Order /\ FinalLine /\ [Next]_vars => FinalLine'
  BY FinalLineStep
<1>3. Base /\ Order /\ Stats /\ FinalLine => FinalSnapshotIsComplete
  <2> SUFFICES ASSUME Base, Order, Stats, FinalLine, owner = "done", final_sent, InfoWritten
               PROVE  last_record = Snapshot(Cardinality(stats_sent))
    BY DEF FinalSnapshotIsComplete
  <2>1. lpc = "exited" /\ mpc = "exited"
    BY DEF Order, Joins
  <2>2. log_q = <<>> /\ metrics_q = <<>>
    BY <2>1 DEF Base, ExitedMeansDrained
  <2>3. last_record = Snapshot(total_requests)
    BY <2>2 DEF FinalLine
  <2>4. total_requests = Cardinality(stats_sent)
    <3>1. total_requests \in Nat /\ Len(metrics_q) = 0
      BY <2>2 DEF Base, TypeOK, ObservabilityTypes
    <3> QED BY <3>1 DEF Stats
  <2> QED BY <2>3, <2>4
<1> QED BY <1>1, <1>2, <1>3, BaseInvariant, OrderInvariant, StatsInvariant, PTL DEF Spec

-----------------------------------------------------------------------------
(* Why clients are turned away *)

\* A connection that has been accepted stays accepted.
LEMMA AcceptedStays ==
    ASSUME Base, NEW t \in Threads, ThreadStep(t)
    PROVE  \A d \in Conns : conn[d] # "new" => conn'[d] # "new"
<1> USE DEF Base, PlaceInv, ThreadTypes
<1>1. CASE DoOp(t)
  <2>1. Handler(t)
    BY DEF Handlers
  <2>2. conn' = conn \/ (/\ Head(todo[t]) \in FinalStates
                         /\ conn' = [conn EXCEPT ![cur[t]] = Head(todo[t])])
    BY <1>1, <2>1, DoOpStats
  <2> QED BY <2>2 DEF FinalStates
<1>2. CASE \/ \E c \in Conns : Accept(t, c)
           \/ AcceptTimeoutFails(t) \/ AcceptError(t) \/ SubmitCheck(t) \/ SubmitSend(t)
  BY <1>2 DEF Accept, AcceptTimeoutFails, AcceptError, SubmitCheck, SubmitSend
<1>3. CASE WorkerRecv(t) \/ WorkerExit(t) \/ WorkerCheck(t)
  BY <1>3 DEF WorkerRecv, WorkerExit, WorkerCheck
<1>4. CASE WorkerPanics(t)
  <2>1. \A c \in Conns : conn'[c] = conn[c] \/ conn'[c] = "closed"
    BY <1>4 DEF WorkerPanics
  <2> QED BY <2>1
<1> QED BY <1>1, <1>2, <1>3, <1>4 DEF ThreadStep, Submitter, Worker

\* A full queue is made of other connections.
LEMMA FullQueueHasOthers ==
    ASSUME Base, NEW s \in Submitters, pc[s] = "send", QueueFull(slot[s])
    PROVE  Cardinality(Others(cur[s])) >= QueueCap
<1> USE DEF Base, PlaceInv
<1> DEFINE q == slot[s]
           f == [i \in 1 .. QueueCap |-> queue[q][i]]
<1>1. q \in Workers /\ queue[q] \in Seq(Conns) /\ Len(queue[q]) >= QueueCap /\ QueueCap \in Nat
      /\ Len(queue[q]) \in Nat
  BY PoolAssumption DEF ThreadTypes, QueueFull
<1>2. cur[s] \in Conns /\ conn[cur[s]] = "held"
  BY DEF Handlers, Handler, Threads
<1> HIDE DEF q
<1>3. ASSUME NEW i \in 1 .. QueueCap
      PROVE  queue[q][i] \in Conns /\ InSlot(queue[q][i], q, i) /\ conn[queue[q][i]] = "queued" /\ i \in Nat
  <2>1. i \in 1 .. Len(queue[q]) /\ queue[q][i] \in Conns /\ i \in Nat
    BY <1>1
  <2>2. InSlot(queue[q][i], q, i)
    BY <2>1 DEF InSlot
  <2> QED BY <1>1, <2>1, <2>2 DEF Places
<1>4. f \in [1 .. QueueCap -> Others(cur[s])]
  BY <1>2, <1>3 DEF Others
<1>5. ASSUME NEW i \in 1 .. QueueCap, NEW j \in 1 .. QueueCap, f[i] = f[j] PROVE i = j
  <2>1. InSlot(f[i], q, i) /\ InSlot(f[i], q, j) /\ f[i] \in Conns /\ i \in Nat /\ j \in Nat
    BY <1>3, <1>5
  <2> QED BY <1>1, <2>1 DEF Places
<1> HIDE DEF f
<1>6. f \in Injection(1 .. QueueCap, Others(cur[s]))
  BY <1>4, <1>5 DEF Injection, IsInjective
<1>7. IsFiniteSet(Others(cur[s]))
  <2>1. Others(cur[s]) \subseteq Conns
    BY DEF Others
  <2> QED BY <2>1, ConnAssumption, FS_Subset
<1>8. Cardinality(1 .. QueueCap) = QueueCap
  BY <1>1, PoolAssumption, FS_Interval
<1>9. Cardinality(1 .. QueueCap) <= Cardinality(Others(cur[s])) /\ Cardinality(Others(cur[s])) \in Nat
  BY <1>6, <1>7, FS_Injection, FS_CardinalityType
<1> QED BY <1>1, <1>8, <1>9

\* A panicked worker stays panicked.
LEMMA PanicsStay ==
    ASSUME ThreadTypes, NEW t \in Threads, ThreadStep(t)
    PROVE  Panicked => Panicked'
<1>1. /\ \A u \in Threads : u # t => pc'[u] = pc[u]
      /\ pc[t] # "panicked"
  BY OnlyItself
<1> QED BY <1>1 DEF Panicked, Threads

\* What a thread is left with to turn a client away has its reason.
LEMMA OwnReason ==
    ASSUME Base, Order, Reasons, NEW t \in Threads, ThreadStep(t)
    PROVE  /\ Has(todo'[t], "refused") => shutting_down \/ Panicked
           /\ t \in Submitters /\ Has(todo'[t], "rejected") =>
                 cur'[t] = cur[t] /\ Cardinality(Others(cur[t])) >= QueueCap
<1> USE DEF Base, PlaceInv
<1>0. Handler(t) /\ (pc[t] # "work" => todo[t] = <<>>) /\ (t \in Submitters => t \notin Workers)
  BY ThreadAssumption DEF Handlers, Handler
<1>1. CASE DoOp(t)
  <2>0. todo[t] # <<>> /\ todo[t] \in Seq(Ops)
    BY <1>0, <1>1 DEF DoOp, Handler, ThreadTypes
  <2>1. PICK rest :
              /\ Proceed(t, rest)
              /\ rest = Tail(todo[t]) \/ (Head(todo[t]) = "log" /\ rest = <<"notice">> \o Tail(todo[t]))
    BY <1>0, <1>1, DoOpStats
  <2>2. "refused" \in Ops \ {"notice"} /\ "rejected" \in Ops \ {"notice"}
    BY DEF Ops, FinalStates
  <2>3. (Has(rest, "refused") => Has(todo[t], "refused")) /\ (Has(rest, "rejected") => Has(todo[t], "rejected"))
    BY <2>0, <2>1, <2>2, RestOf
  <2>4. todo'[t] = rest /\ (rest # <<>> => cur' = cur)
    BY <2>1 DEF Proceed, ThreadTypes
  <2>5. ~Has(<<>>, "rejected")
    BY DEF Has
  <2>6. Has(rest, "rejected") => rest # <<>>
    BY <2>5
  <2> QED BY <2>3, <2>4, <2>6 DEF Reasons
<1>2. ASSUME NEW q \in {<<>>, <<"log">>, <<"log", "closed">>}, todo'[t] = q
      PROVE  ~Has(todo'[t], "refused") /\ ~Has(todo'[t], "rejected")
  BY <1>2 DEF Has
<1>3. CASE \/ \E c \in Conns : Accept(t, c)
           \/ AcceptTimeoutFails(t) \/ AcceptError(t)
           \/ WorkerRecv(t) \/ WorkerExit(t) \/ WorkerPanics(t)
  <2>1. todo'[t] \in {<<>>, <<"log">>, <<"log", "closed">>}
    BY <1>0, <1>3 DEF Accept, AcceptTimeoutFails, AcceptError, WorkerRecv, WorkerExit, WorkerPanics, ThreadTypes
  <2> QED BY <1>2, <2>1
<1>4. ~Has(<<"refused">>, "rejected") /\ ~Has(<<"count", "log", "rejected">>, "refused")
  BY DEF Has
<1>5. CASE t \in Submitters /\ SubmitCheck(t)
  <2>1. ~txs => shutting_down
    <3>1. pc[t] = "check"
      BY <1>5 DEF SubmitCheck
    <3>2. owner = "running"
      BY <1>5, <3>1 DEF Order, Joins
    <3> QED BY <3>2 DEF Order, Flags
  <2>2. \/ shutting_down /\ todo'[t] = <<"refused">>
        \/ todo'[t] = <<>>
    BY <1>0, <1>5, <2>1 DEF SubmitCheck, ThreadTypes
  <2> QED BY <1>2, <1>4, <2>2
<1>6. CASE t \in Submitters /\ SubmitSend(t)
  <2>1. pc[t] = "send" /\ slot[t] \in Workers
    BY <1>6 DEF SubmitSend, ThreadTypes
  <2>2. CASE todo'[t] = <<>>
    BY <1>2, <2>2
  <2>3. CASE QueueFull(slot[t]) /\ todo'[t] = <<"count", "log", "rejected">> /\ UNCHANGED cur
    BY <1>4, <1>6, <2>1, <2>3, FullQueueHasOthers
  <2>4. CASE Dead(slot[t]) /\ todo'[t] = <<"refused">>
    <3>1. owner = "running"
      BY <1>6, <2>1 DEF Order, Joins
    <3>2. shutting_down \/ Panicked
      BY <2>1, <2>4, <3>1 DEF Order, Flags, Dead, Panicked
    <3> QED BY <1>4, <2>4, <3>2
  <2> QED BY <1>0, <1>6, <2>1, <2>2, <2>3, <2>4 DEF SubmitSend, RejectPoolFull, ThreadTypes
<1>7. CASE t \in Workers /\ WorkerCheck(t)
  <2>1. \/ shutting_down /\ todo'[t] = <<"refused">>
        \/ \E h \in Handlings : todo'[t] = h
    BY <1>7 DEF WorkerCheck, ThreadTypes
  <2>2. \A h \in Handlings : ~Has(h, "refused")
    BY HandlingsStat
  <2> QED BY <1>0, <1>7, <2>1, <2>2
<1> QED BY <1>1, <1>3, <1>5, <1>6, <1>7 DEF ThreadStep, Submitter, Worker

LEMMA ThreadReasons ==
    ASSUME Base, Order, Reasons, NEW t \in Threads, ThreadStep(t)
    PROVE  Reasons'
<1>1. \A u \in Threads : u # t => pc'[u] = pc[u] /\ cur'[u] = cur[u] /\ todo'[u] = todo[u]
  BY OnlyItself DEF Base, PlaceInv
<1>2. UNCHANGED shutting_down /\ (Panicked => Panicked')
  BY ThreadStepKeeps, PanicsStay DEF ThreadStep, flag_vars, Base, PlaceInv
<1>3. /\ Has(todo'[t], "refused") => shutting_down \/ Panicked
      /\ t \in Submitters /\ Has(todo'[t], "rejected") =>
            cur'[t] = cur[t] /\ Cardinality(Others(cur[t])) >= QueueCap
  BY OwnReason
<1>4. ASSUME NEW c, Cardinality(Others(c)) >= QueueCap PROVE Cardinality(Others(c)') >= QueueCap
  <2>1. Others(c) \subseteq Others(c)' /\ Others(c)' \subseteq Conns
    BY AcceptedStays DEF Others
  <2>2. IsFiniteSet(Others(c)')
    BY <2>1, ConnAssumption, FS_Subset
  <2>3. Cardinality(Others(c)) <= Cardinality(Others(c)') /\ Cardinality(Others(c)') \in Nat
        /\ Cardinality(Others(c)) \in Nat
    BY <2>1, <2>2, FS_Subset, FS_CardinalityType
  <2> QED BY <1>4, <2>3, PoolAssumption
<1>5. ASSUME NEW u \in Threads, Has(todo'[u], "refused") PROVE (shutting_down \/ Panicked)'
  BY <1>1, <1>2, <1>3, <1>5 DEF Reasons
<1>6. ASSUME NEW s \in Submitters, Has(todo'[s], "rejected")
      PROVE  Cardinality(Others(cur[s]))' >= QueueCap
  <2>1. cur'[s] = cur[s] /\ Cardinality(Others(cur[s])) >= QueueCap
    BY <1>1, <1>3, <1>6 DEF Reasons, Threads
  <2>2. Others(cur[s])' = {d \in Conns \ {cur[s]} : conn'[d] # "new"}
    BY <2>1 DEF Others
  <2>3. ASSUME NEW c, c = cur[s] PROVE Others(c)' = Others(cur[s])'
    BY <2>2, <2>3 DEF Others
  <2> QED BY <1>4, <2>1, <2>3
<1> QED BY <1>5, <1>6 DEF Reasons

\* The flag is never lowered, and the other threads turn nobody away.
LEMMA OtherReasons ==
    ASSUME Base, Reasons,
           \/ Writer \/ Aggregator \/ HealthLogs \/ HealthExit \/ Embedder
           \/ OwnerStep \/ UNCHANGED vars
    PROVE  Reasons' /\ (shutting_down' = shutting_down \/ shutting_down' = TRUE)
<1>1. UNCHANGED <<conn, pc, cur, todo>>
  BY QuietSteps DEF conn_vars, OwnerStep
<1>2. shutting_down' = shutting_down \/ shutting_down' = TRUE
  BY DEF Writer, LogWrite, LogExit, Aggregator, MetricsRecv, MetricsLog, MetricsSnapshot,
         MetricsExit, HealthLogs, HealthExit, RaiseFlag, StopAccepting, PoolDropped, Embedder,
         EmbedderLogs, Keep, LetGo, BeginShutdown, ShutdownThreads, Owner, HealthStopped, GraceOver, JoinWorkers,
         JoinFails, Detach, JoinMetrics, ShutdownLog, JoinLog, vars, flag_vars, OwnerStep
<1>3. (Panicked' <=> Panicked) /\ \A c : Others(c)' = Others(c)
  BY <1>1 DEF Panicked, Others
<1>4. \A t \in Threads : Has(todo'[t], "refused") => (shutting_down \/ Panicked)'
  BY <1>1, <1>2, <1>3 DEF Reasons
<1>5. \A s \in Submitters : Has(todo'[s], "rejected") => Cardinality(Others(cur[s])') >= QueueCap
  BY <1>1 DEF Reasons, Others
<1> QED BY <1>2, <1>4, <1>5 DEF Reasons

LEMMA ReasonsInvariant == Spec => []Reasons
<1>1. Init => Reasons
  BY DEF Init, Reasons, Has, Threads
<1>2. Base /\ Order /\ Reasons /\ [Next]_vars => Reasons'
  BY StepKinds, ThreadReasons, OtherReasons
<1> QED BY <1>1, <1>2, BaseInvariant, OrderInvariant, PTL DEF Spec

-----------------------------------------------------------------------------
(* The pool keeps the safety part of ConnectionLife *)

\* The refinement mapping of Life.
Lives == [c \in Conns |-> IF conn[c] \in {"held", "queued"} THEN "taken" ELSE conn[c]]
Ended == owner = "done"

\* The cardinality that Life counts with is the one of FiniteSets.
LEMMA LifeCardinality ==
    ASSUME NEW S
    PROVE  Life!Cardinality(S) = Cardinality(S)
  BY DEF Life!Cardinality, Cardinality

\* Nothing a client could see has happened.
LEMMA Invisible ==
    ASSUME Lives' = Lives, UNCHANGED shutting_down, Panicked' <=> Panicked, Ended' <=> Ended
    PROVE  UNCHANGED Life!vars
  BY DEF Lives, Panicked, Ended, Life!vars

\* Connection c moves, in the way the step of Life wants it.
LEMMA LivesOf ==
    ASSUME ThreadTypes, NEW c \in Conns, NEW how, conn' = [conn EXCEPT ![c] = how]
    PROVE  Lives' = [Lives EXCEPT ![c] = IF how \in {"held", "queued"} THEN "taken" ELSE how]
  BY DEF Lives, ThreadTypes

\* A step of a thread that changes what became of connection c.
LEMMA SettleStep ==
    ASSUME NEW c \in Conns, NEW how \in FinalStates, Lives[c] = "taken",
           Lives' = [Lives EXCEPT ![c] = how],
           UNCHANGED shutting_down, Panicked' <=> Panicked, Ended' <=> Ended,
           how = "refused" => shutting_down \/ Panicked,
           how = "rejected" => Cardinality({d \in Conns \ {c} : Lives[d] # "new"}) >= QueueCap
    PROVE  Life!Settle(c)
<1>1. Life!MayEnd(c, how)
  <2>1. CASE how = "refused"
    BY <2>1 DEF Life!MayEnd, Panicked
  <2>2. CASE how = "rejected"
    BY <2>2, LifeCardinality DEF Life!MayEnd, Lives
  <2>3. CASE how \in {"served", "closed"}
    BY <2>3 DEF Life!MayEnd
  <2> QED BY <2>1, <2>2, <2>3 DEF FinalStates
<1> QED BY <1>1 DEF Life!Settle, Lives, Panicked, Ended, FinalStates

\* One effect of a handler is invisible or the answer.
LEMMA DoOpLife ==
    ASSUME Base, Order, Reasons, NEW t \in Threads, DoOp(t),
           UNCHANGED shutting_down, Ended' <=> Ended
    PROVE  UNCHANGED Life!vars \/ \E c \in Conns : Life!Settle(c)
<1> USE DEF Base, PlaceInv
<1>0. Handler(t) /\ pc[t] = "work" /\ todo[t] # <<>> /\ todo[t] \in Seq(Ops)
  BY DEF Handlers, Handler, DoOp, ThreadTypes
<1>1. PICK rest :
              /\ Proceed(t, rest)
              /\ conn' = conn \/ (/\ Head(todo[t]) \in FinalStates
                                  /\ conn' = [conn EXCEPT ![cur[t]] = Head(todo[t])])
  BY <1>0, DoOpStats
<1>2. Panicked' <=> Panicked
  <2>1. \A u \in Threads : pc'[u] = pc[u] \/ (u = t /\ pc'[u] \in {"recv", "idle"})
    BY <1>1 DEF Proceed, ThreadTypes
  <2> QED BY <1>0, <2>1 DEF Panicked, Threads
<1>3. CASE conn' = conn
  <2>1. Lives' = Lives
    BY <1>3 DEF Lives
  <2> QED BY <1>2, <2>1, Invisible
<1>4. CASE /\ Head(todo[t]) \in FinalStates
           /\ conn' = [conn EXCEPT ![cur[t]] = Head(todo[t])]
  <2> DEFINE how == Head(todo[t])
  <2>1. how = todo[t][1] /\ 1 \in 1 .. Len(todo[t])
    BY <1>0
  <2>2. Has(todo[t], how) /\ ~NoEnd(todo[t])
    BY <1>4, <2>1 DEF Has, NoEnd
  <2>3. cur[t] \in Conns /\ conn[cur[t]] = "held"
    <3>1. todo[t] \notin Seq({"log", "notice"})
      BY <1>4, <2>1 DEF FinalStates
    <3> QED BY <1>0, <2>2, <3>1 DEF Handler
  <2> HIDE DEF how
  <2>4. how \in FinalStates /\ conn' = [conn EXCEPT ![cur[t]] = how]
    BY <1>4 DEF how
  <2>5. Lives[cur[t]] = "taken"
    BY <2>3 DEF Lives
  <2>6. Lives' = [Lives EXCEPT ![cur[t]] = how]
    <3>1. how \notin {"held", "queued"}
      BY <2>4 DEF FinalStates
    <3> QED BY <2>3, <2>4, <3>1, LivesOf
  <2>7. how = "refused" => shutting_down \/ Panicked
    BY <2>2 DEF Reasons
  <2>8. how = "rejected" => Cardinality({d \in Conns \ {cur[t]} : Lives[d] # "new"}) >= QueueCap
    <3> SUFFICES ASSUME how = "rejected"
                 PROVE  Cardinality({d \in Conns \ {cur[t]} : Lives[d] # "new"}) >= QueueCap
      OBVIOUS
    <3>1. t \notin Workers
      <4>1. ASSUME t \in Workers PROVE FALSE
        <5>1. todo[t] \in Seq(Ops \ {"count", "rejected"})
          BY <4>1 DEF Rejecting
        <5>2. todo[t][1] # "rejected"
          BY <2>1, <5>1
        <5> QED BY <2>1, <5>2
      <4> QED BY <4>1
    <3>2. t \in Submitters
      BY <3>1 DEF Threads
    <3>3. Cardinality(Others(cur[t])) >= QueueCap
      BY <2>2, <3>2 DEF Reasons
    <3>4. Others(cur[t]) = {d \in Conns \ {cur[t]} : Lives[d] # "new"}
      BY DEF Others, Lives
    <3> QED BY <3>3, <3>4
  <2>9. PICK c \in Conns, h \in FinalStates : c = cur[t] /\ h = how
    BY <2>3, <2>4
  <2>10. /\ Lives[c] = "taken" /\ Lives' = [Lives EXCEPT ![c] = h]
         /\ h = "refused" => shutting_down \/ Panicked
         /\ h = "rejected" => Cardinality({d \in Conns \ {c} : Lives[d] # "new"}) >= QueueCap
    BY <2>5, <2>6, <2>7, <2>8, <2>9
  <2>11. Life!Settle(c)
    BY <1>2, <2>10, SettleStep
  <2> QED BY <2>11
<1> QED BY <1>1, <1>3, <1>4

\* A panic is a crash that loses what was queued, and what the worker held.
LEMMA PanicLife ==
    ASSUME Base, NEW w \in Workers, WorkerPanics(w), UNCHANGED shutting_down, Ended' <=> Ended
    PROVE  \E lost \in SUBSET Life!Taken : Life!Crash(lost)
<1> USE DEF Base, PlaceInv
<1> DEFINE gone == {c \in Conns : c = cur[w] \/ \E i \in DOMAIN queue[w] : queue[w][i] = c}
           lost == {c \in gone : conn[c] \notin FinalStates}
           n == Len(queue[w])
           f == [i \in 0 .. n |-> IF i = 0 THEN cur[w] ELSE queue[w][i]]
           img == {f[i] : i \in 0 .. n}
<1>1. conn' = [c \in Conns |-> IF c \in gone /\ conn[c] \notin FinalStates THEN "closed" ELSE conn[c]]
  BY DEF WorkerPanics
<1>2. n \in Nat /\ n <= QueueCap /\ DOMAIN queue[w] = 1 .. n /\ QueueCap \in Nat
  BY PoolAssumption DEF ThreadTypes, Places
<1>3. ASSUME NEW c \in lost PROVE conn[c] \in {"held", "queued"}
  <2>1. c \in Conns /\ conn[c] \in {"new", "held", "queued"}
    BY DEF ThreadTypes
  <2>2. CASE c = cur[w]
    BY <2>1, <2>2, ConnAssumption DEF Places, Threads
  <2>3. CASE \E i \in DOMAIN queue[w] : queue[w][i] = c
    <3>1. PICK i \in 1 .. n : queue[w][i] = c
      BY <1>2, <2>3
    <3>2. InSlot(c, w, i) /\ i \in Nat
      BY <1>2, <3>1 DEF InSlot
    <3> QED BY <2>1, <3>2 DEF Places
  <2> QED BY <2>2, <2>3
<1>4. lost \subseteq img
  <2> SUFFICES ASSUME NEW c \in lost PROVE c \in img
    OBVIOUS
  <2>1. CASE c = cur[w]
    <3>1. 0 \in 0 .. n /\ f[0] = cur[w]
      BY <1>2
    <3> QED BY <2>1, <3>1
  <2>2. CASE \E i \in DOMAIN queue[w] : queue[w][i] = c
    <3>1. PICK i \in 1 .. n : queue[w][i] = c
      BY <1>2, <2>2
    <3>2. i \in 0 .. n /\ f[i] = c
      BY <1>2, <3>1
    <3> QED BY <3>2
  <2> QED BY <2>1, <2>2
<1>5. f \in Surjection(0 .. n, img)
  <2>1. f \in [0 .. n -> img] /\ \A y \in img : \E i \in 0 .. n : f[i] = y
    OBVIOUS
  <2> QED BY <2>1 DEF Surjection
<1> HIDE DEF f, img, n
<1>6. IsFiniteSet(0 .. n) /\ Cardinality(0 .. n) = n + 1
  BY <1>2, FS_Interval
<1>7. IsFiniteSet(img) /\ Cardinality(img) <= n + 1 /\ Cardinality(img) \in Nat
  BY <1>5, <1>6, FS_Surjection, FS_CardinalityType
<1>8. Cardinality(lost) <= Cardinality(img) /\ Cardinality(lost) \in Nat
  <2> HIDE DEF lost
  <2> QED BY <1>4, <1>7, FS_Subset, FS_CardinalityType
<1>9. Cardinality(lost) <= QueueCap + 1
  <2> HIDE DEF lost
  <2> QED BY <1>2, <1>7, <1>8
<1>10. Lives' = [c \in Conns |-> IF c \in lost THEN "closed" ELSE Lives[c]]
  BY <1>1 DEF Lives
<1>11. lost \subseteq {c \in Conns : Lives[c] = "taken"}
  BY <1>3 DEF Lives
<1>12. Panicked'
  BY DEF WorkerPanics, Panicked, ThreadTypes, Threads
<1> HIDE DEF lost, gone
<1>13. PICK L : L = lost
  OBVIOUS
<1>14. Life!Crash(L)
  <2>1. Life!Cardinality(L) <= QueueCap + 1
    BY <1>9, <1>13, LifeCardinality
  <2>2. Lives' = [c \in Conns |-> IF c \in L THEN "closed" ELSE Lives[c]]
    BY <1>10, <1>13
  <2> QED BY <1>12, <2>1, <2>2 DEF Life!Crash, Lives, Panicked, Ended
<1>15. L \in SUBSET Life!Taken
  BY <1>11, <1>13 DEF Life!Taken, Lives
<1> QED BY <1>14, <1>15

LEMMA ThreadLife ==
    ASSUME Base, Order, Reasons, NEW t \in Threads, ThreadStep(t)
    PROVE  [Life!Next]_(Life!vars)
<1> USE DEF Base, PlaceInv
<1>1. UNCHANGED shutting_down /\ (Ended' <=> Ended)
  BY ThreadStepKeeps DEF ThreadStep, flag_vars, owner_vars, Ended
<1>2. CASE DoOp(t)
  <2>1. UNCHANGED Life!vars \/ \E c \in Conns : Life!Settle(c)
    BY <1>1, <1>2, DoOpLife
  <2> QED BY <2>1 DEF Life!Next
<1>3. CASE t \in Workers /\ WorkerPanics(t)
  <2>1. \E lost \in SUBSET Life!Taken : Life!Crash(lost)
    BY <1>1, <1>3, PanicLife
  <2> QED BY <2>1 DEF Life!Next
<1>4. ASSUME \E s \in {"idle", "check", "send", "work", "recv", "exited"} :
                 pc' = [pc EXCEPT ![t] = s], pc[t] # "panicked"
      PROVE  Panicked' <=> Panicked
  <2>1. \A u \in Threads : pc'[u] = "panicked" <=> pc[u] = "panicked"
    BY <1>4 DEF ThreadTypes
  <2> QED BY <2>1 DEF Panicked, Threads
<1>5. ASSUME NEW c \in Conns, Accept(t, c) PROVE Life!Take(c)
  <2>1. conn[c] = "new" /\ owner = "running" /\ conn' = [conn EXCEPT ![c] = "held"]
        /\ pc' = [pc EXCEPT ![t] = "check"] /\ pc[t] = "idle"
    BY <1>5 DEF Accept
  <2>2. Panicked' <=> Panicked
    BY <1>4, <2>1
  <2>3. Lives[c] = "new" /\ ~Ended
    BY <2>1 DEF Lives, Ended
  <2>4. Lives' = [Lives EXCEPT ![c] = "taken"]
    BY <2>1, LivesOf
  <2> QED BY <1>1, <2>2, <2>3, <2>4 DEF Life!Take, Lives, Panicked, Ended
<1>6. CASE AcceptTimeoutFails(t) \/ AcceptError(t) \/ SubmitCheck(t) \/ WorkerExit(t) \/ WorkerCheck(t)
  <2>1. conn' = conn /\ pc[t] # "panicked"
        /\ \E s \in {"work", "send", "exited"} : pc' = [pc EXCEPT ![t] = s]
    BY <1>6 DEF AcceptTimeoutFails, AcceptError, SubmitCheck, WorkerExit, WorkerCheck
  <2>2. Lives' = Lives
    BY <2>1 DEF Lives
  <2>3. Panicked' <=> Panicked
    BY <1>4, <2>1
  <2> QED BY <1>1, <2>2, <2>3, Invisible
<1>7. CASE SubmitSend(t)
  <2>1. pc[t] = "send" /\ \E s \in {"idle", "work"} : pc' = [pc EXCEPT ![t] = s]
    BY <1>7 DEF SubmitSend
  <2>2. cur[t] \in Conns /\ conn[cur[t]] = "held"
    BY <2>1 DEF Handlers, Handler
  <2>3. conn' = conn \/ conn' = [conn EXCEPT ![cur[t]] = "queued"]
    BY <1>7 DEF SubmitSend
  <2>4. Lives' = Lives
    BY <2>2, <2>3 DEF Lives, ThreadTypes
  <2>5. Panicked' <=> Panicked
    BY <1>4, <2>1
  <2> QED BY <1>1, <2>4, <2>5, Invisible
<1>8. CASE t \in Workers /\ WorkerRecv(t)
  <2> DEFINE c == Head(queue[t])
  <2>1. pc[t] = "recv" /\ queue[t] # <<>> /\ conn' = [conn EXCEPT ![c] = "held"]
        /\ pc' = [pc EXCEPT ![t] = "check"]
    BY <1>8 DEF WorkerRecv
  <2>2. InSlot(c, t, 1) /\ c \in Conns /\ 1 \in Nat
    BY <1>8, <2>1 DEF InSlot, ThreadTypes
  <2> HIDE DEF c
  <2>3. conn[c] = "queued"
    BY <1>8, <2>2 DEF Places
  <2>4. Lives' = Lives
    BY <2>1, <2>2, <2>3 DEF Lives, ThreadTypes
  <2>5. Panicked' <=> Panicked
    BY <1>4, <2>1
  <2> QED BY <1>1, <2>4, <2>5, Invisible
<1>9. CASE \E c \in Conns : Accept(t, c)
  BY <1>5, <1>9 DEF Life!Next
<1> QED BY <1>2, <1>3, <1>6, <1>7, <1>8, <1>9 DEF ThreadStep, Submitter, Worker

\* The other threads: the flag is raised, a shutdown ends, or nothing shows.
LEMMA OtherLife ==
    ASSUME Base, Order, Reasons,
           \/ Writer \/ Aggregator \/ HealthLogs \/ HealthExit \/ Embedder
           \/ OwnerStep \/ UNCHANGED vars
    PROVE  [Life!Next]_(Life!vars)
<1>1. UNCHANGED <<conn, pc>>
  BY QuietSteps DEF conn_vars, OwnerStep
<1>2. Lives' = Lives /\ (Panicked' <=> Panicked)
  BY <1>1 DEF Lives, Panicked
<1>3. shutting_down' = shutting_down \/ shutting_down' = TRUE
  BY OtherReasons, Zenon
<1>4. CASE JoinLog
  <2>1. owner = "join_log" /\ owner' = "done" /\ lpc = "exited" /\ shutting_down' = shutting_down
    BY <1>4 DEF JoinLog, flag_vars
  <2>2. shutting_down
    BY <2>1 DEF Order, Flags
  <2>3. /\ \A w \in Workers : pc[w] = "exited"
        /\ \A s \in Submitters : pc[s] = "idle"
    BY <2>1 DEF Order, Joins
  <2>4. ~Panicked
    BY <2>3 DEF Panicked
  <2>5. \A c \in Conns : Lives[c] # "taken"
    <3>1. \A t \in Threads : cur[t] = NoConn
      BY <2>3 DEF Base, PlaceInv, Handlers, Handler, Threads
    <3>2. \A w \in Workers : queue[w] = <<>>
      BY <2>3 DEF Base, ExitedMeansDrained, Dead
    <3>3. \A c \in Conns : conn[c] # "held"
      BY <3>1, ConnAssumption DEF Base, PlaceInv, Places
    <3>4. \A c \in Conns : conn[c] # "queued"
      BY <3>2 DEF Base, PlaceInv, Places, InSlot
    <3>5. \A c \in Conns : conn[c] # "taken"
      BY DEF Base, TypeOK, ThreadTypes, FinalStates
    <3> QED BY <3>3, <3>4, <3>5 DEF Lives
  <2>6. Life!Taken = {}
    BY <2>5 DEF Life!Taken, Lives
  <2>7. Life!End
    BY <1>2, <2>1, <2>2, <2>4, <2>6 DEF Life!End, Lives, Panicked
  <2> QED BY <2>7 DEF Life!Next
<1>5. CASE ~JoinLog
  <2>1. Ended' <=> Ended
    BY <1>5 DEF Ended, Writer, LogWrite, LogExit, Aggregator, MetricsRecv, MetricsLog,
         MetricsSnapshot, MetricsExit, HealthLogs, HealthExit, RaiseFlag, StopAccepting, PoolDropped,
         Embedder, EmbedderLogs, Keep, LetGo, BeginShutdown, ShutdownThreads, Owner, HealthStopped, GraceOver,
         JoinWorkers, JoinFails, Detach, JoinMetrics, ShutdownLog, vars, owner_vars, OwnerStep
  <2>2. CASE shutting_down' = shutting_down
    BY <1>2, <2>1, <2>2, Invisible
  <2>3. CASE shutting_down' = TRUE
    <3>1. Life!Stop
      BY <1>2, <2>1, <2>3 DEF Life!Stop, Lives, Panicked, Ended
    <3> QED BY <3>1 DEF Life!Next
  <2> QED BY <1>3, <2>2, <2>3, Zenon
<1> QED BY <1>4, <1>5

\* The pool keeps the safety part of ConnectionLife, for any numbers of workers,
\* submitters and connections and any capacities: every step of a thread, a panic,
\* the log and metrics threads or the owner is, to a client, one connection taken
\* or answered once and for a reason, a crash that loses at most what one worker
\* had, the raising of the flag, the end of a clean shutdown, or nothing.
THEOREM PoolKeepsItsPromise == Spec => Life!Init /\ [][Life!Next]_(Life!vars)
<1>1. Init => Life!Init
  <2> SUFFICES ASSUME Init PROVE Life!Init
    OBVIOUS
  <2>1. Lives = [c \in Conns |-> "new"]
    BY DEF Init, Lives
  <2>2. ~Panicked
    BY DEF Init, Panicked, Threads
  <2>3. shutting_down = FALSE /\ owner # "done"
    BY DEF Init
  <2> QED BY <2>1, <2>2, <2>3 DEF Life!Init, Lives, Panicked
<1>2. Base /\ Order /\ Reasons /\ [Next]_vars => [Life!Next]_(Life!vars)
  BY StepKinds, ThreadLife, OtherLife
<1> QED BY <1>1, <1>2, BaseInvariant, OrderInvariant, ReasonsInvariant, PTL DEF Spec

=============================================================================
