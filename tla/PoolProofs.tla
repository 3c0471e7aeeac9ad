----------------------------- MODULE PoolProofs -----------------------------
(***************************************************************************)
(* Proofs about module Pool, for any numbers of workers, submitters and    *)
(* connections, any capacities of the channels and any number of panics.   *)
(*                                                                         *)
(* A thread that has left its loop has left nothing in its channel, and    *)
(* nobody can send to it again.  Two things carry the argument.  A send    *)
(* needs a live receiver, so nothing is put in a channel after its thread  *)
(* left; and senders are only ever dropped, directly or with the Context   *)
(* that the last worker lets go, so a closed channel stays closed.         *)
(*                                                                         *)
(* A connection is lost when the thread that holds it returns to its loop  *)
(* without having answered it, and served twice when two threads or slots  *)
(* have it.  The first needs to know what is left of every handler:        *)
(* exactly one of its effects ends the connection, and it is still to come *)
(* as long as the connection is open (Handlers).  The second is an         *)
(* injectivity that every hand-over keeps (Places).  The types and the     *)
(* count of rejections rest on both.                                       *)
(***************************************************************************)
EXTENDS Pool, FiniteSetTheorems, SequenceTheorems, TLAPS

PcStates == {"idle", "recv", "check", "send", "work", "exited", "panicked"}

\* What the proof needs to know of the values of the variables.
Shape ==
    /\ pc \in [Threads -> PcStates]
    /\ slot \in [Submitters -> Workers]
    /\ dispatch_index \in Nat
    /\ queue = [w \in Workers |-> queue[w]]
    /\ SenderTypes

DrainInv == Shape /\ ExitedMeansDrained

\* Senders are only dropped, or cloned while there is one; a dead thread stays dead.
OnlyCloses ==
    /\ \A w \in Workers : Dead(w) => Dead(w)'
    /\ log_tx' => log_tx
    /\ metrics_tx' => metrics_tx
    /\ attached' => attached
    /\ pool_ctx' => pool_ctx
    /\ "context" \in kept' => "context" \in kept \/ pool_ctx
    /\ "log_tx" \in kept' => "log_tx" \in kept \/ log_tx
    /\ health' = "up" => health = "up"
    /\ mpc = "exited" => mpc' = "exited"
    /\ lpc = "exited" => lpc' = "exited"

\* A channel is empty and closed when its thread leaves, and nothing is put
\* in it afterwards.
LeavesDrained ==
    /\ \A w \in Workers : Dead(w)' => queue'[w] = <<>>
    /\ mpc' = "exited" => \/ mpc = "exited" /\ metrics_q' = metrics_q
                          \/ metrics_q' = <<>> /\ ~MetricsOpen
    /\ lpc' = "exited" => \/ lpc = "exited" /\ log_q' = log_q
                          \/ log_q' = <<>> /\ ~LogOpen

-----------------------------------------------------------------------------
(* The two facts are enough *)

\* A Context that is alive after a step was alive before it.
LEMMA ContextStaysDead == ASSUME OnlyCloses PROVE ContextAlive' => ContextAlive
BY DEF OnlyCloses, ContextAlive

\* A closed channel stays closed.
LEMMA ChannelsStayClosed ==
    ASSUME OnlyCloses
    PROVE  (LogOpen' => LogOpen) /\ (MetricsOpen' => MetricsOpen)
<1>1. LogOpen' => LogOpen  BY ContextStaysDead DEF OnlyCloses, LogOpen
<1>2. MetricsOpen' => MetricsOpen  BY ContextStaysDead DEF OnlyCloses, MetricsOpen
<1>. QED  BY <1>1, <1>2

\* Therefore what has been drained stays drained.
LEMMA DrainedStays ==
    ASSUME ExitedMeansDrained, OnlyCloses, LeavesDrained
    PROVE  ExitedMeansDrained'
<1>1. (LogOpen' => LogOpen) /\ (MetricsOpen' => MetricsOpen)  BY ChannelsStayClosed
<1>2. \A w \in Workers : Dead(w)' => queue'[w] = <<>>  BY DEF LeavesDrained
<1>3. mpc' = "exited" => metrics_q' = <<>> /\ ~MetricsOpen'
  BY <1>1 DEF ExitedMeansDrained, LeavesDrained
<1>4. lpc' = "exited" => log_q' = <<>> /\ ~LogOpen'
  BY <1>1 DEF ExitedMeansDrained, LeavesDrained
<1>. QED  BY <1>2, <1>3, <1>4 DEF ExitedMeansDrained

-----------------------------------------------------------------------------
(* The steps *)

\* What a step of a submitter, of a worker or of the health thread leaves alone.
ThreadKeeps == UNCHANGED <<sender_vars, flag_vars, mpc, lpc, health, kept>>

\* A send to the log or to the metrics channel needs a live receiver.
Sends ==
    /\ lpc = "exited" => log_q' = log_q
    /\ mpc = "exited" => metrics_q' = metrics_q

\* A step that changes the state of thread t only, out of its loop at most if
\* its queue is left empty, and adds to the queues of live workers only.
Moves(t) ==
    /\ pc' \in [Threads -> PcStates]
    /\ slot' \in [Submitters -> Workers]
    /\ dispatch_index' \in Nat
    /\ queue' = [w \in Workers |-> queue'[w]]
    /\ \A u \in Threads \ {t} : pc'[u] = pc[u]
    /\ ~Dead(t)
    /\ Dead(t)' /\ t \in Workers => queue'[t] = <<>>
    /\ \A w \in Workers \ {t} : Dead(w) => queue'[w] = queue[w]

\* Such a step keeps the invariant.
LEMMA MovesDrain ==
    ASSUME DrainInv, NEW t \in Threads, Moves(t), ThreadKeeps, Sends
    PROVE  DrainInv'
<1>1. Shape'
  BY DEF Moves, ThreadKeeps, Shape, DrainInv, SenderTypes, sender_vars, flag_vars
<1>2. \A w \in Workers : Dead(w) => Dead(w)'
  BY DEF Moves, Dead, Threads
<1>3. OnlyCloses
  BY <1>2 DEF OnlyCloses, ThreadKeeps, sender_vars
<1>4. \A w \in Workers : Dead(w)' => queue'[w] = <<>>
  BY DEF Moves, Dead, Threads, DrainInv, ExitedMeansDrained
<1>5. LeavesDrained
  BY <1>4 DEF LeavesDrained, Sends, ThreadKeeps
<1>. QED  BY <1>1, <1>3, <1>5, DrainedStays DEF DrainInv

\* A thread inside a handler stays in it or returns to its loop.
LEMMA ProceedMoves ==
    ASSUME Shape, NEW t \in Threads, NEW rest, pc[t] = "work", Proceed(t, rest),
           UNCHANGED <<slot, queue, dispatch_index>>
    PROVE  Moves(t)
<1>1. CASE rest # <<>>  BY <1>1 DEF Proceed, Moves, Shape, Dead
<1>2. CASE rest = <<>>  BY <1>2 DEF Proceed, Moves, Shape, Dead, PcStates
<1>. QED  BY <1>1, <1>2

\* One effect of a handler.
LEMMA DoOpDrain == ASSUME DrainInv, NEW t \in Threads, DoOp(t) PROVE DrainInv'
<1>1. PICK rest : Proceed(t, rest)  BY DEF DoOp, EmitLog
<1>2. pc[t] = "work" /\ UNCHANGED <<slot, queue, dispatch_index>>  BY DEF DoOp
<1>3. Moves(t)  BY <1>1, <1>2, ProceedMoves DEF DrainInv
<1>4. ThreadKeeps
  BY DEF DoOp, ThreadKeeps, sender_vars, flag_vars, writer_vars, agg_vars, env_vars
<1>5. Sends
  BY DEF DoOp, Sends, EmitLog, SendLog, LogHasRoom, RecordMetrics, stat_vars
<1>. QED  BY <1>3, <1>4, <1>5, MovesDrain

\* The steps of a submitter.
LEMMA SubmitterDrain ==
    ASSUME DrainInv, NEW s \in Submitters, Submitter(s)
    PROVE  DrainInv'
<1>. USE DEF DrainInv
<1>1. s \in Threads /\ s \notin Workers  BY ThreadAssumption DEF Threads
<1>2. CASE DoOp(s)  BY <1>1, <1>2, DoOpDrain
<1>3. ASSUME ~DoOp(s) PROVE ThreadKeeps /\ Sends
  BY <1>3 DEF Submitter, Accept, AcceptTimeoutFails, AcceptError, SubmitCheck, SubmitSend,
         ThreadKeeps, Sends, obs_vars, stat_vars, writer_vars, agg_vars, env_vars
<1>4. ASSUME NEW c \in Conns, Accept(s, c) PROVE Moves(s)
  BY <1>1, <1>4 DEF Accept, Moves, Shape, Dead, PcStates
<1>5. ASSUME AcceptTimeoutFails(s) PROVE Moves(s)
  BY <1>1, <1>5 DEF AcceptTimeoutFails, Moves, Shape, Dead, PcStates
<1>6. ASSUME AcceptError(s) PROVE Moves(s)
  BY <1>1, <1>6 DEF AcceptError, Moves, Shape, Dead, PcStates
<1>7. ASSUME SubmitCheck(s) PROVE Moves(s)
  <2>1. ~(~shutting_down /\ txs) => Moves(s)
    BY <1>1, <1>7 DEF SubmitCheck, Moves, Shape, Dead, PcStates
  <2>2. DrawnSlot \in Workers
    BY PoolAssumption DEF Shape, Workers, DrawnSlot
  <2>3. ~shutting_down /\ txs => Moves(s)
    BY <1>1, <1>7, <2>2 DEF SubmitCheck, Moves, Shape, Dead, PcStates
  <2>. QED  BY <2>1, <2>3
<1>8. ASSUME SubmitSend(s) PROVE Moves(s)
  <2>1. slot[s] \in Workers /\ pc[s] = "send"  BY <1>8 DEF Shape, SubmitSend
  <2>2. CASE ~Dead(slot[s]) /\ ~QueueFull(slot[s])
    BY <1>1, <1>8, <2>1, <2>2 DEF SubmitSend, Moves, Shape, Dead, PcStates
  <2>3. CASE UNCHANGED queue /\ pc' = [pc EXCEPT ![s] = "work"]
    BY <1>1, <1>8, <2>1, <2>3 DEF SubmitSend, Moves, Shape, Dead, PcStates
  <2>. QED  BY <1>8, <2>2, <2>3 DEF SubmitSend
<1>. QED
  BY <1>1, <1>2, <1>3, <1>4, <1>5, <1>6, <1>7, <1>8, MovesDrain DEF Submitter

\* The steps of a worker.
LEMMA WorkerDrain ==
    ASSUME DrainInv, NEW w \in Workers, Worker(w) \/ WorkerPanics(w)
    PROVE  DrainInv'
<1>. USE DEF DrainInv
<1>1. w \in Threads  BY DEF Threads
<1>2. CASE DoOp(w)  BY <1>1, <1>2, DoOpDrain
<1>3. ASSUME ~DoOp(w) PROVE ThreadKeeps /\ Sends
  BY <1>3 DEF Worker, WorkerRecv, WorkerExit, WorkerCheck, WorkerPanics,
         ThreadKeeps, Sends, obs_vars, stat_vars, writer_vars, agg_vars, env_vars
<1>4. ASSUME WorkerRecv(w) PROVE Moves(w)
  BY <1>1, <1>4 DEF WorkerRecv, Moves, Shape, Dead, PcStates
<1>5. ASSUME WorkerExit(w) PROVE Moves(w)
  BY <1>1, <1>5 DEF WorkerExit, Disconnected, Moves, Shape, Dead, PcStates
<1>6. ASSUME WorkerCheck(w) PROVE Moves(w)
  BY <1>1, <1>6 DEF WorkerCheck, Moves, Shape, Dead, PcStates
<1>7. ASSUME WorkerPanics(w) PROVE Moves(w)
  BY <1>1, <1>7 DEF WorkerPanics, Moves, Shape, Dead, PcStates
<1>. QED
  BY <1>1, <1>2, <1>3, <1>4, <1>5, <1>6, <1>7, MovesDrain DEF Worker

\* The steps of the log writer, the aggregator, the health thread and the owner
\* touch neither the threads nor their queues.
LEMMA OtherDrain ==
    ASSUME DrainInv, UNCHANGED <<pc, slot, queue, dispatch_index>>, SenderTypes', OnlyCloses,
           mpc' = "exited" => \/ mpc = "exited" /\ metrics_q' = metrics_q
                              \/ metrics_q' = <<>> /\ ~MetricsOpen,
           lpc' = "exited" => \/ lpc = "exited" /\ log_q' = log_q
                              \/ log_q' = <<>> /\ ~LogOpen
    PROVE  DrainInv'
<1>1. Shape'  BY DEF DrainInv, Shape
<1>2. LeavesDrained  BY DEF LeavesDrained, DrainInv, ExitedMeansDrained, Dead
<1>. QED  BY <1>1, <1>2, DrainedStays DEF DrainInv

\* The steps of the log writer and of the aggregator.
LEMMA WriterDrain == ASSUME DrainInv, Writer \/ Aggregator PROVE DrainInv'
<1>1. UNCHANGED <<pc, slot, queue, dispatch_index, sender_vars, flag_vars, health, kept>>
  BY DEF Writer, LogWrite, LogExit, Aggregator, MetricsRecv, MetricsLog, MetricsSnapshot,
         MetricsExit, conn_vars, env_vars
<1>2. SenderTypes'
  BY <1>1 DEF DrainInv, Shape, SenderTypes, sender_vars, flag_vars
<1>3. OnlyCloses
  BY <1>1 DEF Writer, LogWrite, LogExit, Aggregator, MetricsRecv, MetricsLog,
         MetricsSnapshot, MetricsExit, OnlyCloses, Dead, sender_vars, agg_vars, writer_vars
<1>4. mpc' = "exited" => \/ mpc = "exited" /\ metrics_q' = metrics_q
                         \/ metrics_q' = <<>> /\ ~MetricsOpen
  BY DEF Writer, LogWrite, LogExit, Aggregator, MetricsRecv, MetricsLog,
         MetricsSnapshot, MetricsExit, agg_vars, stat_vars
<1>5. lpc' = "exited" => \/ lpc = "exited" /\ log_q' = log_q
                         \/ log_q' = <<>> /\ ~LogOpen
  BY DEF Writer, LogWrite, LogExit, Aggregator, MetricsRecv, MetricsLog,
         MetricsSnapshot, MetricsExit, writer_vars, SendLog, LogHasRoom
<1>. QED  BY <1>1, <1>2, <1>3, <1>4, <1>5, OtherDrain

\* The steps of the health thread.
LEMMA HealthDrain == ASSUME DrainInv, HealthLogs \/ HealthExit PROVE DrainInv'
<1>1. UNCHANGED <<pc, slot, queue, dispatch_index, sender_vars, flag_vars, mpc, lpc, metrics_q,
                  kept>>
  BY DEF HealthLogs, HealthExit, conn_vars, obs_vars, agg_vars, writer_vars, stat_vars
<1>2. SenderTypes'
  BY <1>1 DEF DrainInv, Shape, SenderTypes, sender_vars, flag_vars
<1>3. OnlyCloses
  BY <1>1 DEF HealthLogs, HealthExit, OnlyCloses, Dead, sender_vars
<1>4. lpc = "exited" => log_q' = log_q
  BY DEF HealthLogs, HealthExit, SendLog, LogHasRoom, obs_vars
<1>. QED  BY <1>1, <1>2, <1>3, <1>4, OtherDrain

\* The embedder takes handles while the pool has them, lets go of them, and sends
\* what the log thread can take.
LEMMA EmbedderDrain == ASSUME DrainInv, Embedder PROVE DrainInv'
<1> USE DEF Embedder, EmbedderLogs, Keep, LetGo, Lendable
<1>1. UNCHANGED <<pc, slot, queue, dispatch_index, sender_vars, flag_vars, mpc, lpc, metrics_q,
                  health>>
  BY DEF conn_vars, obs_vars, agg_vars, writer_vars, stat_vars
<1>2. SenderTypes'
  BY <1>1 DEF DrainInv, Shape, SenderTypes, sender_vars, flag_vars
<1>3. /\ "context" \in kept' => "context" \in kept \/ pool_ctx
      /\ "log_tx" \in kept' => "log_tx" \in kept \/ log_tx
  <2>1. CASE EmbedderLogs
    BY <2>1
  <2>2. ASSUME NEW h \in MayKeep, Keep(h)
        PROVE  kept' = kept \cup {h} /\ Lendable(h)
    BY <2>2
  <2>3. ASSUME NEW h \in MayKeep, LetGo(h)
        PROVE  kept' \subseteq kept
    BY <2>3
  <2> QED BY <2>1, <2>2, <2>3
<1>4. lpc = "exited" => log_q' = log_q
  BY DEF SendLog, LogHasRoom, obs_vars
<1>5. OnlyCloses  BY <1>1, <1>3 DEF OnlyCloses, Dead, sender_vars
<1>. QED  BY <1>1, <1>2, <1>4, <1>5, OtherDrain

\* What the owner, and whoever raises the flag, do.
OwnerStep ==
    \/ RaiseFlag \/ StopAccepting \/ PoolDropped
    \/ \E how \in {"shutdown", "drop"} : BeginShutdown(how)
    \/ ShutdownThreads \/ Owner

\* The steps of the owner drop senders, and send the last snapshot.
LEMMA OwnerDrain == ASSUME DrainInv, OwnerStep PROVE DrainInv'
<1>. USE DEF OwnerStep, RaiseFlag, StopAccepting, PoolDropped, DropPool, BeginShutdown, ShutdownThreads, Owner, HealthStopped,
             GraceOver, JoinWorkers, JoinFails, Detach, JoinMetrics, ShutdownLog, JoinLog
<1>1. UNCHANGED <<pc, slot, queue, dispatch_index, mpc, lpc, metrics_q, health, kept>>
  BY DEF conn_vars, obs_vars, agg_vars, writer_vars, stat_vars, env_vars
<1>2. SenderTypes'
  BY ZenonT(40) DEF DrainInv, Shape, SenderTypes, sender_vars, flag_vars, LogHasRoom, Attached
<1>3. (log_tx' => log_tx) /\ (metrics_tx' => metrics_tx) /\ (pool_ctx' => pool_ctx)
      /\ (attached' => attached)
  <2>1. CASE UNCHANGED sender_vars  BY <2>1 DEF sender_vars
  <2>2. CASE Detach
    <3>1. log_tx' = log_tx /\ pool_ctx' = pool_ctx /\ metrics_tx' = FALSE  BY <2>2
    <3>2. attached' = (attached /\ ~ContextUnique)  BY <2>2 DEF Attached
    <3>. QED  BY <3>1, <3>2
  <2>3. CASE ShutdownLog
    <3>1. log_tx' = FALSE /\ metrics_tx' = metrics_tx /\ attached' = attached  BY <2>3
    <3>2. pool_ctx' = FALSE \/ pool_ctx' = pool_ctx  BY <2>3
    <3>. QED  BY <3>1, <3>2
  <2>4. CASE /\ log_tx' = FALSE /\ metrics_tx' = FALSE /\ pool_ctx' = FALSE
             /\ attached' = attached
    BY <2>4
  <2>. QED  BY <2>1, <2>2, <2>3, <2>4
<1>4. OnlyCloses  BY <1>1, <1>3 DEF OnlyCloses, Dead
<1>5. lpc = "exited" => log_q' = log_q
  BY DEF SendLog, LogHasRoom, obs_vars
<1>. QED  BY <1>1, <1>2, <1>4, <1>5, OtherDrain

-----------------------------------------------------------------------------

\* ExitedMeansDrained for every instance: whatever the order in which submit,
\* the workers, their panics and shutdown_threads interleave, no connection,
\* statistic or log record is left in, or put in, the channel of a thread that
\* is gone.  (The queue of a worker that panics is closed with its receiver.)
THEOREM NothingAbandoned == Spec => []ExitedMeansDrained
<1>1. Init => DrainInv
  <2>. SUFFICES ASSUME Init PROVE DrainInv  OBVIOUS
  <2>1. 0 \in Workers  BY PoolAssumption DEF Workers
  <2>2. Shape  BY <2>1 DEF Init, Shape, PcStates, SenderTypes
  <2>3. ExitedMeansDrained  BY DEF Init, ExitedMeansDrained
  <2>. QED  BY <2>2, <2>3 DEF DrainInv
<1>2. DrainInv /\ [Next]_vars => DrainInv'
  <2>. SUFFICES ASSUME DrainInv, [Next]_vars PROVE DrainInv'  OBVIOUS
  <2>1. CASE \E s \in Submitters : Submitter(s)  BY <2>1, SubmitterDrain
  <2>2. CASE \E w \in Workers : Worker(w) \/ WorkerPanics(w)  BY <2>2, WorkerDrain
  <2>3. CASE Writer \/ Aggregator  BY <2>3, WriterDrain
  <2>4. CASE HealthLogs \/ HealthExit  BY <2>4, HealthDrain
  <2>5. CASE OwnerStep  BY <2>5, OwnerDrain
  <2>7. CASE Embedder  BY <2>7, EmbedderDrain
  <2>6. CASE UNCHANGED vars
    <3>1. UNCHANGED <<pc, slot, queue, dispatch_index, sender_vars, flag_vars, mpc, lpc,
                      metrics_q, log_q, health, kept>>
      BY <2>6 DEF vars, conn_vars, obs_vars, agg_vars, writer_vars, stat_vars, env_vars
    <3>2. SenderTypes'
      BY <3>1 DEF DrainInv, Shape, SenderTypes, sender_vars, flag_vars
    <3>3. OnlyCloses  BY <3>1 DEF OnlyCloses, Dead, sender_vars
    <3>. QED  BY <3>1, <3>2, <3>3, OtherDrain
  <2>. QED  BY <2>1, <2>2, <2>3, <2>4, <2>5, <2>6, <2>7 DEF Next, OwnerStep
<1>3. DrainInv => ExitedMeansDrained  BY DEF DrainInv
<1>. QED  BY <1>1, <1>2, <1>3, PTL DEF Spec

-----------------------------------------------------------------------------
(* Where connections are *)

\* The effects q ends the connection exactly once, or not at all.
OneEnd(q) == \E i \in 1 .. Len(q) :
                 /\ q[i] \in FinalStates
                 /\ \A j \in 1 .. Len(q) : q[j] \in FinalStates => j = i
NoEnd(q) == \A j \in 1 .. Len(q) : q[j] \notin FinalStates

\* What is left of the handler of thread t, and of the connection it is for.
Handler(t) ==
    /\ pc[t] = "work" <=> todo[t] # <<>>
    /\ pc[t] \in {"check", "send"} => cur[t] \in Conns /\ conn[cur[t]] = "held"
    /\ pc[t] \in {"idle", "recv", "exited", "panicked"} => cur[t] = NoConn
    /\ pc[t] = "work" =>
          \/ cur[t] = NoConn /\ todo[t] \in Seq({"log", "notice"})
          \/ cur[t] \in Conns /\ conn[cur[t]] = "held" /\ OneEnd(todo[t])
          \/ cur[t] \in Conns /\ conn[cur[t]] \in FinalStates /\ NoEnd(todo[t])

Handlers ==
    /\ \A t \in Threads : Handler(t)
    /\ \A s \in Submitters : pc[s] \in {"idle", "check", "send", "work"}
    /\ \A w \in Workers : pc[w] \in {"recv", "check", "work", "exited", "panicked"}

\* Is connection c in slot i of the queue of worker w?
InSlot(c, w, i) == i \in 1 .. Len(queue[w]) /\ queue[w][i] = c

\* Where connections are, without counting.
Places ==
    /\ \A w \in Workers : Len(queue[w]) <= QueueCap
    /\ \A t, u \in Threads : cur[t] = cur[u] /\ cur[t] # NoConn => t = u
    /\ \A c \in Conns : \A w, v \in Workers : \A i, j \in Nat :
           InSlot(c, w, i) /\ InSlot(c, v, j) => w = v /\ i = j
    /\ \A c \in Conns : conn[c] = "queued" <=> \E w \in Workers : \E i \in Nat : InSlot(c, w, i)
    /\ \A c \in Conns : conn[c] = "held" => \E t \in Threads : cur[t] = c
    /\ \A t \in Threads : cur[t] # NoConn => conn[cur[t]] \notin {"new", "queued"}

PlaceInv == ThreadTypes /\ Handlers /\ Places

\* What is left of the handlers of submitters, and what workers never do.
SubmitterTodos ==
    { <<>>, <<"count", "log", "rejected">>, <<"log", "rejected">>, <<"notice", "rejected">>,
      <<"rejected">>, <<"refused">>, <<"log", "closed">>, <<"notice", "closed">>, <<"closed">>,
      <<"log">>, <<"notice">> }

Rejecting ==
    /\ \A s \in Submitters : todo[s] \in SubmitterTodos
    /\ \A w \in Workers : todo[w] \in Seq(Ops \ {"count", "rejected"})

-----------------------------------------------------------------------------
(* What is left of a handler *)

\* An effect is done, and a log_dropped notice may be due before the rest.
LEMMA TailOfOneEnd ==
    ASSUME NEW q \in Seq(Ops), q # <<>>, OneEnd(q), Head(q) \notin FinalStates
    PROVE  OneEnd(Tail(q)) /\ Tail(q) # <<>>
<1>1. PICK i \in 1 .. Len(q) :
                 /\ q[i] \in FinalStates
                 /\ \A j \in 1 .. Len(q) : q[j] \in FinalStates => j = i
  BY DEF OneEnd
<1>2. Len(q) \in Nat /\ Head(q) = q[1] /\ Len(Tail(q)) = Len(q) - 1
      /\ \A j \in 1 .. (Len(q) - 1) : Tail(q)[j] = q[j + 1]
  OBVIOUS
<1>3. i # 1 /\ i - 1 \in 1 .. Len(Tail(q)) /\ Tail(q)[i - 1] = q[i]
  BY <1>1, <1>2
<1>4. ASSUME NEW j \in 1 .. Len(Tail(q)), Tail(q)[j] \in FinalStates PROVE j = i - 1
  <2>1. j + 1 \in 1 .. Len(q) /\ Tail(q)[j] = q[j + 1]
    BY <1>2
  <2> QED BY <1>1, <1>2, <1>4, <2>1
<1>5. Tail(q) # <<>>
  <2>1. Len(Tail(q)) # 0
    BY <1>2, <1>3
  <2>2. Len(<<>>) = 0
    OBVIOUS
  <2> QED BY <2>1, <2>2, Zenon
<1> QED BY <1>1, <1>3, <1>4, <1>5 DEF OneEnd

LEMMA TailOfEnd ==
    ASSUME NEW q \in Seq(Ops), q # <<>>, (OneEnd(q) /\ Head(q) \in FinalStates) \/ NoEnd(q)
    PROVE  NoEnd(Tail(q))
<1>1. Len(q) \in Nat /\ Head(q) = q[1] /\ Len(Tail(q)) = Len(q) - 1 /\ 1 \in 1 .. Len(q)
      /\ \A j \in 1 .. (Len(q) - 1) : Tail(q)[j] = q[j + 1] /\ j + 1 \in 1 .. Len(q) /\ j + 1 # 1
  OBVIOUS
<1> QED BY <1>1 DEF OneEnd, NoEnd

LEMMA NoticeFirst ==
    ASSUME NEW q \in Seq(Ops)
    PROVE  /\ <<"notice">> \o q \in Seq(Ops) /\ <<"notice">> \o q # <<>>
           /\ OneEnd(q) => OneEnd(<<"notice">> \o q)
           /\ NoEnd(q) => NoEnd(<<"notice">> \o q)
<1> DEFINE n == <<"notice">> \o q
<1>1. "notice" \notin FinalStates /\ "notice" \in Ops
  BY DEF FinalStates, Ops
<1>2. /\ n \in Seq(Ops) /\ Len(n) = Len(q) + 1 /\ Len(q) \in Nat /\ n[1] = "notice"
      /\ \A j \in 2 .. Len(n) : n[j] = q[j - 1] /\ j - 1 \in 1 .. Len(q)
      /\ \A j \in 1 .. Len(q) : n[j + 1] = q[j] /\ j + 1 \in 1 .. Len(n)
  BY <1>1
<1> HIDE DEF n
<1>3. ASSUME OneEnd(q) PROVE OneEnd(n)
  <2>1. PICK i \in 1 .. Len(q) :
                 /\ q[i] \in FinalStates
                 /\ \A j \in 1 .. Len(q) : q[j] \in FinalStates => j = i
    BY <1>3 DEF OneEnd
  <2>2. i + 1 \in 1 .. Len(n) /\ n[i + 1] \in FinalStates
    BY <1>2, <2>1
  <2>3. ASSUME NEW j \in 1 .. Len(n), n[j] \in FinalStates PROVE j = i + 1
    <3>1. j \in 2 .. Len(n)
      BY <1>1, <1>2, <2>3
    <3>2. j - 1 = i
      BY <1>2, <2>1, <2>3, <3>1
    <3> QED BY <3>1, <3>2
  <2> QED BY <2>2, <2>3 DEF OneEnd
<1>4. ASSUME NoEnd(q) PROVE NoEnd(n)
  <2> SUFFICES ASSUME NEW j \in 1 .. Len(n) PROVE n[j] \notin FinalStates
    BY DEF NoEnd
  <2>1. CASE j = 1
    BY <1>1, <1>2, <2>1
  <2>2. CASE j \in 2 .. Len(n)
    BY <1>2, <1>4, <2>2 DEF NoEnd
  <2> QED BY <1>2, <2>1, <2>2
<1>5. n # <<>>
  BY <1>2
<1> QED BY <1>2, <1>3, <1>4, <1>5 DEF n

\* Sequences of log records, and one with a single end in it.
LEMMA RecordsType ==
    ASSUME NEW n \in Nat
    PROVE  Records(n) \in Seq({"log"})
<1> DEFINE k == IF n < MaxRecords THEN n ELSE MaxRecords
<1>1. k \in Nat
  BY PoolAssumption
<1> HIDE DEF k
<1>2. [i \in 1 .. k |-> "log"] \in Seq({"log"})
  BY <1>1
<1> QED BY <1>2 DEF Records, k

LEMMA OneEndAt ==
    ASSUME NEW q, Len(q) \in Nat, NEW i \in 1 .. Len(q),
           q[i] \in FinalStates, \A j \in 1 .. Len(q) : j # i => q[j] \in {"log", "stat"}
    PROVE  OneEnd(q)
<1>1. "log" \notin FinalStates /\ "stat" \notin FinalStates
  BY DEF FinalStates
<1> QED BY <1>1 DEF OneEnd

\* Every way through handle_connection ends the connection once, and none of
\* them rejects it.
LEMMA HandlingsEndOnce ==
    ASSUME NEW h \in Handlings
    PROVE  h \in Seq(Ops \ {"count", "rejected"}) /\ h # <<>> /\ OneEnd(h)
<1> DEFINE O == Ops \ {"count", "rejected"}
           Good(q) == q \in Seq(O) /\ q # <<>> /\ OneEnd(q)
<1>0. "closed" \in FinalStates /\ "served" \in FinalStates
      /\ {"log", "stat", "closed", "served"} \subseteq O
  BY DEF FinalStates, Ops
<1>r. \A n \in Nat : Records(n) \in Seq({"log"})
  BY RecordsType
<1> HIDE DEF O
<1> SUFFICES Good(h)
  BY DEF O
<1>1. ASSUME NEW r \in Seq({"log"}), h = r \o <<"closed">> PROVE Good(h)
  <2>1. Len(h) = Len(r) + 1 /\ Len(r) \in Nat /\ h[Len(r) + 1] = "closed"
        /\ \A j \in 1 .. Len(r) : h[j] = "log"
    BY <1>1
  <2>2. h \in Seq(O)
    BY <1>0, <1>1
  <2> QED BY <1>0, <2>1, <2>2, OneEndAt
<1>2. ASSUME NEW r \in Seq({"log"}), h = r \o <<"served", "log">> PROVE Good(h)
  <2>1. Len(h) = Len(r) + 2 /\ Len(r) \in Nat /\ h[Len(r) + 1] = "served" /\ h[Len(r) + 2] = "log"
        /\ \A j \in 1 .. Len(r) : h[j] = "log"
    BY <1>2
  <2>2. h \in Seq(O)
    BY <1>0, <1>2
  <2> QED BY <1>0, <2>1, <2>2, OneEndAt
<1>3. ASSUME NEW r \in Seq({"log"}), h = r \o <<"stat", "closed">> PROVE Good(h)
  <2>1. Len(h) = Len(r) + 2 /\ Len(r) \in Nat /\ h[Len(r) + 1] = "stat" /\ h[Len(r) + 2] = "closed"
        /\ \A j \in 1 .. Len(r) : h[j] = "log"
    BY <1>3
  <2>2. h \in Seq(O)
    BY <1>0, <1>3
  <2> QED BY <1>0, <2>1, <2>2, OneEndAt
<1>4. ASSUME NEW r \in Seq({"log"}), h = r \o <<"served", "stat", "log">> PROVE Good(h)
  <2>1. Len(h) = Len(r) + 3 /\ Len(r) \in Nat /\ h[Len(r) + 1] = "served" /\ h[Len(r) + 2] = "stat"
        /\ h[Len(r) + 3] = "log" /\ \A j \in 1 .. Len(r) : h[j] = "log"
    BY <1>4
  <2>2. h \in Seq(O)
    BY <1>0, <1>4
  <2> QED BY <1>0, <2>1, <2>2, OneEndAt, SMTT(30)
<1>5. ASSUME NEW r \in Seq({"log"}), NEW u \in Seq({"log"}), h = r \o <<"served", "stat">> \o u
      PROVE  Good(h)
  <2> DEFINE p == r \o <<"served", "stat">>
  <2>1. Len(p) = Len(r) + 2 /\ Len(r) \in Nat /\ p[Len(r) + 1] = "served" /\ p[Len(r) + 2] = "stat"
        /\ \A j \in 1 .. Len(r) : p[j] = "log"
    OBVIOUS
  <2>2. p \in Seq(O) /\ u \in Seq(O) /\ h = p \o u
    BY <1>0, <1>5
  <2> HIDE DEF p
  <2>3. /\ h \in Seq(O) /\ Len(h) = Len(p) + Len(u) /\ Len(u) \in Nat
        /\ \A j \in 1 .. Len(p) : h[j] = p[j]
        /\ \A j \in (Len(p) + 1) .. Len(h) : h[j] = u[j - Len(p)] /\ j - Len(p) \in 1 .. Len(u)
    <3>1. Len(p) \in Nat /\ Len(u) \in Nat /\ h \in Seq(O) /\ Len(h) = Len(p) + Len(u)
      BY <2>2
    <3>2. \A j \in 1 .. Len(p) : h[j] = p[j]
      BY <2>2, <3>1
    <3>3. \A j \in (Len(p) + 1) .. Len(h) : h[j] = u[j - Len(p)] /\ j - Len(p) \in 1 .. Len(u)
      BY <2>2, <3>1
    <3> QED BY <3>1, <3>2, <3>3
  <2>4. \A j \in 1 .. Len(u) : u[j] = "log"
    OBVIOUS
  <2>5. ASSUME NEW j \in 1 .. Len(h), j # Len(r) + 1 PROVE h[j] \in {"log", "stat"}
    <3>1. CASE j \in 1 .. Len(p)
      BY <2>1, <2>3, <2>5, <3>1
    <3>2. CASE j \in (Len(p) + 1) .. Len(h)
      BY <2>3, <2>4, <3>2
    <3> QED BY <2>1, <2>3, <3>1, <3>2
  <2>6. Len(h) \in Nat /\ Len(r) + 1 \in 1 .. Len(h) /\ h[Len(r) + 1] = "served" /\ h # <<>>
    BY <2>1, <2>3
  <2> QED BY <1>0, <2>3, <2>5, <2>6, OneEndAt
<1>6. Records(1) \in Seq({"log"}) /\ Records(2) \in Seq({"log"}) /\ Records(3) \in Seq({"log"})
      /\ Records(4) \in Seq({"log"}) /\ Records(5) \in Seq({"log"})
  BY <1>r
<1> HIDE DEF Good
<1> QED BY <1>1, <1>2, <1>3, <1>4, <1>5, <1>6, Zenon DEF Handlings

-----------------------------------------------------------------------------
(* One effect of a handler *)

\* What DoOp does to the thread and the connection.
LEMMA DoOpShape ==
    ASSUME ThreadTypes, NEW t \in Threads, Handler(t), DoOp(t)
    PROVE  /\ pc[t] = "work" /\ todo[t] \in Seq(Ops) /\ todo[t] # <<>>
           /\ UNCHANGED <<slot, queue, dispatch_index>>
           /\ \E rest \in Seq(Ops) :
                 /\ Proceed(t, rest)
                 /\ \/ /\ Head(todo[t]) \notin FinalStates
                       /\ rest = Tail(todo[t]) \/ rest = <<"notice">> \o Tail(todo[t])
                       /\ conn' = conn
                    \/ /\ Head(todo[t]) \in FinalStates
                       /\ rest = Tail(todo[t])
                       /\ conn' = [conn EXCEPT ![cur[t]] = Head(todo[t])]
<1>1. pc[t] = "work" /\ todo[t] \in Seq(Ops) /\ todo[t] # <<>>
      /\ UNCHANGED <<slot, queue, dispatch_index>>
  BY DEF DoOp, Handler, ThreadTypes
<1>2. Tail(todo[t]) \in Seq(Ops)
  BY <1>1
<1>3. <<"notice">> \o Tail(todo[t]) \in Seq(Ops) /\ <<>> \o Tail(todo[t]) = Tail(todo[t])
  BY <1>2, NoticeFirst, ConcatEmptySeq
<1>4. {"log", "notice", "stat", "count"} \cap FinalStates = {}
  BY DEF FinalStates
<1>5. CASE Head(todo[t]) = "log" /\ EmitLog(t) /\ UNCHANGED conn
  <2>1. PICK notice \in {<<>>, <<"notice">>} : Proceed(t, notice \o Tail(todo[t]))
    BY <1>5 DEF EmitLog
  <2>2. CASE notice = <<>>
    <3>1. Proceed(t, Tail(todo[t]))
      BY <1>3, <2>1, <2>2
    <3> QED BY <1>1, <1>2, <1>4, <1>5, <3>1
  <2>3. CASE notice = <<"notice">>
    <3>1. Proceed(t, <<"notice">> \o Tail(todo[t]))
      BY <2>1, <2>3
    <3> QED BY <1>1, <1>3, <1>4, <1>5, <3>1
  <2> QED BY <2>1, <2>2, <2>3
<1>6. CASE Head(todo[t]) \in {"notice", "stat", "count"} /\ Proceed(t, Tail(todo[t])) /\ UNCHANGED conn
  BY <1>1, <1>2, <1>4, <1>6
<1>7. CASE /\ Head(todo[t]) \in FinalStates /\ Proceed(t, Tail(todo[t]))
           /\ conn' = [conn EXCEPT ![cur[t]] = Head(todo[t])]
  BY <1>1, <1>2, <1>7
<1> QED BY <1>5, <1>6, <1>7 DEF DoOp

\* A step that moves thread t only and changes no connection another one holds.
LEMMA OtherHandlers ==
    ASSUME NEW t \in Threads, NEW u \in Threads, u # t, Handler(u),
           pc'[u] = pc[u], cur'[u] = cur[u], todo'[u] = todo[u],
           cur[u] \in Conns => conn'[cur[u]] = conn[cur[u]]
    PROVE  Handler(u)'
  BY DEF Handler

LEMMA DoOpPlaces ==
    ASSUME PlaceInv, NEW t \in Threads, DoOp(t)
    PROVE  PlaceInv'
<1> USE DEF PlaceInv
<1>0. Handler(t)
  BY DEF Handlers
<1>1. PICK rest \in Seq(Ops) :
                 /\ Proceed(t, rest)
                 /\ \/ /\ Head(todo[t]) \notin FinalStates
                       /\ rest = Tail(todo[t]) \/ rest = <<"notice">> \o Tail(todo[t])
                       /\ conn' = conn
                    \/ /\ Head(todo[t]) \in FinalStates
                       /\ rest = Tail(todo[t])
                       /\ conn' = [conn EXCEPT ![cur[t]] = Head(todo[t])]
  BY <1>0, DoOpShape
<1>2. pc[t] = "work" /\ todo[t] \in Seq(Ops) /\ todo[t] # <<>>
      /\ UNCHANGED <<slot, queue, dispatch_index>>
  BY <1>0, DoOpShape
<1> DEFINE home == IF t \in Workers THEN "recv" ELSE "idle"
<1>3. /\ todo' = [todo EXCEPT ![t] = rest]
      /\ \/ rest # <<>> /\ UNCHANGED <<pc, cur>>
         \/ rest = <<>> /\ pc' = [pc EXCEPT ![t] = home] /\ cur' = [cur EXCEPT ![t] = NoConn]
  BY <1>1 DEF Proceed
\* The connection of t, if it has one, is open as long as its end is to come.
<1>4. cur[t] # NoConn =>
        /\ cur[t] \in Conns
        /\ \/ conn[cur[t]] = "held" /\ conn' = conn /\ OneEnd(rest) /\ rest # <<>>
           \/ conn[cur[t]] \in FinalStates /\ conn' = conn /\ NoEnd(rest)
           \/ /\ conn[cur[t]] = "held" /\ NoEnd(rest) /\ Head(todo[t]) \in FinalStates
              /\ conn' = [conn EXCEPT ![cur[t]] = Head(todo[t])]
  <2> SUFFICES ASSUME cur[t] # NoConn PROVE
        /\ cur[t] \in Conns
        /\ \/ conn[cur[t]] = "held" /\ conn' = conn /\ OneEnd(rest) /\ rest # <<>>
           \/ conn[cur[t]] \in FinalStates /\ conn' = conn /\ NoEnd(rest)
           \/ /\ conn[cur[t]] = "held" /\ NoEnd(rest) /\ Head(todo[t]) \in FinalStates
              /\ conn' = [conn EXCEPT ![cur[t]] = Head(todo[t])]
    OBVIOUS
  <2>1. /\ cur[t] \in Conns
        /\ \/ conn[cur[t]] = "held" /\ OneEnd(todo[t])
           \/ conn[cur[t]] \in FinalStates /\ NoEnd(todo[t])
    BY <1>0, <1>2, Zenon DEF Handler
  <2>t. Tail(todo[t]) \in Seq(Ops)
    BY <1>2
  <2>2. CASE OneEnd(todo[t]) /\ conn[cur[t]] = "held" /\ Head(todo[t]) \notin FinalStates
    <3>1. OneEnd(Tail(todo[t])) /\ Tail(todo[t]) # <<>>
      BY <1>2, <2>2, TailOfOneEnd
    <3> QED BY <1>1, <2>1, <2>2, <2>t, <3>1, NoticeFirst
  <2>3. CASE OneEnd(todo[t]) /\ conn[cur[t]] = "held" /\ Head(todo[t]) \in FinalStates
    <3>1. NoEnd(Tail(todo[t]))
      BY <1>2, <2>3, TailOfEnd
    <3> QED BY <1>1, <2>1, <2>3, <3>1
  <2>4. CASE NoEnd(todo[t]) /\ conn[cur[t]] \in FinalStates
    <3>1. NoEnd(Tail(todo[t])) /\ Head(todo[t]) \notin FinalStates
      BY <1>2, <2>4, TailOfEnd DEF NoEnd
    <3> QED BY <1>1, <2>1, <2>4, <2>t, <3>1, NoticeFirst
  <2> QED BY <2>1, <2>2, <2>3, <2>4
<1>5. cur[t] = NoConn => conn' = conn /\ rest \in Seq({"log", "notice"})
  <2>1. ASSUME cur[t] = NoConn PROVE todo[t] \in Seq({"log", "notice"})
    BY <1>0, <1>2, <2>1, ConnAssumption DEF Handler
  <2>2. ASSUME cur[t] = NoConn PROVE Head(todo[t]) \in {"log", "notice"}
    BY <1>2, <2>1, <2>2
  <2>3. {"log", "notice"} \cap FinalStates = {}
    BY DEF FinalStates
  <2>4. ASSUME cur[t] = NoConn
        PROVE  /\ Tail(todo[t]) \in Seq({"log", "notice"})
               /\ <<"notice">> \o Tail(todo[t]) \in Seq({"log", "notice"})
    <3>1. Tail(todo[t]) \in Seq({"log", "notice"})
      BY <1>2, <2>1, <2>4
    <3> QED BY <3>1
  <2> QED BY <1>1, <2>2, <2>3, <2>4
<1>6. \A u \in Threads : u # t => pc'[u] = pc[u] /\ cur'[u] = cur[u] /\ todo'[u] = todo[u]
  BY <1>3 DEF ThreadTypes
<1>7. \A c \in Conns : c # cur[t] => conn'[c] = conn[c]
  BY <1>1 DEF ThreadTypes
<1>8. ThreadTypes'
  <2>1. todo' \in [Threads -> Seq(Ops)]
    BY <1>3 DEF ThreadTypes
  <2>2. pc' \in [Threads -> {"idle", "recv", "check", "send", "work", "exited", "panicked"}]
    BY <1>3 DEF ThreadTypes
  <2>3. cur' \in [Threads -> Conns \cup {NoConn}]
    BY <1>3 DEF ThreadTypes
  <2>4. conn' \in [Conns -> {"new", "held", "queued"} \cup FinalStates]
    BY <1>1 DEF ThreadTypes
  <2> QED BY <1>2, <2>1, <2>2, <2>3, <2>4 DEF ThreadTypes
<1>e. ASSUME cur[t] \in Conns, conn' = [conn EXCEPT ![cur[t]] = Head(todo[t])]
      PROVE  conn'[cur[t]] = Head(todo[t])
  BY <1>e DEF ThreadTypes
\* The thread itself.
<1>9. Handler(t)' /\ (t \in Workers => pc'[t] \in {"recv", "work"})
      /\ (t \in Submitters => pc'[t] \in {"idle", "work"})
  <2>1. todo'[t] = rest
    BY <1>3 DEF ThreadTypes
  <2>2. CASE rest = <<>>
    <3>1. pc'[t] = home /\ cur'[t] = NoConn
      BY <1>3, <2>2 DEF ThreadTypes
    <3>2. t \in Submitters => t \notin Workers
      BY ThreadAssumption
    <3> QED BY <2>1, <2>2, <3>1, <3>2 DEF Handler
  <2>3. CASE rest # <<>>
    <3>1. pc'[t] = "work" /\ cur'[t] = cur[t]
      BY <1>2, <1>3, <2>3
    <3>2. CASE cur[t] = NoConn
      BY <1>5, <2>1, <2>3, <3>1, <3>2 DEF Handler
    <3>3. CASE cur[t] # NoConn
      <4>1. /\ cur[t] \in Conns
            /\ \/ conn'[cur[t]] = "held" /\ OneEnd(rest)
               \/ conn'[cur[t]] \in FinalStates /\ NoEnd(rest)
        BY <1>4, <1>e, <3>3
      <4> QED BY <2>1, <2>3, <3>1, <4>1 DEF Handler
    <3> QED BY <3>2, <3>3
  <2> QED BY <2>2, <2>3
<1>10. Handlers'
  <2>1. ASSUME NEW u \in Threads, u # t PROVE Handler(u)'
    <3>1. cur[u] \in Conns => cur[u] # cur[t]
      BY <2>1, ConnAssumption DEF Places
    <3> QED BY <1>6, <1>7, <2>1, <3>1, OtherHandlers DEF Handlers
  <2> QED BY <1>6, <1>9, <2>1 DEF Handlers, Threads
<1>11. Places'
  <2>1. \A u \in Threads : cur'[u] = cur[u] \/ cur'[u] = NoConn
    BY <1>3 DEF ThreadTypes
  <2>2. \A c \in Conns : \/ conn'[c] = conn[c]
                         \/ c = cur[t] /\ conn[c] = "held" /\ conn'[c] \in FinalStates
    BY <1>4, <1>5, <1>7, <1>e
  <2>3. \A c \in Conns, w \in Workers, i \in Nat : InSlot(c, w, i)' <=> InSlot(c, w, i)
    BY <1>2 DEF InSlot
  <2>4. {"new", "held", "queued"} \cap FinalStates = {}
    BY DEF FinalStates
  <2>5. \A c \in Conns : conn'[c] = "queued" <=> conn[c] = "queued"
    BY <2>2, <2>4
  <2>6. ASSUME NEW c \in Conns, conn'[c] = "held" PROVE \E u \in Threads : cur'[u] = c
    <3>1. conn[c] = "held"
      BY <2>2, <2>4, <2>6
    <3>2. PICK u \in Threads : cur[u] = c
      BY <3>1 DEF Places
    <3>3. CASE u # t
      BY <1>6, <3>2, <3>3
    <3>4. CASE u = t
      <4>1. cur[t] = c /\ c # NoConn
        BY <3>2, <3>4, ConnAssumption
      <4>2. rest # <<>>
        BY <1>4, <2>4, <2>6, <3>1, <4>1 DEF ThreadTypes
      <4> QED BY <1>3, <4>1, <4>2
    <3> QED BY <3>3, <3>4
  <2>7. ASSUME NEW u \in Threads, cur'[u] # NoConn PROVE conn'[cur'[u]] \notin {"new", "queued"}
    <3>1. cur'[u] = cur[u] /\ cur[u] # NoConn /\ cur[u] \in Conns
      BY <2>1, <2>7 DEF ThreadTypes
    <3>2. conn[cur[u]] \notin {"new", "queued"}
      BY <3>1 DEF Places
    <3> QED BY <2>2, <2>4, <3>1, <3>2
  <2>8. \A u, v \in Threads : cur'[u] = cur'[v] /\ cur'[u] # NoConn => u = v
    BY <2>1 DEF Places
  <2> QED BY <1>2, <2>3, <2>5, <2>6, <2>7, <2>8 DEF Places
<1> QED BY <1>8, <1>10, <1>11

-----------------------------------------------------------------------------
(* Steps that leave every connection where it is *)

LEMMA PlacesKept ==
    ASSUME PlaceInv, UNCHANGED <<conn, cur, queue>>
    PROVE  Places'
<1>1. \A c \in Conns, w \in Workers, i \in Nat : InSlot(c, w, i)' <=> InSlot(c, w, i)
  BY DEF InSlot
<1> QED BY <1>1 DEF PlaceInv, Places

LEMMA UntouchedPlaces ==
    ASSUME PlaceInv, UNCHANGED conn_vars
    PROVE  PlaceInv'
<1> USE DEF PlaceInv, conn_vars
<1>1. ThreadTypes'
  BY DEF ThreadTypes
<1>2. Handlers'
  BY DEF Handlers, Handler
<1>3. Places'
  BY PlacesKept
<1> QED BY <1>1, <1>2, <1>3

\* Thread t goes on to state p, with q left to do.
LEMMA LocalPlaces ==
    ASSUME PlaceInv, UNCHANGED <<conn, cur, queue>>,
           NEW t \in Threads, NEW p \in {"send", "work", "exited"}, NEW q \in Seq(Ops),
           pc' = [pc EXCEPT ![t] = p], todo' = [todo EXCEPT ![t] = q],
           slot' \in [Submitters -> Workers], dispatch_index' \in Nat,
           t \in Submitters => p # "exited", t \in Workers => p # "send",
           \/ /\ p = "work" /\ q # <<>>
              /\ \/ cur[t] = NoConn /\ q = <<"log">>
                 \/ cur[t] \in Conns /\ conn[cur[t]] = "held" /\ OneEnd(q)
           \/ p = "send" /\ q = <<>> /\ cur[t] \in Conns /\ conn[cur[t]] = "held"
           \/ p = "exited" /\ q = <<>> /\ cur[t] = NoConn
    PROVE  PlaceInv'
<1> USE DEF PlaceInv
<1>1. ThreadTypes'
  BY DEF ThreadTypes
<1>2. pc'[t] = p /\ todo'[t] = q
      /\ \A u \in Threads : u # t => pc'[u] = pc[u] /\ todo'[u] = todo[u]
  BY DEF ThreadTypes
<1>3. <<"log">> \in Seq({"log", "notice"})
  OBVIOUS
<1>4. Handler(t)'
  BY <1>2, <1>3 DEF Handler
<1>5. ASSUME NEW u \in Threads, u # t PROVE Handler(u)'
  BY <1>2, <1>5, OtherHandlers DEF Handlers
<1>6. Handlers'
  BY <1>2, <1>4, <1>5 DEF Handlers, Threads
<1> QED BY <1>1, <1>6, PlacesKept

\* The endings a submitter prepares for.
LEMMA SubmitterEnds ==
    /\ \A q \in { <<"refused">>, <<"log", "closed">>, <<"count", "log", "rejected">> } :
          q \in Seq(Ops) /\ q # <<>> /\ OneEnd(q)
    /\ <<"log">> \in Seq(Ops) /\ <<>> \in Seq(Ops) /\ <<"refused">> \in Seq(Ops \ {"count", "rejected"})
<1>1. {"log", "count", "refused", "closed", "rejected"} \subseteq Ops
      /\ "log" \notin FinalStates /\ "count" \notin FinalStates
      /\ {"refused", "closed", "rejected"} \subseteq FinalStates
  BY DEF Ops, FinalStates
<1>2. OneEnd(<<"refused">>)
  <2> DEFINE q == <<"refused">>
  <2>1. 1 \in 1 .. Len(q) /\ q[1] \in FinalStates /\ \A j \in 1 .. Len(q) : q[j] \in FinalStates => j = 1
    BY <1>1
  <2> QED BY <2>1 DEF OneEnd
<1>3. OneEnd(<<"log", "closed">>)
  <2> DEFINE q == <<"log", "closed">>
  <2>1. 2 \in 1 .. Len(q) /\ q[2] \in FinalStates /\ \A j \in 1 .. Len(q) : q[j] \in FinalStates => j = 2
    BY <1>1
  <2> QED BY <2>1 DEF OneEnd
<1>4. OneEnd(<<"count", "log", "rejected">>)
  <2> DEFINE q == <<"count", "log", "rejected">>
  <2>1. 3 \in 1 .. Len(q) /\ q[3] \in FinalStates /\ \A j \in 1 .. Len(q) : q[j] \in FinalStates => j = 3
    BY <1>1
  <2> QED BY <2>1 DEF OneEnd
<1>5. <<"refused">> \in Seq(Ops) /\ <<"log", "closed">> \in Seq(Ops)
      /\ <<"count", "log", "rejected">> \in Seq(Ops)
  BY <1>1
<1>6. <<"refused">> \in Seq(Ops \ {"count", "rejected"})
  BY <1>1
<1> QED BY <1>1, <1>2, <1>3, <1>4, <1>5, <1>6

-----------------------------------------------------------------------------
(* Steps that hand a connection over *)

LEMMA AcceptPlaces ==
    ASSUME PlaceInv, NEW s \in Submitters, NEW c \in Conns, Accept(s, c)
    PROVE  PlaceInv'
<1> USE DEF PlaceInv
<1>0. s \in Threads /\ s \notin Workers /\ Handler(s)
  BY ThreadAssumption DEF Threads, Handlers
<1>1. pc[s] = "idle" /\ conn[c] = "new" /\ cur[s] = NoConn /\ todo[s] = <<>>
  BY <1>0 DEF Accept, Handler
<1>2. /\ conn' = [conn EXCEPT ![c] = "held"] /\ cur' = [cur EXCEPT ![s] = c]
      /\ pc' = [pc EXCEPT ![s] = "check"] /\ UNCHANGED <<todo, slot, queue, dispatch_index>>
  BY DEF Accept
<1>3. ThreadTypes'
  BY <1>2 DEF ThreadTypes
<1>4. /\ conn'[c] = "held" /\ cur'[s] = c /\ pc'[s] = "check"
      /\ \A d \in Conns : d # c => conn'[d] = conn[d]
      /\ \A u \in Threads : u # s => cur'[u] = cur[u] /\ pc'[u] = pc[u]
  BY <1>0, <1>2 DEF ThreadTypes
<1>5. \A u \in Threads : cur[u] # c
  BY <1>1, ConnAssumption DEF Places
<1>6. Handlers'
  <2>1. Handler(s)'
    BY <1>1, <1>2, <1>4 DEF Handler
  <2>2. ASSUME NEW u \in Threads, u # s PROVE Handler(u)'
    BY <1>0, <1>2, <1>4, <1>5, <2>2, OtherHandlers DEF Handlers
  <2> QED BY <1>0, <1>4, <2>1, <2>2 DEF Handlers, Threads
<1>7. Places'
  <2>1. \A d \in Conns, w \in Workers, i \in Nat : InSlot(d, w, i)' <=> InSlot(d, w, i)
    BY <1>2 DEF InSlot
  <2>2. \A t, u \in Threads : cur'[t] = cur'[u] /\ cur'[t] # NoConn => t = u
    BY <1>4, <1>5 DEF Places
  <2>3. \A d \in Conns : conn'[d] = "queued" <=> conn[d] = "queued"
    BY <1>1, <1>4
  <2>4. ASSUME NEW d \in Conns, conn'[d] = "held" PROVE \E t \in Threads : cur'[t] = d
    BY <1>0, <1>1, <1>4, <2>4, ConnAssumption DEF Places
  <2>5. ASSUME NEW t \in Threads, cur'[t] # NoConn PROVE conn'[cur'[t]] \notin {"new", "queued"}
    BY <1>4, <2>5 DEF Places, ThreadTypes
  <2>6. \A w \in Workers : Len(queue'[w]) <= QueueCap
    BY <1>2 DEF Places
  <2> QED BY <2>1, <2>2, <2>3, <2>4, <2>5, <2>6 DEF Places
<1> QED BY <1>3, <1>6, <1>7

\* try_send finds room.
LEMMA EnqueuePlaces ==
    ASSUME PlaceInv, NEW s \in Submitters, pc[s] = "send", ~QueueFull(slot[s]),
           queue' = [queue EXCEPT ![slot[s]] = Append(@, cur[s])],
           conn' = [conn EXCEPT ![cur[s]] = "queued"], cur' = [cur EXCEPT ![s] = NoConn],
           pc' = [pc EXCEPT ![s] = "idle"], UNCHANGED <<todo, slot, dispatch_index>>
    PROVE  PlaceInv'
<1> USE DEF PlaceInv
<1> DEFINE q == slot[s]
           c == cur[s]
<1>0. s \in Threads /\ s \notin Workers /\ Handler(s)
  BY ThreadAssumption DEF Threads, Handlers
<1>1. q \in Workers /\ c \in Conns /\ conn[c] = "held" /\ todo[s] = <<>> /\ queue[q] \in Seq(Conns)
  BY <1>0 DEF Handler, ThreadTypes
<1>2. /\ conn'[c] = "queued" /\ cur'[s] = NoConn /\ pc'[s] = "idle"
      /\ queue'[q] = Append(queue[q], c)
      /\ \A d \in Conns : d # c => conn'[d] = conn[d]
      /\ \A u \in Threads : u # s => cur'[u] = cur[u] /\ pc'[u] = pc[u]
      /\ \A w \in Workers : w # q => queue'[w] = queue[w]
  BY <1>0, <1>1 DEF ThreadTypes
<1>3. ThreadTypes'
  <2>1. queue' \in [Workers -> Seq(Conns)]
    BY <1>1 DEF ThreadTypes
  <2> QED BY <2>1 DEF ThreadTypes
<1>4. \A u \in Threads : u # s => cur[u] # c
  BY <1>0, <1>1, ConnAssumption DEF Places
<1>5. Handlers'
  <2>1. Handler(s)'
    BY <1>1, <1>2 DEF Handler
  <2>2. ASSUME NEW u \in Threads, u # s PROVE Handler(u)'
    BY <1>0, <1>2, <1>4, <2>2, OtherHandlers DEF Handlers
  <2> QED BY <1>0, <1>2, <2>1, <2>2 DEF Handlers, Threads
<1>6. Places'
  <2> DEFINE n == Len(queue[q]) + 1
  <2>1. /\ Len(queue[q]) \in Nat /\ n \in Nat /\ Len(queue'[q]) = n /\ queue'[q][n] = c
        /\ \A i \in 1 .. Len(queue[q]) : queue'[q][i] = queue[q][i]
    BY <1>1, <1>2
  <2>2. Len(queue[q]) < QueueCap
    BY <2>1, PoolAssumption DEF QueueFull
  <2>3. ASSUME NEW d \in Conns, NEW w \in Workers, NEW i \in Nat
        PROVE  InSlot(d, w, i)' <=> InSlot(d, w, i) \/ (d = c /\ w = q /\ i = n)
    <3>1. CASE w # q
      BY <1>2, <3>1 DEF InSlot
    <3>2. CASE w = q
      BY <2>1, <3>2 DEF InSlot
    <3> QED BY <3>1, <3>2
  <2>4. \A w \in Workers, i \in Nat : ~InSlot(c, w, i)
    BY <1>1 DEF Places
  <2> HIDE DEF n, c, q
  <2>5. \A w \in Workers : Len(queue'[w]) <= QueueCap
    BY <1>2, <2>1, <2>2, PoolAssumption DEF Places, n
  <2>6. \A t, u \in Threads : cur'[t] = cur'[u] /\ cur'[t] # NoConn => t = u
    BY <1>2 DEF Places
  <2>7. \A d \in Conns : \A w, v \in Workers : \A i, j \in Nat :
           InSlot(d, w, i)' /\ InSlot(d, v, j)' => w = v /\ i = j
    BY <2>3, <2>4 DEF Places
  <2>8. \A d \in Conns : conn'[d] = "queued" <=> \E w \in Workers : \E i \in Nat : InSlot(d, w, i)'
    BY <1>1, <1>2, <2>1, <2>3 DEF Places
  <2>9. ASSUME NEW d \in Conns, conn'[d] = "held" PROVE \E t \in Threads : cur'[t] = d
    <3>1. d # c /\ conn[d] = "held"
      BY <1>2, <2>9
    <3>2. PICK t \in Threads : cur[t] = d
      BY <3>1 DEF Places
    <3>3. t # s
      BY <3>1, <3>2 DEF c
    <3> QED BY <1>2, <3>2, <3>3
  <2>10. ASSUME NEW t \in Threads, cur'[t] # NoConn PROVE conn'[cur'[t]] \notin {"new", "queued"}
    <3>1. t # s /\ cur'[t] = cur[t] /\ cur[t] \in Conns
      BY <1>2, <2>10 DEF ThreadTypes
    <3>2. cur[t] # c /\ conn[cur[t]] \notin {"new", "queued"}
      BY <1>4, <3>1, ConnAssumption DEF Places
    <3> QED BY <1>2, <3>1, <3>2
  <2> QED BY <2>5, <2>6, <2>7, <2>8, <2>9, <2>10 DEF Places
<1> QED BY <1>3, <1>5, <1>6

\* recv returns a connection.
LEMMA RecvPlaces ==
    ASSUME PlaceInv, NEW w \in Workers, WorkerRecv(w)
    PROVE  PlaceInv'
<1> USE DEF PlaceInv
<1> DEFINE c == Head(queue[w])
<1>0. w \in Threads /\ w \notin Submitters /\ Handler(w)
  BY ThreadAssumption DEF Threads, Handlers
<1>1. queue[w] \in Seq(Conns) /\ queue[w] # <<>> /\ pc[w] = "recv" /\ cur[w] = NoConn
      /\ todo[w] = <<>>
  BY <1>0 DEF WorkerRecv, Handler, ThreadTypes
<1>2. /\ c \in Conns /\ c = queue[w][1] /\ Len(queue[w]) \in Nat /\ 1 \in 1 .. Len(queue[w])
      /\ Tail(queue[w]) \in Seq(Conns) /\ Len(Tail(queue[w])) = Len(queue[w]) - 1
      /\ \A i \in 1 .. (Len(queue[w]) - 1) : Tail(queue[w])[i] = queue[w][i + 1]
  BY <1>1
<1>3. /\ queue' = [queue EXCEPT ![w] = Tail(queue[w])] /\ cur' = [cur EXCEPT ![w] = c]
      /\ conn' = [conn EXCEPT ![c] = "held"] /\ pc' = [pc EXCEPT ![w] = "check"]
      /\ UNCHANGED <<todo, slot, dispatch_index>>
  BY DEF WorkerRecv, Received
<1>4. InSlot(c, w, 1)
  BY <1>2 DEF InSlot
<1> HIDE DEF c
<1>5. /\ conn'[c] = "held" /\ cur'[w] = c /\ pc'[w] = "check" /\ queue'[w] = Tail(queue[w])
      /\ \A d \in Conns : d # c => conn'[d] = conn[d]
      /\ \A u \in Threads : u # w => cur'[u] = cur[u] /\ pc'[u] = pc[u]
      /\ \A v \in Workers : v # w => queue'[v] = queue[v]
  BY <1>0, <1>2, <1>3 DEF ThreadTypes
<1>6. ThreadTypes'
  <2>1. queue' \in [Workers -> Seq(Conns)]
    BY <1>2, <1>3 DEF ThreadTypes
  <2> QED BY <1>2, <1>3, <2>1 DEF ThreadTypes
<1>7. conn[c] = "queued" /\ \A u \in Threads : cur[u] # c
  BY <1>2, <1>4, ConnAssumption DEF Places
<1>8. Handlers'
  <2>1. Handler(w)'
    BY <1>1, <1>2, <1>3, <1>5 DEF Handler
  <2>2. ASSUME NEW u \in Threads, u # w PROVE Handler(u)'
    BY <1>0, <1>3, <1>5, <1>7, <2>2, OtherHandlers DEF Handlers
  <2> QED BY <1>0, <1>5, <2>1, <2>2 DEF Handlers, Threads
<1>9. Places'
  <2>1. ASSUME NEW d \in Conns, NEW v \in Workers, NEW i \in Nat
        PROVE  InSlot(d, v, i)' <=> IF v = w THEN i # 0 /\ InSlot(d, v, i + 1) ELSE InSlot(d, v, i)
    <3>1. CASE v # w
      BY <1>5, <3>1 DEF InSlot
    <3>2. CASE v = w
      <4>1. Len(queue'[w]) = Len(queue[w]) - 1
            /\ \A k \in 1 .. (Len(queue[w]) - 1) : queue'[w][k] = queue[w][k + 1]
        BY <1>2, <1>5
      <4>2. i \in 1 .. (Len(queue[w]) - 1) <=> i # 0 /\ i + 1 \in 1 .. Len(queue[w])
        BY <1>2
      <4> QED BY <3>2, <4>1, <4>2 DEF InSlot
    <3> QED BY <3>1, <3>2
  <2>2. ASSUME NEW v \in Workers PROVE Len(queue'[v]) <= QueueCap
    <3>1. Len(queue[v]) <= QueueCap
      BY DEF Places
    <3>2. CASE v = w
      <4>1. Len(queue'[w]) = Len(queue[w]) - 1
        BY <1>2, <1>5
      <4> QED BY <1>2, <3>1, <3>2, <4>1, PoolAssumption
    <3>3. CASE v # w
      BY <1>5, <3>1, <3>3
    <3> QED BY <3>2, <3>3
  <2>3. \A t, u \in Threads : cur'[t] = cur'[u] /\ cur'[t] # NoConn => t = u
    BY <1>5, <1>7 DEF Places
  <2>4. ASSUME NEW d \in Conns, NEW v \in Workers, NEW x \in Workers, NEW i \in Nat, NEW j \in Nat,
               InSlot(d, v, i)', InSlot(d, x, j)'
        PROVE  v = x /\ i = j
    <3>1. PICK k \in Nat : InSlot(d, v, k) /\ k = IF v = w THEN i + 1 ELSE i
      BY <2>1, <2>4
    <3>2. PICK m \in Nat : InSlot(d, x, m) /\ m = IF x = w THEN j + 1 ELSE j
      BY <2>1, <2>4
    <3>3. v = x /\ k = m
      BY <3>1, <3>2 DEF Places
    <3> QED BY <3>1, <3>2, <3>3
  <2>5. ASSUME NEW d \in Conns
        PROVE  conn'[d] = "queued" <=> \E v \in Workers : \E i \in Nat : InSlot(d, v, i)'
    <3>1. CASE d = c
      <4>1. ASSUME NEW v \in Workers, NEW i \in Nat, InSlot(d, v, i)' PROVE FALSE
        <5>1. v = w => i # 0 /\ InSlot(c, w, i + 1)
          BY <2>1, <3>1, <4>1
        <5>2. v # w => InSlot(c, v, i)
          BY <2>1, <3>1, <4>1
        <5> QED BY <1>2, <1>4, <5>1, <5>2 DEF Places
      <4> QED BY <1>5, <3>1, <4>1
    <3>2. CASE d # c
      <4>1. ASSUME NEW v \in Workers, NEW i \in Nat, InSlot(d, v, i)
            PROVE  \E x \in Workers : \E j \in Nat : InSlot(d, x, j)'
        <5>1. CASE v # w
          BY <2>1, <4>1, <5>1
        <5>2. CASE v = w
          <6>1. i # 1 /\ i \in 1 .. Len(queue[w])
            BY <1>2, <3>2, <4>1, <5>2 DEF InSlot
          <6>2. i - 1 \in Nat /\ i - 1 # 0 /\ (i - 1) + 1 = i
            BY <1>2, <6>1
          <6>3. InSlot(d, w, i - 1)'
            BY <2>1, <4>1, <5>2, <6>2
          <6> QED BY <6>2, <6>3
        <5> QED BY <5>1, <5>2
      <4>2. ASSUME NEW v \in Workers, NEW i \in Nat, InSlot(d, v, i)'
            PROVE  \E x \in Workers : \E j \in Nat : InSlot(d, x, j)
        BY <2>1, <4>2
      <4> QED BY <1>5, <3>2, <4>1, <4>2 DEF Places
    <3> QED BY <3>1, <3>2
  <2>6. ASSUME NEW d \in Conns, conn'[d] = "held" PROVE \E t \in Threads : cur'[t] = d
    <3>1. CASE d = c
      BY <1>0, <1>5, <3>1
    <3>2. CASE d # c
      <4>1. PICK t \in Threads : cur[t] = d
        BY <1>5, <2>6, <3>2 DEF Places
      <4>2. t # w
        BY <1>1, <4>1, ConnAssumption
      <4> QED BY <1>5, <4>1, <4>2
    <3> QED BY <3>1, <3>2
  <2>7. ASSUME NEW t \in Threads, cur'[t] # NoConn PROVE conn'[cur'[t]] \notin {"new", "queued"}
    <3>1. CASE t = w
      BY <1>5, <3>1
    <3>2. CASE t # w
      <4>1. cur'[t] = cur[t] /\ cur[t] \in Conns /\ cur[t] # c
        BY <1>5, <1>7, <2>7, <3>2 DEF ThreadTypes
      <4>2. conn[cur[t]] \notin {"new", "queued"}
        BY <4>1, ConnAssumption DEF Places
      <4> QED BY <1>5, <4>1, <4>2
    <3> QED BY <3>1, <3>2
  <2> QED BY <2>2, <2>3, <2>4, <2>5, <2>6, <2>7 DEF Places
<1> QED BY <1>6, <1>8, <1>9

\* A worker panics, and its connection and those in its queue are closed.
LEMMA PanicPlaces ==
    ASSUME PlaceInv, NEW w \in Workers, WorkerPanics(w)
    PROVE  PlaceInv'
<1> USE DEF PlaceInv
<1> DEFINE gone == {c \in Conns : c = cur[w] \/ \E i \in DOMAIN queue[w] : queue[w][i] = c}
<1>0. w \in Threads /\ w \notin Submitters /\ pc[w] = "work"
  BY ThreadAssumption DEF Threads, WorkerPanics
<1>1. /\ conn' = [c \in Conns |-> IF c \in gone /\ conn[c] \notin FinalStates THEN "closed" ELSE conn[c]]
      /\ pc' = [pc EXCEPT ![w] = "panicked"] /\ cur' = [cur EXCEPT ![w] = NoConn]
      /\ todo' = [todo EXCEPT ![w] = <<>>] /\ queue' = [queue EXCEPT ![w] = <<>>]
      /\ UNCHANGED <<slot, dispatch_index>>
  BY DEF WorkerPanics
<1>2. \A c \in Conns : c \in gone <=> c = cur[w] \/ \E i \in Nat : InSlot(c, w, i)
  <2>1. queue[w] \in Seq(Conns)
    BY DEF ThreadTypes
  <2>2. DOMAIN queue[w] = 1 .. Len(queue[w]) /\ 1 .. Len(queue[w]) \subseteq Nat
    BY <2>1
  <2> QED BY <2>2 DEF InSlot
<1> HIDE DEF gone
<1>3. ThreadTypes'
  <2>1. conn' \in [Conns -> {"new", "held", "queued"} \cup FinalStates]
    BY <1>1 DEF ThreadTypes, FinalStates
  <2>2. <<>> \in Seq(Ops) /\ <<>> \in Seq(Conns)
    OBVIOUS
  <2>3. todo' \in [Threads -> Seq(Ops)]
    BY <1>1, <2>2 DEF ThreadTypes
  <2>4. queue' \in [Workers -> Seq(Conns)]
    BY <1>1, <2>2 DEF ThreadTypes
  <2> QED BY <1>1, <2>1, <2>3, <2>4 DEF ThreadTypes
<1>4. /\ pc'[w] = "panicked" /\ cur'[w] = NoConn /\ todo'[w] = <<>> /\ queue'[w] = <<>>
      /\ \A u \in Threads : u # w => pc'[u] = pc[u] /\ cur'[u] = cur[u] /\ todo'[u] = todo[u]
      /\ \A v \in Workers : v # w => queue'[v] = queue[v]
  BY <1>0, <1>1 DEF ThreadTypes
<1>5. \A c \in Conns : \/ conn'[c] = conn[c] /\ (c \in gone => conn[c] \in FinalStates)
                       \/ conn'[c] = "closed" /\ c \in gone
  BY <1>1
\* What other threads hold is not among them.
<1>6. ASSUME NEW u \in Threads, u # w, cur[u] \in Conns PROVE cur[u] \notin gone
  <2>1. cur[u] # cur[w] /\ conn[cur[u]] \notin {"new", "queued"}
    BY <1>0, <1>6, ConnAssumption DEF Places
  <2> QED BY <1>2, <1>6, <2>1 DEF Places
<1>7. Handlers'
  <2>1. Handler(w)'
    BY <1>4 DEF Handler
  <2>2. ASSUME NEW u \in Threads, u # w PROVE Handler(u)'
    BY <1>0, <1>4, <1>5, <1>6, <2>2, OtherHandlers DEF Handlers, ThreadTypes
  <2> QED BY <1>0, <1>4, <2>1, <2>2 DEF Handlers, Threads
<1>8. Places'
  <2>1. ASSUME NEW d \in Conns, NEW v \in Workers, NEW i \in Nat
        PROVE  InSlot(d, v, i)' <=> v # w /\ InSlot(d, v, i)
    BY <1>4 DEF InSlot
  <2>2. \A v \in Workers : Len(queue'[v]) <= QueueCap
    BY <1>4, PoolAssumption DEF Places
  <2>3. \A t, u \in Threads : cur'[t] = cur'[u] /\ cur'[t] # NoConn => t = u
    BY <1>4 DEF Places
  <2>4. \A d \in Conns : \A v, x \in Workers : \A i, j \in Nat :
           InSlot(d, v, i)' /\ InSlot(d, x, j)' => v = x /\ i = j
    BY <2>1 DEF Places
  <2>5. ASSUME NEW d \in Conns
        PROVE  conn'[d] = "queued" <=> \E v \in Workers : \E i \in Nat : InSlot(d, v, i)'
    <3>1. CASE conn'[d] = "queued"
      <4>1. conn[d] = "queued" /\ d \notin gone
        BY <1>5, <3>1 DEF FinalStates
      <4> QED BY <1>2, <2>1, <3>1, <4>1 DEF Places
    <3>2. ASSUME NEW v \in Workers, NEW i \in Nat, InSlot(d, v, i)' PROVE conn'[d] = "queued"
      <4>1. InSlot(d, v, i) /\ v # w /\ conn[d] = "queued"
        BY <2>1, <3>2 DEF Places
      <4>2. d # cur[w]
        BY <1>0, <4>1, ConnAssumption DEF Places
      <4>3. d \notin gone
        BY <1>2, <4>1, <4>2 DEF Places
      <4> QED BY <1>5, <4>1, <4>3
    <3> QED BY <3>1, <3>2
  <2>6. ASSUME NEW d \in Conns, conn'[d] = "held" PROVE \E t \in Threads : cur'[t] = d
    <3>1. conn[d] = "held" /\ d \notin gone
      BY <1>5, <2>6 DEF FinalStates
    <3>2. PICK t \in Threads : cur[t] = d
      BY <3>1 DEF Places
    <3>3. t # w
      BY <1>2, <3>1, <3>2
    <3> QED BY <1>4, <3>2, <3>3
  <2>7. ASSUME NEW t \in Threads, cur'[t] # NoConn PROVE conn'[cur'[t]] \notin {"new", "queued"}
    <3>1. t # w /\ cur'[t] = cur[t] /\ cur[t] \in Conns
      BY <1>4, <2>7 DEF ThreadTypes
    <3>2. conn[cur[t]] \notin {"new", "queued"}
      BY <3>1, ConnAssumption DEF Places
    <3> QED BY <1>5, <3>1, <3>2
  <2> QED BY <2>2, <2>3, <2>4, <2>5, <2>6, <2>7 DEF Places
<1> QED BY <1>3, <1>7, <1>8

-----------------------------------------------------------------------------
(* Every step *)

LEMMA SubmitterPlaces ==
    ASSUME PlaceInv, NEW s \in Submitters, Submitter(s)
    PROVE  PlaceInv'
<1> USE DEF PlaceInv
<1>0. s \in Threads /\ s \notin Workers /\ Handler(s)
  BY ThreadAssumption DEF Threads, Handlers
<1>t. slot \in [Submitters -> Workers] /\ dispatch_index \in Nat /\ todo = [todo EXCEPT ![s] = todo[s]]
  BY <1>0 DEF ThreadTypes
<1>1. ASSUME NEW c \in Conns, Accept(s, c) PROVE PlaceInv'
  BY <1>1, AcceptPlaces
<1>2. CASE AcceptTimeoutFails(s)
  <2>1. pc[s] = "check" /\ cur[s] \in Conns /\ conn[cur[s]] = "held"
    BY <1>0, <1>2 DEF AcceptTimeoutFails, Handler
  <2> QED BY <1>0, <1>2, <1>t, <2>1, LocalPlaces, SubmitterEnds DEF AcceptTimeoutFails
<1>3. CASE AcceptError(s)
  <2>1. pc[s] = "idle" /\ cur[s] = NoConn
    BY <1>0, <1>3 DEF AcceptError, Handler
  <2> QED BY <1>0, <1>3, <1>t, <2>1, LocalPlaces, SubmitterEnds DEF AcceptError
<1>4. CASE SubmitCheck(s)
  <2>1. pc[s] = "check" /\ cur[s] \in Conns /\ conn[cur[s]] = "held" /\ todo[s] = <<>>
    BY <1>0, <1>4 DEF SubmitCheck, Handler
  <2>2. CASE shutting_down
    BY <1>0, <1>4, <1>t, <2>1, <2>2, LocalPlaces, SubmitterEnds, ZenonT(40) DEF SubmitCheck
  <2>4. CASE ~shutting_down /\ ~txs
    BY <1>0, <1>4, <1>t, <2>1, <2>4, LocalPlaces, SubmitterEnds, ZenonT(40) DEF SubmitCheck, RejectPoolFull
  <2>3. CASE ~shutting_down /\ txs
    <3>1. DrawnSlot \in Workers
      BY PoolAssumption DEF ThreadTypes, Workers, DrawnSlot
    <3>2. slot' \in [Submitters -> Workers] /\ dispatch_index' \in Nat
      BY <1>4, <1>t, <2>3, <3>1 DEF SubmitCheck
    <3>3. pc' = [pc EXCEPT ![s] = "send"] /\ todo' = [todo EXCEPT ![s] = <<>>]
      BY <1>4, <1>t, <2>1, <2>3 DEF SubmitCheck
    <3> QED BY <1>0, <1>4, <2>1, <3>2, <3>3, LocalPlaces, SubmitterEnds DEF SubmitCheck
  <2> QED BY <2>2, <2>3, <2>4
<1>5. CASE SubmitSend(s)
  <2>1. pc[s] = "send" /\ cur[s] \in Conns /\ conn[cur[s]] = "held"
        /\ UNCHANGED <<slot, dispatch_index>>
    BY <1>0, <1>5 DEF SubmitSend, Handler
  <2>2. CASE ~Dead(slot[s]) /\ ~QueueFull(slot[s])
    BY <1>5, <2>1, <2>2, EnqueuePlaces DEF SubmitSend
  <2>3. ASSUME NEW q \in {<<"refused">>, <<"count", "log", "rejected">>},
               pc' = [pc EXCEPT ![s] = "work"], todo' = [todo EXCEPT ![s] = q],
               UNCHANGED <<queue, conn, cur>>
        PROVE  PlaceInv'
    BY <1>0, <1>t, <2>1, <2>3, LocalPlaces, SubmitterEnds
  <2> QED BY <1>5, <2>2, <2>3 DEF SubmitSend, RejectPoolFull
<1>6. CASE DoOp(s)
  BY <1>0, <1>6, DoOpPlaces
<1> QED BY <1>1, <1>2, <1>3, <1>4, <1>5, <1>6 DEF Submitter

LEMMA WorkerPlaces ==
    ASSUME PlaceInv, NEW w \in Workers, Worker(w) \/ WorkerPanics(w)
    PROVE  PlaceInv'
<1> USE DEF PlaceInv
<1>0. w \in Threads /\ w \notin Submitters /\ Handler(w)
  BY ThreadAssumption DEF Threads, Handlers
<1>t. slot \in [Submitters -> Workers] /\ dispatch_index \in Nat /\ todo = [todo EXCEPT ![w] = todo[w]]
  BY <1>0 DEF ThreadTypes
<1>1. CASE WorkerRecv(w)
  BY <1>1, RecvPlaces
<1>2. CASE WorkerExit(w)
  <2>1. pc[w] = "recv" /\ cur[w] = NoConn /\ todo[w] = <<>>
    BY <1>0, <1>2 DEF WorkerExit, Handler
  <2>2. pc' = [pc EXCEPT ![w] = "exited"] /\ todo' = [todo EXCEPT ![w] = <<>>]
        /\ UNCHANGED <<conn, cur, queue, slot, dispatch_index>>
    BY <1>2, <1>t, <2>1 DEF WorkerExit
  <2> QED BY <1>0, <1>t, <2>1, <2>2, LocalPlaces, SubmitterEnds
<1>3. CASE WorkerCheck(w)
  <2>1. pc[w] = "check" /\ cur[w] \in Conns /\ conn[cur[w]] = "held"
    BY <1>0, <1>3 DEF WorkerCheck, Handler
  <2>2. PICK q \in Handlings \cup {<<"refused">>} : todo' = [todo EXCEPT ![w] = q]
    BY <1>3 DEF WorkerCheck
  <2>3. q \in Seq(Ops) /\ q # <<>> /\ OneEnd(q)
    <3>1. CASE q \in Handlings
      <4>1. q \in Seq(Ops \ {"count", "rejected"}) /\ q # <<>> /\ OneEnd(q)
        BY <3>1, HandlingsEndOnce
      <4> QED BY <4>1
    <3>2. CASE q = <<"refused">>
      BY <3>2, SubmitterEnds
    <3> QED BY <3>1, <3>2
  <2> QED BY <1>0, <1>3, <1>t, <2>1, <2>2, <2>3, LocalPlaces DEF WorkerCheck
<1>4. CASE DoOp(w)
  BY <1>0, <1>4, DoOpPlaces
<1>5. CASE WorkerPanics(w)
  BY <1>5, PanicPlaces
<1> QED BY <1>1, <1>2, <1>3, <1>4, <1>5 DEF Worker

\* The steps of the log writer, the aggregator, the health thread and the owner
\* touch no thread and no connection.
LEMMA QuietSteps ==
    ASSUME \/ Writer \/ Aggregator \/ HealthLogs \/ HealthExit
           \/ RaiseFlag \/ StopAccepting \/ PoolDropped \/ Embedder
           \/ \E how \in {"shutdown", "drop"} : BeginShutdown(how)
           \/ ShutdownThreads \/ Owner
           \/ UNCHANGED vars
    PROVE  UNCHANGED conn_vars
  BY DEF Writer, LogWrite, LogExit, Aggregator, MetricsRecv, MetricsLog, MetricsSnapshot,
         MetricsExit, HealthLogs, HealthExit, RaiseFlag, StopAccepting, PoolDropped, Embedder,
         EmbedderLogs, Keep, LetGo, BeginShutdown, ShutdownThreads, Owner, HealthStopped, GraceOver, JoinWorkers,
         JoinFails, Detach, JoinMetrics, ShutdownLog, JoinLog, vars

LEMMA PlaceInit == Init => PlaceInv
<1> SUFFICES ASSUME Init PROVE PlaceInv
  OBVIOUS
<1>1. 0 \in Workers
  BY PoolAssumption DEF Workers
<1>2. ThreadTypes
  BY <1>1 DEF Init, ThreadTypes
<1>3. Handlers
  BY ThreadAssumption DEF Init, Handlers, Handler, Threads
<1>4. Places
  <2>1. \A c \in Conns, w \in Workers, i \in Nat : ~InSlot(c, w, i)
    BY DEF Init, InSlot
  <2>2. \A w \in Workers : Len(queue[w]) <= QueueCap
    BY PoolAssumption DEF Init
  <2>3. \A t \in Threads : cur[t] = NoConn
    BY DEF Init
  <2>4. \A c \in Conns : conn[c] = "new"
    BY DEF Init
  <2> QED BY <2>1, <2>2, <2>3, <2>4 DEF Places
<1> QED BY <1>2, <1>3, <1>4 DEF PlaceInv

LEMMA PlaceStep == ASSUME PlaceInv, [Next]_vars PROVE PlaceInv'
<1>1. CASE \E s \in Submitters : Submitter(s)
  BY <1>1, SubmitterPlaces
<1>2. CASE \E w \in Workers : Worker(w) \/ WorkerPanics(w)
  BY <1>2, WorkerPlaces
<1> QED BY <1>1, <1>2, QuietSteps, UntouchedPlaces DEF Next

LEMMA PlaceInvariant == Spec => []PlaceInv
<1>1. PlaceInv /\ [Next]_vars => PlaceInv'
  BY PlaceStep
<1> QED BY <1>1, PlaceInit, PTL DEF Spec

\* OnePlace for every instance: whatever the order in which connections are
\* submitted, queued, received, answered and lost to a panic, each is in one slot
\* of one queue or in the hands of one thread while it is open, and nowhere when
\* it is not.
THEOREM EveryConnectionHasOnePlace == Spec => []OnePlace
<1>1. PlaceInv => OnePlace
  <2> SUFFICES ASSUME PlaceInv, NEW c \in Conns
               PROVE  LET spots   == {p \in Workers \X (1 .. QueueCap) :
                                          p[2] <= Len(queue[p[1]]) /\ queue[p[1]][p[2]] = c}
                          holders == {t \in Threads : cur[t] = c}
                      IN  /\ Cardinality(spots) = IF conn[c] = "queued" THEN 1 ELSE 0
                          /\ Cardinality(holders) <= 1
                          /\ conn[c] \in {"new", "queued"} => holders = {}
                          /\ conn[c] = "held" => holders # {}
    BY DEF OnePlace
  <2> DEFINE spots   == {p \in Workers \X (1 .. QueueCap) :
                             p[2] <= Len(queue[p[1]]) /\ queue[p[1]][p[2]] = c}
             holders == {t \in Threads : cur[t] = c}
  <2> USE DEF PlaceInv
  <2>0. c # NoConn
    BY ConnAssumption
  <2>1. \A w \in Workers : Len(queue[w]) \in Nat /\ Len(queue[w]) <= QueueCap
    BY DEF ThreadTypes, Places
  <2>2. \A p \in spots : p[1] \in Workers /\ p[2] \in Nat /\ p = <<p[1], p[2]>> /\ InSlot(c, p[1], p[2])
    BY <2>1 DEF InSlot
  <2>3. \A w \in Workers, i \in Nat : InSlot(c, w, i) => <<w, i>> \in spots
    BY <2>1, PoolAssumption DEF InSlot
  <2>4. \A p, q \in spots : p = q
    BY <2>2 DEF Places
  <2>5. conn[c] = "queued" <=> spots # {}
    <3>1. conn[c] = "queued" <=> \E w \in Workers : \E i \in Nat : InSlot(c, w, i)
      BY DEF Places
    <3>2. (\E w \in Workers : \E i \in Nat : InSlot(c, w, i)) => spots # {}
      BY <2>3
    <3> HIDE DEF spots
    <3>3. spots # {} => \E w \in Workers : \E i \in Nat : InSlot(c, w, i)
      BY <2>2
    <3> QED BY <3>1, <3>2, <3>3
  <2>6. \A t, u \in holders : t = u
    BY <2>0 DEF Places
  <2>7. conn[c] \in {"new", "queued"} => holders = {}
    BY <2>0 DEF Places
  <2>8. conn[c] = "held" => holders # {}
    BY DEF Places
  <2> HIDE DEF spots, holders
  <2>9. Cardinality(spots) = IF conn[c] = "queued" THEN 1 ELSE 0
    <3>1. CASE spots = {}
      BY <2>5, <3>1, FS_EmptySet
    <3>2. CASE spots # {}
      <4>1. PICK p \in spots : TRUE
        BY <3>2
      <4>2. spots = {p}
        BY <2>4, <4>1
      <4> QED BY <2>5, <3>2, <4>2, FS_Singleton
    <3> QED BY <3>1, <3>2
  <2>10. Cardinality(holders) <= 1
    <3>1. CASE holders = {}
      BY <3>1, FS_EmptySet
    <3>2. CASE holders # {}
      <4>1. PICK p \in holders : TRUE
        BY <3>2
      <4>2. holders = {p}
        BY <2>6, <4>1
      <4>3. Cardinality({p}) = 1
        BY FS_Singleton
      <4> QED BY <4>2, <4>3
    <3> QED BY <3>1, <3>2
  <2> QED BY <2>7, <2>8, <2>9, <2>10 DEF spots, holders
<1> QED BY <1>1, PlaceInvariant, PTL

-----------------------------------------------------------------------------
(* Rejections *)

\* Is a client about to be told, and counted already?
Told(q) == q # <<>> /\ q[Len(q)] = "rejected" /\ Head(q) # "count"

RejectedConns == {c \in Conns : conn[c] = "rejected"}
ToldBy == {s \in Submitters : Told(todo[s])}

RejectInv ==
    /\ PlaceInv /\ Rejecting
    /\ pool_rejected \in Nat
    /\ pool_rejected = Cardinality(RejectedConns) + Cardinality(ToldBy)

\* What a submitter has left after one effect.
LEMMA SubmitterTodosStep ==
    ASSUME NEW q \in SubmitterTodos, q # <<>>, NEW rest,
           rest = Tail(q) \/ (Head(q) = "log" /\ rest = <<"notice">> \o Tail(q))
    PROVE  /\ rest \in SubmitterTodos
           /\ Head(q) = "count" => ~Told(q) /\ Told(rest)
           /\ Head(q) = "rejected" => Told(q) /\ ~Told(rest)
           /\ Head(q) \notin {"count", "rejected"} => (Told(rest) <=> Told(q))
<1>1. CASE q = <<"count", "log", "rejected">>
  <2>1. rest = <<"log", "rejected">> /\ Head(q) = "count"
    BY <1>1
  <2> QED BY <1>1, <2>1 DEF SubmitterTodos, Told
<1>2. CASE q = <<"log", "rejected">>
  <2>1. rest \in {<<"rejected">>, <<"notice", "rejected">>} /\ Head(q) = "log"
    BY <1>2
  <2> QED BY <1>2, <2>1 DEF SubmitterTodos, Told
<1>3. CASE q = <<"notice", "rejected">>
  <2>1. rest = <<"rejected">> /\ Head(q) = "notice"
    BY <1>3
  <2> QED BY <1>3, <2>1 DEF SubmitterTodos, Told
<1>4. CASE q \in {<<"rejected">>, <<"refused">>, <<"closed">>, <<"notice">>}
  <2>1. rest = <<>> /\ Head(q) = q[1] /\ Len(q) = 1
    BY <1>4
  <2> QED BY <1>4, <2>1 DEF SubmitterTodos, Told
<1>5. CASE q = <<"log", "closed">>
  <2>1. rest \in {<<"closed">>, <<"notice", "closed">>} /\ Head(q) = "log"
    BY <1>5
  <2> QED BY <1>5, <2>1 DEF SubmitterTodos, Told
<1>6. CASE q = <<"notice", "closed">>
  <2>1. rest = <<"closed">> /\ Head(q) = "notice"
    BY <1>6
  <2> QED BY <1>6, <2>1 DEF SubmitterTodos, Told
<1>7. CASE q = <<"log">>
  <2>1. rest \in {<<>>, <<"notice">>} /\ Head(q) = "log"
    BY <1>7
  <2> QED BY <1>7, <2>1 DEF SubmitterTodos, Told
<1> QED BY <1>1, <1>2, <1>3, <1>4, <1>5, <1>6, <1>7 DEF SubmitterTodos

\* The two sets are finite.
LEMMA RejectionSetsFinite ==
    /\ IsFiniteSet(RejectedConns) /\ Cardinality(RejectedConns) \in Nat
    /\ IsFiniteSet(ToldBy) /\ Cardinality(ToldBy) \in Nat
<1>1. RejectedConns \subseteq Conns /\ ToldBy \subseteq Submitters
  BY DEF RejectedConns, ToldBy
<1>2. IsFiniteSet(RejectedConns) /\ IsFiniteSet(ToldBy)
  BY <1>1, ConnAssumption, ThreadAssumption, FS_Subset
<1> QED BY <1>2, FS_CardinalityType

\* A step that neither rejects nor begins to.
LEMMA SameRejections ==
    ASSUME RejectInv, PlaceInv', Rejecting', UNCHANGED pool_rejected,
           \A c \in Conns : conn'[c] = "rejected" <=> conn[c] = "rejected",
           \A s \in Submitters : Told(todo'[s]) <=> Told(todo[s])
    PROVE  RejectInv'
<1>1. RejectedConns' = RejectedConns
  BY DEF RejectedConns
<1>2. ToldBy' = ToldBy
  BY DEF ToldBy
<1> QED BY <1>1, <1>2 DEF RejectInv

\* What one effect does to the counter, the connection and the rest.
LEMMA DoOpCounts ==
    ASSUME ThreadTypes, NEW t \in Threads, Handler(t), DoOp(t)
    PROVE  \E rest :
              /\ todo' = [todo EXCEPT ![t] = rest]
              /\ rest = Tail(todo[t]) \/ (Head(todo[t]) = "log" /\ rest = <<"notice">> \o Tail(todo[t]))
              /\ \/ Head(todo[t]) = "count" /\ pool_rejected' = pool_rejected + 1 /\ conn' = conn
                 \/ /\ Head(todo[t]) \in FinalStates /\ pool_rejected' = pool_rejected
                    /\ conn' = [conn EXCEPT ![cur[t]] = Head(todo[t])]
                 \/ /\ Head(todo[t]) \in {"log", "notice", "stat"}
                    /\ pool_rejected' = pool_rejected /\ conn' = conn
<1>1. todo[t] \in Seq(Ops) /\ todo[t] # <<>>
  BY DEF DoOp, Handler, ThreadTypes
<1>2. <<>> \o Tail(todo[t]) = Tail(todo[t])
  BY <1>1, ConcatEmptySeq
<1>3. CASE Head(todo[t]) = "log" /\ EmitLog(t) /\ UNCHANGED <<conn, pool_rejected>>
  <2>1. PICK notice \in {<<>>, <<"notice">>} : Proceed(t, notice \o Tail(todo[t]))
    BY <1>3 DEF EmitLog
  <2>2. CASE notice = <<>>
    <3>1. todo' = [todo EXCEPT ![t] = Tail(todo[t])]
      BY <1>2, <2>1, <2>2 DEF Proceed
    <3> QED BY <1>3, <3>1
  <2>3. CASE notice = <<"notice">>
    <3>1. todo' = [todo EXCEPT ![t] = <<"notice">> \o Tail(todo[t])]
      BY <2>1, <2>3 DEF Proceed
    <3> QED BY <1>3, <3>1
  <2> QED BY <2>1, <2>2, <2>3
<1>4. CASE Head(todo[t]) \in {"notice", "stat"} /\ Proceed(t, Tail(todo[t]))
           /\ UNCHANGED <<conn, pool_rejected>>
  BY <1>4 DEF Proceed
<1>5. CASE Head(todo[t]) = "count" /\ Proceed(t, Tail(todo[t]))
           /\ conn' = conn /\ pool_rejected' = pool_rejected + 1
  BY <1>5 DEF Proceed
<1>6. CASE /\ Head(todo[t]) \in FinalStates /\ Proceed(t, Tail(todo[t]))
           /\ conn' = [conn EXCEPT ![cur[t]] = Head(todo[t])] /\ UNCHANGED pool_rejected
  BY <1>6 DEF Proceed
<1> QED BY <1>3, <1>4, <1>5, <1>6 DEF DoOp

\* A submitter's effects.
LEMMA SubmitterOpRejects ==
    ASSUME RejectInv, PlaceInv', NEW s \in Submitters, DoOp(s)
    PROVE  RejectInv'
<1> USE DEF RejectInv, PlaceInv
<1>0. s \in Threads /\ Handler(s) /\ pc[s] = "work" /\ todo[s] # <<>> /\ todo[s] \in SubmitterTodos
      /\ \A w \in Workers : w # s
  BY ThreadAssumption DEF Threads, Handlers, Handler, DoOp, Rejecting
<1>1. PICK rest :
              /\ todo' = [todo EXCEPT ![s] = rest]
              /\ rest = Tail(todo[s]) \/ (Head(todo[s]) = "log" /\ rest = <<"notice">> \o Tail(todo[s]))
              /\ \/ Head(todo[s]) = "count" /\ pool_rejected' = pool_rejected + 1 /\ conn' = conn
                 \/ /\ Head(todo[s]) \in FinalStates /\ pool_rejected' = pool_rejected
                    /\ conn' = [conn EXCEPT ![cur[s]] = Head(todo[s])]
                 \/ /\ Head(todo[s]) \in {"log", "notice", "stat"}
                    /\ pool_rejected' = pool_rejected /\ conn' = conn
  BY <1>0, DoOpCounts
<1>2. /\ rest \in SubmitterTodos
      /\ Head(todo[s]) = "count" => ~Told(todo[s]) /\ Told(rest)
      /\ Head(todo[s]) = "rejected" => Told(todo[s]) /\ ~Told(rest)
      /\ Head(todo[s]) \notin {"count", "rejected"} => (Told(rest) <=> Told(todo[s]))
  BY <1>0, <1>1, SubmitterTodosStep
<1>3. todo'[s] = rest /\ \A u \in Threads : u # s => todo'[u] = todo[u]
  BY <1>0, <1>1 DEF ThreadTypes
<1>4. Rejecting'
  BY <1>0, <1>2, <1>3 DEF Rejecting, Threads
<1>5. Submitters \subseteq Threads
  BY DEF Threads
<1>6. CASE Head(todo[s]) = "count"
  <2>1. pool_rejected' = pool_rejected + 1 /\ conn' = conn
    BY <1>1, <1>6 DEF FinalStates
  <2>2. ToldBy' = ToldBy \cup {s} /\ s \notin ToldBy
    BY <1>2, <1>3, <1>5, <1>6 DEF ToldBy
  <2>3. Cardinality(ToldBy') = Cardinality(ToldBy) + 1
    BY <2>2, RejectionSetsFinite, FS_AddElement
  <2>4. RejectedConns' = RejectedConns
    BY <2>1 DEF RejectedConns
  <2> QED BY <1>4, <2>1, <2>3, <2>4, RejectionSetsFinite
<1>7. CASE Head(todo[s]) = "rejected"
  <2>1. pool_rejected' = pool_rejected /\ conn' = [conn EXCEPT ![cur[s]] = "rejected"]
    BY <1>1, <1>7 DEF FinalStates
  <2>2. cur[s] \in Conns /\ conn[cur[s]] = "held"
    <3>1. Head(todo[s]) = todo[s][1] /\ 1 \in 1 .. Len(todo[s])
      BY <1>0 DEF ThreadTypes
    <3>2. todo[s] \notin Seq({"log", "notice"})
      BY <1>7, <3>1
    <3>3. ~NoEnd(todo[s])
      BY <1>7, <3>1 DEF NoEnd, FinalStates
    <3> QED BY <1>0, <3>2, <3>3 DEF Handler
  <2>3. ToldBy' = ToldBy \ {s} /\ s \in ToldBy
    BY <1>2, <1>3, <1>5, <1>7 DEF ToldBy
  <2>4. Cardinality(ToldBy') = Cardinality(ToldBy) - 1
    BY <2>3, RejectionSetsFinite, FS_RemoveElement
  <2>5. RejectedConns' = RejectedConns \cup {cur[s]} /\ cur[s] \notin RejectedConns
    BY <2>1, <2>2 DEF RejectedConns, ThreadTypes
  <2>6. Cardinality(RejectedConns') = Cardinality(RejectedConns) + 1
    BY <2>5, RejectionSetsFinite, FS_AddElement
  <2> QED BY <1>4, <2>1, <2>4, <2>6, RejectionSetsFinite
<1>8. CASE Head(todo[s]) \notin {"count", "rejected"}
  <2>1. \A u \in Submitters : Told(todo'[u]) <=> Told(todo[u])
    BY <1>2, <1>3, <1>5, <1>8
  <2>2. pool_rejected' = pool_rejected
    BY <1>1, <1>8
  <2>3. \A c \in Conns : conn'[c] = "rejected" <=> conn[c] = "rejected"
    <3>1. CASE conn' = conn
      BY <3>1
    <3>2. CASE Head(todo[s]) \in FinalStates /\ conn' = [conn EXCEPT ![cur[s]] = Head(todo[s])]
      <4>1. cur[s] \in Conns => conn[cur[s]] = "held"
        <5>1. Head(todo[s]) = todo[s][1] /\ 1 \in 1 .. Len(todo[s])
          BY <1>0 DEF ThreadTypes
        <5>2. ~NoEnd(todo[s])
          BY <3>2, <5>1 DEF NoEnd
        <5> QED BY <1>0, <5>2, ConnAssumption DEF Handler
      <4> QED BY <1>8, <3>2, <4>1 DEF ThreadTypes
    <3> QED BY <1>1, <3>1, <3>2
  <2> QED BY <1>4, <2>1, <2>2, <2>3, SameRejections
<1> QED BY <1>6, <1>7, <1>8

\* The other steps of a submitter: none begins in the middle of a rejection.
LEMMA SubmitterRejects ==
    ASSUME RejectInv, PlaceInv', NEW s \in Submitters, Submitter(s)
    PROVE  RejectInv'
<1> USE DEF RejectInv, PlaceInv
<1>0. s \in Threads /\ Handler(s) /\ (\A w \in Workers : w # s) /\ Submitters \subseteq Threads
      /\ Workers \subseteq Threads
  BY ThreadAssumption DEF Threads, Handlers
<1>1. CASE DoOp(s)
  BY <1>1, SubmitterOpRejects
<1>2. ASSUME pc[s] # "work", UNCHANGED pool_rejected,
             NEW q \in {<<>>, <<"refused">>, <<"log", "closed">>, <<"log">>, <<"count", "log", "rejected">>},
             todo' = [todo EXCEPT ![s] = q],
             \A c \in Conns : conn'[c] = "rejected" <=> conn[c] = "rejected"
      PROVE  RejectInv'
  <2>1. todo[s] = <<>> /\ ~Told(<<>>)
    BY <1>0, <1>2 DEF Handler, Told
  <2>2. ~Told(q) /\ q \in SubmitterTodos
    BY <1>2 DEF Told, SubmitterTodos
  <2>3. todo'[s] = q /\ \A u \in Threads : u # s => todo'[u] = todo[u]
    BY <1>0, <1>2 DEF ThreadTypes
  <2>4. Rejecting'
    BY <1>0, <2>2, <2>3 DEF Rejecting
  <2>5. \A u \in Submitters : Told(todo'[u]) <=> Told(todo[u])
    BY <1>0, <2>1, <2>2, <2>3
  <2> QED BY <1>2, <2>4, <2>5, SameRejections
<1>t. todo = [todo EXCEPT ![s] = todo[s]] /\ (pc[s] # "work" => todo[s] = <<>>)
  BY <1>0 DEF ThreadTypes, Handler
<1>3. ASSUME NEW c \in Conns, Accept(s, c) PROVE RejectInv'
  <2>1. pc[s] # "work" /\ todo' = [todo EXCEPT ![s] = <<>>] /\ UNCHANGED pool_rejected
    BY <1>3, <1>t DEF Accept, obs_vars
  <2>2. \A d \in Conns : conn'[d] = "rejected" <=> conn[d] = "rejected"
    BY <1>3 DEF Accept, ThreadTypes
  <2> QED BY <1>2, <2>1, <2>2
<1>4. CASE AcceptTimeoutFails(s)
  <2>1. pc[s] # "work" /\ todo' = [todo EXCEPT ![s] = <<"log", "closed">>]
        /\ UNCHANGED <<conn, pool_rejected>>
    BY <1>4 DEF AcceptTimeoutFails, obs_vars
  <2> QED BY <1>2, <2>1
<1>5. CASE AcceptError(s)
  <2>1. pc[s] # "work" /\ todo' = [todo EXCEPT ![s] = <<"log">>] /\ UNCHANGED <<conn, pool_rejected>>
    BY <1>5 DEF AcceptError, obs_vars
  <2> QED BY <1>2, <2>1
<1>6. CASE SubmitCheck(s)
  <2>1. pc[s] # "work" /\ UNCHANGED <<conn, pool_rejected>>
        /\ \E q \in {<<"refused">>, <<"count", "log", "rejected">>, <<>>} : todo' = [todo EXCEPT ![s] = q]
    BY <1>6, <1>t DEF SubmitCheck, RejectPoolFull, obs_vars
  <2> QED BY <1>2, <2>1
<1>7. CASE SubmitSend(s)
  <2>1. pc[s] # "work" /\ UNCHANGED pool_rejected /\ cur[s] \in Conns /\ conn[cur[s]] = "held"
    BY <1>0, <1>7 DEF SubmitSend, obs_vars, Handler
  <2>2. CASE conn' = [conn EXCEPT ![cur[s]] = "queued"] /\ UNCHANGED todo
    <3>1. \A d \in Conns : conn'[d] = "rejected" <=> conn[d] = "rejected"
      BY <2>1, <2>2 DEF ThreadTypes
    <3>2. todo' = [todo EXCEPT ![s] = <<>>]
      BY <1>t, <2>1, <2>2
    <3> QED BY <1>2, <2>1, <3>1, <3>2
  <2>3. CASE UNCHANGED conn /\ todo' = [todo EXCEPT ![s] = <<"count", "log", "rejected">>]
    BY <1>2, <2>1, <2>3
  <2>4. CASE UNCHANGED conn /\ todo' = [todo EXCEPT ![s] = <<"refused">>]
    BY <1>2, <2>1, <2>4
  <2> QED BY <1>7, <2>2, <2>3, <2>4 DEF SubmitSend, RejectPoolFull
<1> QED BY <1>1, <1>3, <1>4, <1>5, <1>6, <1>7 DEF Submitter

\* Workers never reject, and a panic closes only what is open.
LEMMA WorkerRejects ==
    ASSUME RejectInv, PlaceInv', NEW w \in Workers, Worker(w) \/ WorkerPanics(w)
    PROVE  RejectInv'
<1> USE DEF RejectInv, PlaceInv
<1> DEFINE O == Ops \ {"count", "rejected"}
<1>0. w \in Threads /\ Handler(w) /\ (\A s \in Submitters : w # s) /\ Submitters \subseteq Threads
      /\ Workers \subseteq Threads /\ todo[w] \in Seq(O) /\ todo = [todo EXCEPT ![w] = todo[w]]
  BY ThreadAssumption DEF Threads, Handlers, Rejecting, ThreadTypes
<1>1. ASSUME UNCHANGED pool_rejected, NEW q \in Seq(O), todo' = [todo EXCEPT ![w] = q],
             \A c \in Conns : conn'[c] = "rejected" <=> conn[c] = "rejected"
      PROVE  RejectInv'
  <2>1. todo'[w] = q /\ \A u \in Threads : u # w => todo'[u] = todo[u]
    BY <1>0, <1>1 DEF ThreadTypes
  <2>2. Rejecting'
    BY <1>0, <1>1, <2>1 DEF Rejecting
  <2>3. \A u \in Submitters : Told(todo'[u]) <=> Told(todo[u])
    BY <1>0, <2>1
  <2> QED BY <1>1, <2>2, <2>3, SameRejections
<1>2. CASE WorkerRecv(w)
  <2>1. todo' = [todo EXCEPT ![w] = todo[w]] /\ UNCHANGED pool_rejected /\ queue[w] # <<>>
        /\ conn' = [conn EXCEPT ![Head(queue[w])] = "held"]
    BY <1>0, <1>2 DEF WorkerRecv, obs_vars
  <2>2. InSlot(Head(queue[w]), w, 1) /\ Head(queue[w]) \in Conns /\ 1 \in Nat
    BY <2>1 DEF InSlot, ThreadTypes
  <2>3. conn[Head(queue[w])] = "queued"
    BY <2>2 DEF Places
  <2>4. \A c \in Conns : conn'[c] = "rejected" <=> conn[c] = "rejected"
    BY <2>1, <2>2, <2>3 DEF ThreadTypes
  <2> QED BY <1>0, <1>1, <2>1, <2>4
<1>3. CASE WorkerExit(w)
  <2>1. UNCHANGED <<todo, conn, pool_rejected>>
    BY <1>3 DEF WorkerExit, obs_vars
  <2> QED BY <1>0, <1>1, <2>1
<1>4. CASE WorkerCheck(w)
  <2>1. UNCHANGED <<conn, pool_rejected>>
    BY <1>4 DEF WorkerCheck, obs_vars
  <2>2. PICK q \in Handlings \cup {<<"refused">>} : todo' = [todo EXCEPT ![w] = q]
    BY <1>4 DEF WorkerCheck
  <2>3. q \in Seq(O)
    BY HandlingsEndOnce, SubmitterEnds
  <2> QED BY <1>1, <2>1, <2>2, <2>3
<1>5. CASE DoOp(w)
  <2>0. todo[w] # <<>>
    BY <1>0, <1>5 DEF DoOp, Handler
  <2>1. PICK rest :
              /\ todo' = [todo EXCEPT ![w] = rest]
              /\ rest = Tail(todo[w]) \/ (Head(todo[w]) = "log" /\ rest = <<"notice">> \o Tail(todo[w]))
              /\ \/ Head(todo[w]) = "count" /\ pool_rejected' = pool_rejected + 1 /\ conn' = conn
                 \/ /\ Head(todo[w]) \in FinalStates /\ pool_rejected' = pool_rejected
                    /\ conn' = [conn EXCEPT ![cur[w]] = Head(todo[w])]
                 \/ /\ Head(todo[w]) \in {"log", "notice", "stat"}
                    /\ pool_rejected' = pool_rejected /\ conn' = conn
    BY <1>0, <1>5, DoOpCounts
  <2>2. Head(todo[w]) \in O /\ Tail(todo[w]) \in Seq(O) /\ Head(todo[w]) = todo[w][1]
        /\ 1 \in 1 .. Len(todo[w])
    BY <1>0, <2>0
  <2>3. "notice" \in O /\ "count" \notin O /\ "rejected" \notin O
    BY DEF Ops
  <2> HIDE DEF O
  <2>4. <<"notice">> \o Tail(todo[w]) \in Seq(O)
    BY <2>2, <2>3
  <2>5. rest \in Seq(O)
    BY <2>1, <2>2, <2>4
  <2>6. UNCHANGED pool_rejected
    BY <2>1, <2>2, <2>3
  <2>7. \A c \in Conns : conn'[c] = "rejected" <=> conn[c] = "rejected"
    <3>1. CASE conn' = conn
      BY <3>1
    <3>2. CASE Head(todo[w]) \in FinalStates /\ conn' = [conn EXCEPT ![cur[w]] = Head(todo[w])]
      <4>1. ~NoEnd(todo[w])
        BY <2>2, <3>2 DEF NoEnd
      <4>2. cur[w] \in Conns => conn[cur[w]] = "held"
        BY <1>0, <1>5, <4>1, ConnAssumption DEF Handler, DoOp
      <4>3. Head(todo[w]) # "rejected"
        BY <2>2, <2>3
      <4> QED BY <3>2, <4>2, <4>3 DEF ThreadTypes
    <3> QED BY <2>1, <3>1, <3>2
  <2> QED BY <1>1, <2>1, <2>5, <2>6, <2>7
<1>6. CASE WorkerPanics(w)
  <2>1. todo' = [todo EXCEPT ![w] = <<>>] /\ UNCHANGED pool_rejected
    BY <1>6 DEF WorkerPanics, obs_vars
  <2>2. \A c \in Conns : conn'[c] = conn[c] \/ (conn[c] \notin FinalStates /\ conn'[c] = "closed")
    BY <1>6 DEF WorkerPanics
  <2>3. \A c \in Conns : conn'[c] = "rejected" <=> conn[c] = "rejected"
    BY <2>2 DEF FinalStates
  <2>4. <<>> \in Seq(O)
    OBVIOUS
  <2> QED BY <1>1, <2>1, <2>3, <2>4
<1> QED BY <1>2, <1>3, <1>4, <1>5, <1>6 DEF Worker

\* The other threads do not touch the counter.
LEMMA QuietCount ==
    ASSUME \/ Writer \/ Aggregator \/ HealthLogs \/ HealthExit
           \/ RaiseFlag \/ StopAccepting \/ PoolDropped \/ Embedder
           \/ \E how \in {"shutdown", "drop"} : BeginShutdown(how)
           \/ ShutdownThreads \/ Owner
           \/ UNCHANGED vars
    PROVE  UNCHANGED pool_rejected
  BY DEF Writer, LogWrite, LogExit, Aggregator, MetricsRecv, MetricsLog, MetricsSnapshot,
         MetricsExit, HealthLogs, HealthExit, RaiseFlag, StopAccepting, PoolDropped, Embedder,
         EmbedderLogs, Keep, LetGo, BeginShutdown, ShutdownThreads, Owner, HealthStopped, GraceOver, JoinWorkers,
         JoinFails, Detach, JoinMetrics, ShutdownLog, JoinLog, vars, obs_vars

LEMMA RejectStep == ASSUME RejectInv, [Next]_vars PROVE RejectInv'
<1>0. PlaceInv'
  BY PlaceStep DEF RejectInv
<1>1. CASE \E s \in Submitters : Submitter(s)
  BY <1>0, <1>1, SubmitterRejects
<1>2. CASE \E w \in Workers : Worker(w) \/ WorkerPanics(w)
  BY <1>0, <1>2, WorkerRejects
<1>3. CASE UNCHANGED conn_vars /\ UNCHANGED pool_rejected
  <2>1. UNCHANGED <<conn, todo, pool_rejected>>
    BY <1>3 DEF conn_vars
  <2>2. Rejecting'
    BY <2>1 DEF RejectInv, Rejecting
  <2> QED BY <1>0, <2>1, <2>2, SameRejections
<1> QED BY <1>1, <1>2, <1>3, QuietSteps, QuietCount DEF Next

LEMMA RejectInvariant == Spec => []RejectInv
<1>1. Init => RejectInv
  <2> SUFFICES ASSUME Init PROVE RejectInv
    OBVIOUS
  <2>1. RejectedConns = {}
    BY DEF Init, RejectedConns
  <2>2. ToldBy = {}
    BY DEF Init, ToldBy, Told, Threads
  <2>3. Rejecting
    BY DEF Init, Rejecting, SubmitterTodos, Threads
  <2>4. pool_rejected = 0
    BY DEF Init
  <2> QED BY <2>1, <2>2, <2>3, <2>4, PlaceInit, FS_EmptySet DEF RejectInv
<1>2. RejectInv /\ [Next]_vars => RejectInv'
  BY RejectStep
<1> QED BY <1>1, <1>2, PTL DEF Spec

\* RejectionsAreCounted for every instance: Metrics::pool_rejected is the number
\* of clients told "worker queue full" and of those about to be, whatever happens
\* between the counting, the logging and the answer of reject_pool_full.
THEOREM EveryRejectionIsCounted == Spec => []RejectionsAreCounted
<1>1. RejectInv => RejectionsAreCounted
  <2> SUFFICES ASSUME RejectInv PROVE RejectionsAreCounted
    OBVIOUS
  <2>1. \A s \in Submitters : pc[s] = "work" <=> todo[s] # <<>>
    BY DEF RejectInv, PlaceInv, Handlers, Handler, Threads
  <2>2. ToldBy = {s \in Submitters : /\ pc[s] = "work" /\ todo[s] # <<>>
                                     /\ todo[s][Len(todo[s])] = "rejected"
                                     /\ Head(todo[s]) # "count"}
    BY <2>1 DEF ToldBy, Told
  <2> QED BY <2>2 DEF RejectInv, RejectionsAreCounted, RejectedConns
<1> QED BY <1>1, RejectInvariant, PTL

-----------------------------------------------------------------------------
(* Types *)

OtherTypes == SenderTypes /\ ObservabilityTypes /\ OwnerTypes

LEMMA SendLogType ==
    ASSUME log_q \in Seq(LogRecords), NEW r \in LogRecords, SendLog(r)
    PROVE  log_q' \in Seq(LogRecords)
  BY DEF SendLog

\* What connection threads leave alone.
LEMMA ThreadStepKeeps ==
    ASSUME NEW t, Submitter(t) \/ Worker(t) \/ WorkerPanics(t)
    PROVE  /\ UNCHANGED <<flag_vars, writer_vars, agg_vars, sender_vars, owner_vars, health, kept>>
           /\ ~DoOp(t) => UNCHANGED <<log_q, stat_vars, pool_rejected>>
           /\ noise \in Nat => noise' \in Nat
           /\ panics \in Nat => panics' \in Nat
  BY DEF Submitter, Worker, Accept, AcceptTimeoutFails, AcceptError, SubmitCheck, SubmitSend,
         DoOp, WorkerRecv, WorkerExit, WorkerCheck, WorkerPanics, obs_vars, env_vars

\* Only a handler with a connection sends statistics.
LEMMA StatHasConn ==
    ASSUME PlaceInv, NEW t \in Threads, pc[t] = "work", Head(todo[t]) = "stat"
    PROVE  cur[t] \in Conns
<1>1. Handler(t) /\ todo[t] # <<>> /\ todo[t] \in Seq(Ops)
  BY DEF PlaceInv, Handlers, Handler, ThreadTypes
<1>2. todo[t] \notin Seq({"log", "notice"})
  BY <1>1
<1> QED BY <1>1, <1>2 DEF Handler

LEMMA DoOpTypes ==
    ASSUME PlaceInv, ObservabilityTypes, NEW t \in Threads, DoOp(t)
    PROVE  /\ log_q' \in Seq(LogRecords) /\ metrics_q' \in Seq(Conns) /\ stats_sent' \subseteq Conns
           /\ pool_rejected' \in Nat
<1>0. Event \in LogRecords
  BY DEF Event, LogRecords
<1> USE DEF ObservabilityTypes
<1>1. CASE SendLog(Event) /\ UNCHANGED <<pool_rejected, stat_vars>>
  BY <1>0, <1>1, SendLogType DEF stat_vars
<1>2. CASE Head(todo[t]) = "stat" /\ RecordMetrics(cur[t]) /\ UNCHANGED <<pool_rejected, log_q>>
  <2>1. cur[t] \in Conns
    BY <1>2, StatHasConn DEF DoOp
  <2>2. CASE metrics_q' = Append(metrics_q, cur[t]) /\ stats_sent' = stats_sent \cup {cur[t]}
    BY <1>2, <2>1, <2>2
  <2>3. CASE UNCHANGED stat_vars
    BY <1>2, <2>3 DEF stat_vars
  <2> QED BY <1>2, <2>2, <2>3 DEF RecordMetrics
<1>3. CASE pool_rejected' \in {pool_rejected, pool_rejected + 1} /\ UNCHANGED <<log_q, stat_vars>>
  BY <1>3 DEF stat_vars
<1> QED BY <1>1, <1>2, <1>3 DEF DoOp, EmitLog

LEMMA ThreadStepTypes ==
    ASSUME PlaceInv, OtherTypes, NEW t \in Threads, Submitter(t) \/ Worker(t) \/ WorkerPanics(t)
    PROVE  OtherTypes'
<1>1. /\ UNCHANGED <<flag_vars, writer_vars, agg_vars, sender_vars, owner_vars, health, kept>>
      /\ ~DoOp(t) => UNCHANGED <<log_q, stat_vars, pool_rejected>>
      /\ noise \in Nat => noise' \in Nat
      /\ panics \in Nat => panics' \in Nat
  BY ThreadStepKeeps
<1>2. SenderTypes'
  BY <1>1 DEF OtherTypes, SenderTypes, flag_vars, sender_vars
<1>3. OwnerTypes'
  BY <1>1 DEF OtherTypes, OwnerTypes, owner_vars, past_vars
<1>4. ObservabilityTypes'
  <2>1. CASE DoOp(t)
    <3>1. /\ log_q' \in Seq(LogRecords) /\ metrics_q' \in Seq(Conns) /\ stats_sent' \subseteq Conns
          /\ pool_rejected' \in Nat
      BY <2>1, DoOpTypes DEF OtherTypes
    <3> QED BY <1>1, <3>1 DEF OtherTypes, ObservabilityTypes, writer_vars, agg_vars
  <2>2. CASE ~DoOp(t)
    BY <1>1, <2>2 DEF OtherTypes, ObservabilityTypes, writer_vars, agg_vars, stat_vars
  <2> QED BY <2>1, <2>2
<1> QED BY <1>2, <1>3, <1>4 DEF OtherTypes

\* The log writer, the aggregator and the health thread.
LEMMA ServiceTypes ==
    ASSUME OtherTypes, Writer \/ Aggregator \/ HealthLogs \/ HealthExit \/ Embedder
    PROVE  OtherTypes'
<1> DEFINE Step == Writer \/ Aggregator \/ HealthLogs \/ HealthExit \/ Embedder
<1>0. Step
  OBVIOUS
<1> USE DEF Writer, LogWrite, LogExit, Aggregator, MetricsRecv, MetricsLog, MetricsSnapshot,
            MetricsExit, HealthLogs, HealthExit, Embedder, EmbedderLogs, Keep, LetGo
<1>1. UNCHANGED <<flag_vars, sender_vars, owner_vars, pool_rejected, stats_sent>>
  BY DEF obs_vars, stat_vars
<1>2. SenderTypes'
  BY <1>1 DEF OtherTypes, SenderTypes, flag_vars, sender_vars
<1>3. health' \in {health, "exited"} /\ kept' \subseteq MayKeep /\ noise' \in Nat /\ panics' \in Nat
  <2>1. health' \in {health, "exited"}
    BY DEF env_vars
  <2>2. kept' \subseteq MayKeep
    BY DEF env_vars, OtherTypes, OwnerTypes
  <2>3. (noise' = noise \/ noise' = noise + 1) /\ panics' = panics
    BY DEF env_vars
  <2> HIDE <1>0 DEF Writer, Aggregator, HealthLogs, HealthExit, Embedder, EmbedderLogs, Keep, LetGo, Step
  <2>4. noise' \in Nat /\ panics' \in Nat
    BY <2>3 DEF OtherTypes, OwnerTypes
  <2> QED BY <2>1, <2>2, <2>4 DEF OtherTypes, OwnerTypes
<1>4. OwnerTypes'
  <2> HIDE <1>0 DEF Writer, Aggregator, HealthLogs, HealthExit, Embedder, EmbedderLogs, Keep, LetGo, Step
  <2> QED BY <1>1, <1>3 DEF OtherTypes, OwnerTypes, owner_vars, past_vars
<1>5. log_q' \in Seq(LogRecords)
  <2>1. Event \in LogRecords /\ Snapshot(total_requests) \in LogRecords /\ OwnRecord \in LogRecords
    BY DEF Event, Snapshot, OwnRecord, LogRecords, OtherTypes, ObservabilityTypes
  <2>2. log_q \in Seq(LogRecords)
    BY DEF OtherTypes, ObservabilityTypes
  <2>3. \/ SendLog(Event) \/ SendLog(OwnRecord) \/ SendLog(Snapshot(total_requests)) \/ UNCHANGED log_q
        \/ log_q # <<>> /\ log_q' = Tail(log_q)
    BY DEF obs_vars
  <2>4. CASE log_q # <<>> /\ log_q' = Tail(log_q)
    BY <2>2, <2>4
  <2> QED BY <2>1, <2>2, <2>3, <2>4, SendLogType
<1>6. last_record' \in LogRecords /\ lpc' \in {"recv", "exited"}
  <2>1. lpc' \in {"recv", "exited"}
    BY DEF OtherTypes, ObservabilityTypes, obs_vars, writer_vars
  <2>2. CASE LogWrite
    <3>1. Head(log_q) \in LogRecords
      BY <2>2 DEF OtherTypes, ObservabilityTypes
    <3>2. last_record' \in LastAfter(Head(log_q))
      BY <2>2
    <3> QED BY <2>1, <3>1, <3>2 DEF LastAfter, LogRecords, OtherTypes, ObservabilityTypes
  <2>3. CASE ~LogWrite
    BY <2>1, <2>3 DEF OtherTypes, ObservabilityTypes, obs_vars, writer_vars
  <2> QED BY <2>2, <2>3
<1>7. metrics_q' \in Seq(Conns)
  BY SMTT(30) DEF OtherTypes, ObservabilityTypes, obs_vars, stat_vars
<1>8. total_requests' \in Nat /\ mpc' \in {"recv", "log", "log_due", "snapshot", "exited"}
  BY DEF OtherTypes, ObservabilityTypes, obs_vars, agg_vars
<1>9. ObservabilityTypes'
  BY <1>1, <1>5, <1>6, <1>7, <1>8 DEF OtherTypes, ObservabilityTypes
<1> QED BY <1>2, <1>4, <1>9 DEF OtherTypes

\* The steps of the owner.
LEMMA OwnerTypesStep ==
    ASSUME OtherTypes,
           \/ RaiseFlag \/ StopAccepting \/ PoolDropped
           \/ \E how \in {"shutdown", "drop"} : BeginShutdown(how)
           \/ ShutdownThreads \/ Owner
    PROVE  OtherTypes'
<1> USE DEF RaiseFlag, StopAccepting, PoolDropped, DropPool, BeginShutdown, ShutdownThreads, Owner,
            HealthStopped, GraceOver, JoinWorkers, JoinFails, Detach, JoinMetrics, ShutdownLog, JoinLog
<1>1. UNCHANGED <<writer_vars, stat_vars, agg_vars, pool_rejected, mode, env_vars>>
  BY DEF obs_vars, past_vars, owner_vars
<1>2. SenderTypes'
  BY DEF OtherTypes, SenderTypes, sender_vars, flag_vars, LogHasRoom, Attached
<1>3. log_q' \in Seq(LogRecords)
  <2>1. Snapshot(total_requests) \in LogRecords
    BY DEF Snapshot, LogRecords, OtherTypes, ObservabilityTypes
  <2>2. SendLog(Snapshot(total_requests)) \/ UNCHANGED log_q
    BY DEF obs_vars
  <2> QED BY <2>1, <2>2, SendLogType DEF OtherTypes, ObservabilityTypes
<1>4. ObservabilityTypes'
  <2> HIDE DEF RaiseFlag, StopAccepting, PoolDropped, BeginShutdown, ShutdownThreads, Owner
  <2> QED BY <1>1, <1>3 DEF OtherTypes, ObservabilityTypes, writer_vars, stat_vars, agg_vars
<1>5. owner' \in {"running", "stop_health", "grace", "threads", "join_workers", "detach",
                  "join_metrics", "final_log", "join_log", "done", "gone"}
  BY DEF OtherTypes, OwnerTypes, owner_vars
<1>6. ending' \in {"none", "shutdown", "drop"} /\ result' \in {"none", "ok", "error"}
  BY DEF OtherTypes, OwnerTypes, owner_vars
<1>7. running_at_deadline' \subseteq Workers /\ clone_met' \in BOOLEAN
  <2>1. running_at_deadline' \subseteq Workers
    BY DEF OtherTypes, OwnerTypes, owner_vars, past_vars
  <2>2. clone_met' = clone_met \/ clone_met' = ("context" \in kept)
    BY Zenon DEF owner_vars, past_vars
  <2>3. clone_met \in BOOLEAN
    BY DEF OtherTypes, OwnerTypes
  <2> HIDE DEF RaiseFlag, StopAccepting, PoolDropped, BeginShutdown, ShutdownThreads, Owner
  <2>4. CASE clone_met' = ("context" \in kept)
    BY <2>1, <2>4
  <2> QED BY <2>1, <2>2, <2>3, <2>4
<1>8. OwnerTypes'
  <2> HIDE DEF RaiseFlag, StopAccepting, PoolDropped, BeginShutdown, ShutdownThreads, Owner
  <2> QED BY <1>1, <1>5, <1>6, <1>7 DEF OtherTypes, OwnerTypes, env_vars
<1> QED BY <1>2, <1>4, <1>8 DEF OtherTypes

\* TypeOK for every instance.  That a thread which records statistics has a
\* connection to record them for, and that a thread inside a handler has
\* something left to do, rest on PlaceInv.
THEOREM PoolTypes == Spec => []TypeOK
<1> DEFINE Inv == PlaceInv /\ OtherTypes
<1>1. Init => Inv
  <2> SUFFICES ASSUME Init PROVE OtherTypes
    BY PlaceInit
  <2>1. SenderTypes
    BY DEF Init, SenderTypes
  <2>2. ObservabilityTypes
    BY DEF Init, ObservabilityTypes, Event, LogRecords
  <2>3. OwnerTypes
    BY DEF Init, OwnerTypes
  <2> QED BY <2>1, <2>2, <2>3 DEF OtherTypes
<1>2. Inv /\ [Next]_vars => Inv'
  <2> SUFFICES ASSUME Inv, [Next]_vars PROVE OtherTypes'
    BY PlaceStep
  <2>1. CASE \E s \in Submitters : Submitter(s)
    BY <2>1, ThreadStepTypes DEF Threads
  <2>2. CASE \E w \in Workers : Worker(w) \/ WorkerPanics(w)
    BY <2>2, ThreadStepTypes DEF Threads
  <2>3. CASE Writer \/ Aggregator \/ HealthLogs \/ HealthExit \/ Embedder
    BY <2>3, ServiceTypes
  <2>4. CASE \/ RaiseFlag \/ StopAccepting \/ PoolDropped
             \/ \E how \in {"shutdown", "drop"} : BeginShutdown(how)
             \/ ShutdownThreads \/ Owner
    BY <2>4, OwnerTypesStep
  <2>5. CASE UNCHANGED vars
    <3>1. UNCHANGED <<flag_vars, obs_vars, sender_vars, owner_vars, env_vars>>
      BY <2>5 DEF vars
    <3>2. SenderTypes'
      BY <3>1 DEF OtherTypes, SenderTypes, flag_vars, sender_vars
    <3>3. ObservabilityTypes'
      BY <3>1 DEF OtherTypes, ObservabilityTypes, obs_vars, writer_vars, stat_vars, agg_vars
    <3>4. OwnerTypes'
      BY <3>1 DEF OtherTypes, OwnerTypes, owner_vars, past_vars, env_vars
    <3> QED BY <3>2, <3>3, <3>4 DEF OtherTypes
  <2> QED BY <2>1, <2>2, <2>3, <2>4, <2>5 DEF Next
<1>3. Inv => TypeOK
  BY DEF PlaceInv, OtherTypes, TypeOK
<1> QED BY <1>1, <1>2, <1>3, PTL DEF Spec

=============================================================================
