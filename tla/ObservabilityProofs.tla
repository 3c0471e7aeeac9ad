------------------------- MODULE ObservabilityProofs -------------------------
(***************************************************************************)
(* Proofs about module Observability, for any number of emitters, any      *)
(* requests and any capacities of the two channels: the types, that no     *)
(* dropped log record escapes the count, that the notices about them are   *)
(* true and given once, the order of records and snapshots in the file,    *)
(* and that a snapshot tells of the same requests in all its numbers.      *)
(*                                                                         *)
(* The log file and the log channel together are one sequence, Lines, and  *)
(* every step leaves it alone, adds to its end or takes one line out       *)
(* (LinesChange).  What a property says of pairs of lines then survives if *)
(* the line added fits, and for that each sender must be known to be ahead *)
(* of all lines (Ahead, Pending).                                          *)
(***************************************************************************)
EXTENDS Observability, FiniteSetTheorems, SequenceTheorems, WellFoundedInduction, TLAPS

Events == {"emitted", "other", "log_dropped", "metrics_record", "metrics_snapshot"}
Records == [event : Events, level : {"info", "warn"}, n : Nat]

\* The types, but for the bound on emitted.
Types ==
    /\ log_queue \in Seq(Records) /\ Len(log_queue) <= LogCapacity
    /\ metrics_queue \in Seq(Stats) /\ Len(metrics_queue) <= MetricsCapacity
    /\ file \in Seq(Records) /\ arrived \in Seq(Stats)
    /\ dropped_logs \in Nat /\ handled \in Nat /\ emitted \in Nat /\ request_count \in Nat
    /\ pc \in [Emitters -> {"idle", "saturated", "count", "notice"}]
    /\ prev \in [Emitters -> Nat]
    /\ agg \in {<<>>, <<"record">>, <<"snapshot">>, <<"record", "snapshot">>}
    /\ min_level \in DOMAIN Rank
    /\ {"total", "rejected"} \subseteq DOMAIN metrics
    /\ metrics.total = request_count /\ metrics.rejected \in Nat

\* Rejections whose log record is still to be emitted.
Saturated == {e \in Emitters : pc[e] = "saturated"}

\* Only a rejection emits past the bound.
Emitting ==
    /\ metrics.rejected <= MaxRejections
    /\ Cardinality(Saturated) <= metrics.rejected
    /\ emitted <= MaxEmits + metrics.rejected - Cardinality(Saturated)

\* The aggregator has not sent what comes next.
IsAbout(r) == r.event \in {"metrics_record", "metrics_snapshot"}

Ahead ==
    \A i \in 1 .. Len(Lines) :
        IsAbout(Lines[i]) =>
            IF agg # <<>> /\ Head(agg) = "record" THEN Lines[i].n < request_count
                                                  ELSE Lines[i].n <= request_count

\* A notice that is to be sent is new.
Pending ==
    \A e \in Emitters : pc[e] = "notice" =>
        /\ prev[e] % NoticeEvery = 0 /\ prev[e] > 0 /\ prev[e] < dropped_logs
        /\ \A i \in 1 .. Len(Lines) : Lines[i].event = "log_dropped" => Lines[i].n # prev[e] + 1
        /\ \A f \in Emitters : f # e /\ pc[f] = "notice" => prev[f] # prev[e]

-----------------------------------------------------------------------------
(* Types *)

LEMMA TrySendTypes ==
    ASSUME log_queue \in Seq(Records), Len(log_queue) <= LogCapacity, NEW r \in Records
    PROVE  TrySend(r) \in Seq(Records) /\ Len(TrySend(r)) <= LogCapacity
<1>0. LogCapacity \in Nat
  BY ObservabilityAssumption
<1> QED BY <1>0 DEF TrySend

LEMMA RecordTypes ==
    /\ Record("emitted", "info", 0) \in Records /\ Record("other", "info", 0) \in Records
    /\ \A n \in Nat : Record("log_dropped", "warn", n) \in Records
    /\ \A n \in Nat : Record("metrics_record", "info", n) \in Records
    /\ \A n \in Nat : Record("metrics_snapshot", "info", n) \in Records
  BY DEF Record, Records, Events

\* The steps of emitters, and of the other senders.
LEMMA EmitterTypes ==
    ASSUME Types, NEW e \in Emitters,
           EmitLog(e) \/ CountDrop(e) \/ SendNotice(e) \/ RecordPoolRejected(e)
    PROVE  Types'
<1> USE DEF Types
<1>1. CASE EmitLog(e)
  <2>1. log_queue' \in Seq(Records) /\ Len(log_queue') <= LogCapacity
    BY <1>1, TrySendTypes, RecordTypes DEF EmitLog
  <2>2. pc' \in [Emitters -> {"idle", "saturated", "count", "notice"}] /\ emitted' \in Nat
    BY <1>1 DEF EmitLog
  <2>3. UNCHANGED <<metrics_queue, dropped_logs, prev, agg, request_count, metrics, min_level, file,
                    handled, arrived>>
    BY <1>1 DEF EmitLog, agg_vars, file_vars
  <2> QED BY <2>1, <2>2, <2>3
<1>2. CASE CountDrop(e)
  <2>1. dropped_logs' \in Nat
    BY <1>2 DEF CountDrop, Counted
  <2>2. prev' \in [Emitters -> Nat] /\ pc' \in [Emitters -> {"idle", "saturated", "count", "notice"}]
    BY <1>2 DEF CountDrop
  <2>3. UNCHANGED <<log_queue, metrics_queue, emitted, agg, request_count, metrics, min_level, file,
                    handled, arrived>>
    BY <1>2 DEF CountDrop, channel_vars, agg_vars, file_vars
  <2> QED BY <2>1, <2>2, <2>3
<1>3. CASE SendNotice(e)
  <2>1. log_queue' \in Seq(Records) /\ Len(log_queue') <= LogCapacity
    <3>1. prev[e] + 1 \in Nat
      OBVIOUS
    <3>2. Record("log_dropped", "warn", prev[e] + 1) \in Records
      BY <3>1, RecordTypes, Zenon
    <3> QED BY <1>3, <3>2, TrySendTypes DEF SendNotice
  <2>2. prev' \in [Emitters -> Nat] /\ pc' \in [Emitters -> {"idle", "saturated", "count", "notice"}]
    BY <1>3 DEF SendNotice
  <2>3. UNCHANGED <<metrics_queue, dropped_logs, emitted, agg, request_count, metrics, min_level, file,
                    handled, arrived>>
    BY <1>3 DEF SendNotice, agg_vars, file_vars
  <2> QED BY <2>1, <2>2, <2>3
<1>4. CASE RecordPoolRejected(e)
  <2>1. pc' \in [Emitters -> {"idle", "saturated", "count", "notice"}]
    BY <1>4 DEF RecordPoolRejected
  <2>2. /\ {"total", "rejected"} \subseteq DOMAIN metrics'
        /\ metrics'.total = request_count /\ metrics'.rejected \in Nat
    BY <1>4 DEF RecordPoolRejected
  <2>3. UNCHANGED <<log_queue, metrics_queue, dropped_logs, prev, emitted, agg, request_count, min_level,
                    file, handled, arrived>>
    BY <1>4 DEF RecordPoolRejected, channel_vars, file_vars
  <2> QED BY <2>1, <2>2, <2>3
<1> QED BY <1>1, <1>2, <1>3, <1>4

LEMMA RecordRequest ==
    ASSUME NEW m, NEW s
    PROVE  LET r == record_request(m, s)
           IN  /\ {"total", "rejected"} \subseteq DOMAIN r
               /\ r.total = m.total + 1 /\ r.rejected = m.rejected
  BY DEF record_request

LEMMA ServiceTypes ==
    ASSUME Types,
           \/ \E s \in Stats : RecordMetrics(s)
           \/ OtherSender \/ Aggregator \/ LogWrite \/ UNCHANGED vars
    PROVE  Types'
<1> USE DEF Types
<1>1. ASSUME NEW s \in Stats, RecordMetrics(s) PROVE Types'
  <2>1. metrics_queue' \in Seq(Stats) /\ Len(metrics_queue') <= MetricsCapacity /\ arrived' \in Seq(Stats)
    <3>1. metrics_queue' = Append(metrics_queue, s) /\ arrived' = Append(arrived, s)
          /\ Len(metrics_queue) < MetricsCapacity /\ Len(metrics_queue) \in Nat
      BY <1>1 DEF RecordMetrics
    <3>2. MetricsCapacity \in Nat
      BY ObservabilityAssumption
    <3>3. Append(metrics_queue, s) \in Seq(Stats) /\ Len(Append(metrics_queue, s)) = Len(metrics_queue) + 1
      OBVIOUS
    <3>4. Append(arrived, s) \in Seq(Stats)
      OBVIOUS
    <3> QED BY <3>1, <3>2, <3>3, <3>4
  <2>2. UNCHANGED <<log_queue, dropped_logs, pc, prev, emitted, agg, request_count, metrics, min_level,
                    file, handled>>
    BY <1>1 DEF RecordMetrics, emit_vars, agg_vars, file_vars
  <2> QED BY <2>1, <2>2
<1>2. CASE OtherSender
  <2>1. log_queue' \in Seq(Records) /\ Len(log_queue') <= LogCapacity
    BY <1>2, TrySendTypes, RecordTypes DEF OtherSender
  <2>2. UNCHANGED <<metrics_queue, dropped_logs, pc, prev, emitted, agg, request_count, metrics, min_level,
                    file, handled, arrived>>
    BY <1>2 DEF OtherSender, emit_vars, agg_vars, file_vars
  <2> QED BY <2>1, <2>2
<1>3. CASE MetricsRecv
  <2>1. metrics_queue' \in Seq(Stats) /\ Len(metrics_queue') <= MetricsCapacity
    <3>1. Len(metrics_queue) \in Nat /\ Len(Tail(metrics_queue)) = Len(metrics_queue) - 1
          /\ metrics_queue' = Tail(metrics_queue) /\ Tail(metrics_queue) \in Seq(Stats)
      BY <1>3 DEF MetricsRecv
    <3>2. MetricsCapacity \in Nat
      BY ObservabilityAssumption
    <3> QED BY <3>1, <3>2
  <2>2. request_count' = request_count + 1
    BY <1>3 DEF MetricsRecv
  <2>3. {"total", "rejected"} \subseteq DOMAIN metrics' /\ metrics'.total = request_count'
        /\ metrics'.rejected \in Nat
    <3>1. metrics' = record_request(metrics, Head(metrics_queue))
      BY <1>3 DEF MetricsRecv, Aggregate
    <3> QED BY <2>2, <3>1, RecordRequest
  <2>4. agg' \in {<<"record">>, <<"record", "snapshot">>}
    BY <1>3 DEF MetricsRecv, ToSend
  <2>5. UNCHANGED <<log_queue, dropped_logs, pc, prev, emitted, min_level, file, handled, arrived>>
    BY <1>3 DEF MetricsRecv, emit_vars, file_vars
  <2> QED BY <2>1, <2>2, <2>3, <2>4, <2>5
<1>4. CASE MetricsLog \/ MetricsSnapshot
  <2>1. log_queue' \in Seq(Records) /\ Len(log_queue') <= LogCapacity
    <3>1. \E r \in Records : log_queue' = TrySend(r)
      BY <1>4, RecordTypes DEF MetricsLog, MetricsSnapshot, MetricsSend, snapshot_record
    <3> QED BY <3>1, TrySendTypes
  <2>2. agg' \in {<<>>, <<"record">>, <<"snapshot">>, <<"record", "snapshot">>}
    <3>1. agg' = Tail(agg) /\ agg # <<>>
      BY <1>4 DEF MetricsLog, MetricsSnapshot, MetricsSend
    <3>2. CASE agg = <<"record", "snapshot">>
      <4>1. Tail(<<"record", "snapshot">>) = <<"snapshot">>
        OBVIOUS
      <4> QED BY <3>1, <3>2, <4>1, Zenon
    <3>3. CASE agg = <<"record">>
      <4>1. Tail(<<"record">>) = <<>>
        OBVIOUS
      <4> QED BY <3>1, <3>3, <4>1, Zenon
    <3>4. CASE agg = <<"snapshot">>
      <4>1. Tail(<<"snapshot">>) = <<>>
        OBVIOUS
      <4> QED BY <3>1, <3>4, <4>1, Zenon
    <3> QED BY <3>1, <3>2, <3>3, <3>4
  <2>3. UNCHANGED <<metrics_queue, dropped_logs, pc, prev, emitted, request_count, metrics, min_level,
                    file, handled, arrived>>
    BY <1>4 DEF MetricsLog, MetricsSnapshot, MetricsSend, emit_vars, file_vars
  <2> QED BY <2>1, <2>2, <2>3
<1>5. CASE LogWrite
  <2>1. Head(log_queue) \in Records /\ Tail(log_queue) \in Seq(Records)
        /\ Len(Tail(log_queue)) <= LogCapacity
    <3>1. log_queue # <<>>
      BY <1>5 DEF LogWrite
    <3>2. Len(log_queue) \in Nat /\ Len(Tail(log_queue)) = Len(log_queue) - 1
      BY <3>1
    <3>3. LogCapacity \in Nat
      BY ObservabilityAssumption
    <3>4. Len(Tail(log_queue)) <= LogCapacity
      BY <3>2, <3>3
    <3>5. Head(log_queue) \in Records /\ Tail(log_queue) \in Seq(Records)
      BY <3>1
    <3> QED BY <3>4, <3>5
  <2>2. file' = file \/ file' = Append(file, Head(log_queue))
    BY <1>5 DEF LogWrite
  <2>3. file' \in Seq(Records)
    <3>1. PICK r \in Records : file' = file \/ file' = Append(file, r)
      BY <2>1, <2>2, Zenon
    <3>2. Append(file, r) \in Seq(Records) /\ file \in Seq(Records)
      OBVIOUS
    <3> QED BY <3>1, <3>2, Zenon
  <2>4. log_queue' = Tail(log_queue) /\ handled' \in Nat
    BY <1>5 DEF LogWrite
  <2>5. UNCHANGED <<metrics_queue, dropped_logs, pc, prev, emitted, agg, request_count, metrics, min_level,
                    arrived>>
    BY <1>5 DEF LogWrite, emit_vars, agg_vars
  <2> QED BY <2>1, <2>3, <2>4, <2>5
<1>6. CASE UNCHANGED vars
  BY <1>6 DEF vars, channel_vars, emit_vars, agg_vars, file_vars
<1> QED BY <1>1, <1>2, <1>3, <1>4, <1>5, <1>6 DEF Aggregator

LEMMA TypesInit == Init => Types
<1> SUFFICES ASSUME Init PROVE Types
  OBVIOUS
<1>1. min_level \in DOMAIN Rank
  BY DEF Init, from_env, Rank
<1>2. LogCapacity \in Nat /\ MetricsCapacity \in Nat
  BY ObservabilityAssumption
<1> QED BY <1>1, <1>2 DEF Init, Types, EmptyMetrics

LEMMA TypesStep == ASSUME Types, [Next]_vars PROVE Types'
  BY EmitterTypes, ServiceTypes DEF Next

-----------------------------------------------------------------------------
(* The bound on calls of emit_log *)

LEMMA EmitterSetsFinite ==
    /\ IsFiniteSet(Saturated) /\ Cardinality(Saturated) \in Nat
    /\ IsFiniteSet({e \in Emitters : pc[e] = "count"})
    /\ Cardinality({e \in Emitters : pc[e] = "count"}) \in Nat
<1>1. Saturated \subseteq Emitters /\ {e \in Emitters : pc[e] = "count"} \subseteq Emitters
  BY DEF Saturated
<1>2. IsFiniteSet(Emitters)
  BY ObservabilityAssumption
<1>3. IsFiniteSet(Saturated) /\ IsFiniteSet({e \in Emitters : pc[e] = "count"})
  BY <1>1, <1>2, FS_Subset
<1> QED BY <1>3, FS_CardinalityType

LEMMA EmittingStep == ASSUME Types, Emitting, [Next]_vars PROVE Emitting'
<1>b. MaxEmits \in Nat /\ MaxRejections \in Nat /\ metrics.rejected \in Nat /\ emitted \in Nat
      /\ Cardinality(Saturated) \in Nat
  BY ObservabilityAssumption, EmitterSetsFinite DEF Types
<1>1. ASSUME NEW e \in Emitters, EmitLog(e) PROVE Emitting'
  <2>1. emitted' = emitted + 1 /\ UNCHANGED metrics
        /\ \A f \in Emitters : f # e => pc'[f] = pc[f]
    BY <1>1 DEF EmitLog, agg_vars, Types
  <2>2. pc'[e] \in {"idle", "count"}
    BY <1>1 DEF EmitLog, Types
  <2>3. CASE pc[e] = "saturated"
    <3>1. Saturated' = Saturated \ {e} /\ e \in Saturated
      BY <2>1, <2>2, <2>3 DEF Saturated
    <3>2. Cardinality(Saturated') = Cardinality(Saturated) - 1
      BY <3>1, EmitterSetsFinite, FS_RemoveElement
    <3> QED BY <1>b, <2>1, <3>2 DEF Emitting
  <2>4. CASE pc[e] = "idle" /\ emitted < MaxEmits
    <3>1. Saturated' = Saturated
      BY <2>1, <2>2, <2>4 DEF Saturated
    <3> QED BY <1>b, <2>1, <2>4, <3>1 DEF Emitting
  <2> QED BY <1>1, <2>3, <2>4 DEF EmitLog
<1>2. ASSUME NEW e \in Emitters, RecordPoolRejected(e) PROVE Emitting'
  <2>1. emitted' = emitted /\ pc[e] = "idle" /\ pc'[e] = "saturated" /\ metrics.rejected < MaxRejections
        /\ metrics'.rejected = metrics.rejected + 1
        /\ \A f \in Emitters : f # e => pc'[f] = pc[f]
    BY <1>2 DEF RecordPoolRejected, Types
  <2>2. Saturated' = Saturated \cup {e} /\ e \notin Saturated
    BY <2>1 DEF Saturated
  <2>3. Cardinality(Saturated') = Cardinality(Saturated) + 1
    BY <2>2, EmitterSetsFinite, FS_AddElement
  <2> QED BY <1>b, <2>1, <2>3 DEF Emitting
<1>3. ASSUME NEW e \in Emitters, CountDrop(e) \/ SendNotice(e) PROVE Emitting'
  <2>1. UNCHANGED <<emitted, metrics>>
    BY <1>3 DEF CountDrop, SendNotice, agg_vars
  <2>2. \A f \in Emitters : pc'[f] = "saturated" <=> pc[f] = "saturated"
    BY <1>3 DEF CountDrop, SendNotice, Types
  <2>3. Saturated' = Saturated
    BY <2>2 DEF Saturated
  <2> QED BY <2>1, <2>3 DEF Emitting
<1>4. CASE MetricsRecv
  <2>1. UNCHANGED <<emitted, pc>> /\ metrics' = record_request(metrics, Head(metrics_queue))
    BY <1>4 DEF MetricsRecv, Aggregate, emit_vars
  <2>2. metrics'.rejected = metrics.rejected
    BY <2>1, RecordRequest
  <2> QED BY <2>1, <2>2 DEF Emitting, Saturated
<1>5. CASE (\E s \in Stats : RecordMetrics(s)) \/ OtherSender \/ MetricsLog \/ MetricsSnapshot \/ LogWrite
           \/ UNCHANGED vars
  <2>1. UNCHANGED <<emitted, pc, metrics>>
    BY <1>5 DEF RecordMetrics, OtherSender, MetricsLog, MetricsSnapshot, MetricsSend, LogWrite, vars,
                emit_vars, agg_vars
  <2> QED BY <2>1 DEF Emitting, Saturated
<1> QED BY <1>1, <1>2, <1>3, <1>4, <1>5 DEF Next, Aggregator

LEMMA TypesInvariant == Spec => [](Types /\ Emitting)
<1>1. Init => Emitting
  <2> SUFFICES ASSUME Init PROVE Emitting
    OBVIOUS
  <2>1. Saturated = {}
    BY DEF Init, Saturated
  <2>2. metrics.rejected = 0 /\ emitted = 0
    BY DEF Init, EmptyMetrics
  <2> QED BY <2>1, <2>2, FS_EmptySet, ObservabilityAssumption DEF Emitting
<1>2. Types /\ Emitting /\ [Next]_vars => Types' /\ Emitting'
  BY TypesStep, EmittingStep
<1> QED BY <1>1, <1>2, TypesInit, PTL DEF Spec

\* TypeOK for every instance: in particular neither channel ever holds more than
\* its capacity, whoever sends to it.
THEOREM ObservabilityTypes == Spec => []TypeOK
<1>1. Types /\ Emitting => TypeOK
  <2> SUFFICES ASSUME Types, Emitting PROVE TypeOK
    OBVIOUS
  <2>1. emitted \in 0 .. (MaxEmits + MaxRejections)
    <3>1. MaxEmits \in Nat /\ MaxRejections \in Nat /\ metrics.rejected \in Nat /\ emitted \in Nat
          /\ Cardinality(Saturated) \in Nat
      BY ObservabilityAssumption, EmitterSetsFinite DEF Types
    <3> QED BY <3>1 DEF Emitting
  <2> QED BY <2>1 DEF Types, TypeOK
<1> QED BY <1>1, TypesInvariant, PTL

-----------------------------------------------------------------------------
(* Every record given to emit_log is accounted for *)

\* The places of emit_log's records in a queue, and the emitters about to count.
EmittedIn(q) == {i \in DOMAIN q : q[i].event = "emitted"}
Counting == {e \in Emitters : pc[e] = "count"}

LEMMA EmittedFinite ==
    ASSUME NEW q \in Seq(Records)
    PROVE  IsFiniteSet(EmittedIn(q)) /\ Cardinality(EmittedIn(q)) \in Nat
<1>1. EmittedIn(q) \subseteq 1 .. Len(q)
  BY DEF EmittedIn
<1>2. IsFiniteSet(1 .. Len(q))
  BY FS_Interval
<1> QED BY <1>1, <1>2, FS_Subset, FS_CardinalityType

LEMMA EmittedAppend ==
    ASSUME NEW q \in Seq(Records), NEW r \in Records
    PROVE  Cardinality(EmittedIn(Append(q, r))) =
               Cardinality(EmittedIn(q)) + (IF r.event = "emitted" THEN 1 ELSE 0)
<1>1. Len(q) \in Nat /\ DOMAIN q = 1 .. Len(q) /\ DOMAIN Append(q, r) = 1 .. (Len(q) + 1)
      /\ (\A i \in 1 .. Len(q) : Append(q, r)[i] = q[i]) /\ Append(q, r)[Len(q) + 1] = r
  OBVIOUS
<1>2. CASE r.event = "emitted"
  <2>1. EmittedIn(Append(q, r)) = EmittedIn(q) \cup {Len(q) + 1} /\ Len(q) + 1 \notin EmittedIn(q)
    BY <1>1, <1>2 DEF EmittedIn
  <2> QED BY <1>2, <2>1, EmittedFinite, FS_AddElement
<1>3. CASE r.event # "emitted"
  <2>1. EmittedIn(Append(q, r)) = EmittedIn(q)
    BY <1>1, <1>3 DEF EmittedIn
  <2> QED BY <1>3, <2>1, EmittedFinite
<1> QED BY <1>2, <1>3

LEMMA EmittedTail ==
    ASSUME NEW q \in Seq(Records), q # <<>>
    PROVE  Cardinality(EmittedIn(q)) =
               Cardinality(EmittedIn(Tail(q))) + (IF Head(q).event = "emitted" THEN 1 ELSE 0)
<1>1. Len(q) \in Nat \ {0} /\ DOMAIN q = 1 .. Len(q) /\ DOMAIN Tail(q) = 1 .. (Len(q) - 1)
      /\ (\A i \in 1 .. (Len(q) - 1) : Tail(q)[i] = q[i + 1]) /\ Head(q) = q[1]
  OBVIOUS
<1> DEFINE Rest == EmittedIn(q) \ {1}
           f == [i \in EmittedIn(Tail(q)) |-> i + 1]
<1>2. f \in Bijection(EmittedIn(Tail(q)), Rest)
  <2>1. \A i \in EmittedIn(Tail(q)) : i \in Int /\ f[i] = i + 1 /\ f[i] \in Rest
    BY <1>1 DEF EmittedIn
  <2>2. f \in [EmittedIn(Tail(q)) -> Rest]
    BY <2>1
  <2>3. \A i, j \in EmittedIn(Tail(q)) : f[i] = f[j] => i = j
    BY <2>1
  <2>4. \A j \in Rest : j - 1 \in EmittedIn(Tail(q)) /\ f[j - 1] = j
    <3> SUFFICES ASSUME NEW j \in Rest PROVE j - 1 \in EmittedIn(Tail(q)) /\ f[j - 1] = j
      OBVIOUS
    <3>1. j \in 2 .. Len(q) /\ q[j].event = "emitted"
      BY <1>1 DEF EmittedIn
    <3>2. j - 1 \in 1 .. (Len(q) - 1) /\ (j - 1) + 1 = j
      BY <1>1, <3>1
    <3>3. Tail(q)[j - 1] = q[j]
      BY <1>1, <3>2
    <3>4. j - 1 \in EmittedIn(Tail(q))
      BY <1>1, <3>1, <3>2, <3>3 DEF EmittedIn
    <3> QED BY <3>2, <3>4
  <2>5. f \in Injection(EmittedIn(Tail(q)), Rest)
    BY <2>2, <2>3 DEF Injection, IsInjective
  <2>6. f \in Surjection(EmittedIn(Tail(q)), Rest)
    BY <2>2, <2>4 DEF Surjection
  <2> QED BY <2>5, <2>6 DEF Bijection
<1>3. IsFiniteSet(EmittedIn(Tail(q))) /\ Cardinality(EmittedIn(Tail(q))) \in Nat
  <2>1. Tail(q) \in Seq(Records)
    OBVIOUS
  <2> QED BY <2>1, EmittedFinite
<1>4. Cardinality(Rest) = Cardinality(EmittedIn(Tail(q)))
  <2>1. ExistsBijection(EmittedIn(Tail(q)), Rest)
    BY <1>2 DEF ExistsBijection
  <2> QED BY <1>3, <2>1, FS_Bijection
<1>5. CASE Head(q).event = "emitted"
  <2>1. 1 \in EmittedIn(q)
    BY <1>1, <1>5 DEF EmittedIn
  <2>2. Cardinality(Rest) = Cardinality(EmittedIn(q)) - 1 /\ Cardinality(EmittedIn(q)) \in Nat
    BY <2>1, EmittedFinite, FS_RemoveElement
  <2> QED BY <1>3, <1>4, <1>5, <2>2
<1>6. CASE Head(q).event # "emitted"
  <2>1. Rest = EmittedIn(q)
    BY <1>1, <1>6 DEF EmittedIn
  <2> HIDE DEF Rest
  <2> QED BY <1>3, <1>4, <1>6, <2>1
<1> QED BY <1>5, <1>6

LEMMA EmittedSend ==
    ASSUME log_queue \in Seq(Records), NEW r \in Records, log_queue' = TrySend(r)
    PROVE  Cardinality(EmittedIn(log_queue')) =
               Cardinality(EmittedIn(log_queue))
               + (IF r.event = "emitted" /\ Len(log_queue) < LogCapacity THEN 1 ELSE 0)
<1>1. Cardinality(EmittedIn(log_queue)) \in Nat
  BY EmittedFinite
<1>2. CASE Len(log_queue) < LogCapacity
  <2>1. log_queue' = Append(log_queue, r)
    BY <1>2 DEF TrySend
  <2> QED BY <1>2, <2>1, EmittedAppend
<1>3. CASE ~(Len(log_queue) < LogCapacity)
  <2>1. log_queue' = log_queue
    BY <1>3 DEF TrySend
  <2> QED BY <1>1, <1>3, <2>1
<1> QED BY <1>2, <1>3

\* The equation, with its two sets named.
LEMMA DropsEquation ==
    DropsAreCounted <=>
        emitted = handled + dropped_logs + Cardinality(EmittedIn(log_queue)) + Cardinality(Counting)
  BY DEF DropsAreCounted, EmittedIn, Counting

LEMMA DropsStep == ASSUME Types, DropsAreCounted, [Next]_vars PROVE DropsAreCounted'
<1> DEFINE q == Cardinality(EmittedIn(log_queue))
           c == Cardinality(Counting)
<1>a. emitted \in Nat /\ handled \in Nat /\ dropped_logs \in Nat /\ q \in Nat /\ c \in Nat
      /\ log_queue \in Seq(Records) /\ pc \in [Emitters -> {"idle", "saturated", "count", "notice"}]
      /\ IsFiniteSet(Counting)
  BY EmittedFinite, EmitterSetsFinite DEF Types, Counting
<1>b. emitted = handled + dropped_logs + q + c
  BY DropsEquation
<1>c. DropsAreCounted' <=> emitted' = handled' + dropped_logs' + Cardinality(EmittedIn(log_queue'))
                                      + Cardinality(Counting')
  BY DEF DropsAreCounted, EmittedIn, Counting
<1> HIDE DEF q, c
<1>1. ASSUME NEW e \in Emitters, EmitLog(e) PROVE DropsAreCounted'
  <2>1. emitted' = emitted + 1 /\ handled' = handled /\ dropped_logs' = dropped_logs
    BY <1>1 DEF EmitLog, file_vars
  <2>2. Cardinality(EmittedIn(log_queue')) = q + (IF Len(log_queue) < LogCapacity THEN 1 ELSE 0)
    <3>1. log_queue' = TrySend(Record("emitted", "info", 0)) /\ Record("emitted", "info", 0) \in Records
          /\ Record("emitted", "info", 0).event = "emitted"
      BY <1>1, RecordTypes DEF EmitLog, Record
    <3> QED BY <1>a, <3>1, EmittedSend DEF q
  <2>3. \A f \in Emitters \ {e} : pc'[f] = pc[f]
    BY <1>a, <1>1 DEF EmitLog
  <2>4. pc[e] # "count" /\ pc'[e] = IF Len(log_queue) < LogCapacity THEN "idle" ELSE "count"
    BY <1>a, <1>1 DEF EmitLog
  <2>5. CASE Len(log_queue) < LogCapacity
    <3>1. Counting' = Counting
      BY <2>3, <2>4, <2>5 DEF Counting
    <3> QED BY <1>a, <1>b, <1>c, <2>1, <2>2, <2>5, <3>1 DEF c
  <2>6. CASE ~(Len(log_queue) < LogCapacity)
    <3>1. Counting' = Counting \cup {e} /\ e \notin Counting
      BY <2>3, <2>4, <2>6 DEF Counting
    <3>2. Cardinality(Counting') = c + 1
      BY <1>a, <3>1, FS_AddElement DEF c
    <3> QED BY <1>a, <1>b, <1>c, <2>1, <2>2, <2>6, <3>2
  <2> QED BY <2>5, <2>6
<1>2. ASSUME NEW e \in Emitters, CountDrop(e) PROVE DropsAreCounted'
  <2>1. emitted' = emitted /\ handled' = handled /\ dropped_logs' = dropped_logs + 1
        /\ log_queue' = log_queue
    BY <1>2 DEF CountDrop, Counted, file_vars, channel_vars
  <2>2. (\A f \in Emitters \ {e} : pc'[f] = pc[f]) /\ pc[e] = "count" /\ pc'[e] # "count"
    BY <1>a, <1>2 DEF CountDrop
  <2>3. Counting' = Counting \ {e} /\ e \in Counting
    BY <2>2 DEF Counting
  <2>4. Cardinality(Counting') = c - 1
    BY <1>a, <2>3, FS_RemoveElement DEF c
  <2>5. Cardinality(EmittedIn(log_queue')) = q
    BY <2>1 DEF q
  <2> QED BY <1>a, <1>b, <1>c, <2>1, <2>4, <2>5
<1>3. ASSUME NEW r \in Records, r.event # "emitted", log_queue' = TrySend(r),
             UNCHANGED <<emitted, handled, dropped_logs>>, Counting' = Counting
      PROVE  DropsAreCounted'
  <2>1. Cardinality(EmittedIn(log_queue')) = q + 0
    BY <1>a, <1>3, EmittedSend DEF q
  <2> QED BY <1>a, <1>b, <1>c, <1>3, <2>1 DEF c
<1>4. ASSUME NEW e \in Emitters, SendNotice(e) PROVE DropsAreCounted'
  <2>1. prev[e] + 1 \in Nat
    BY DEF Types
  <2>2. UNCHANGED <<emitted, handled, dropped_logs>>
    BY <1>4 DEF SendNotice, file_vars
  <2>3. Counting' = Counting
    BY <1>a, <1>4 DEF SendNotice, Counting
  <2>4. Record("log_dropped", "warn", prev[e] + 1) \in Records
    BY <2>1, RecordTypes, Zenon
  <2>5. log_queue' = TrySend(Record("log_dropped", "warn", prev[e] + 1))
        /\ Record("log_dropped", "warn", prev[e] + 1).event = "log_dropped"
    BY <1>4 DEF SendNotice, Record
  <2> QED BY <1>3, <2>2, <2>3, <2>4, <2>5
<1>5. CASE OtherSender \/ MetricsLog \/ MetricsSnapshot
  <2>1. UNCHANGED <<emitted, handled, dropped_logs, pc>>
    BY <1>5 DEF OtherSender, MetricsLog, MetricsSnapshot, MetricsSend, emit_vars, file_vars
  <2>2. Counting' = Counting
    BY <2>1 DEF Counting
  <2>3. \E r \in Records : r.event # "emitted" /\ log_queue' = TrySend(r)
    <3>1. request_count \in Nat /\ metrics.total \in Nat
      BY DEF Types
    <3>2. \A n \in Nat : Record("other", "info", n).event # "emitted"
            /\ Record("metrics_record", "info", n).event # "emitted"
            /\ Record("metrics_snapshot", "info", n).event # "emitted"
      BY DEF Record
    <3> QED BY <1>5, <3>1, <3>2, RecordTypes
            DEF OtherSender, MetricsLog, MetricsSnapshot, MetricsSend, snapshot_record
  <2> QED BY <1>3, <2>1, <2>2, <2>3
<1>6. CASE LogWrite
  <2>1. log_queue # <<>> /\ log_queue' = Tail(log_queue) /\ UNCHANGED <<emitted, dropped_logs, pc>>
        /\ handled' = handled + (IF Head(log_queue).event = "emitted" THEN 1 ELSE 0)
    BY <1>a, <1>6 DEF LogWrite, emit_vars
  <2>2. q = Cardinality(EmittedIn(log_queue')) + (IF Head(log_queue).event = "emitted" THEN 1 ELSE 0)
    BY <1>a, <2>1, EmittedTail DEF q
  <2>3. log_queue' \in Seq(Records)
    BY <1>a, <2>1
  <2>4. Cardinality(EmittedIn(log_queue')) \in Nat
    BY <2>3, EmittedFinite
  <2>5. Cardinality(Counting') = c
    BY <2>1 DEF Counting, c
  <2> QED BY <1>a, <1>b, <1>c, <2>1, <2>2, <2>4, <2>5
<1>7. ASSUME \/ \E e \in Emitters : RecordPoolRejected(e)
             \/ \E s \in Stats : RecordMetrics(s)
             \/ MetricsRecv \/ UNCHANGED vars
      PROVE  DropsAreCounted'
  <2>1. UNCHANGED <<log_queue, emitted, handled, dropped_logs>>
    BY <1>7 DEF RecordPoolRejected, RecordMetrics, MetricsRecv, vars, channel_vars, emit_vars, file_vars
  <2>2. Counting' = Counting
    BY <1>a, <1>7 DEF RecordPoolRejected, RecordMetrics, MetricsRecv, vars, emit_vars, Counting
  <2> QED BY <1>a, <1>b, <1>c, <2>1, <2>2 DEF q, c
<1> QED BY <1>1, <1>2, <1>4, <1>5, <1>6, <1>7 DEF Next, Aggregator

\* DropsAreCounted for every instance: of the records given to emit_log none is
\* lost without being counted and none is counted twice, however many threads
\* find the channel full at the same time.
THEOREM EveryDropIsCounted == Spec => []DropsAreCounted
<1>1. Init => DropsAreCounted
  <2> SUFFICES ASSUME Init PROVE DropsAreCounted
    OBVIOUS
  <2>1. emitted = 0 /\ handled = 0 /\ dropped_logs = 0 /\ EmittedIn(log_queue) = {} /\ Counting = {}
    BY DEF Init, EmittedIn, Counting
  <2> QED BY <2>1, FS_EmptySet, DropsEquation
<1>2. Types /\ DropsAreCounted /\ [Next]_vars => DropsAreCounted'
  BY DropsStep
<1> QED BY <1>1, <1>2, TypesInvariant, PTL DEF Spec

-----------------------------------------------------------------------------
(* The lines of the file and of the channel *)

\* After a step in which lines are only written or lost, two lines in some order
\* are two former lines in the same order.
Kept ==
    /\ \A i \in 1 .. Len(Lines') : \E k \in 1 .. Len(Lines) : Lines'[i] = Lines[k]
    /\ \A i, j \in 1 .. Len(Lines') : i < j =>
          \E k, l \in 1 .. Len(Lines) : k < l /\ Lines'[i] = Lines[k] /\ Lines'[j] = Lines[l]

\* After a step that sends r, r is the last line.
Grown(r) ==
    /\ Len(Lines') = Len(Lines) + 1
    /\ \A i \in 1 .. Len(Lines) : Lines'[i] = Lines[i]
    /\ Lines'[Len(Lines) + 1] = r

\* The elements of a concatenation.
LEMMA Concat ==
    ASSUME NEW f \in Seq(Records), NEW q \in Seq(Records)
    PROVE  /\ f \o q \in Seq(Records) /\ Len(f \o q) = Len(f) + Len(q)
           /\ DOMAIN (f \o q) = 1 .. (Len(f) + Len(q))
           /\ \A i \in 1 .. Len(f) : (f \o q)[i] = f[i]
           /\ \A i \in 1 .. Len(q) : (f \o q)[Len(f) + i] = q[i]
  OBVIOUS

LEMMA LinesTypes ==
    ASSUME Types PROVE Lines \in Seq(Records) /\ DOMAIN Lines = 1 .. Len(Lines) /\ Len(Lines) \in Nat
  BY Concat DEF Types, Lines

LEMMA SameLines ==
    ASSUME Types, Len(Lines') = Len(Lines), \A i \in 1 .. Len(Lines) : Lines'[i] = Lines[i]
    PROVE  Kept
  BY LinesTypes DEF Kept

LEMMA SendLines ==
    ASSUME Types, NEW r \in Records, file' = file, log_queue' = TrySend(r)
    PROVE  Kept \/ Grown(r)
<1>1. CASE log_queue' = log_queue
  <2>1. Lines' = Lines
    BY <1>1 DEF Lines
  <2> QED BY <2>1, SameLines
<1>2. CASE log_queue' = Append(log_queue, r)
  <2> DEFINE q == Append(log_queue, r)
  <2>1. file \in Seq(Records) /\ log_queue \in Seq(Records) /\ q \in Seq(Records)
        /\ Len(file) \in Nat /\ Len(log_queue) \in Nat
    BY DEF Types
  <2>2. Len(q) = Len(log_queue) + 1 /\ q[Len(log_queue) + 1] = r
        /\ \A i \in 1 .. Len(log_queue) : q[i] = log_queue[i]
    BY <2>1
  <2>3. Lines = file \o log_queue /\ Lines' = file \o q
    BY <1>2 DEF Lines
  <2> HIDE DEF q
  <2>4. Len(Lines) = Len(file) + Len(log_queue) /\ Len(Lines') = Len(file) + Len(q)
    BY <2>1, <2>3, Concat
  <2>5. Lines'[Len(Lines) + 1] = r
    <3>1. Len(log_queue) + 1 \in 1 .. Len(q) /\ Len(file) + (Len(log_queue) + 1) = Len(Lines) + 1
      BY <2>1, <2>2, <2>4
    <3>2. Lines'[Len(file) + (Len(log_queue) + 1)] = q[Len(log_queue) + 1]
      BY <2>1, <2>3, <3>1, Concat
    <3> QED BY <2>2, <3>1, <3>2
  <2>6. ASSUME NEW i \in 1 .. Len(Lines) PROVE Lines'[i] = Lines[i]
    <3>1. CASE i \in 1 .. Len(file)
      BY <2>1, <2>3, <3>1, Concat
    <3>2. CASE i \notin 1 .. Len(file)
      <4>1. PICK j \in 1 .. Len(log_queue) : i = Len(file) + j
        <5>1. i - Len(file) \in 1 .. Len(log_queue) /\ i = Len(file) + (i - Len(file))
          BY <2>1, <2>4, <3>2
        <5> QED BY <5>1
      <4>2. j \in 1 .. Len(q)
        BY <2>1, <2>2, <4>1
      <4>3. Lines[Len(file) + j] = log_queue[j] /\ Lines'[Len(file) + j] = q[j]
        BY <2>1, <2>3, <4>1, <4>2, Concat
      <4> QED BY <2>2, <4>1, <4>3
    <3> QED BY <3>1, <3>2
  <2>7. Len(Lines') = Len(Lines) + 1
    BY <2>1, <2>2, <2>4
  <2> QED BY <2>5, <2>6, <2>7 DEF Grown
<1> QED BY <1>1, <1>2 DEF TrySend

LEMMA WriteLines == ASSUME Types, LogWrite PROVE Kept
<1> DEFINE h == Head(log_queue)
           q == Tail(log_queue)
           F == Len(file)
<1>1. log_queue # <<>> /\ file \in Seq(Records) /\ log_queue \in Seq(Records) /\ F \in Nat
  BY DEF LogWrite, Types
<1>2. q \in Seq(Records) /\ h \in Records /\ Len(q) = Len(log_queue) - 1 /\ Len(q) \in Nat
      /\ h = log_queue[1] /\ \A i \in 1 .. Len(q) : q[i] = log_queue[i + 1]
  BY <1>1
<1>3. Lines = file \o log_queue /\ Lines' = file' \o q /\ (file' = file \/ file' = Append(file, h))
  BY DEF LogWrite, Lines
<1> HIDE DEF h, q
<1>4. Len(Lines) = F + Len(q) + 1 /\ Lines[F + 1] = h
      /\ (\A i \in 1 .. F : Lines[i] = file[i])
      /\ (\A i \in 1 .. Len(q) : Lines[F + (i + 1)] = q[i])
  <2>1. Len(Lines) = F + Len(log_queue) /\ (\A i \in 1 .. F : Lines[i] = file[i])
        /\ \A i \in 1 .. Len(log_queue) : Lines[F + i] = log_queue[i]
    BY <1>1, <1>3, Concat
  <2>2. 1 \in 1 .. Len(log_queue) /\ \A i \in 1 .. Len(q) : i + 1 \in 1 .. Len(log_queue)
    BY <1>1, <1>2
  <2>3. Len(Lines) = F + Len(q) + 1
    BY <1>1, <1>2, <2>1
  <2> QED BY <1>2, <2>1, <2>2, <2>3
<1>5. CASE file' = Append(file, h)
  <2> DEFINE f == Append(file, h)
  <2>1. f \in Seq(Records) /\ Len(f) = F + 1 /\ f[F + 1] = h /\ \A i \in 1 .. F : f[i] = file[i]
    BY <1>1, <1>2
  <2>2. Lines' = f \o q
    BY <1>3, <1>5
  <2> HIDE DEF f
  <2>3. Len(Lines') = F + 1 + Len(q) /\ (\A i \in 1 .. (F + 1) : Lines'[i] = f[i])
        /\ \A i \in 1 .. Len(q) : Lines'[F + 1 + i] = q[i]
    <3>1. Len(Lines') = Len(f) + Len(q) /\ (\A i \in 1 .. Len(f) : Lines'[i] = f[i])
          /\ \A i \in 1 .. Len(q) : Lines'[Len(f) + i] = q[i]
      BY <1>2, <2>1, <2>2, Concat
    <3> QED BY <2>1, <3>1
  <2>4. ASSUME NEW i \in 1 .. Len(Lines) PROVE Lines'[i] = Lines[i]
    <3>1. CASE i \in 1 .. F
      BY <1>1, <1>4, <2>1, <2>3, <3>1
    <3>2. CASE i = F + 1
      BY <1>1, <1>4, <2>1, <2>3, <3>2
    <3>3. CASE i \notin 1 .. (F + 1)
      <4>1. PICK j \in 1 .. Len(q) : i = F + 1 + j
        <5>1. i - F - 1 \in 1 .. Len(q) /\ i = F + 1 + (i - F - 1)
          BY <1>1, <1>2, <1>4, <3>3
        <5> QED BY <5>1
      <4>2. F + 1 + j = F + (j + 1)
        BY <1>1, <1>2
      <4>3. Lines'[F + 1 + j] = q[j] /\ Lines[F + (j + 1)] = q[j]
        BY <1>4, <2>3
      <4> QED BY <4>1, <4>2, <4>3
    <3> QED BY <1>1, <3>1, <3>2, <3>3
  <2>5. Len(Lines') = Len(Lines)
    BY <1>1, <1>2, <1>4, <2>3
  <2> QED BY <2>4, <2>5, SameLines
<1>6. CASE file' = file
  <2> DEFINE g(i) == IF i <= F THEN i ELSE i + 1
  <2>1. Len(Lines') = F + Len(q) /\ (\A i \in 1 .. F : Lines'[i] = file[i])
        /\ \A i \in 1 .. Len(q) : Lines'[F + i] = q[i]
    <3>1. Lines' = file \o q /\ file \in Seq(Records) /\ q \in Seq(Records)
      BY <1>1, <1>2, <1>3, <1>6
    <3> QED BY <3>1, Concat
  <2>2. ASSUME NEW i \in 1 .. Len(Lines') PROVE g(i) \in 1 .. Len(Lines) /\ Lines'[i] = Lines[g(i)]
    <3>1. CASE i <= F
      <4>1. i \in 1 .. F /\ i \in 1 .. Len(Lines)
        BY <1>1, <1>2, <1>4, <2>1, <3>1
      <4> QED BY <1>4, <2>1, <3>1, <4>1
    <3>2. CASE ~(i <= F)
      <4>1. PICK j \in 1 .. Len(q) : i = F + j
        <5>1. i - F \in 1 .. Len(q) /\ i = F + (i - F)
          BY <1>1, <1>2, <2>1, <3>2
        <5> QED BY <5>1
      <4>2. g(i) = F + (j + 1) /\ g(i) \in 1 .. Len(Lines)
        BY <1>1, <1>2, <1>4, <3>2, <4>1
      <4> QED BY <1>4, <2>1, <4>1, <4>2
    <3> QED BY <3>1, <3>2
  <2>3. \A i, j \in 1 .. Len(Lines') : i < j => g(i) < g(j)
    BY <1>1, <1>2, <2>1
  <2> HIDE DEF g
  <2> QED BY <2>2, <2>3, Zenon DEF Kept
<1> QED BY <1>3, <1>5, <1>6

\* Every step keeps the lines or sends one record, the sender's own.
Notice(e) == Record("log_dropped", "warn", prev[e] + 1)
RequestRecord == Record("metrics_record", "info", request_count)
SnapshotRecord == Record("metrics_snapshot", "info", request_count)

LEMMA LinesChange ==
    ASSUME Types, [Next]_vars
    PROVE  \/ Kept
           \/ \E r \in Records : r.event \in {"emitted", "other"} /\ Grown(r)
           \/ \E e \in Emitters : SendNotice(e) /\ Grown(Notice(e))
           \/ MetricsLog /\ Grown(RequestRecord)
           \/ MetricsSnapshot /\ Grown(SnapshotRecord)
<1>1. request_count \in Nat /\ metrics.total = request_count /\ prev \in [Emitters -> Nat]
  BY DEF Types
<1>2. ASSUME file' = file, log_queue' = log_queue PROVE Kept
  <2>1. Lines' = Lines
    BY <1>2 DEF Lines
  <2> QED BY <2>1, SameLines
<1>3. ASSUME (\E e \in Emitters : EmitLog(e)) \/ OtherSender
      PROVE  Kept \/ \E r \in Records : r.event \in {"emitted", "other"} /\ Grown(r)
  <2>1. \E r \in Records : r.event \in {"emitted", "other"} /\ log_queue' = TrySend(r)
    <3>1. Record("emitted", "info", 0).event = "emitted" /\ Record("other", "info", 0).event = "other"
      BY DEF Record
    <3> QED BY <1>3, <3>1, RecordTypes DEF EmitLog, OtherSender
  <2>2. file' = file
    BY <1>3 DEF EmitLog, OtherSender, file_vars
  <2> QED BY <2>1, <2>2, SendLines
<1>4. ASSUME NEW e \in Emitters, SendNotice(e) PROVE Kept \/ Grown(Notice(e))
  <2>1. prev[e] + 1 \in Nat
    BY <1>1
  <2>2. Notice(e) \in Records
    BY <2>1, RecordTypes, Zenon DEF Notice
  <2>3. log_queue' = TrySend(Notice(e)) /\ file' = file
    BY <1>4 DEF SendNotice, file_vars, Notice
  <2> QED BY <2>2, <2>3, SendLines
<1>5. ASSUME MetricsLog PROVE Kept \/ Grown(RequestRecord)
  <2>1. RequestRecord \in Records /\ log_queue' = TrySend(RequestRecord) /\ file' = file
    BY <1>1, <1>5, RecordTypes DEF MetricsLog, MetricsSend, RequestRecord, file_vars
  <2> QED BY <2>1, SendLines
<1>6. ASSUME MetricsSnapshot PROVE Kept \/ Grown(SnapshotRecord)
  <2>1. SnapshotRecord \in Records /\ log_queue' = TrySend(SnapshotRecord) /\ file' = file
    BY <1>1, <1>6, RecordTypes DEF MetricsSnapshot, MetricsSend, snapshot_record, SnapshotRecord, file_vars
  <2> QED BY <2>1, SendLines
<1>7. ASSUME \/ \E e \in Emitters : CountDrop(e) \/ RecordPoolRejected(e)
             \/ \E s \in Stats : RecordMetrics(s)
             \/ MetricsRecv \/ UNCHANGED vars
      PROVE  Kept
  BY <1>2, <1>7
     DEF CountDrop, RecordPoolRejected, RecordMetrics, MetricsRecv, vars, channel_vars, file_vars
<1> QED BY <1>3, <1>4, <1>5, <1>6, <1>7, WriteLines DEF Next, Aggregator

-----------------------------------------------------------------------------
(* Records and snapshots in the file *)

\* What FileIsInOrder asks of a line above another.
Above(a, b) == IF b.event = "metrics_record" THEN a.n < b.n ELSE a.n <= b.n
Pairwise(L) == \A i, j \in 1 .. Len(L) : i < j /\ IsAbout(L[i]) /\ IsAbout(L[j]) => Above(L[i], L[j])

\* What Ahead asks of a line: the record of the current request is to come, or not.
Behind(r, sending, count) == IF sending THEN r.n < count ELSE r.n <= count
Sending == agg # <<>> /\ Head(agg) = "record"

LEMMA OrderForms ==
    /\ DOMAIN Lines = 1 .. Len(Lines) => (FileIsInOrder <=> Pairwise(Lines))
    /\ DOMAIN Lines' = 1 .. Len(Lines') => (FileIsInOrder' <=> Pairwise(Lines'))
    /\ Ahead <=> \A i \in 1 .. Len(Lines) : IsAbout(Lines[i]) => Behind(Lines[i], Sending, request_count)
    /\ Ahead' <=> \A i \in 1 .. Len(Lines') : IsAbout(Lines'[i]) => Behind(Lines'[i], Sending', request_count')
<1>1. ASSUME DOMAIN Lines = 1 .. Len(Lines) PROVE FileIsInOrder <=> Pairwise(Lines)
  BY <1>1 DEF FileIsInOrder, Pairwise, IsAbout, Above
<1>2. ASSUME DOMAIN Lines' = 1 .. Len(Lines') PROVE FileIsInOrder' <=> Pairwise(Lines')
  BY <1>2 DEF FileIsInOrder, Pairwise, IsAbout, Above
<1>3. Ahead <=> \A i \in 1 .. Len(Lines) : IsAbout(Lines[i]) => Behind(Lines[i], Sending, request_count)
  BY DEF Ahead, Behind, Sending
<1>4. Ahead' <=> \A i \in 1 .. Len(Lines') : IsAbout(Lines'[i]) => Behind(Lines'[i], Sending', request_count')
  BY DEF Ahead, Behind, Sending
<1> QED BY <1>1, <1>2, <1>3, <1>4

\* Whatever the aggregator does, a line it has passed it has passed for good; and
\* it sends a request's record and the snapshot in their turn.
LEMMA AggregatorOrder ==
    ASSUME Types, [Next]_vars
    PROVE  /\ \A r \in Records : Behind(r, Sending, request_count) => Behind(r, Sending', request_count')
           /\ MetricsLog => Sending /\ ~Sending' /\ request_count' = request_count
           /\ MetricsSnapshot => ~Sending' /\ request_count' = request_count
<1>0. request_count \in Nat /\ \A r \in Records : r.n \in Nat
  BY DEF Types, Records
<1>1. ASSUME MetricsRecv
      PROVE  \A r \in Records : Behind(r, Sending, request_count) => Behind(r, Sending', request_count')
  <2>1. ~Sending /\ request_count' = request_count + 1
    BY <1>1 DEF MetricsRecv, Sending
  <2> QED BY <1>0, <2>1 DEF Behind
<1>2. ASSUME MetricsLog \/ MetricsSnapshot
      PROVE  agg \in {<<"record">>, <<"snapshot">>, <<"record", "snapshot">>} /\ agg' = Tail(agg)
             /\ request_count' = request_count
  BY <1>2 DEF MetricsLog, MetricsSnapshot, MetricsSend, Types
<1>3. ASSUME MetricsLog \/ MetricsSnapshot PROVE ~Sending'
  <2>1. CASE agg = <<"record">> \/ agg = <<"snapshot">>
    <3>1. Tail(<<"record">>) = <<>> /\ Tail(<<"snapshot">>) = <<>>
      OBVIOUS
    <3>2. agg' = <<>>
      BY <1>2, <1>3, <2>1, <3>1, Zenon
    <3> QED BY <3>2 DEF Sending
  <2>2. CASE agg = <<"record", "snapshot">>
    <3>1. Tail(<<"record", "snapshot">>) = <<"snapshot">> /\ Head(<<"snapshot">>) = "snapshot"
      OBVIOUS
    <3>2. agg' = <<"snapshot">>
      BY <1>2, <1>3, <2>2, <3>1, Zenon
    <3>3. Head(agg') # "record"
      BY <3>1, <3>2
    <3> QED BY <3>3 DEF Sending
  <2> QED BY <1>2, <1>3, <2>1, <2>2
<1>4. MetricsLog => Sending
  BY DEF MetricsLog, MetricsSend, Sending
<1>5. ASSUME MetricsLog \/ MetricsSnapshot
      PROVE  \A r \in Records : Behind(r, Sending, request_count) => Behind(r, Sending', request_count')
  BY <1>0, <1>2, <1>3, <1>5 DEF Behind
<1>6. ASSUME ~MetricsRecv, ~MetricsLog, ~MetricsSnapshot PROVE UNCHANGED <<agg, request_count>>
  BY <1>6 DEF Next, Aggregator, EmitLog, CountDrop, SendNotice, RecordPoolRejected, RecordMetrics,
              OtherSender, LogWrite, vars, agg_vars
<1>7. ASSUME UNCHANGED <<agg, request_count>>
      PROVE  \A r \in Records : Behind(r, Sending, request_count) => Behind(r, Sending', request_count')
  <2>1. Sending' <=> Sending
    BY <1>7 DEF Sending
  <2> QED BY <1>7, <2>1 DEF Behind
<1>8. \A r \in Records : Behind(r, Sending, request_count) => Behind(r, Sending', request_count')
  BY <1>1, <1>5, <1>6, <1>7
<1> QED BY <1>2, <1>3, <1>4, <1>8

LEMMA OrderStep ==
    ASSUME Types, Types', Ahead, FileIsInOrder, [Next]_vars
    PROVE  Ahead' /\ FileIsInOrder'
<1> DEFINE N == Len(Lines)
<1>1. N \in Nat /\ Lines \in Seq(Records) /\ DOMAIN Lines = 1 .. N
      /\ \A i \in 1 .. N : Lines[i] \in Records
  BY LinesTypes
<1>2. DOMAIN Lines' = 1 .. Len(Lines')
  BY Concat DEF Types, Lines
<1>3. Pairwise(Lines)
        /\ \A i \in 1 .. N : IsAbout(Lines[i]) => Behind(Lines[i], Sending, request_count)
  BY <1>1, OrderForms
<1>4. SUFFICES Pairwise(Lines')
        /\ \A i \in 1 .. Len(Lines') : IsAbout(Lines'[i]) => Behind(Lines'[i], Sending', request_count')
  BY <1>2, OrderForms
<1>5. \A i \in 1 .. N : IsAbout(Lines[i]) => Behind(Lines[i], Sending', request_count')
  BY <1>1, <1>3, AggregatorOrder
<1>6. CASE Kept
  <2>1. \A i \in 1 .. Len(Lines') : IsAbout(Lines'[i]) => Behind(Lines'[i], Sending', request_count')
    <3> SUFFICES ASSUME NEW i \in 1 .. Len(Lines'), IsAbout(Lines'[i])
                 PROVE  Behind(Lines'[i], Sending', request_count')
      OBVIOUS
    <3>1. PICK k \in 1 .. N : Lines'[i] = Lines[k]
      BY <1>6 DEF Kept
    <3> QED BY <1>5, <3>1
  <2>2. Pairwise(Lines')
    <3> SUFFICES ASSUME NEW i \in 1 .. Len(Lines'), NEW j \in 1 .. Len(Lines'), i < j,
                        IsAbout(Lines'[i]), IsAbout(Lines'[j])
                 PROVE  Above(Lines'[i], Lines'[j])
      BY DEF Pairwise
    <3>1. PICK k \in 1 .. N, l \in 1 .. N : k < l /\ Lines'[i] = Lines[k] /\ Lines'[j] = Lines[l]
      BY <1>6 DEF Kept
    <3> QED BY <1>3, <3>1 DEF Pairwise
  <2> QED BY <2>1, <2>2
<1>7. ASSUME NEW r, Grown(r),
             IsAbout(r) => /\ Behind(r, Sending', request_count')
                           /\ \A i \in 1 .. N : IsAbout(Lines[i]) => Above(Lines[i], r)
      PROVE  Pairwise(Lines')
             /\ \A i \in 1 .. Len(Lines') : IsAbout(Lines'[i]) => Behind(Lines'[i], Sending', request_count')
  <2>1. Len(Lines') = N + 1 /\ (\A i \in 1 .. N : Lines'[i] = Lines[i]) /\ Lines'[N + 1] = r
    BY <1>7 DEF Grown
  <2> HIDE DEF N
  <2>2. \A i \in 1 .. (N + 1) : i \in 1 .. N \/ i = N + 1
    BY <1>1
  <2>3. \A i \in 1 .. (N + 1) : IsAbout(Lines'[i]) => Behind(Lines'[i], Sending', request_count')
    BY <1>5, <1>7, <2>1, <2>2, Zenon
  <2>4. ASSUME NEW i \in 1 .. (N + 1), NEW j \in 1 .. (N + 1), i < j, IsAbout(Lines'[i]), IsAbout(Lines'[j])
        PROVE  Above(Lines'[i], Lines'[j])
    <3>1. i \in 1 .. N
      BY <1>1, <2>4
    <3>2. CASE j \in 1 .. N
      <4>1. Lines'[i] = Lines[i] /\ Lines'[j] = Lines[j]
        BY <2>1, <3>1, <3>2
      <4>2. \A k, l \in 1 .. N : k < l /\ IsAbout(Lines[k]) /\ IsAbout(Lines[l]) => Above(Lines[k], Lines[l])
        BY <1>3 DEF Pairwise, N
      <4> QED BY <2>4, <3>1, <3>2, <4>1, <4>2
    <3>3. CASE j = N + 1
      BY <1>7, <2>1, <2>4, <3>1, <3>3
    <3> QED BY <2>2, <3>2, <3>3
  <2> QED BY <2>1, <2>3, <2>4 DEF Pairwise
<1>8. ASSUME NEW r \in Records, r.event \in {"emitted", "other"} PROVE ~IsAbout(r)
  BY <1>8 DEF IsAbout
<1>9. \A e \in Emitters : ~IsAbout(Notice(e))
  BY DEF IsAbout, Notice, Record
<1>10. ASSUME MetricsLog
       PROVE  /\ Behind(RequestRecord, Sending', request_count')
              /\ \A i \in 1 .. N : IsAbout(Lines[i]) => Above(Lines[i], RequestRecord)
  <2>1. Sending /\ ~Sending' /\ request_count' = request_count /\ request_count \in Nat
        /\ RequestRecord.n = request_count
    BY <1>10, AggregatorOrder DEF Types, RequestRecord, Record
  <2>2. \A i \in 1 .. N : IsAbout(Lines[i]) => Lines[i].n < request_count
    BY <1>3, <2>1 DEF Behind
  <2>3. \A i \in 1 .. N : Lines[i].n \in Nat
    BY <1>1 DEF Records
  <2>4. \A i \in 1 .. N : IsAbout(Lines[i]) => Above(Lines[i], RequestRecord)
    BY <2>1, <2>2, <2>3 DEF Above
  <2>5. Behind(RequestRecord, Sending', request_count')
    BY <2>1 DEF Behind
  <2> QED BY <2>4, <2>5
<1>11. ASSUME MetricsSnapshot
       PROVE  /\ Behind(SnapshotRecord, Sending', request_count')
              /\ \A i \in 1 .. N : IsAbout(Lines[i]) => Above(Lines[i], SnapshotRecord)
  <2>1. ~Sending' /\ request_count' = request_count /\ request_count \in Nat
        /\ SnapshotRecord.n = request_count /\ SnapshotRecord.event # "metrics_record"
    BY <1>11, AggregatorOrder DEF Types, SnapshotRecord, Record
  <2>2. \A i \in 1 .. N : IsAbout(Lines[i]) => Lines[i].n <= request_count
    BY <1>5, <2>1 DEF Behind
  <2> QED BY <2>1, <2>2 DEF Behind, Above
<1> QED BY <1>6, <1>7, <1>8, <1>9, <1>10, <1>11, LinesChange

\* FileIsInOrder for every instance: no schedule of the aggregator and the log
\* thread, and no record lost on the way, puts a snapshot on the wrong side of
\* a request's record.
THEOREM SnapshotsAreInOrder == Spec => []FileIsInOrder
<1>1. Init => Ahead /\ FileIsInOrder
  <2> SUFFICES ASSUME Init PROVE Ahead /\ FileIsInOrder
    OBVIOUS
  <2>1. Lines = <<>>
    BY DEF Init, Lines
  <2> QED BY <2>1 DEF Ahead, FileIsInOrder
<1>2. Types /\ Types' /\ Ahead /\ FileIsInOrder /\ [Next]_vars => Ahead' /\ FileIsInOrder'
  BY OrderStep
<1> QED BY <1>1, <1>2, TypesInvariant, PTL DEF Spec

-----------------------------------------------------------------------------
(* The notices about dropped records *)

\* What a line must be, given the count, and that no two are the same.
TrueNotice(r, dropped) ==
    /\ r.n \in (NoticeEvery + 1) .. dropped
    /\ (r.n - 1) % NoticeEvery = 0
IsNotice(r) == r.event = "log_dropped"
Distinct(L) == \A i, j \in 1 .. Len(L) : i < j /\ IsNotice(L[i]) /\ IsNotice(L[j]) => L[i].n # L[j].n

LEMMA NoticeForms ==
    ASSUME NEW L \in Seq(Records), NEW d
    PROVE  LET notices == {i \in DOMAIN L : L[i].event = "log_dropped"}
           IN  (/\ \A i \in notices : L[i].n \in (NoticeEvery + 1) .. d /\ (L[i].n - 1) % NoticeEvery = 0
                /\ \A i, j \in notices : i # j => L[i].n # L[j].n)
               <=> (\A i \in 1 .. Len(L) : IsNotice(L[i]) => TrueNotice(L[i], d)) /\ Distinct(L)
<1>1. DOMAIN L = 1 .. Len(L) /\ Len(L) \in Nat
  OBVIOUS
<1>2. \A i, j \in 1 .. Len(L) : i # j <=> (i < j \/ j < i)
  BY <1>1
<1> QED BY <1>1, <1>2, Zenon DEF IsNotice, TrueNotice, Distinct

\* A positive multiple of m is at least m.
LEMMA Multiple ==
    ASSUME NEW a \in Nat, NEW m \in Nat \ {0}, a > 0, a % m = 0
    PROVE  a >= m
<1>1. SUFFICES ASSUME a < m PROVE FALSE
  OBVIOUS
<1>2. a % m = a
  BY <1>1
<1> QED BY <1>2

\* The notices stay true and distinct if the one that is added is.
LEMMA NoticesKept ==
    ASSUME Types, Types', NoticesAreTrue, dropped_logs' >= dropped_logs,
           \/ Kept
           \/ \E r : /\ Grown(r)
                     /\ IsNotice(r) => /\ TrueNotice(r, dropped_logs)
                                       /\ \A i \in 1 .. Len(Lines) : IsNotice(Lines[i]) => Lines[i].n # r.n
    PROVE  NoticesAreTrue'
<1> DEFINE N == Len(Lines)
<1>1. N \in Nat /\ Lines \in Seq(Records) /\ dropped_logs \in Nat /\ dropped_logs' \in Nat /\ NoticeEvery \in Nat
  BY LinesTypes, ObservabilityAssumption DEF Types
<1>2. Lines' \in Seq(Records)
  BY Concat DEF Types, Lines
<1>3. (\A i \in 1 .. N : IsNotice(Lines[i]) => TrueNotice(Lines[i], dropped_logs)) /\ Distinct(Lines)
  BY <1>1, NoticeForms DEF NoticesAreTrue
<1>4. SUFFICES /\ \A i \in 1 .. Len(Lines') : IsNotice(Lines'[i]) => TrueNotice(Lines'[i], dropped_logs')
               /\ Distinct(Lines')
  BY <1>2, NoticeForms DEF NoticesAreTrue
<1>5. \A r : TrueNotice(r, dropped_logs) => TrueNotice(r, dropped_logs')
  BY <1>1 DEF TrueNotice
<1>6. CASE Kept
  <2>1. \A i \in 1 .. Len(Lines') : IsNotice(Lines'[i]) => TrueNotice(Lines'[i], dropped_logs')
    <3> SUFFICES ASSUME NEW i \in 1 .. Len(Lines'), IsNotice(Lines'[i])
                 PROVE  TrueNotice(Lines'[i], dropped_logs')
      OBVIOUS
    <3>1. PICK k \in 1 .. N : Lines'[i] = Lines[k]
      BY <1>6 DEF Kept
    <3> QED BY <1>3, <1>5, <3>1
  <2>2. Distinct(Lines')
    <3> SUFFICES ASSUME NEW i \in 1 .. Len(Lines'), NEW j \in 1 .. Len(Lines'), i < j,
                        IsNotice(Lines'[i]), IsNotice(Lines'[j])
                 PROVE  Lines'[i].n # Lines'[j].n
      BY DEF Distinct
    <3>1. PICK k \in 1 .. N, l \in 1 .. N : k < l /\ Lines'[i] = Lines[k] /\ Lines'[j] = Lines[l]
      BY <1>6 DEF Kept
    <3> QED BY <1>3, <3>1 DEF Distinct
  <2> QED BY <2>1, <2>2
<1>7. ASSUME NEW r, Grown(r),
             IsNotice(r) => /\ TrueNotice(r, dropped_logs)
                            /\ \A i \in 1 .. N : IsNotice(Lines[i]) => Lines[i].n # r.n
      PROVE  /\ \A i \in 1 .. Len(Lines') : IsNotice(Lines'[i]) => TrueNotice(Lines'[i], dropped_logs')
             /\ Distinct(Lines')
  <2>1. Len(Lines') = N + 1 /\ (\A i \in 1 .. N : Lines'[i] = Lines[i]) /\ Lines'[N + 1] = r
    BY <1>7 DEF Grown
  <2>2. \A i, j \in 1 .. N : i < j /\ IsNotice(Lines[i]) /\ IsNotice(Lines[j]) => Lines[i].n # Lines[j].n
    BY <1>3 DEF Distinct
  <2> HIDE DEF N
  <2>3. \A i \in 1 .. (N + 1) : i \in 1 .. N \/ i = N + 1
    BY <1>1
  <2>4. \A i \in 1 .. (N + 1) : IsNotice(Lines'[i]) => TrueNotice(Lines'[i], dropped_logs')
    BY <1>3, <1>5, <1>7, <2>1, <2>3, Zenon
  <2>5. ASSUME NEW i \in 1 .. (N + 1), NEW j \in 1 .. (N + 1), i < j, IsNotice(Lines'[i]), IsNotice(Lines'[j])
        PROVE  Lines'[i].n # Lines'[j].n
    <3>1. i \in 1 .. N
      BY <1>1, <2>5
    <3>2. CASE j \in 1 .. N
      BY <2>1, <2>2, <2>5, <3>1, <3>2
    <3>3. CASE j = N + 1
      BY <1>7, <2>1, <2>5, <3>1, <3>3
    <3> QED BY <2>3, <3>2, <3>3
  <2> QED BY <2>1, <2>4, <2>5 DEF Distinct
<1> QED BY <1>6, <1>7

\* A number that no line has, no line has after a step that adds no notice of it.
LEMMA NoticesNew ==
    ASSUME Types, NEW n,
           Kept \/ \E r : Grown(r) /\ (IsNotice(r) => r.n # n),
           \A i \in 1 .. Len(Lines) : IsNotice(Lines[i]) => Lines[i].n # n
    PROVE  \A i \in 1 .. Len(Lines') : IsNotice(Lines'[i]) => Lines'[i].n # n
<1>1. CASE Kept
  BY <1>1 DEF Kept
<1>2. ASSUME NEW r, Grown(r), IsNotice(r) => r.n # n
      PROVE  \A i \in 1 .. Len(Lines') : IsNotice(Lines'[i]) => Lines'[i].n # n
  <2>1. Len(Lines) \in Nat
    BY LinesTypes
  <2>2. \A i \in 1 .. (Len(Lines) + 1) : i \in 1 .. Len(Lines) \/ i = Len(Lines) + 1
    BY <2>1
  <2> QED BY <1>2, <2>2, Zenon DEF Grown
<1> QED BY <1>1, <1>2

LEMMA PendingKept ==
    ASSUME Types, Pending, dropped_logs' = dropped_logs,
           \A f \in Emitters : pc'[f] = "notice" =>
              /\ pc[f] = "notice" /\ prev'[f] = prev[f]
              /\ Kept \/ \E r : Grown(r) /\ (IsNotice(r) => r.n # prev[f] + 1)
    PROVE  Pending'
<1> SUFFICES ASSUME NEW e \in Emitters, pc'[e] = "notice"
             PROVE  /\ prev'[e] % NoticeEvery = 0 /\ prev'[e] > 0 /\ prev'[e] < dropped_logs'
                    /\ \A i \in 1 .. Len(Lines') : Lines'[i].event = "log_dropped" => Lines'[i].n # prev'[e] + 1
                    /\ \A f \in Emitters : f # e /\ pc'[f] = "notice" => prev'[f] # prev'[e]
  BY DEF Pending
<1>1. pc[e] = "notice" /\ prev'[e] = prev[e]
  OBVIOUS
<1>2. prev'[e] % NoticeEvery = 0 /\ prev'[e] > 0 /\ prev'[e] < dropped_logs'
  BY <1>1 DEF Pending
<1>3. \A f \in Emitters : f # e /\ pc'[f] = "notice" => prev'[f] # prev'[e]
  BY <1>1 DEF Pending
<1>4. \A i \in 1 .. Len(Lines') : IsNotice(Lines'[i]) => Lines'[i].n # prev[e] + 1
  <2>1. \A i \in 1 .. Len(Lines) : IsNotice(Lines[i]) => Lines[i].n # prev[e] + 1
    BY <1>1 DEF Pending, IsNotice
  <2> QED BY <2>1, NoticesNew
<1> QED BY <1>1, <1>2, <1>3, <1>4 DEF IsNotice

LEMMA NoticesStep ==
    ASSUME Types, Types', Pending, NoticesAreTrue, [Next]_vars
    PROVE  Pending' /\ NoticesAreTrue'
<1>0. /\ dropped_logs \in Nat /\ NoticeEvery \in Nat \ {0} /\ prev \in [Emitters -> Nat]
      /\ pc \in [Emitters -> {"idle", "saturated", "count", "notice"}]
  BY ObservabilityAssumption DEF Types
<1>a. Lines \in Seq(Records) /\ \A i \in 1 .. Len(Lines) : IsNotice(Lines[i]) => TrueNotice(Lines[i], dropped_logs)
  BY LinesTypes, NoticeForms DEF NoticesAreTrue
<1>1. ASSUME NEW e \in Emitters, CountDrop(e) PROVE Pending' /\ NoticesAreTrue'
  <2>1. /\ dropped_logs' = dropped_logs + 1 /\ file' = file /\ log_queue' = log_queue
        /\ \A f \in Emitters \ {e} : pc'[f] = pc[f] /\ prev'[f] = prev[f]
    BY <1>0, <1>1 DEF CountDrop, Counted, channel_vars, file_vars
  <2>2. pc'[e] = "notice" => NoticeDue(dropped_logs) /\ prev'[e] = dropped_logs
    BY <1>0, <1>1 DEF CountDrop
  <2>3. Lines' = Lines
    BY <2>1 DEF Lines
  <2>4. NoticesAreTrue'
    <3>1. Kept
      BY <2>3, SameLines
    <3> QED BY <1>0, <2>1, <3>1, NoticesKept
  <2>5. \A i \in 1 .. Len(Lines) : Lines[i].event = "log_dropped" => Lines[i].n # dropped_logs + 1
    BY <1>0, <1>a DEF IsNotice, TrueNotice
  <2>6. ASSUME NEW f \in Emitters, pc'[f] = "notice"
        PROVE  /\ prev'[f] % NoticeEvery = 0 /\ prev'[f] > 0 /\ prev'[f] < dropped_logs'
               /\ \A i \in 1 .. Len(Lines') : Lines'[i].event = "log_dropped" => Lines'[i].n # prev'[f] + 1
               /\ \A g \in Emitters : g # f /\ pc'[g] = "notice" => prev'[g] # prev'[f]
    <3>1. \A g \in Emitters \ {e} : pc'[g] = "notice" => prev'[g] < dropped_logs
      BY <2>1 DEF Pending
    <3>2. CASE f = e
      <4>1. prev'[f] = dropped_logs /\ dropped_logs > 0 /\ dropped_logs % NoticeEvery = 0
        BY <2>2, <2>6, <3>2 DEF NoticeDue
      <4>2. \A g \in Emitters : g # f /\ pc'[g] = "notice" => prev'[g] # prev'[f]
        BY <1>0, <3>1, <3>2, <4>1
      <4> QED BY <1>0, <2>1, <2>3, <2>5, <4>1, <4>2
    <3>3. CASE f # e
      <4>1. pc[f] = "notice" /\ prev'[f] = prev[f]
        BY <2>1, <2>6, <3>3
      <4>2. prev[f] % NoticeEvery = 0 /\ prev[f] > 0 /\ prev[f] < dropped_logs /\ prev[f] \in Nat
            /\ \A i \in 1 .. Len(Lines) : Lines[i].event = "log_dropped" => Lines[i].n # prev[f] + 1
        BY <1>0, <4>1 DEF Pending
      <4>3. \A g \in Emitters : g # f /\ pc'[g] = "notice" => prev'[g] # prev'[f]
        <5> SUFFICES ASSUME NEW g \in Emitters, g # f, pc'[g] = "notice" PROVE prev'[g] # prev'[f]
          OBVIOUS
        <5>1. CASE g = e
          BY <1>0, <2>2, <4>1, <4>2, <5>1
        <5>2. CASE g # e
          BY <2>1, <4>1, <5>2 DEF Pending
        <5> QED BY <5>1, <5>2
      <4>4. prev[f] < dropped_logs'
        BY <1>0, <2>1, <4>2
      <4> QED BY <2>3, <4>1, <4>2, <4>3, <4>4
    <3> QED BY <3>2, <3>3
  <2>7. Pending'
    BY <2>6 DEF Pending
  <2> QED BY <2>4, <2>7
<1>2. ASSUME NEW e \in Emitters, SendNotice(e) PROVE Pending' /\ NoticesAreTrue'
  <2>1. /\ dropped_logs' = dropped_logs /\ pc[e] = "notice" /\ pc'[e] = "idle"
        /\ \A f \in Emitters \ {e} : pc'[f] = pc[f] /\ prev'[f] = prev[f]
    BY <1>0, <1>2 DEF SendNotice
  <2>2. Notice(e).n = prev[e] + 1 /\ IsNotice(Notice(e)) /\ prev[e] \in Nat
    BY <1>0 DEF Notice, Record, IsNotice
  <2>3. Kept \/ Grown(Notice(e))
    <3>1. Notice(e) \in Records
      BY <1>0, <2>2, RecordTypes DEF Notice
    <3>2. log_queue' = TrySend(Notice(e)) /\ file' = file
      BY <1>2 DEF SendNotice, file_vars, Notice
    <3> QED BY <3>1, <3>2, SendLines
  <2>4. prev[e] % NoticeEvery = 0 /\ prev[e] > 0 /\ prev[e] < dropped_logs
        /\ (\A i \in 1 .. Len(Lines) : IsNotice(Lines[i]) => Lines[i].n # prev[e] + 1)
        /\ \A f \in Emitters : f # e /\ pc[f] = "notice" => prev[f] # prev[e]
    BY <2>1 DEF Pending, IsNotice
  <2>5. TrueNotice(Notice(e), dropped_logs)
    <3>1. prev[e] >= NoticeEvery
      BY <1>0, <2>2, <2>4, Multiple
    <3>2. prev[e] + 1 \in (NoticeEvery + 1) .. dropped_logs /\ (prev[e] + 1) - 1 = prev[e]
      BY <1>0, <2>2, <2>4, <3>1
    <3> QED BY <2>2, <2>4, <3>2 DEF TrueNotice
  <2>6. NoticesAreTrue'
    BY <1>0, <2>1, <2>2, <2>3, <2>4, <2>5, NoticesKept
  <2>7. \A f \in Emitters : pc'[f] = "notice" =>
              /\ pc[f] = "notice" /\ prev'[f] = prev[f]
              /\ Kept \/ \E r : Grown(r) /\ (IsNotice(r) => r.n # prev[f] + 1)
    <3> SUFFICES ASSUME NEW f \in Emitters, pc'[f] = "notice"
                 PROVE  /\ pc[f] = "notice" /\ prev'[f] = prev[f]
                        /\ Kept \/ \E r : Grown(r) /\ (IsNotice(r) => r.n # prev[f] + 1)
      OBVIOUS
    <3>1. f # e
      BY <2>1
    <3>2. pc[f] = "notice" /\ prev'[f] = prev[f]
      BY <2>1, <3>1
    <3>3. prev[f] + 1 # prev[e] + 1
      BY <1>0, <2>4, <3>1, <3>2
    <3> QED BY <2>2, <2>3, <3>2, <3>3
  <2> QED BY <2>1, <2>6, <2>7, PendingKept
<1>3. ASSUME ~(\E e \in Emitters : CountDrop(e) \/ SendNotice(e)) PROVE Pending' /\ NoticesAreTrue'
  <2>1. dropped_logs' = dropped_logs /\ prev' = prev
    BY <1>3 DEF Next, Aggregator, EmitLog, RecordPoolRejected, RecordMetrics, OtherSender, MetricsRecv,
                MetricsLog, MetricsSnapshot, MetricsSend, LogWrite, vars, emit_vars
  <2>2. \A f \in Emitters : pc'[f] = "notice" => pc[f] = "notice"
    <3>1. CASE \E e \in Emitters : EmitLog(e) \/ RecordPoolRejected(e)
      BY <1>0, <3>1 DEF EmitLog, RecordPoolRejected
    <3>2. CASE ~(\E e \in Emitters : EmitLog(e) \/ RecordPoolRejected(e))
      BY <1>3, <3>2 DEF Next, Aggregator, RecordMetrics, OtherSender, MetricsRecv, MetricsLog,
                         MetricsSnapshot, MetricsSend, LogWrite, vars, emit_vars
    <3> QED BY <3>1, <3>2
  <2>3. Kept \/ \E r : Grown(r) /\ ~IsNotice(r)
    <3>1. ~IsNotice(RequestRecord) /\ ~IsNotice(SnapshotRecord)
      BY DEF IsNotice, RequestRecord, SnapshotRecord, Record
    <3>2. \A r : r.event \in {"emitted", "other"} => ~IsNotice(r)
      BY DEF IsNotice
    <3> QED BY <1>3, <3>1, <3>2, LinesChange
  <2>4. NoticesAreTrue'
    BY <1>0, <2>1, <2>3, NoticesKept
  <2>5. Pending'
    BY <2>1, <2>2, <2>3, PendingKept
  <2> QED BY <2>4, <2>5
<1> QED BY <1>1, <1>2, <1>3

\* NoticesAreTrue for every instance: two threads that lose records at the same
\* time never announce the same number, and none is announced before it is
\* reached, however long a notice waits for its turn.
THEOREM NoticesTellTheTruth == Spec => []NoticesAreTrue
<1>1. Init => Pending /\ NoticesAreTrue
  <2> SUFFICES ASSUME Init PROVE Pending /\ NoticesAreTrue
    OBVIOUS
  <2>1. Lines = <<>> /\ \A e \in Emitters : pc[e] # "notice"
    BY DEF Init, Lines
  <2> QED BY <2>1 DEF Pending, NoticesAreTrue
<1>2. Types /\ Types' /\ Pending /\ NoticesAreTrue /\ [Next]_vars => Pending' /\ NoticesAreTrue'
  BY NoticesStep
<1> QED BY <1>1, <1>2, TypesInvariant, PTL DEF Spec

-----------------------------------------------------------------------------
(* Sums *)

\* Induction over the natural numbers, for a set instead of a predicate.
LEMMA SetInduction ==
    ASSUME NEW S, 0 \in S, \A n \in Nat : n \in S => n + 1 \in S
    PROVE  \A n \in Nat : n \in S
<1> SUFFICES ASSUME NEW m \in Nat, m \notin S PROVE FALSE
  OBVIOUS
<1> DEFINE T == Nat \ S
<1>1. T \subseteq Nat /\ T # {}
  OBVIOUS
<1> HIDE DEF T
<1>2. PICK x \in T : \A y \in T : ~ (<<y, x>> \in OpToRel(<, Nat))
  BY <1>1, WFMin, NatLessThanWellFounded, Zenon
<1>3. x \in Nat /\ x \notin S
  BY DEF T
<1>4. x # 0 /\ x - 1 \in Nat /\ x - 1 < x /\ (x - 1) + 1 = x
  BY <1>3
<1>5. x - 1 \in T
  BY <1>3, <1>4 DEF T
<1>6. <<x - 1, x>> \in OpToRel(<, Nat)
  BY <1>3, <1>4 DEF OpToRel
<1> QED BY <1>2, <1>5, <1>6, Zenon

\* f has the partial sums of v up to n.
IsSum(f, v, n) == f = [i \in 0 .. n |-> IF i = 0 THEN 0 ELSE f[i - 1] + v[i]]

LEMMA SumExists == ASSUME NEW v, NEW n \in Nat PROVE \E f : IsSum(f, v, n)
<1> DEFINE S == {k \in Nat : \E f : IsSum(f, v, k)}
<1>1. 0 \in S
  <2>1. IsSum([i \in 0 .. 0 |-> 0], v, 0)
    BY DEF IsSum
  <2> QED BY <2>1
<1>2. ASSUME NEW k \in Nat, k \in S PROVE k + 1 \in S
  <2>1. PICK f : IsSum(f, v, k)
    BY <1>2
  <2> DEFINE g == [i \in 0 .. (k + 1) |-> IF i = k + 1 THEN f[k] + v[i] ELSE f[i]]
  <2>2. ASSUME NEW i \in 0 .. (k + 1) PROVE g[i] = IF i = 0 THEN 0 ELSE g[i - 1] + v[i]
    <3>1. CASE i = 0
      BY <2>1, <3>1 DEF IsSum
    <3>2. CASE i # 0
      <4>1. i - 1 \in 0 .. k /\ i - 1 # k + 1 /\ i - 1 \in 0 .. (k + 1)
        BY <3>2
      <4>2. g[i - 1] = f[i - 1]
        BY <4>1
      <4>3. CASE i = k + 1
        BY <4>2, <4>3, <3>2
      <4>4. CASE i # k + 1
        <5>1. i \in 0 .. k
          BY <4>4
        <5>2. f[i] = f[i - 1] + v[i]
          BY <5>1, <2>1, <3>2 DEF IsSum
        <5> QED BY <4>2, <4>4, <3>2, <5>2
      <4> QED BY <4>3, <4>4
    <3> QED BY <3>1, <3>2
  <2>3. g = [i \in 0 .. (k + 1) |-> g[i]]
    OBVIOUS
  <2> HIDE DEF g
  <2>4. IsSum(g, v, k + 1)
    BY <2>2, <2>3, Zenon DEF IsSum
  <2> QED BY <2>4
<1> HIDE DEF S
<1>3. n \in S
  BY <1>1, <1>2, SetInduction
<1> QED BY <1>3 DEF S

\* The partial sums Total takes its last from.
Sums(v) == CHOOSE f : IsSum(f, v, Len(v))

LEMMA TotalDef ==
    ASSUME NEW v, Len(v) \in Nat
    PROVE  Total(v) = Sums(v)[Len(v)] /\ IsSum(Sums(v), v, Len(v))
<1>1. IsSum(Sums(v), v, Len(v))
  BY SumExists, Zenon DEF Sums
<1>2. Total(v) = Sums(v)[Len(v)]
  BY DEF Total, Sums, IsSum
<1> QED BY <1>1, <1>2

LEMMA SumsAreNat ==
    ASSUME NEW v, NEW n \in Nat, NEW f, IsSum(f, v, n), \A i \in 1 .. n : v[i] \in Nat
    PROVE  \A j \in 0 .. n : f[j] \in Nat
<1> DEFINE S == {j \in Nat : j <= n => f[j] \in Nat}
<1>1. 0 \in S
  BY DEF IsSum
<1>2. ASSUME NEW j \in Nat, j \in S PROVE j + 1 \in S
  <2>1. CASE j + 1 <= n
    <3>1. j + 1 \in 0 .. n /\ j + 1 # 0 /\ (j + 1) - 1 = j /\ j + 1 \in 1 .. n /\ j <= n
      BY <2>1
    <3>2. f[j + 1] = f[j] + v[j + 1]
      BY <3>1 DEF IsSum
    <3> QED BY <1>2, <3>1, <3>2
  <2> QED BY <2>1
<1> HIDE DEF S
<1>3. \A j \in Nat : j \in S
  BY <1>1, <1>2, SetInduction
<1> QED BY <1>3 DEF S

\* The sums of two sequences agree as far as the sequences do.
LEMMA SumsAgree ==
    ASSUME NEW v, NEW w, Len(v) \in Nat, Len(w) = Len(v) + 1, \A i \in 1 .. Len(v) : w[i] = v[i]
    PROVE  \A j \in 0 .. Len(v) : Sums(w)[j] = Sums(v)[j]
<1> DEFINE n == Len(v)
           f == Sums(v)
           g == Sums(w)
           S == {j \in Nat : j <= n => g[j] = f[j]}
<1>1. n \in Nat /\ IsSum(f, v, n) /\ IsSum(g, w, n + 1) /\ \A i \in 1 .. n : w[i] = v[i]
  BY TotalDef
<1> HIDE DEF n, f, g
<1>2. 0 \in S
  BY <1>1 DEF IsSum
<1>3. ASSUME NEW j \in Nat, j \in S PROVE j + 1 \in S
  <2>1. CASE j + 1 <= n
    <3>1. /\ j + 1 \in 0 .. n /\ j + 1 \in 0 .. (n + 1) /\ j + 1 \in 1 .. n
          /\ j + 1 # 0 /\ (j + 1) - 1 = j /\ j <= n
      BY <1>1, <2>1
    <3>2. f[j + 1] = f[j] + v[j + 1] /\ g[j + 1] = g[j] + w[j + 1]
      BY <1>1, <3>1 DEF IsSum
    <3> QED BY <1>1, <1>3, <3>1, <3>2
  <2> QED BY <2>1
<1> HIDE DEF S
<1>4. \A j \in Nat : j \in S
  BY <1>2, <1>3, SetInduction
<1> QED BY <1>1, <1>4 DEF S, n, f, g

LEMMA TotalNone == ASSUME NEW v, Len(v) = 0 PROVE Total(v) = 0
  BY TotalDef DEF IsSum

LEMMA TotalType ==
    ASSUME NEW v, Len(v) \in Nat, \A i \in 1 .. Len(v) : v[i] \in Nat
    PROVE  Total(v) \in Nat
  BY TotalDef, SumsAreNat

LEMMA TotalOneMore ==
    ASSUME NEW v, NEW w, Len(v) \in Nat, Len(w) = Len(v) + 1, \A i \in 1 .. Len(v) : w[i] = v[i]
    PROVE  Total(w) = Total(v) + w[Len(w)]
<1> DEFINE n == Len(v)
<1>1. IsSum(Sums(v), v, n) /\ IsSum(Sums(w), w, n + 1)
      /\ Total(v) = Sums(v)[n] /\ Total(w) = Sums(w)[n + 1]
  BY TotalDef
<1>2. Sums(w)[n] = Sums(v)[n]
  BY SumsAgree
<1>3. n + 1 \in 0 .. (n + 1) /\ n + 1 # 0 /\ (n + 1) - 1 = n
  OBVIOUS
<1>4. Sums(w)[n + 1] = Sums(w)[n] + w[n + 1]
  BY <1>1, <1>3 DEF IsSum
<1> QED BY <1>1, <1>2, <1>4

-----------------------------------------------------------------------------
(* The metrics are those of the requests aggregated *)

Durations(s) == [i \in 1 .. Len(s) |-> s[i].duration]
Bytes(s) == [i \in 1 .. Len(s) |-> s[i].request_len + s[i].response_len]
Sent(s, b) == {i \in 1 .. Len(s) : s[i].backend = b}
Failed(s, b) == {i \in Sent(s, b) : s[i].error}

\* Every field of the metrics, given the requests they are made from.
Tells(m, s) ==
    /\ DOMAIN m = {"total", "bytes", "duration", "last", "largest", "rejected", "per_backend"}
    /\ m.total = Len(s)
    /\ m.bytes = Total(Bytes(s))
    /\ m.duration = Total(Durations(s))
    /\ m.last = IF Len(s) = 0 THEN 0 ELSE s[Len(s)].duration
    /\ m.largest \in {0} \cup {s[i].request_len : i \in 1 .. Len(s)}
    /\ \A i \in 1 .. Len(s) : s[i].request_len <= m.largest
    /\ DOMAIN m.per_backend = {s[i].backend : i \in 1 .. Len(s)}
    /\ \A b \in DOMAIN m.per_backend :
          m.per_backend[b] = [requests |-> Cardinality(Sent(s, b)), errors |-> Cardinality(Failed(s, b))]

LEMMA AppendFacts ==
    ASSUME NEW s \in Seq(Stats), NEW x \in Stats
    PROVE  /\ Len(s) \in Nat /\ Len(Append(s, x)) = Len(s) + 1
           /\ \A i \in 1 .. Len(s) : Append(s, x)[i] = s[i] /\ s[i] \in Stats
           /\ Append(s, x)[Len(s) + 1] = x
           /\ 1 .. (Len(s) + 1) = (1 .. Len(s)) \cup {Len(s) + 1}
<1>1. Len(s) \in Nat /\ \A i \in 1 .. Len(s) : s[i] \in Stats
  OBVIOUS
<1>2. 1 .. (Len(s) + 1) = (1 .. Len(s)) \cup {Len(s) + 1}
  BY <1>1
<1>3. Len(Append(s, x)) = Len(s) + 1 /\ Append(s, x)[Len(s) + 1] = x
      /\ \A i \in 1 .. Len(s) : Append(s, x)[i] = s[i]
  OBVIOUS
<1> QED BY <1>1, <1>2, <1>3

LEMMA SumsGrow ==
    ASSUME NEW s \in Seq(Stats), NEW x \in Stats
    PROVE  /\ Total(Durations(Append(s, x))) = Total(Durations(s)) + x.duration
           /\ Total(Bytes(Append(s, x))) = Total(Bytes(s)) + (x.request_len + x.response_len)
<1> DEFINE t == Append(s, x)
<1>1. Len(s) \in Nat /\ Len(t) = Len(s) + 1 /\ t[Len(s) + 1] = x /\ \A i \in 1 .. Len(s) : t[i] = s[i]
  BY AppendFacts
<1>2. \A i \in 1 .. Len(s) : i \in 1 .. (Len(s) + 1)
  BY <1>1
<1> HIDE DEF t
<1>3. /\ Len(Durations(s)) = Len(s) /\ Len(Durations(t)) = Len(s) + 1
      /\ Durations(t)[Len(s) + 1] = x.duration
      /\ \A i \in 1 .. Len(s) : Durations(t)[i] = Durations(s)[i]
  BY <1>1, <1>2 DEF Durations
<1>4. /\ Len(Bytes(s)) = Len(s) /\ Len(Bytes(t)) = Len(s) + 1
      /\ Bytes(t)[Len(s) + 1] = x.request_len + x.response_len
      /\ \A i \in 1 .. Len(s) : Bytes(t)[i] = Bytes(s)[i]
  BY <1>1, <1>2 DEF Bytes
<1>5. Total(Durations(t)) = Total(Durations(s)) + x.duration
  BY <1>1, <1>3, TotalOneMore
<1>6. Total(Bytes(t)) = Total(Bytes(s)) + (x.request_len + x.response_len)
  BY <1>1, <1>4, TotalOneMore
<1> QED BY <1>5, <1>6 DEF t

\* One request more adds its index to the sets of its backend.
LEMMA SetsGrow ==
    ASSUME NEW s \in Seq(Stats), NEW x \in Stats, NEW b
    PROVE  /\ Cardinality(Sent(s, b)) \in Nat /\ Cardinality(Failed(s, b)) \in Nat
           /\ Cardinality(Sent(Append(s, x), b)) = Cardinality(Sent(s, b)) + IF x.backend = b THEN 1 ELSE 0
           /\ Cardinality(Failed(Append(s, x), b))
                = Cardinality(Failed(s, b)) + IF x.backend = b /\ x.error THEN 1 ELSE 0
<1> DEFINE t == Append(s, x)
           n == Len(s) + 1
<1>1. Len(s) \in Nat /\ Len(t) = n /\ t[n] = x /\ (\A i \in 1 .. Len(s) : t[i] = s[i])
      /\ 1 .. n = (1 .. Len(s)) \cup {n} /\ n \notin 1 .. Len(s)
  BY AppendFacts
<1> HIDE DEF t, n
<1>2. IsFiniteSet(1 .. Len(s)) /\ Sent(s, b) \subseteq 1 .. Len(s) /\ Failed(s, b) \subseteq 1 .. Len(s)
  <2>1. IsFiniteSet(1 .. Len(s))
    BY <1>1, FS_Interval
  <2> QED BY <2>1 DEF Sent, Failed
<1>3. IsFiniteSet(Sent(s, b)) /\ IsFiniteSet(Failed(s, b))
  BY <1>2, FS_Subset
<1>4. Cardinality(Sent(s, b)) \in Nat /\ Cardinality(Failed(s, b)) \in Nat
  BY <1>3, FS_CardinalityType
<1>5. n \notin Sent(s, b) /\ n \notin Failed(s, b)
  BY <1>1, <1>2
<1>6. CASE x.backend = b
  <2>1. Sent(t, b) = Sent(s, b) \cup {n}
    BY <1>1, <1>6 DEF Sent
  <2>2. Cardinality(Sent(t, b)) = Cardinality(Sent(s, b)) + 1
    BY <1>3, <1>5, <2>1, FS_AddElement
  <2>3. CASE x.error
    <3>1. Failed(t, b) = Failed(s, b) \cup {n}
      BY <1>1, <2>1, <2>3 DEF Failed, Sent
    <3>2. Cardinality(Failed(t, b)) = Cardinality(Failed(s, b)) + 1
      BY <1>3, <1>5, <3>1, FS_AddElement
    <3> QED BY <1>4, <1>6, <2>2, <2>3, <3>2 DEF t
  <2>4. CASE ~x.error
    <3>1. Failed(t, b) = Failed(s, b)
      BY <1>1, <2>1, <2>4 DEF Failed, Sent
    <3> QED BY <1>4, <1>6, <2>2, <2>4, <3>1 DEF t
  <2> QED BY <2>3, <2>4
<1>7. CASE x.backend # b
  <2>1. Sent(t, b) = Sent(s, b)
    BY <1>1, <1>7 DEF Sent
  <2>2. Failed(t, b) = Failed(s, b)
    BY <1>1, <1>7, <2>1 DEF Failed, Sent
  <2> QED BY <1>4, <1>7, <2>1, <2>2 DEF t
<1> QED BY <1>6, <1>7

\* Metrics::record_request keeps every field true of one request more.
LEMMA TellsMore ==
    ASSUME NEW s \in Seq(Stats), NEW x \in Stats, NEW m, Tells(m, s)
    PROVE  Tells(record_request(m, x), Append(s, x))
<1> DEFINE t == Append(s, x)
           r == record_request(m, x)
           n == Len(s)
<1>1. n \in Nat /\ Len(t) = n + 1 /\ t[n + 1] = x /\ (\A i \in 1 .. n : t[i] = s[i] /\ s[i] \in Stats)
      /\ 1 .. (n + 1) = (1 .. n) \cup {n + 1}
  BY AppendFacts
<1>2. \A y \in Stats : y.request_len \in Nat /\ y.response_len \in Nat /\ y.duration \in Nat
  BY ObservabilityAssumption
<1>3. /\ DOMAIN r = {"total", "bytes", "duration", "last", "largest", "rejected", "per_backend"}
      /\ r.total = m.total + 1 /\ r.bytes = m.bytes + x.request_len + x.response_len
      /\ r.duration = m.duration + x.duration /\ r.last = x.duration
      /\ r.largest = IF x.request_len > m.largest THEN x.request_len ELSE m.largest
  BY DEF record_request
<1>4. r.per_backend = [b \in DOMAIN m.per_backend \cup {x.backend} |->
                          IF b = x.backend
                          THEN [requests |-> Entry(m, x.backend).requests + 1,
                                errors |-> Entry(m, x.backend).errors + IF x.error THEN 1 ELSE 0]
                          ELSE m.per_backend[b]]
  BY DEF record_request
<1>b. Total(Bytes(s)) \in Nat
  <2>1. Len(Bytes(s)) = n /\ \A i \in 1 .. n : Bytes(s)[i] \in Nat
    BY <1>1, <1>2 DEF Bytes
  <2> QED BY <1>1, <2>1, TotalType
<1> HIDE DEF t, r, n
<1>5. r.total = Len(t) /\ r.duration = Total(Durations(t))
      /\ r.last = IF Len(t) = 0 THEN 0 ELSE t[Len(t)].duration
  BY <1>1, <1>3, SumsGrow DEF Tells, t, n
<1>6. r.bytes = Total(Bytes(t))
  <2>1. \A a, c, d \in Nat : (a + c) + d = a + (c + d)
    OBVIOUS
  <2>2. r.bytes = Total(Bytes(s)) + (x.request_len + x.response_len)
    BY <1>b, <1>2, <1>3, <2>1 DEF Tells
  <2> QED BY <2>2, SumsGrow DEF t
<1>7. /\ r.largest \in {0} \cup {t[i].request_len : i \in 1 .. Len(t)}
      /\ \A i \in 1 .. Len(t) : t[i].request_len <= r.largest
  <2>1. m.largest \in {0} \cup {s[i].request_len : i \in 1 .. n}
        /\ \A i \in 1 .. n : s[i].request_len <= m.largest
    BY DEF Tells, n
  <2>2. m.largest \in Nat
    BY <1>1, <1>2, <2>1
  <2>3. {t[i].request_len : i \in 1 .. Len(t)} = {s[i].request_len : i \in 1 .. n} \cup {x.request_len}
    BY <1>1
  <2>4. x.request_len \in Nat /\ \A i \in 1 .. n : s[i].request_len \in Nat
    BY <1>1, <1>2
  <2>5. r.largest \in Nat /\ x.request_len <= r.largest /\ m.largest <= r.largest
    BY <1>3, <2>2, <2>4
  <2>6. r.largest \in {0} \cup {t[i].request_len : i \in 1 .. Len(t)}
    BY <1>3, <2>1, <2>3
  <2>7. ASSUME NEW i \in 1 .. Len(t) PROVE t[i].request_len <= r.largest
    <3>1. CASE i \in 1 .. n
      <4>1. t[i].request_len = s[i].request_len /\ s[i].request_len <= m.largest /\ s[i].request_len \in Nat
        BY <1>1, <2>1, <2>4, <3>1
      <4> QED BY <2>2, <2>5, <4>1
    <3>2. CASE i = n + 1
      BY <1>1, <2>5, <3>2
    <3> QED BY <1>1, <3>1, <3>2
  <2> QED BY <2>6, <2>7
<1>8. DOMAIN m.per_backend = {s[i].backend : i \in 1 .. n}
      /\ \A b \in DOMAIN m.per_backend :
            m.per_backend[b] = [requests |-> Cardinality(Sent(s, b)), errors |-> Cardinality(Failed(s, b))]
  BY DEF Tells, n
<1>9. DOMAIN r.per_backend = {t[i].backend : i \in 1 .. Len(t)}
  <2>1. {t[i].backend : i \in 1 .. Len(t)} = {s[i].backend : i \in 1 .. n} \cup {x.backend}
    BY <1>1
  <2> QED BY <1>4, <1>8, <2>1
<1>10. Entry(m, x.backend) = [requests |-> Cardinality(Sent(s, x.backend)),
                              errors |-> Cardinality(Failed(s, x.backend))]
  <2>1. CASE x.backend \in DOMAIN m.per_backend
    BY <1>8, <2>1 DEF Entry
  <2>2. CASE x.backend \notin DOMAIN m.per_backend
    <3>1. Sent(s, x.backend) = {} /\ Failed(s, x.backend) = {}
      BY <1>8, <2>2 DEF Sent, Failed, n
    <3>2. Cardinality({}) = 0
      BY FS_EmptySet
    <3> QED BY <2>2, <3>1, <3>2 DEF Entry
  <2> QED BY <2>1, <2>2
<1>11. ASSUME NEW b \in DOMAIN r.per_backend
       PROVE  r.per_backend[b] = [requests |-> Cardinality(Sent(t, b)), errors |-> Cardinality(Failed(t, b))]
  <2>1. CASE b = x.backend
    <3>1. Cardinality(Sent(t, b)) = Cardinality(Sent(s, b)) + 1
          /\ Cardinality(Failed(t, b)) = Cardinality(Failed(s, b)) + IF x.error THEN 1 ELSE 0
      BY <2>1, SetsGrow DEF t
    <3>2. r.per_backend[b] = [requests |-> Entry(m, x.backend).requests + 1,
                              errors |-> Entry(m, x.backend).errors + IF x.error THEN 1 ELSE 0]
      BY <1>4, <2>1
    <3> QED BY <1>10, <2>1, <3>1, <3>2
  <2>2. CASE b # x.backend
    <3>1. b \in DOMAIN m.per_backend /\ r.per_backend[b] = m.per_backend[b]
      BY <1>4, <2>2
    <3>2. Cardinality(Sent(t, b)) = Cardinality(Sent(s, b))
          /\ Cardinality(Failed(t, b)) = Cardinality(Failed(s, b))
      BY <2>2, SetsGrow DEF t
    <3> QED BY <1>8, <3>1, <3>2
  <2> QED BY <2>1, <2>2
<1>12. Tells(r, t)
  BY <1>3, <1>5, <1>6, <1>7, <1>9, <1>11, Zenon DEF Tells
<1> QED BY <1>12 DEF r, t

\* The requests aggregated: those accepted that are no longer in the channel.
Taken == Len(arrived) - Len(metrics_queue)
First == SubSeq(arrived, 1, Taken)

Aggregated ==
    /\ Taken \in Nat
    /\ \A i \in 1 .. Len(metrics_queue) : metrics_queue[i] = arrived[Taken + i]
    /\ Tells(metrics, First)

LEMMA FirstFacts ==
    ASSUME NEW a \in Seq(Stats), NEW k \in Nat, k <= Len(a)
    PROVE  /\ SubSeq(a, 1, k) \in Seq(Stats) /\ Len(SubSeq(a, 1, k)) = k
           /\ \A i \in 1 .. k : SubSeq(a, 1, k)[i] = a[i]
<1>1. \A i \in 1 .. k : a[i] \in Stats /\ (1 + i) - 1 = i /\ i \in Nat
  OBVIOUS
<1> QED BY <1>1, SubSeqProperties

LEMMA AggregatedStep == ASSUME Types, Types', Aggregated, [Next]_vars PROVE Aggregated'
<1> DEFINE k == Taken
           q == metrics_queue
<1>1. /\ arrived \in Seq(Stats) /\ q \in Seq(Stats) /\ Len(arrived) \in Nat /\ Len(q) \in Nat
      /\ k \in Nat /\ k + Len(q) = Len(arrived) /\ k <= Len(arrived)
  <2>1. arrived \in Seq(Stats) /\ q \in Seq(Stats) /\ k \in Nat
    BY DEF Types, Aggregated
  <2>2. Len(arrived) \in Nat /\ Len(q) \in Nat
    BY <2>1
  <2>3. \A a, b \in Nat : (a - b) + b = a /\ (a - b \in Nat => a - b <= a)
    OBVIOUS
  <2> QED BY <2>1, <2>2, <2>3 DEF Taken
<1>2. First \in Seq(Stats) /\ Len(First) = k /\ \A i \in 1 .. k : First[i] = arrived[i]
  BY <1>1, FirstFacts DEF First
<1>3. ASSUME NEW s \in Stats, RecordMetrics(s) PROVE Aggregated'
  <2>1. metrics_queue' = Append(q, s) /\ arrived' = Append(arrived, s) /\ metrics' = metrics
    BY <1>3 DEF RecordMetrics, agg_vars
  <2>2. Len(arrived') = Len(arrived) + 1 /\ Len(metrics_queue') = Len(q) + 1 /\ arrived' \in Seq(Stats)
        /\ (\A i \in 1 .. Len(arrived) : arrived'[i] = arrived[i]) /\ arrived'[Len(arrived) + 1] = s
        /\ (\A i \in 1 .. Len(q) : metrics_queue'[i] = q[i]) /\ metrics_queue'[Len(q) + 1] = s
    BY <1>1, <2>1, AppendFacts
  <2>3. Taken' = k
    BY <1>1, <2>2 DEF Taken
  <2>4. First' = First
    <3>1. First' = SubSeq(arrived', 1, k)
      BY <2>3 DEF First
    <3>2. First' \in Seq(Stats) /\ Len(First') = k /\ \A i \in 1 .. k : First'[i] = arrived'[i]
      BY <1>1, <2>2, <3>1, FirstFacts
    <3>3. \A i \in 1 .. k : First'[i] = First[i]
      <4>1. \A i \in 1 .. k : i \in 1 .. Len(arrived)
        BY <1>1
      <4> QED BY <1>2, <2>2, <3>2, <4>1
    <3> QED BY <1>2, <3>2, <3>3, SeqEqual
  <2>5. ASSUME NEW i \in 1 .. Len(metrics_queue') PROVE metrics_queue'[i] = arrived'[k + i]
    <3>1. CASE i \in 1 .. Len(q)
      <4>1. k + i \in 1 .. Len(arrived)
        BY <1>1, <3>1
      <4>2. q[i] = arrived[k + i]
        BY <3>1 DEF Aggregated
      <4> QED BY <2>2, <3>1, <4>1, <4>2
    <3>2. CASE i = Len(q) + 1
      <4>1. k + i = Len(arrived) + 1
        <5>1. \A c, d, a \in Nat : c + d = a => c + (d + 1) = a + 1
          OBVIOUS
        <5> QED BY <1>1, <3>2, <5>1
      <4> QED BY <2>2, <3>2, <4>1
    <3> QED BY <1>1, <2>2, <3>1, <3>2
  <2> QED BY <1>1, <2>1, <2>3, <2>4, <2>5 DEF Aggregated
<1>4. CASE MetricsRecv
  <2>1. q # <<>> /\ metrics_queue' = Tail(q) /\ arrived' = arrived /\ metrics' = record_request(metrics, Head(q))
    BY <1>4 DEF MetricsRecv, Aggregate
  <2>2. Len(q) >= 1 /\ Len(metrics_queue') = Len(q) - 1 /\ Head(q) = q[1] /\ Head(q) \in Stats
        /\ \A i \in 1 .. Len(metrics_queue') : metrics_queue'[i] = q[i + 1]
    BY <1>1, <2>1
  <2>3. Taken' = k + 1 /\ k + 1 <= Len(arrived) /\ k + 1 \in Nat
    BY <1>1, <2>1, <2>2 DEF Taken
  <2>4. q[1] = arrived[k + 1]
    BY <1>1, <2>2 DEF Aggregated
  <2>5. First' = Append(First, Head(q))
    <3>1. First' = SubSeq(arrived, 1, k + 1)
      BY <2>1, <2>3 DEF First
    <3>2. First' \in Seq(Stats) /\ Len(First') = k + 1 /\ \A i \in 1 .. (k + 1) : First'[i] = arrived[i]
      BY <1>1, <2>3, <3>1, FirstFacts
    <3>3. Append(First, Head(q)) \in Seq(Stats) /\ Len(Append(First, Head(q))) = k + 1
          /\ (\A i \in 1 .. k : Append(First, Head(q))[i] = First[i]) /\ Append(First, Head(q))[k + 1] = Head(q)
      BY <1>2, <2>2, AppendFacts
    <3>4. \A i \in 1 .. (k + 1) : i \in 1 .. k \/ i = k + 1
      BY <1>1
    <3>5. \A i \in 1 .. (k + 1) : First'[i] = Append(First, Head(q))[i]
      BY <1>2, <2>2, <2>4, <3>2, <3>3, <3>4
    <3> QED BY <3>2, <3>3, <3>5, SeqEqual
  <2>6. Tells(metrics', First')
    BY <1>2, <2>1, <2>2, <2>5, TellsMore DEF Aggregated
  <2>7. ASSUME NEW i \in 1 .. Len(metrics_queue') PROVE metrics_queue'[i] = arrived'[(k + 1) + i]
    <3>1. i + 1 \in 1 .. Len(q) /\ (k + 1) + i = k + (i + 1)
      BY <1>1, <2>2
    <3> QED BY <2>1, <2>2, <3>1 DEF Aggregated
  <2> QED BY <2>3, <2>6, <2>7 DEF Aggregated
<1>5. ASSUME NEW e \in Emitters, RecordPoolRejected(e) PROVE Aggregated'
  <2>1. UNCHANGED <<metrics_queue, arrived>> /\ metrics' = [metrics EXCEPT !.rejected = @ + 1]
    BY <1>5 DEF RecordPoolRejected, channel_vars
  <2>2. Tells(metrics', First)
    <3>1. /\ DOMAIN metrics' = DOMAIN metrics /\ metrics'.total = metrics.total
          /\ metrics'.bytes = metrics.bytes /\ metrics'.duration = metrics.duration
          /\ metrics'.last = metrics.last /\ metrics'.largest = metrics.largest
          /\ metrics'.per_backend = metrics.per_backend
      BY <2>1 DEF Aggregated, Tells
    <3> QED BY <3>1, Zenon DEF Aggregated, Tells
  <2> QED BY <2>1, <2>2 DEF Aggregated, First, Taken
<1>6. CASE UNCHANGED <<metrics_queue, arrived, metrics>>
  BY <1>6 DEF Aggregated, First, Taken
<1>7. ASSUME NEW e \in Emitters, EmitLog(e) \/ CountDrop(e) \/ SendNotice(e)
      PROVE  UNCHANGED <<metrics_queue, arrived, metrics>>
  BY <1>7 DEF EmitLog, CountDrop, SendNotice, channel_vars, agg_vars
<1>8. CASE OtherSender \/ MetricsLog \/ MetricsSnapshot \/ LogWrite \/ UNCHANGED vars
  <2>1. UNCHANGED <<metrics_queue, arrived, metrics>>
    BY <1>8 DEF OtherSender, MetricsLog, MetricsSnapshot, MetricsSend, LogWrite, vars, channel_vars, agg_vars
  <2> QED BY <1>6, <2>1
<1> QED BY <1>3, <1>4, <1>5, <1>6, <1>7, <1>8 DEF Next, Aggregator

\* The largest length is the maximum of all.
LEMMA MaxIs ==
    ASSUME NEW S, NEW x \in S, S \subseteq Nat, \A y \in S : y <= x
    PROVE  Max(S) = x
<1>1. \A y \in S : x >= y
  OBVIOUS
<1>2. Max(S) \in S /\ \A y \in S : Max(S) >= y
  BY <1>1, Zenon DEF Max
<1>3. Max(S) \in Nat /\ x \in Nat /\ Max(S) >= x /\ x >= Max(S)
  BY <1>1, <1>2
<1> QED BY <1>3

LEMMA AggregatedShows == ASSUME Types, Aggregated PROVE SnapshotIsAPrefix
<1> DEFINE k == Taken
           snap == metrics_snapshot.shown
<1>1. arrived \in Seq(Stats) /\ k \in Nat /\ k <= Len(arrived)
  BY DEF Types, Aggregated, Taken
<1>2. First \in Seq(Stats) /\ Len(First) = k
  BY <1>1, FirstFacts DEF First
<1>3. /\ snap.total = metrics.total /\ snap.bytes = metrics.bytes /\ snap.last = metrics.last
      /\ snap.avg = Average(metrics) /\ snap.per_backend = metrics.per_backend
      /\ format_report(metrics).largest = metrics.largest
  BY DEF metrics_snapshot, snapshot, format_report
<1>4. /\ Durations(First) = [i \in 1 .. k |-> First[i].duration]
      /\ Bytes(First) = [i \in 1 .. k |-> First[i].request_len + First[i].response_len]
  BY <1>2 DEF Durations, Bytes
<1>5. /\ \A b : Sent(First, b) = {i \in 1 .. k : First[i].backend = b}
      /\ \A b : Failed(First, b) = {i \in {j \in 1 .. k : First[j].backend = b} : First[i].error}
  BY <1>2 DEF Sent, Failed
<1> HIDE DEF k, snap
<1>6. /\ snap.total = k /\ snap.bytes = Total(Bytes(First))
      /\ snap.last = IF k = 0 THEN 0 ELSE First[k].duration
      /\ DOMAIN snap.per_backend = {First[i].backend : i \in 1 .. k}
      /\ \A b \in DOMAIN snap.per_backend :
            snap.per_backend[b] = [requests |-> Cardinality(Sent(First, b)),
                                   errors |-> Cardinality(Failed(First, b))]
  <2>1. Tells(metrics, First)
    BY DEF Aggregated
  <2>2. /\ metrics.total = k /\ metrics.bytes = Total(Bytes(First))
        /\ metrics.last = IF k = 0 THEN 0 ELSE First[k].duration
    BY <1>2, <2>1 DEF Tells
  <2>3. DOMAIN metrics.per_backend = {First[i].backend : i \in 1 .. k}
    BY <1>2, <2>1, Zenon DEF Tells
  <2>4. \A b \in DOMAIN metrics.per_backend :
            metrics.per_backend[b] = [requests |-> Cardinality(Sent(First, b)),
                                      errors |-> Cardinality(Failed(First, b))]
    BY <2>1, Zenon DEF Tells
  <2>5. snap.per_backend = metrics.per_backend
    BY <1>3
  <2>6. /\ DOMAIN snap.per_backend = {First[i].backend : i \in 1 .. k}
        /\ \A b \in DOMAIN snap.per_backend :
            snap.per_backend[b] = [requests |-> Cardinality(Sent(First, b)),
                                   errors |-> Cardinality(Failed(First, b))]
    BY <2>3, <2>4, <2>5, Zenon
  <2>7. snap.total = k /\ snap.bytes = Total(Bytes(First))
        /\ snap.last = IF k = 0 THEN 0 ELSE First[k].duration
    BY <1>3, <2>2
  <2> QED BY <2>6, <2>7, Zenon
<1>7. k <= U32Max => snap.avg = IF k = 0 THEN 0 ELSE Total(Durations(First)) \div k
  <2>1. metrics.total = k /\ metrics.duration = Total(Durations(First))
    BY <1>2 DEF Aggregated, Tells
  <2> QED BY <1>1, <1>3, <2>1 DEF Average
<1>8. format_report(metrics).largest = Max({0} \cup {First[i].request_len : i \in 1 .. k})
  <2> DEFINE S == {0} \cup {First[i].request_len : i \in 1 .. k}
  <2>1. metrics.largest \in S /\ \A i \in 1 .. k : First[i].request_len <= metrics.largest
    BY <1>2 DEF Aggregated, Tells
  <2>2. S \subseteq Nat
    BY <1>2, ObservabilityAssumption
  <2>3. \A y \in S : y <= metrics.largest
    BY <2>1, <2>2
  <2> HIDE DEF S
  <2>4. Max(S) = metrics.largest
    BY <2>1, <2>2, <2>3, MaxIs
  <2> QED BY <1>3, <2>4 DEF S
<1>9. SnapshotIsAPrefix <=>
        /\ snap.total = k
        /\ snap.bytes = Total([i \in 1 .. k |-> First[i].request_len + First[i].response_len])
        /\ snap.last = IF k = 0 THEN 0 ELSE First[k].duration
        /\ k <= U32Max =>
              snap.avg = IF k = 0 THEN 0 ELSE Total([i \in 1 .. k |-> First[i].duration]) \div k
        /\ format_report(metrics).largest = Max({0} \cup {First[i].request_len : i \in 1 .. k})
        /\ DOMAIN snap.per_backend = {First[i].backend : i \in 1 .. k}
        /\ \A b \in DOMAIN snap.per_backend :
              snap.per_backend[b] =
                 [requests |-> Cardinality({i \in 1 .. k : First[i].backend = b}),
                  errors |-> Cardinality({i \in {j \in 1 .. k : First[j].backend = b} : First[i].error})]
  BY Zenon DEF SnapshotIsAPrefix, snap, First, Taken, k
<1>10. snap.bytes = Total([i \in 1 .. k |-> First[i].request_len + First[i].response_len])
  BY <1>4, <1>6
<1>11. k <= U32Max =>
          snap.avg = IF k = 0 THEN 0 ELSE Total([i \in 1 .. k |-> First[i].duration]) \div k
  BY <1>4, <1>7
<1>12. ASSUME NEW b \in DOMAIN snap.per_backend
       PROVE  snap.per_backend[b] =
                 [requests |-> Cardinality({i \in 1 .. k : First[i].backend = b}),
                  errors |-> Cardinality({i \in {j \in 1 .. k : First[j].backend = b} : First[i].error})]
  <2>1. snap.per_backend[b] = [requests |-> Cardinality(Sent(First, b)), errors |-> Cardinality(Failed(First, b))]
    BY <1>6, Zenon
  <2>2. Sent(First, b) = {i \in 1 .. k : First[i].backend = b}
        /\ Failed(First, b) = {i \in {j \in 1 .. k : First[j].backend = b} : First[i].error}
    BY <1>5
  <2> QED BY <2>1, <2>2, Zenon
<1>13. snap.total = k /\ DOMAIN snap.per_backend = {First[i].backend : i \in 1 .. k}
       /\ snap.last = IF k = 0 THEN 0 ELSE First[k].duration
  BY <1>6, Zenon
<1> QED BY <1>8, <1>9, <1>10, <1>11, <1>12, <1>13, Zenon

\* SnapshotIsAPrefix for every instance: whatever the workers record while a
\* snapshot is taken, its fields are the count, the sums, the maximum and the
\* counts per backend of one prefix of the requests, all of the same one, and
\* the average that of its durations as long as a u32 holds their number.
THEOREM SnapshotsTellOfAPrefix == Spec => []SnapshotIsAPrefix
<1>1. Init => Aggregated
  <2> SUFFICES ASSUME Init PROVE Aggregated
    OBVIOUS
  <2>1. Taken = 0 /\ Len(metrics_queue) = 0 /\ arrived = <<>> /\ metrics = EmptyMetrics
    BY DEF Init, Taken
  <2>2. First = <<>>
    BY <2>1 DEF First
  <2>3. Total(Durations(<<>>)) = 0 /\ Total(Bytes(<<>>)) = 0
    <3>1. Len(Durations(<<>>)) = 0 /\ Len(Bytes(<<>>)) = 0
      BY DEF Durations, Bytes
    <3> QED BY <3>1, TotalNone
  <2>4. Tells(EmptyMetrics, <<>>)
    BY <2>3 DEF Tells, EmptyMetrics
  <2> QED BY <2>1, <2>2, <2>4 DEF Aggregated
<1>2. Types /\ Types' /\ Aggregated /\ [Next]_vars => Aggregated'
  BY AggregatedStep
<1>3. Types /\ Aggregated => SnapshotIsAPrefix
  BY AggregatedShows
<1> QED BY <1>1, <1>2, <1>3, TypesInvariant, PTL DEF Spec

=============================================================================
