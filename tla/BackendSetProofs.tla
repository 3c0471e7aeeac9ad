-------------------------- MODULE BackendSetProofs --------------------------
(***************************************************************************)
(* Theorems about BackendSet, for any number of backends, workers and any  *)
(* thresholds.                                                             *)
(***************************************************************************)
EXTENDS BackendSet, WellFoundedInduction, TLAPS

\* Abbreviations of one expression each.
USE DEF NextTicket, IsUp, Recovers, Fails, Stored, JoinReturns

\* A set of naturals that is not empty has a smallest element.
LEMMA LeastElement ==
    ASSUME NEW T, T \subseteq Nat, T # {}
    PROVE  \E x \in T : \A y \in T : x <= y
<1>1. PICK x \in T : \A y \in T : ~ (<<y, x>> \in OpToRel(<, Nat))
  BY WFMin, NatLessThanWellFounded, Zenon
<1>2. ASSUME NEW y \in T PROVE x <= y
  <2>1. x \in Nat /\ y \in Nat
    OBVIOUS
  <2>2. <<y, x>> \notin OpToRel(<, Nat)
    BY <1>1
  <2>3. ~ (y < x)
    BY <2>1, <2>2 DEF OpToRel
  <2> QED BY <2>1, <2>3
<1> QED BY <1>2

\* The entry BackendSet::entry_for finds for a configured address.
LEMMA EntryForExists ==
    ASSUME NEW e \in Entries
    PROVE  /\ EntryFor(AddrOf[e]) \in Entries
           /\ AddrOf[EntryFor(AddrOf[e])] = AddrOf[e]
<1> DEFINE T == {f \in Entries : AddrOf[f] = AddrOf[e]}
<1>1. T \subseteq Nat /\ T # {}
  BY ConfigAssumption DEF Entries
<1>2. PICK x \in T : \A y \in T : x <= y
  BY <1>1, LeastElement
<1>3. x \in Entries /\ AddrOf[x] = AddrOf[e] /\ \A f \in Entries : AddrOf[f] = AddrOf[e] => x <= f
  BY <1>2
<1> QED BY <1>3 DEF EntryFor

\* The index the scan computes is always in bounds.
LEMMA IndexInBounds ==
    ASSUME NEW s \in Nat, NEW o \in Nat
    PROVE  IndexAt(s, o) \in Entries
<1>1. (s + o) % UsizeMod \in Nat
  BY ConfigAssumption
<1>2. ASSUME NEW k \in Nat PROVE k % N \in Entries
  BY ConfigAssumption DEF Entries
<1> QED BY <1>1, <1>2 DEF IndexAt

LEMMA ModOfMultiple ==
    ASSUME NEW q \in Nat, NEW m \in Nat \ {0}, NEW r \in 0 .. (m - 1)
    PROVE  (q * m + r) % m = r
  OBVIOUS

\* A scan whose sums do not wrap looks at every entry.
LEMMA ScanCoversAll ==
    ASSUME NEW s \in Nat, s + N <= UsizeMod, NEW e \in Entries
    PROVE  \E o \in Entries : IndexAt(s, o) = e
<1> DEFINE q == s \div N
           r == s % N
           o == IF r <= e THEN e - r ELSE (N - r) + e
<1>1. q \in Nat /\ r \in 0 .. (N - 1) /\ s = q * N + r
  BY ConfigAssumption
<1>2. o \in Entries
  BY <1>1, ConfigAssumption DEF Entries
<1>3. \E k \in Nat : s + o = k * N + e
  <2>1. CASE r <= e
    <3>1. s + o = q * N + e
      BY <1>1, <2>1, ConfigAssumption DEF Entries
    <3> QED BY <1>1, <3>1
  <2>2. CASE ~(r <= e)
    <3>1. s + o = q * N + N + e
      BY <1>1, <2>2, ConfigAssumption DEF Entries
    <3>2. q * N + N = (q + 1) * N
      BY <1>1, ConfigAssumption
    <3> QED BY <1>1, <3>1, <3>2
  <2> QED BY <2>1, <2>2
<1>4. (s + o) % N = e
  BY <1>3, ModOfMultiple, ConfigAssumption DEF Entries
<1>5. (s + o) % UsizeMod = s + o
  BY <1>2, ConfigAssumption DEF Entries
<1> HIDE DEF o
<1> QED BY <1>2, <1>4, <1>5 DEF IndexAt

-----------------------------------------------------------------------------
(* Type correctness *)

LEMMA TypeInit == Init => TypeOK
<1>1. 0 \in Entries /\ 0 \in 0 .. U32Max /\ 0 \in 0 .. (UsizeMod - 1)
  BY ConfigAssumption DEF Entries
<1>2. Init => /\ healthy \in [Entries -> BOOLEAN]
              /\ reachable \in [Addr -> BOOLEAN]
              /\ all_down_seen \in [Workers -> BOOLEAN]
              /\ was_healthy \in BOOLEAN
              /\ stop \in BOOLEAN
  BY DEF Init
<1>3. Init => /\ failures \in [Entries -> 0 .. U32Max]
              /\ successes \in [Entries -> 0 .. U32Max]
              /\ next_index \in 0 .. (UsizeMod - 1)
              /\ start \in [Workers -> 0 .. (UsizeMod - 1)]
              /\ offset \in [Workers -> Entries]
              /\ pos \in Entries
  BY <1>1 DEF Init
<1> QED BY <1>2, <1>3 DEF Init, TypeOK

LEMMA TypeSelect ==
    ASSUME TypeOK, NEW w \in Workers, SelectNext(w)
    PROVE  TypeOK'
<1> USE DEF TypeOK, entry_vars, health_vars, owner_vars, seen_vars
<1>1. CASE SelectStart(w)
  <2>1. next_index' \in 0 .. (UsizeMod - 1)
    BY <1>1, ConfigAssumption DEF SelectStart
  <2>2. 0 \in Entries
    BY ConfigAssumption DEF Entries
  <2> QED BY <1>1, <2>1, <2>2 DEF SelectStart, Up, Down
<1>2. CASE SelectFound(w)
  <2>1. start[w] \in Nat /\ offset[w] \in Nat
    BY ConfigAssumption DEF Entries
  <2>2. AddrOf[IndexAt(start[w], offset[w])] \in Addr
    BY <2>1, IndexInBounds, ConfigAssumption
  <2> QED BY <1>2, <2>2 DEF SelectFound
<1>3. CASE SelectSkip(w)
  <2>1. offset[w] \in Entries /\ offset[w] + 1 < N
    BY <1>3 DEF SelectSkip
  <2>2. offset[w] + 1 \in Entries
    BY <2>1, ConfigAssumption, SMTT(30) DEF Entries
  <2>3. offset' \in [Workers -> Entries]
    BY <1>3, <2>2 DEF SelectSkip
  <2> QED BY <1>3, <2>3 DEF SelectSkip
<1>4. CASE SelectNone(w)
  BY <1>4 DEF SelectNone
<1> QED BY <1>1, <1>2, <1>3, <1>4 DEF SelectNext

\* Recording a probe keeps the types of the entry it touches.
LEMMA TypeRecord ==
    ASSUME TypeOK, NEW e \in Entries,
           record_probe_success(e) \/ record_probe_failure(e)
    PROVE  /\ healthy' \in [Entries -> BOOLEAN]
           /\ failures' \in [Entries -> 0 .. U32Max]
           /\ successes' \in [Entries -> 0 .. U32Max]
<1>1. \A n \in 0 .. U32Max : SaturatingIncr(n) \in 0 .. U32Max
  BY ConfigAssumption DEF SaturatingIncr
<1>2. 0 \in 0 .. U32Max
  BY ConfigAssumption
<1>3. /\ SaturatingIncr(successes[e]) \in 0 .. U32Max
      /\ SaturatingIncr(failures[e]) \in 0 .. U32Max
  BY <1>1 DEF TypeOK
<1>4. failures' \in [Entries -> 0 .. U32Max]
  BY <1>2, <1>3 DEF TypeOK, record_probe_success, record_probe_failure
<1>5. successes' \in [Entries -> 0 .. U32Max]
  BY <1>2, <1>3 DEF TypeOK, record_probe_success, record_probe_failure
<1>6. healthy' \in {healthy, [healthy EXCEPT ![e] = TRUE], [healthy EXCEPT ![e] = FALSE]}
  BY Zenon DEF record_probe_success, record_probe_failure
<1>7. healthy' \in [Entries -> BOOLEAN]
  BY <1>6 DEF TypeOK
<1> QED BY <1>4, <1>5, <1>7

LEMMA TypeProbe ==
    ASSUME TypeOK, HealthProbe
    PROVE  TypeOK'
<1> DEFINE a == AddrOf[pos]
<1>0. EntryFor(a) \in Entries /\ a \in Addr
  BY EntryForExists, ConfigAssumption DEF TypeOK
<1>1. record_probe_success(EntryFor(a)) \/ record_probe_failure(EntryFor(a))
  BY DEF HealthProbe
<1>2. /\ healthy' \in [Entries -> BOOLEAN]
      /\ failures' \in [Entries -> 0 .. U32Max]
      /\ successes' \in [Entries -> 0 .. U32Max]
  BY <1>0, <1>1, TypeRecord
<1>3. event' \in [Addr -> {None, "backend_recovered", "backend_unhealthy"}]
  <2>1. HealthEvent(a, reachable[a]) \in {None, "backend_recovered", "backend_unhealthy"}
    BY <1>0 DEF TypeOK, HealthEvent
  <2> QED BY <2>1, <1>0 DEF TypeOK, HealthProbe
<1>4. /\ hpc' \in {"top", "check", "connect", "sleep", "exited"}
      /\ pos' \in Entries
  BY ConfigAssumption DEF TypeOK, HealthProbe, Entries
<1>5. /\ up_seen' \in [Workers -> SUBSET Entries]
      /\ down_seen' \in [Workers -> SUBSET Entries]
      /\ all_down_seen' \in [Workers -> BOOLEAN]
  BY DEF TypeOK, HealthProbe, NoteFlags, Up, Down
<1> QED
  BY <1>2, <1>3, <1>4, <1>5 DEF TypeOK, HealthProbe, select_vars, owner_vars

LEMMA TypeStep ==
    ASSUME TypeOK, [Next]_vars
    PROVE  TypeOK'
<1> USE DEF TypeOK, entry_vars, select_vars, health_vars, owner_vars, seen_vars
<1>1. ASSUME NEW w \in Workers, SelectNext(w) PROVE TypeOK'
  BY <1>1, TypeSelect
<1>2. CASE HealthTop
  <2>1. 0 \in Entries
    BY ConfigAssumption DEF Entries
  <2> QED BY <1>2, <2>1 DEF HealthTop
<1>3. CASE HealthCheck
  <2>1. is_healthy(AddrOf[pos]) \in BOOLEAN
    BY EntryForExists DEF is_healthy
  <2> QED BY <1>3, <2>1 DEF HealthCheck
<1>4. CASE HealthProbe
  BY <1>4, TypeProbe
<1>5. CASE HealthSleep
  BY <1>5 DEF HealthSleep
<1>6. CASE StopSignal
  BY <1>6 DEF StopSignal
<1>7. CASE StopJoin
  BY <1>7 DEF StopJoin
<1>8. ASSUME NEW a \in Addr, BackendChanges(a) PROVE TypeOK'
  BY <1>8 DEF BackendChanges
<1>9. CASE UNCHANGED vars
  BY <1>9 DEF vars
<1> QED
  BY <1>1, <1>2, <1>3, <1>4, <1>5, <1>6, <1>7, <1>8, <1>9 DEF Next, HealthStep

\* Every variable of the backend registry, its callers and the health thread
\* keeps its type.
THEOREM TypeCorrect == Spec => []TypeOK
<1>1. TypeOK /\ [Next]_vars => TypeOK'
  BY TypeStep
<1> QED BY TypeInit, <1>1, PTL DEF Spec

-----------------------------------------------------------------------------
(* The probe counters and the flag *)

\* One probe keeps the streaks and the flag of its entry in agreement.
LEMMA StreaksProbe ==
    ASSUME TypeOK, FlagAgreesWithStreaks, NEW e \in Entries,
           record_probe_success(e) \/ record_probe_failure(e)
    PROVE  FlagAgreesWithStreaks'
<1>1. /\ failures \in [Entries -> 0 .. U32Max]
      /\ successes \in [Entries -> 0 .. U32Max]
      /\ healthy \in [Entries -> BOOLEAN]
  BY DEF TypeOK
<1>2. ASSUME NEW f \in Entries, f # e
      PROVE  failures'[f] = failures[f] /\ successes'[f] = successes[f] /\ healthy'[f] = healthy[f]
  BY <1>1, <1>2 DEF record_probe_success, record_probe_failure
<1>3. CASE record_probe_success(e)
  <2>1. failures'[e] = 0 /\ successes'[e] = SaturatingIncr(successes[e])
    BY <1>1, <1>3 DEF record_probe_success
  <2>2. ~healthy'[e] => ~(successes'[e] >= RecoveryThreshold)
    BY <1>1, <1>3 DEF record_probe_success
  <2>3. successes'[e] \in Nat
    BY <1>1, <2>1, ConfigAssumption DEF SaturatingIncr
  <2>4. ~healthy'[e] => successes'[e] < RecoveryThreshold
    BY <2>2, <2>3, ConfigAssumption
  <2>5. failures'[e] < FailureThreshold
    BY <2>1, ConfigAssumption
  <2> QED BY <1>2, <2>1, <2>4, <2>5 DEF FlagAgreesWithStreaks
<1>4. CASE record_probe_failure(e)
  <2>1. successes'[e] = 0 /\ failures'[e] = SaturatingIncr(failures[e])
    BY <1>1, <1>4 DEF record_probe_failure
  <2>2. healthy'[e] => ~(failures'[e] >= FailureThreshold)
    BY <1>1, <1>4 DEF record_probe_failure
  <2>3. failures'[e] \in Nat
    BY <1>1, <2>1, ConfigAssumption DEF SaturatingIncr
  <2>4. healthy'[e] => failures'[e] < FailureThreshold
    BY <2>2, <2>3, ConfigAssumption
  <2>5. successes'[e] < RecoveryThreshold
    BY <2>1, ConfigAssumption
  <2> QED BY <1>2, <2>1, <2>4, <2>5 DEF FlagAgreesWithStreaks
<1> QED BY <1>3, <1>4

\* Whatever is not a probe leaves the entries alone.
LEMMA OnlyProbesWrite ==
    ASSUME [Next]_vars, ~HealthProbe
    PROVE  UNCHANGED <<entry_vars, event>>
<1> USE DEF entry_vars, health_vars
<1>1. ASSUME NEW w \in Workers, SelectNext(w) PROVE UNCHANGED <<entry_vars, event>>
  BY <1>1 DEF SelectNext, SelectStart, SelectFound, SelectSkip, SelectNone
<1>2. CASE HealthTop \/ HealthCheck \/ HealthSleep
  BY <1>2 DEF HealthTop, HealthCheck, HealthSleep
<1>3. CASE StopSignal \/ StopJoin
  BY <1>3 DEF StopSignal, StopJoin
<1>4. ASSUME NEW a \in Addr, BackendChanges(a) PROVE UNCHANGED <<entry_vars, event>>
  BY <1>4 DEF BackendChanges
<1>5. CASE UNCHANGED vars
  BY <1>5 DEF vars
<1> QED BY <1>1, <1>2, <1>3, <1>4, <1>5 DEF Next, HealthStep

\* A probe records its outcome in the entry found for the probed address.
LEMMA ProbeRecords ==
    ASSUME TypeOK, HealthProbe
    PROVE  /\ EntryFor(AddrOf[pos]) \in Entries
           /\ \/ record_probe_success(EntryFor(AddrOf[pos]))
              \/ record_probe_failure(EntryFor(AddrOf[pos]))
<1>1. EntryFor(AddrOf[pos]) \in Entries
  BY EntryForExists DEF TypeOK
<1> QED BY <1>1 DEF HealthProbe

\* The probe counters and the `healthy` flag of every entry agree for any
\* thresholds and any saturation bound (record_probe_success and _failure).
THEOREM StreaksAgree == Spec => []FlagAgreesWithStreaks
<1>1. Init => FlagAgreesWithStreaks
  BY ConfigAssumption DEF Init, FlagAgreesWithStreaks
<1>2. ASSUME TypeOK, FlagAgreesWithStreaks, [Next]_vars
      PROVE  FlagAgreesWithStreaks'
  <2>1. CASE HealthProbe
    BY <1>2, <2>1, ProbeRecords, StreaksProbe
  <2>2. CASE ~HealthProbe
    BY <1>2, <2>2, OnlyProbesWrite DEF FlagAgreesWithStreaks, entry_vars
  <2> QED BY <2>1, <2>2
<1> QED BY <1>1, <1>2, TypeCorrect, PTL DEF Spec

-----------------------------------------------------------------------------
(* Stopping the monitor *)

\* HealthMonitor::stop has returned only if the thread is gone.
JoinedMeansExited == monitor = "joined" => hpc = "exited"

\* After HealthMonitor::stop has returned, no entry changes and no health
\* event is logged, whatever the workers and the backends do.
THEOREM StoppedIsQuiet == Spec => QuietAfterStop
<1> USE DEF JoinedMeansExited
<1>1. Init => JoinedMeansExited
  BY DEF Init
<1>2. ASSUME JoinedMeansExited, [Next]_vars
      PROVE  JoinedMeansExited'
  <2> USE <1>2 DEF owner_vars, health_vars
  <2>1. ASSUME NEW w \in Workers, SelectNext(w) PROVE JoinedMeansExited'
    BY <2>1 DEF SelectNext, SelectStart, SelectFound, SelectSkip, SelectNone
  <2>2. CASE HealthStep
    BY <2>2 DEF HealthStep, HealthTop, HealthCheck, HealthProbe, HealthSleep
  <2>3. CASE StopSignal \/ StopJoin
    BY <2>3 DEF StopSignal, StopJoin
  <2>4. ASSUME NEW a \in Addr, BackendChanges(a) PROVE JoinedMeansExited'
    BY <2>4 DEF BackendChanges
  <2>5. CASE UNCHANGED vars
    BY <2>5 DEF vars
  <2> QED BY <2>1, <2>2, <2>3, <2>4, <2>5 DEF Next
<1>3. ASSUME JoinedMeansExited, [Next]_vars
      PROVE  [monitor = "joined" => UNCHANGED <<entry_vars, event>>]_vars
  BY <1>3, OnlyProbesWrite DEF HealthProbe
<1> QED BY <1>1, <1>2, <1>3, PTL DEF Spec, QuietAfterStop

-----------------------------------------------------------------------------
(* The scan of select_next *)

\* What holds of a scan in progress: the history knows the current flags, and
\* every entry passed over was seen unhealthy.
ScanInv ==
    \A w \in Workers : pc[w] = "scan" =>
        /\ start[w] < MaxCalls
        /\ result[w] = None
        /\ Up \subseteq up_seen[w]
        /\ Down \subseteq down_seen[w]
        /\ \A o \in Entries : o < offset[w] => IndexAt(start[w], o) \in down_seen[w]

\* The entry the scan of w looks at.
LEMMA LooksAtEntry ==
    ASSUME TypeOK, NEW w \in Workers
    PROVE  /\ start[w] \in Nat
           /\ offset[w] \in Entries
           /\ IndexAt(start[w], offset[w]) \in Entries
<1>1. start[w] \in Nat /\ offset[w] \in Nat /\ offset[w] \in Entries
  BY ConfigAssumption DEF TypeOK, Entries
<1> QED BY <1>1, IndexInBounds

\* Steps of one call keep the scans of every worker in order.
LEMMA ScanSelect ==
    ASSUME TypeOK, ScanInv, NEW w \in Workers, SelectNext(w)
    PROVE  ScanInv'
<1>1. healthy' = healthy
  BY DEF SelectNext, SelectStart, SelectFound, SelectSkip, SelectNone, entry_vars
<1>2. Up' = Up /\ Down' = Down
  BY <1>1 DEF Up, Down
<1>3. ASSUME NEW v \in Workers, v # w
      PROVE  /\ pc'[v] = pc[v] /\ start'[v] = start[v] /\ result'[v] = result[v]
             /\ offset'[v] = offset[v]
             /\ up_seen'[v] = up_seen[v] /\ down_seen'[v] = down_seen[v]
  BY <1>3 DEF TypeOK, SelectNext, SelectStart, SelectFound, SelectSkip, SelectNone, seen_vars
<1>4. ASSUME pc'[w] = "scan"
      PROVE  /\ start'[w] < MaxCalls
             /\ result'[w] = None
             /\ Up \subseteq up_seen'[w]
             /\ Down \subseteq down_seen'[w]
             /\ \A o \in Entries : o < offset'[w] => IndexAt(start'[w], o) \in down_seen'[w]
  <2>1. CASE SelectStart(w)
    <3>1. offset'[w] = 0
      BY <2>1 DEF SelectStart, TypeOK
    <3>2. \A o \in Entries : ~(o < offset'[w])
      BY <3>1, ConfigAssumption DEF Entries
    <3> QED BY <2>1, <3>2 DEF SelectStart, TypeOK
  <2>2. CASE SelectSkip(w)
    <3>1. /\ pc[w] = "scan" /\ offset'[w] = offset[w] + 1
          /\ start' = start /\ result' = result
          /\ up_seen' = up_seen /\ down_seen' = down_seen
      BY <2>2 DEF SelectSkip, TypeOK, seen_vars
    <3>2. IndexAt(start[w], offset[w]) \in Down
      BY <2>2, LooksAtEntry DEF SelectSkip, Down, Up
    <3>3. ASSUME NEW o \in Entries, o < offset[w] + 1
          PROVE  o < offset[w] \/ o = offset[w]
      BY <3>3, LooksAtEntry, ConfigAssumption DEF Entries
    <3> QED BY <3>1, <3>2, <3>3 DEF ScanInv
  <2>3. CASE SelectFound(w) \/ SelectNone(w)
    BY <1>4, <2>3 DEF SelectFound, SelectNone, TypeOK
  <2> QED BY <2>1, <2>2, <2>3 DEF SelectNext
<1> HIDE DEF Up, Down
<1>5. ASSUME NEW v \in Workers, pc'[v] = "scan"
      PROVE  /\ start'[v] < MaxCalls
             /\ result'[v] = None
             /\ Up' \subseteq up_seen'[v]
             /\ Down' \subseteq down_seen'[v]
             /\ \A o \in Entries : o < offset'[v] => IndexAt(start'[v], o) \in down_seen'[v]
  <2>1. CASE v = w
    BY <1>2, <1>4, <1>5, <2>1
  <2>2. CASE v # w
    BY <1>2, <1>3, <1>5, <2>2 DEF ScanInv
  <2> QED BY <2>1, <2>2
<1> QED BY <1>5 DEF ScanInv

\* A probe that flips a flag is noted by every scan in progress.
LEMMA ScanProbe ==
    ASSUME TypeOK, ScanInv, HealthProbe
    PROVE  ScanInv'
<1>1. UNCHANGED select_vars /\ NoteFlags
  BY DEF HealthProbe
<1>2. ASSUME NEW w \in Workers, pc[w] = "scan"
      PROVE  up_seen'[w] = up_seen[w] \cup Up' /\ down_seen'[w] = down_seen[w] \cup Down'
  BY <1>1, <1>2 DEF NoteFlags
<1> QED BY <1>1, <1>2 DEF ScanInv, select_vars

\* No other step concerns the scans.
LEMMA ScanOther ==
    ASSUME ScanInv, [Next]_vars, ~HealthProbe,
           ~ \E w \in Workers : SelectNext(w)
    PROVE  /\ ScanInv'
           /\ UNCHANGED <<select_vars, up_seen, down_seen>>
<1>1. UNCHANGED <<select_vars, seen_vars, entry_vars>>
  BY DEF Next, HealthStep, HealthTop, HealthCheck, HealthSleep, StopSignal,
         StopJoin, BackendChanges, vars
<1>2. /\ healthy' = healthy /\ pc' = pc /\ start' = start /\ offset' = offset
      /\ result' = result /\ up_seen' = up_seen /\ down_seen' = down_seen
  BY <1>1 DEF select_vars, seen_vars, entry_vars
<1> QED BY <1>1, <1>2 DEF ScanInv, Up, Down, seen_vars

LEMMA ScanStep ==
    ASSUME TypeOK, ScanInv, [Next]_vars
    PROVE  ScanInv'
  BY ScanSelect, ScanProbe, ScanOther

LEMMA ScanCorrect == Spec => []ScanInv
<1>1. Init => ScanInv
  BY DEF Init, ScanInv
<1>2. TypeOK /\ ScanInv /\ [Next]_vars => ScanInv'
  BY ScanStep
<1> QED BY <1>1, <1>2, TypeCorrect, PTL DEF Spec

\* As long as the sums of the scan do not wrap, select_next fails only after
\* every backend was unhealthy at some moment of the call: no interleaving
\* with the health thread makes the scan miss a backend that stayed up.
THEOREM ScanMissesNone ==
    ASSUME MaxCalls + N <= UsizeMod + 1
    PROVE  Spec => []NoHealthyMeansEachWasDown
<1>1. Init => NoHealthyMeansEachWasDown
  BY DEF Init, NoHealthyMeansEachWasDown, None, NoHealthyBackend
<1>2. ASSUME TypeOK, ScanInv, NoHealthyMeansEachWasDown, [Next]_vars
      PROVE  NoHealthyMeansEachWasDown'
  <2> USE <1>2
  <2>1. ASSUME NEW w \in Workers, SelectNext(w), NEW v \in Workers,
               result'[v] = NoHealthyBackend
        PROVE  down_seen'[v] = Entries
    <3>1. CASE v # w
      BY <2>1, <3>1 DEF TypeOK, SelectNext, SelectStart, SelectFound, SelectSkip,
                        SelectNone, seen_vars, NoHealthyMeansEachWasDown
    <3>2. CASE v = w /\ SelectStart(w)
      BY <2>1, <3>2 DEF TypeOK, SelectStart, None, NoHealthyBackend
    <3>3. CASE v = w /\ SelectSkip(w)
      BY <2>1, <3>3 DEF TypeOK, SelectSkip, ScanInv, None, NoHealthyBackend
    <3>4. CASE v = w /\ SelectFound(w)
      <4>1. result'[w] \in Addr
        BY <3>4, LooksAtEntry, ConfigAssumption DEF TypeOK, SelectFound
      <4> QED BY <2>1, <3>4, <4>1, ErrorAssumption
    <3>5. CASE v = w /\ SelectNone(w)
      <4>1. /\ pc[w] = "scan" /\ down_seen' = down_seen /\ offset[w] + 1 = N
            /\ IndexAt(start[w], offset[w]) \in Down
        BY <3>5, LooksAtEntry DEF SelectNone, seen_vars, Down, Up
      <4>2. start[w] \in Nat /\ start[w] + N <= UsizeMod
        BY <4>1, LooksAtEntry, ConfigAssumption DEF ScanInv
      <4>3. ASSUME NEW e \in Entries PROVE e \in down_seen[w]
        <5>1. PICK o \in Entries : IndexAt(start[w], o) = e
          BY <4>2, ScanCoversAll
        <5>2. o < offset[w] \/ o = offset[w]
          BY <4>1, LooksAtEntry, ConfigAssumption DEF Entries
        <5> QED BY <4>1, <5>1, <5>2 DEF ScanInv
      <4>4. down_seen[w] \subseteq Entries
        BY DEF TypeOK
      <4> QED BY <3>5, <4>1, <4>3, <4>4
    <3> QED BY <2>1, <3>1, <3>2, <3>3, <3>4, <3>5 DEF SelectNext
  <2>2. CASE HealthProbe
    <3>1. ASSUME NEW w \in Workers
          PROVE  /\ result'[w] = result[w]
                 /\ down_seen[w] \subseteq down_seen'[w]
                 /\ down_seen'[w] \subseteq Entries
      BY <2>2 DEF HealthProbe, NoteFlags, select_vars, Down, TypeOK
    <3> QED BY <3>1 DEF NoHealthyMeansEachWasDown
  <2>3. CASE ~HealthProbe /\ ~ \E w \in Workers : SelectNext(w)
    BY <2>3, ScanOther DEF NoHealthyMeansEachWasDown, select_vars
  <2> QED BY <2>1, <2>2, <2>3 DEF NoHealthyMeansEachWasDown
<1> QED BY <1>1, <1>2, TypeCorrect, ScanCorrect, PTL DEF Spec

\* With distinct addresses, select_next returns an address only if is_healthy
\* was true of it at some moment of the call.
THEOREM SelectionIsHealthy ==
    ASSUME \A e, f \in Entries : AddrOf[e] = AddrOf[f] => e = f
    PROVE  Spec => []SelectedWasHealthy
<1>1. Init => SelectedWasHealthy
  BY ErrorAssumption DEF Init, SelectedWasHealthy
<1>2. ASSUME TypeOK, ScanInv, SelectedWasHealthy, [Next]_vars
      PROVE  SelectedWasHealthy'
  <2> USE <1>2
  <2>1. ASSUME NEW w \in Workers, SelectNext(w), NEW v \in Workers,
               result'[v] \in Addr
        PROVE  EntryFor(result'[v]) \in up_seen'[v]
    <3>1. CASE v # w
      BY <2>1, <3>1 DEF TypeOK, SelectNext, SelectStart, SelectFound, SelectSkip,
                        SelectNone, seen_vars, SelectedWasHealthy
    <3>2. CASE v = w /\ (SelectStart(w) \/ SelectSkip(w) \/ SelectNone(w))
      <4>1. result'[w] \in {None, NoHealthyBackend}
        BY <3>2 DEF TypeOK, SelectStart, SelectSkip, SelectNone, ScanInv
      <4> QED BY <2>1, <3>2, <4>1, ErrorAssumption
    <3>3. CASE v = w /\ SelectFound(w)
      <4> DEFINE e == IndexAt(start[w], offset[w])
      <4>1. /\ pc[w] = "scan" /\ up_seen' = up_seen
            /\ e \in Up /\ e \in Entries /\ result'[w] = AddrOf[e]
        BY <3>3, LooksAtEntry DEF TypeOK, SelectFound, seen_vars, Up
      <4>2. EntryFor(AddrOf[e]) = e
        BY <4>1, EntryForExists
      <4> QED BY <3>3, <4>1, <4>2 DEF ScanInv
    <3> QED BY <2>1, <3>1, <3>2, <3>3 DEF SelectNext
  <2>2. CASE HealthProbe
    <3>1. ASSUME NEW w \in Workers
          PROVE  result'[w] = result[w] /\ up_seen[w] \subseteq up_seen'[w]
      BY <2>2 DEF HealthProbe, NoteFlags, select_vars, TypeOK
    <3> QED BY <3>1 DEF SelectedWasHealthy
  <2>3. CASE ~HealthProbe /\ ~ \E w \in Workers : SelectNext(w)
    BY <2>3, ScanOther DEF SelectedWasHealthy, select_vars
  <2> QED BY <2>1, <2>2, <2>3 DEF SelectedWasHealthy
<1> QED BY <1>1, <1>2, TypeCorrect, ScanCorrect, PTL DEF Spec

-----------------------------------------------------------------------------
(* Health events *)

\* Nothing changes the flag between the read before a probe and its record.
ProbeReadIsFresh == hpc = "connect" => was_healthy = is_healthy(AddrOf[pos])

EventInv == ProbeReadIsFresh /\ EventsFollowHealth

\* A probe leaves the events of every address in step with its flag.
LEMMA EventProbe ==
    ASSUME TypeOK, EventInv, HealthProbe
    PROVE  EventsFollowHealth'
<1> DEFINE a == AddrOf[pos]
           x == EntryFor(a)
<1>0. pos \in Entries /\ x \in Entries /\ a \in Addr
  BY ProbeRecords, ConfigAssumption DEF TypeOK
<1>1. was_healthy = healthy[x] /\ (event[a] = "backend_unhealthy" <=> ~healthy[x])
  BY <1>0 DEF EventInv, ProbeReadIsFresh, EventsFollowHealth, is_healthy, HealthProbe
<1>2. event' = [event EXCEPT ![a] = HealthEvent(a, reachable[a])]
  BY DEF HealthProbe
<1>3. event'[a] = HealthEvent(a, reachable[a])
  BY <1>0, <1>2 DEF TypeOK
<1>4. /\ reachable[a] => (healthy[x] => healthy'[x])
      /\ ~reachable[a] => (~healthy[x] => ~healthy'[x])
  <2>1. CASE reachable[a]
    BY <1>0, <2>1 DEF HealthProbe, record_probe_success, TypeOK
  <2>2. CASE ~reachable[a]
    BY <1>0, <2>2 DEF HealthProbe, record_probe_failure, TypeOK
  <2> QED BY <2>1, <2>2
<1>5. event'[a] = "backend_unhealthy" <=> ~healthy'[x]
  <2>1. healthy[x] \in BOOLEAN /\ healthy'[x] \in BOOLEAN
    BY <1>0, TypeProbe DEF TypeOK
  <2> HIDE DEF a, x
  <2>2. HealthEvent(a, reachable[a]) =
          CASE reachable[a]  /\ ~healthy[x] /\ healthy'[x]  -> "backend_recovered"
            [] ~reachable[a] /\ healthy[x]  /\ ~healthy'[x] -> "backend_unhealthy"
            [] OTHER -> event[a]
    BY <1>1, Zenon DEF HealthEvent, x
  <2> QED BY <1>1, <1>3, <1>4, <2>1, <2>2
<1>6. ASSUME NEW e \in Entries, AddrOf[e] # a
      PROVE  event'[AddrOf[e]] = event[AddrOf[e]] /\ healthy'[EntryFor(AddrOf[e])] = healthy[EntryFor(AddrOf[e])]
  <2>1. AddrOf[e] \in Addr /\ EntryFor(AddrOf[e]) \in Entries /\ EntryFor(AddrOf[e]) # x
    BY <1>0, <1>6, EntryForExists, ConfigAssumption
  <2>2. healthy' \in {healthy, [healthy EXCEPT ![x] = TRUE], [healthy EXCEPT ![x] = FALSE]}
    BY ProbeRecords, Zenon DEF record_probe_success, record_probe_failure
  <2> QED BY <1>2, <1>6, <2>1, <2>2 DEF TypeOK
<1>7. ASSUME NEW e \in Entries
      PROVE  event'[AddrOf[e]] = "backend_unhealthy" <=> ~healthy'[EntryFor(AddrOf[e])]
  <2>1. CASE AddrOf[e] = a
    BY <1>5, <2>1
  <2>2. CASE AddrOf[e] # a
    BY <1>6, <2>2 DEF EventInv, EventsFollowHealth, is_healthy
  <2> QED BY <2>1, <2>2
<1> QED BY <1>7 DEF EventsFollowHealth, is_healthy

\* Between two probes, the last health event logged for an address is what
\* is_healthy says of it, duplicate addresses included.
THEOREM EventsAgree == Spec => []EventsFollowHealth
<1>1. Init => EventInv
  <2>1. ASSUME Init, NEW e \in Entries
        PROVE  event[AddrOf[e]] = None /\ healthy[EntryFor(AddrOf[e])]
    BY <2>1, EntryForExists, ConfigAssumption DEF Init
  <2> QED BY <2>1 DEF Init, EventInv, ProbeReadIsFresh, EventsFollowHealth, is_healthy, None
<1>2. ASSUME TypeOK, EventInv, [Next]_vars
      PROVE  EventInv'
  <2>1. CASE HealthProbe
    <3>1. hpc' # "connect"
      BY <2>1 DEF HealthProbe
    <3> QED BY <1>2, <2>1, <3>1, EventProbe DEF EventInv, ProbeReadIsFresh
  <2>2. CASE ~HealthProbe
    <3>1. healthy' = healthy /\ event' = event
      BY <1>2, <2>2, OnlyProbesWrite DEF entry_vars
    <3>2. EventsFollowHealth'
      BY <1>2, <3>1 DEF EventInv, EventsFollowHealth, is_healthy
    <3>3. CASE HealthCheck
      BY <3>1, <3>2, <3>3 DEF HealthCheck, EventInv, ProbeReadIsFresh, is_healthy
    <3>4. CASE HealthTop \/ HealthSleep
      BY <3>2, <3>4 DEF HealthTop, HealthSleep, EventInv, ProbeReadIsFresh
    <3>5. CASE ~HealthStep
      <4>1. UNCHANGED <<hpc, pos, was_healthy>>
        BY <1>2, <3>5 DEF Next, SelectNext, SelectStart, SelectFound, SelectSkip, SelectNone,
              StopSignal, StopJoin, BackendChanges, vars, health_vars
      <4> QED BY <1>2, <3>1, <3>2, <4>1 DEF EventInv, ProbeReadIsFresh, is_healthy
    <3> QED BY <2>2, <3>3, <3>4, <3>5 DEF HealthStep
  <2> QED BY <2>1, <2>2
<1>3. EventInv => EventsFollowHealth
  BY DEF EventInv
<1> QED BY <1>1, <1>2, <1>3, TypeCorrect, PTL DEF Spec
=============================================================================
