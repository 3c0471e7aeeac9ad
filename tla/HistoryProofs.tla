---------------------------- MODULE HistoryProofs ----------------------------
(***************************************************************************)
(* Proofs about what select_next and the health monitor do over many calls *)
(* and many probes, for any number of backends and workers and any         *)
(* thresholds: module ProbeHistory implements the policy of HealthPolicy,  *)
(* and the requests of module RoundRobin are spread evenly.                *)
(***************************************************************************)
EXTENDS BackendSetProofs, ProbeHistory, RoundRobin, FiniteSetTheorems

-----------------------------------------------------------------------------
(* The results HealthPolicy remembers *)

Results == Seq(BOOLEAN)

LEMMA DepthIsEnough ==
    /\ Policy!Depth \in Nat \ {0} /\ Policy!Depth <= U32Max
    /\ FailureThreshold \in 1 .. Policy!Depth /\ RecoveryThreshold \in 1 .. Policy!Depth
  BY ConfigAssumption DEF Policy!Depth

\* What one more result does to the results remembered: the older ones move back
\* by one, and what falls out is further back than any threshold looks.
LEMMA RememberShifts ==
    ASSUME NEW B, NEW r \in Seq(B), Len(r) <= Policy!Depth, NEW ok \in B
    PROVE  /\ Policy!Remember(r, ok) \in Seq(B) /\ Len(Policy!Remember(r, ok)) <= Policy!Depth
           /\ \A n \in 1 .. Policy!Depth, v \in B :
                 Policy!LastAre(Policy!Remember(r, ok), n, v) <=> (ok = v /\ Policy!LastAre(r, n - 1, v))
<1> DEFINE D == Policy!Depth
           L == Len(r)
           a == Append(r, ok)
           s == Policy!Remember(r, ok)
<1>0. D \in Nat \ {0} /\ L \in Nat /\ L <= D
  BY DepthIsEnough
<1>1. a \in Seq(B) /\ Len(a) = L + 1 /\ a[L + 1] = ok /\ \A i \in 1 .. L : a[i] = r[i]
  OBVIOUS
<1>2. s = IF L + 1 > D THEN Tail(a) ELSE a
  BY <1>1 DEF Policy!Remember
<1> HIDE DEF D, L, a, s
<1>3. CASE L + 1 > D
  <2>1. L = D
    BY <1>0, <1>3
  <2>2. s \in Seq(B) /\ Len(s) = L /\ \A i \in 1 .. L : s[i] = a[i + 1]
    BY <1>0, <1>1, <1>2, <1>3
  <2>3. s[L] = ok /\ \A i \in 1 .. (L - 1) : s[i] = r[i + 1]
    BY <1>0, <1>1, <2>1, <2>2
  <2>4. ASSUME NEW n \in 1 .. D, NEW v \in B
        PROVE  Policy!LastAre(s, n, v) <=> (ok = v /\ Policy!LastAre(r, n - 1, v))
    <3>1. Policy!LastAre(s, n, v) <=> \A i \in (L - n + 1) .. L : s[i] = v
      <4>1. Len(s) = L /\ L >= n
        BY <1>0, <2>1, <2>2
      <4> QED BY <4>1 DEF Policy!LastAre
    <3>2. Policy!LastAre(r, n - 1, v) <=> \A i \in (L - n + 2) .. L : r[i] = v
      <4>1. L >= n - 1 /\ L - (n - 1) + 1 = L - n + 2
        BY <1>0, <2>1
      <4> QED BY <4>1 DEF Policy!LastAre, L
    <3>3. (\A i \in (L - n + 1) .. L : s[i] = v) => ok = v /\ \A i \in (L - n + 2) .. L : r[i] = v
      <4> SUFFICES ASSUME \A i \in (L - n + 1) .. L : s[i] = v
                   PROVE  ok = v /\ \A i \in (L - n + 2) .. L : r[i] = v
        OBVIOUS
      <4>1. L \in (L - n + 1) .. L
        BY <1>0, <2>1
      <4>2. ASSUME NEW i \in (L - n + 2) .. L PROVE r[i] = v
        <5>1. i - 1 \in 1 .. (L - 1) /\ i - 1 \in (L - n + 1) .. L /\ (i - 1) + 1 = i
          BY <1>0, <2>1
        <5> QED BY <2>3, <5>1
      <4> QED BY <2>3, <4>1, <4>2
    <3>4. ok = v /\ (\A i \in (L - n + 2) .. L : r[i] = v) => \A i \in (L - n + 1) .. L : s[i] = v
      <4> SUFFICES ASSUME ok = v, \A i \in (L - n + 2) .. L : r[i] = v, NEW i \in (L - n + 1) .. L
                   PROVE  s[i] = v
        OBVIOUS
      <4>1. CASE i = L
        BY <2>3, <4>1
      <4>2. CASE i # L
        <5>1. i \in 1 .. (L - 1) /\ i + 1 \in (L - n + 2) .. L
          BY <1>0, <2>1, <4>2
        <5> QED BY <2>3, <5>1
      <4> QED BY <4>1, <4>2
    <3> QED BY <3>1, <3>2, <3>3, <3>4
  <2> QED BY <1>0, <2>2, <2>4 DEF D, s
<1>4. CASE ~(L + 1 > D)
  <2>1. s = a /\ Len(s) = L + 1 /\ s \in Seq(B) /\ L + 1 <= D
    BY <1>0, <1>1, <1>2, <1>4
  <2>2. ASSUME NEW n \in 1 .. D, NEW v \in B
        PROVE  Policy!LastAre(s, n, v) <=> (ok = v /\ Policy!LastAre(r, n - 1, v))
    <3>1. Policy!LastAre(s, n, v) <=> L + 1 >= n /\ \A i \in (L - n + 2) .. (L + 1) : a[i] = v
      <4>1. (L + 1) - n + 1 = L - n + 2
        BY <1>0
      <4> QED BY <2>1, <4>1 DEF Policy!LastAre
    <3>2. Policy!LastAre(r, n - 1, v) <=> L >= n - 1 /\ \A i \in (L - n + 2) .. L : r[i] = v
      <4>1. L - (n - 1) + 1 = L - n + 2
        BY <1>0
      <4> QED BY <4>1 DEF Policy!LastAre, L
    <3>3. L + 1 >= n <=> L >= n - 1
      BY <1>0
    <3>4. ASSUME L + 1 >= n
          PROVE  (\A i \in (L - n + 2) .. (L + 1) : a[i] = v) <=> (ok = v /\ \A i \in (L - n + 2) .. L : r[i] = v)
      <4>1. \A i \in (L - n + 2) .. (L + 1) : i = L + 1 \/ i \in (L - n + 2) .. L
        BY <1>0
      <4>2. L + 1 \in (L - n + 2) .. (L + 1) /\ \A i \in (L - n + 2) .. L : i \in (L - n + 2) .. (L + 1)
        BY <1>0
      <4>3. \A i \in (L - n + 2) .. L : i \in 1 .. L
        BY <1>0, <3>4
      <4> QED BY <1>1, <4>1, <4>2, <4>3, Zenon
    <3> QED BY <3>1, <3>2, <3>3, <3>4
  <2> QED BY <2>1, <2>2 DEF D, s
<1> QED BY <1>0, <1>3, <1>4

-----------------------------------------------------------------------------
(* The counters implement the policy *)

\* The counters of an entry tell, as far as the policy looks back, exactly how
\* its last results were: a counter is at n iff the last n results agree.
Remembers(e) ==
    /\ recent[e] \in Results /\ Len(recent[e]) <= Policy!Depth
    /\ \A n \in 1 .. Policy!Depth :
          /\ failures[e] >= n <=> Policy!LastAre(recent[e], n, FALSE)
          /\ successes[e] >= n <=> Policy!LastAre(recent[e], n, TRUE)

PolicyInv ==
    /\ TypeOK
    /\ recent \in [Entries -> Results]
    /\ \A e \in Entries : Remembers(e)

\* A probe of an entry, seen in its counters and its results.
LEMMA ProbeResult ==
    ASSUME PolicyInv, HealthProbe, PHNext
    PROVE  LET e  == EntryFor(AddrOf[pos])
               ok == reachable[AddrOf[pos]]
           IN  /\ e \in Entries /\ ok \in BOOLEAN
               /\ recent' = [recent EXCEPT ![e] = Policy!Remember(recent[e], ok)]
               /\ IF ok THEN record_probe_success(e) ELSE record_probe_failure(e)
               /\ hpc = "connect" /\ hpc' \in {"check", "sleep"}
<1> DEFINE e  == EntryFor(AddrOf[pos])
           ok == reachable[AddrOf[pos]]
<1>1. e \in Entries /\ AddrOf[e] = AddrOf[pos] /\ ok \in BOOLEAN
  BY EntryForExists, ConfigAssumption DEF PolicyInv, TypeOK
<1>2. hpc = "connect" /\ hpc' \in {"check", "sleep"}
  BY DEF HealthProbe
<1>3. IF ok THEN record_probe_success(e) ELSE record_probe_failure(e)
  BY DEF HealthProbe
<1>4. Probed = {e}
  BY <1>1, <1>2 DEF Probed
<1>5. recent' = [recent EXCEPT ![e] = Policy!Remember(recent[e], ok)]
  BY <1>1, <1>4 DEF PHNext, PolicyInv
<1> QED BY <1>1, <1>2, <1>3, <1>5

\* Nothing else touches the results.
LEMMA OnlyProbesRemember ==
    ASSUME PolicyInv, [PHNext]_ph_vars, ~HealthProbe
    PROVE  UNCHANGED <<healthy, failures, successes, recent>>
<1>1. [Next]_vars
  BY DEF PHNext, ph_vars
<1>2. UNCHANGED <<healthy, failures, successes>>
  BY <1>1, OnlyProbesWrite DEF entry_vars
<1>3. PHNext => Probed = {}
  <2> SUFFICES ASSUME PHNext PROVE ~(hpc = "connect" /\ hpc' # "connect")
    BY DEF Probed
  <2> QED BY DEF PHNext, Next, SelectNext, SelectStart, SelectFound, SelectSkip, SelectNone, HealthStep,
                 HealthTop, HealthCheck, HealthSleep, StopSignal, StopJoin, BackendChanges, health_vars
<1>4. recent' = recent
  BY <1>3 DEF PHNext, ph_vars, PolicyInv
<1> QED BY <1>2, <1>4

\* A counter that is raised, and one that is reset, follow the results.
LEMMA CounterFollows ==
    ASSUME NEW B, NEW r \in Seq(B), Len(r) <= Policy!Depth, NEW ok \in B, NEW v \in B,
           NEW c \in 0 .. U32Max,
           \A n \in 1 .. Policy!Depth : c >= n <=> Policy!LastAre(r, n, v)
    PROVE  \A n \in 1 .. Policy!Depth :
               (IF ok = v THEN SaturatingIncr(c) ELSE 0) >= n <=> Policy!LastAre(Policy!Remember(r, ok), n, v)
<1> SUFFICES ASSUME NEW n \in 1 .. Policy!Depth
             PROVE  (IF ok = v THEN SaturatingIncr(c) ELSE 0) >= n
                        <=> Policy!LastAre(Policy!Remember(r, ok), n, v)
  OBVIOUS
<1>0. U32Max \in Nat /\ Policy!Depth \in Nat /\ Policy!Depth <= U32Max
  BY ConfigAssumption, DepthIsEnough
<1>1. Policy!LastAre(Policy!Remember(r, ok), n, v) <=> (ok = v /\ Policy!LastAre(r, n - 1, v))
  <2>1. \A m \in 1 .. Policy!Depth, w \in B :
           Policy!LastAre(Policy!Remember(r, ok), m, w) <=> (ok = w /\ Policy!LastAre(r, m - 1, w))
    BY RememberShifts
  <2> QED BY <2>1
<1>2. c >= n - 1 <=> Policy!LastAre(r, n - 1, v)
  <2>1. CASE n = 1
    <3>1. Len(r) \in Nat
      OBVIOUS
    <3> QED BY <1>0, <2>1, <3>1 DEF Policy!LastAre
  <2>2. CASE n # 1
    <3>1. n - 1 \in 1 .. Policy!Depth
      BY <1>0, <2>2
    <3> QED BY <3>1
  <2> QED BY <2>1, <2>2
<1>3. SaturatingIncr(c) >= n <=> c >= n - 1
  BY <1>0 DEF SaturatingIncr
<1>4. ~(0 >= n)
  BY <1>0
<1> QED BY <1>1, <1>2, <1>3, <1>4

LEMMA PolicyInvStep == ASSUME PolicyInv, [PHNext]_ph_vars PROVE PolicyInv'
<1>1. TypeOK'
  <2>1. [Next]_vars
    BY DEF PHNext, ph_vars
  <2> QED BY <2>1, TypeStep DEF PolicyInv
<1>2. CASE HealthProbe
  <2>0. PHNext
    <3>1. HealthProbe => hpc' # hpc
      BY DEF HealthProbe
    <3>2. UNCHANGED ph_vars => hpc' = hpc
      BY DEF ph_vars, vars, health_vars
    <3> QED BY <1>2, <3>1, <3>2
  <2>1. PICK e \in Entries, ok \in BOOLEAN :
           /\ recent' = [recent EXCEPT ![e] = Policy!Remember(recent[e], ok)]
           /\ IF ok THEN record_probe_success(e) ELSE record_probe_failure(e)
    BY <1>2, <2>0, ProbeResult
  <2>2. /\ failures \in [Entries -> 0 .. U32Max] /\ successes \in [Entries -> 0 .. U32Max]
        /\ recent \in [Entries -> Results] /\ Remembers(e)
    BY <2>1 DEF PolicyInv, TypeOK
  <2>3. recent[e] \in Seq(BOOLEAN) /\ Len(recent[e]) <= Policy!Depth
    BY <2>2 DEF Remembers, Results
  <2>4. Policy!Remember(recent[e], ok) \in Results /\ Len(Policy!Remember(recent[e], ok)) <= Policy!Depth
    BY <2>1, <2>3, RememberShifts DEF Results
  <2>5. recent' \in [Entries -> Results] /\ recent'[e] = Policy!Remember(recent[e], ok)
    BY <2>1, <2>2, <2>4
  <2>6. failures'[e] = (IF ok THEN 0 ELSE SaturatingIncr(failures[e]))
        /\ successes'[e] = (IF ok THEN SaturatingIncr(successes[e]) ELSE 0)
    BY <2>1, <2>2 DEF record_probe_success, record_probe_failure
  <2>7. failures'[e] = (IF ok = FALSE THEN SaturatingIncr(failures[e]) ELSE 0)
        /\ successes'[e] = (IF ok = TRUE THEN SaturatingIncr(successes[e]) ELSE 0)
    BY <2>1, <2>6
  <2>8. \A n \in 1 .. Policy!Depth : failures'[e] >= n <=> Policy!LastAre(recent'[e], n, FALSE)
    <3>1. failures[e] \in 0 .. U32Max
          /\ \A n \in 1 .. Policy!Depth : failures[e] >= n <=> Policy!LastAre(recent[e], n, FALSE)
      BY <2>1, <2>2 DEF Remembers
    <3>2. \A n \in 1 .. Policy!Depth :
             (IF ok = FALSE THEN SaturatingIncr(failures[e]) ELSE 0) >= n
                <=> Policy!LastAre(Policy!Remember(recent[e], ok), n, FALSE)
      <4>1. PICK B : recent[e] \in Seq(B) /\ ok \in B /\ FALSE \in B
        BY <2>3
      <4> QED BY <2>3, <3>1, <4>1, CounterFollows, Zenon
    <3> QED BY <2>5, <2>7, <3>2, Zenon
  <2>9. \A n \in 1 .. Policy!Depth : successes'[e] >= n <=> Policy!LastAre(recent'[e], n, TRUE)
    <3>1. successes[e] \in 0 .. U32Max
          /\ \A n \in 1 .. Policy!Depth : successes[e] >= n <=> Policy!LastAre(recent[e], n, TRUE)
      BY <2>1, <2>2 DEF Remembers
    <3>2. \A n \in 1 .. Policy!Depth :
             (IF ok = TRUE THEN SaturatingIncr(successes[e]) ELSE 0) >= n
                <=> Policy!LastAre(Policy!Remember(recent[e], ok), n, TRUE)
      <4>1. PICK B : recent[e] \in Seq(B) /\ ok \in B /\ TRUE \in B
        BY <2>3
      <4> QED BY <2>3, <3>1, <4>1, CounterFollows, Zenon
    <3> QED BY <2>5, <2>7, <3>2, Zenon
  <2>10. Remembers(e)'
    BY <2>4, <2>5, <2>8, <2>9 DEF Remembers
  <2>11. ASSUME NEW f \in Entries, f # e PROVE Remembers(f)'
    <3>1. recent'[f] = recent[f] /\ failures'[f] = failures[f] /\ successes'[f] = successes[f]
      BY <2>1, <2>2, <2>11 DEF record_probe_success, record_probe_failure
    <3> QED BY <2>11, <3>1 DEF Remembers, PolicyInv
  <2> QED BY <1>1, <2>5, <2>10, <2>11 DEF PolicyInv
<1>3. CASE ~HealthProbe
  BY <1>1, <1>3, OnlyProbesRemember DEF PolicyInv, Remembers
<1> QED BY <1>2, <1>3

LEMMA PolicyInvInit == ASSUME PHInit PROVE PolicyInv
<1>1. TypeOK
  BY TypeInit DEF PHInit
<1>2. \A e \in Entries : recent[e] = <<>> /\ failures[e] = 0 /\ successes[e] = 0
  BY DEF PHInit, Init
<1>3. ASSUME NEW n \in 1 .. Policy!Depth PROVE ~(0 >= n) /\ ~(Len(<<>>) >= n)
  OBVIOUS
<1>4. <<>> \in Results /\ Len(<<>>) = 0 /\ 0 <= Policy!Depth
  BY DepthIsEnough DEF Results
<1> QED BY <1>1, <1>2, <1>3, <1>4 DEF PolicyInv, Remembers, Policy!LastAre, PHInit

\* What a probe does to the flag, said with the results alone.
LEMMA FlagFollows ==
    ASSUME PolicyInv, PolicyInv', NEW e \in Entries, NEW ok \in BOOLEAN,
           recent' = [recent EXCEPT ![e] = Policy!Remember(recent[e], ok)],
           IF ok THEN record_probe_success(e) ELSE record_probe_failure(e)
    PROVE  healthy' = [healthy EXCEPT ![e] =
                          \/ Policy!LastAre(recent'[e], RecoveryThreshold, TRUE)
                          \/ healthy[e] /\ ~Policy!LastAre(recent'[e], FailureThreshold, FALSE)]
<1>1. healthy \in [Entries -> BOOLEAN] /\ failures \in [Entries -> 0 .. U32Max]
      /\ successes \in [Entries -> 0 .. U32Max]
  BY DEF PolicyInv, TypeOK
<1>2. /\ successes'[e] >= RecoveryThreshold <=> Policy!LastAre(recent'[e], RecoveryThreshold, TRUE)
      /\ failures'[e] >= FailureThreshold <=> Policy!LastAre(recent'[e], FailureThreshold, FALSE)
  BY DepthIsEnough DEF PolicyInv, Remembers
<1>3. CASE ok
  <2>1. failures'[e] = 0
        /\ healthy' = IF successes'[e] >= RecoveryThreshold THEN [healthy EXCEPT ![e] = TRUE] ELSE healthy
    <3>1. record_probe_success(e)
      BY <1>3
    <3> QED BY <1>1, <3>1 DEF record_probe_success, Recovers
  <2>2. ~(failures'[e] >= FailureThreshold)
    BY <2>1, ConfigAssumption
  <2> QED BY <1>1, <1>2, <2>1, <2>2
<1>4. CASE ~ok
  <2>1. successes'[e] = 0
        /\ healthy' = IF failures'[e] >= FailureThreshold THEN [healthy EXCEPT ![e] = FALSE] ELSE healthy
    <3>1. record_probe_failure(e)
      BY <1>4
    <3> QED BY <1>1, <3>1 DEF record_probe_failure, Fails
  <2>2. ~(successes'[e] >= RecoveryThreshold)
    BY <2>1, ConfigAssumption
  <2> QED BY <1>1, <1>2, <2>1, <2>2
<1> QED BY <1>3, <1>4

\* Every step is a step of the policy or none.
LEMMA PolicyStep == ASSUME PolicyInv, PolicyInv', [PHNext]_ph_vars PROVE [Policy!Next]_(Policy!vars)
<1>1. CASE HealthProbe
  <2>0. PHNext
    <3>1. HealthProbe => hpc' # hpc
      BY DEF HealthProbe
    <3>2. UNCHANGED ph_vars => hpc' = hpc
      BY DEF ph_vars, vars, health_vars
    <3> QED BY <1>1, <3>1, <3>2
  <2>1. PICK e \in Entries, ok \in BOOLEAN :
           /\ recent' = [recent EXCEPT ![e] = Policy!Remember(recent[e], ok)]
           /\ IF ok THEN record_probe_success(e) ELSE record_probe_failure(e)
    BY <1>1, <2>0, ProbeResult
  <2>2. hpc = "connect" /\ hpc' \in {"check", "sleep"}
    BY <1>1 DEF HealthProbe
  <2>3. hpc # "exited" /\ hpc' # "exited"
    BY <2>2
  <2>4. healthy' = [healthy EXCEPT ![e] = \/ Policy!LastAre(recent'[e], RecoveryThreshold, TRUE)
                                          \/ healthy[e] /\ ~Policy!LastAre(recent'[e], FailureThreshold, FALSE)]
    BY <2>1, FlagFollows
  <2>5. Policy!Probe(e)
    BY <2>1, <2>3, <2>4 DEF Policy!Probe
  <2> QED BY <2>5 DEF Policy!Next
<1>2. CASE ~HealthProbe
  <2>1. UNCHANGED <<healthy, recent>>
    BY <1>2, OnlyProbesRemember
  <2>2. hpc = "exited" => hpc' = "exited"
    <3>1. [Next]_vars
      BY DEF PHNext, ph_vars
    <3> QED BY <3>1 DEF Next, SelectNext, SelectStart, SelectFound, SelectSkip, SelectNone, HealthStep,
                        HealthTop, HealthCheck, HealthProbe, HealthSleep, StopSignal, StopJoin,
                        BackendChanges, vars, health_vars
  <2>3. CASE hpc' = "exited"
    BY <2>1, <2>3 DEF Policy!Next, Policy!End
  <2>4. CASE hpc' # "exited"
    BY <2>1, <2>2, <2>4 DEF Policy!vars
  <2> QED BY <2>3, <2>4
<1> QED BY <1>1, <1>2

\* ImplementsHealthPolicy for every number of backends and every threshold: the
\* counters of record_probe_success and record_probe_failure, their resets and
\* their saturation decide exactly as if all results had been kept.
THEOREM ProbingImplementsPolicy == PHSpec => ImplementsHealthPolicy
<1>1. PHInit => PolicyInv
  BY PolicyInvInit
<1>2. PolicyInv /\ [PHNext]_ph_vars => PolicyInv'
  BY PolicyInvStep
<1>3. PHInit => Policy!Init
  BY DEF PHInit, Init, Policy!Init
<1>4. PolicyInv /\ PolicyInv' /\ [PHNext]_ph_vars => [Policy!Next]_(Policy!vars)
  BY PolicyStep
<1> QED BY <1>1, <1>2, <1>3, <1>4, PTL DEF PHSpec, ImplementsHealthPolicy, Policy!Spec

-----------------------------------------------------------------------------
(* Round robin *)

\* Calls under way that count for an entry.
Scanning(e) == {w \in Workers : pc[w] = "scan" /\ counted[w] /\ Candidate(w) = e}

\* The entry the next ticket is for, and how many tickets ago an entry had one.
Due == next_index % N
Age(e) == IF e < Due THEN Due - 1 - e ELSE Due - 1 - e + N

\* Requests go round: the entries of the last k tickets have one more than the
\* others, for some k.
Level ==
    \E c \in Nat, k \in Entries :
        \A e \in Entries : Credit(e) = c + (IF Age(e) < k THEN 1 ELSE 0)

RRInv ==
    /\ TypeOK
    /\ picks \in [Entries -> Nat] /\ counted \in [Workers -> BOOLEAN]
    /\ \A w \in Workers : pc[w] = "idle" => counted[w]
    /\ Down = {} => /\ \A w \in Workers : pc[w] = "scan" /\ counted[w] => offset[w] = 0
                    /\ Level

LEMMA CreditTypes ==
    ASSUME picks \in [Entries -> Nat], NEW e \in Entries
    PROVE  /\ IsFiniteSet(Scanning(e)) /\ Cardinality(Scanning(e)) \in Nat
           /\ Credit(e) = picks[e] + Cardinality(Scanning(e)) /\ Credit(e) \in Nat
<1>1. Scanning(e) \subseteq Workers
  BY DEF Scanning
<1>2. IsFiniteSet(Scanning(e))
  BY <1>1, WorkerAssumption, FS_Subset
<1>3. Cardinality(Scanning(e)) \in Nat
  BY <1>2, FS_CardinalityType
<1>4. Credit(e) = picks[e] + Cardinality(Scanning(e))
  BY DEF Credit, Scanning
<1> QED BY <1>2, <1>3, <1>4

\* The next ticket is for the next entry, also where the counter wraps.
LEMMA TicketsGoRound ==
    ASSUME MaxCalls < UsizeMod \/ UsizeMod % N = 0, TypeOK, next_index < MaxCalls
    PROVE  /\ Due \in Entries
           /\ NextTicket % N = IF Due + 1 = N THEN 0 ELSE Due + 1
<1>0. next_index \in Nat /\ next_index < UsizeMod /\ N \in Nat \ {0} /\ UsizeMod \in Nat \ {0}
      /\ MaxCalls \in Nat
  BY ConfigAssumption DEF TypeOK
<1> DEFINE q == next_index \div N
<1>1. q \in Nat /\ Due \in 0 .. (N - 1) /\ next_index = q * N + Due
  BY <1>0 DEF Due
<1>2. (next_index + 1) % N = IF Due + 1 = N THEN 0 ELSE Due + 1
  <2>1. CASE Due + 1 = N
    <3>1. next_index + 1 = (q + 1) * N + 0
      BY <1>0, <1>1, <2>1
    <3>2. ((q + 1) * N + 0) % N = 0
      BY <1>0, <1>1, ModOfMultiple
    <3> QED BY <2>1, <3>1, <3>2
  <2>2. CASE Due + 1 # N
    <3>1. next_index + 1 = q * N + (Due + 1) /\ Due + 1 \in 0 .. (N - 1)
      BY <1>0, <1>1, <2>2
    <3>2. (q * N + (Due + 1)) % N = Due + 1
      BY <1>0, <1>1, <3>1, ModOfMultiple
    <3> QED BY <2>2, <3>1, <3>2
  <2> QED BY <2>1, <2>2
<1>3. NextTicket % N = (next_index + 1) % N
  <2>1. CASE next_index + 1 < UsizeMod
    <3>1. (next_index + 1) % UsizeMod = next_index + 1
      BY <1>0, <2>1
    <3> QED BY <3>1 DEF NextTicket
  <2>2. CASE ~(next_index + 1 < UsizeMod)
    <3>1. next_index + 1 = UsizeMod /\ UsizeMod % N = 0
      BY <1>0, <2>2
    <3>2. UsizeMod % UsizeMod = 0 /\ 0 % N = 0
      BY <1>0
    <3> QED BY <3>1, <3>2 DEF NextTicket
  <2> QED BY <2>1, <2>2
<1> QED BY <1>1, <1>2, <1>3 DEF Entries

\* One more request for the entry that is due keeps the others level.
LEMMA LevelStep ==
    ASSUME N \in Nat \ {0}, Due \in Entries, Due' = (IF Due + 1 = N THEN 0 ELSE Due + 1), Level,
           \A e \in Entries : Credit(e) \in Nat,
           \A e \in Entries : (Credit(e))' = Credit(e) + (IF e = Due THEN 1 ELSE 0)
    PROVE  Level'
<1>1. PICK c \in Nat, k \in Entries : \A e \in Entries : Credit(e) = c + (IF Age(e) < k THEN 1 ELSE 0)
  BY DEF Level
<1>2. Entries = 0 .. (N - 1)
  BY DEF Entries
<1>3. \A e \in Entries : Age(e) \in 0 .. (N - 1)
  BY <1>2 DEF Age
<1>4. Age(Due) = N - 1
  BY <1>2 DEF Age
<1>5. \A e \in Entries : (Age(e))' = IF e = Due THEN 0 ELSE Age(e) + 1
  BY <1>2 DEF Age
<1>6. \A e \in Entries : e # Due => Age(e) < N - 1
  BY <1>2 DEF Age
<1>7. CASE k = N - 1
  <2>1. ASSUME NEW e \in Entries PROVE (Credit(e))' = (c + 1) + (IF (Age(e))' < 0 THEN 1 ELSE 0)
    <3>1. ~((Age(e))' < 0)
      BY <1>3, <1>5
    <3>2. CASE e = Due
      <4>1. Credit(e) = c
        BY <1>1, <1>2, <1>4, <1>7, <3>2
      <4> QED BY <3>1, <3>2, <4>1
    <3>3. CASE e # Due
      <4>1. Credit(e) = c + 1
        BY <1>1, <1>6, <1>7, <3>3
      <4> QED BY <1>1, <3>1, <3>3, <4>1
    <3> QED BY <3>2, <3>3
  <2>2. c + 1 \in Nat /\ 0 \in Entries
    BY <1>2
  <2> QED BY <2>1, <2>2 DEF Level
<1>8. CASE k # N - 1
  <2>1. k + 1 \in Entries
    BY <1>2, <1>8
  <2>2. ASSUME NEW e \in Entries PROVE (Credit(e))' = c + (IF (Age(e))' < k + 1 THEN 1 ELSE 0)
    <3>1. CASE e = Due
      <4>1. Credit(e) = c
        BY <1>1, <1>2, <1>4, <3>1
      <4>2. (Age(e))' < k + 1
        BY <1>2, <1>5, <3>1
      <4> QED BY <3>1, <4>1, <4>2
    <3>2. CASE e # Due
      <4>1. (Age(e))' < k + 1 <=> Age(e) < k
        <5>1. (Age(e))' = Age(e) + 1
          BY <1>5, <3>2
        <5>2. \A a \in 0 .. (N - 1) : a + 1 < k + 1 <=> a < k
          BY <1>2
        <5> QED BY <1>3, <5>1, <5>2
      <4> QED BY <1>1, <3>2, <4>1
    <3> QED BY <3>1, <3>2
  <2> QED BY <2>1, <2>2 DEF Level
<1> QED BY <1>7, <1>8

\* A step in which no flag changes.
Steady == RRNext /\ healthy' = healthy

LEMMA RRTypes ==
    ASSUME RRInv, [RRNext]_rr_vars
    PROVE  /\ TypeOK'
           /\ picks' \in [Entries -> Nat] /\ counted' \in [Workers -> BOOLEAN]
           /\ \A w \in Workers : pc'[w] = "idle" => counted'[w]
<1>1. TypeOK'
  <2>1. [Next]_vars
    BY DEF RRNext, rr_vars
  <2> QED BY <2>1, TypeStep DEF RRInv
<1>2. CASE UNCHANGED rr_vars
  <2>1. UNCHANGED <<pc, picks, counted>>
    BY <1>2 DEF rr_vars, vars, select_vars
  <2> QED BY <1>1, <2>1 DEF RRInv
<1>3. CASE RRNext /\ healthy' # healthy
  <2>1. picks' = [e \in Entries |-> 0] /\ counted' = [w \in Workers |-> pc[w] = "idle"]
    BY <1>3 DEF RRNext
  <2>2. pc' = pc
    <3>1. HealthProbe
      BY <1>3, OnlyProbesWrite DEF RRNext, entry_vars
    <3> QED BY <3>1 DEF HealthProbe, select_vars
  <2> QED BY <1>1, <2>1, <2>2
<1>4. CASE Steady
  <2> DEFINE R(e) == {w \in Workers : Returns(w) /\ counted[w] /\ Candidate(w) = e}
  <2>1. picks' = [e \in Entries |-> picks[e] + Cardinality(R(e))]
        /\ counted' = [w \in Workers |-> counted[w] \/ pc'[w] = "idle"]
    BY <1>4 DEF RRNext, Steady
  <2>2. \A e \in Entries : Cardinality(R(e)) \in Nat
    <3>1. \A e \in Entries : R(e) \subseteq Workers
      OBVIOUS
    <3> HIDE DEF R
    <3> QED BY <3>1, WorkerAssumption, FS_Subset, FS_CardinalityType
  <2> HIDE DEF R
  <2>3. picks' \in [Entries -> Nat]
    BY <2>1, <2>2 DEF RRInv
  <2>4. counted' \in [Workers -> BOOLEAN] /\ \A w \in Workers : pc'[w] = "idle" => counted'[w]
    BY <2>1 DEF RRInv
  <2> QED BY <1>1, <2>3, <2>4
<1> QED BY <1>2, <1>3, <1>4 DEF Steady

\* A change of a flag starts the count anew.
LEMMA FlagChange ==
    ASSUME RRInv, RRNext, healthy' # healthy
    PROVE  RRInv'
<1>0. /\ TypeOK' /\ picks' \in [Entries -> Nat] /\ counted' \in [Workers -> BOOLEAN]
      /\ \A w \in Workers : pc'[w] = "idle" => counted'[w]
  BY RRTypes
<1>1. picks' = [e \in Entries |-> 0] /\ counted' = [w \in Workers |-> pc[w] = "idle"]
  BY DEF RRNext
<1>2. pc' = pc
  <2>1. HealthProbe
    BY OnlyProbesWrite DEF RRNext, entry_vars
  <2> QED BY <2>1 DEF HealthProbe, select_vars
<1>3. \A w \in Workers : ~(pc'[w] = "scan" /\ counted'[w])
  BY <1>1, <1>2
<1>4. \A e \in Entries : (Credit(e))' = 0
  <2> SUFFICES ASSUME NEW e \in Entries PROVE (Credit(e))' = 0
    OBVIOUS
  <2>1. (Scanning(e))' = {}
    BY <1>3 DEF Scanning
  <2>2. (Credit(e))' = picks'[e] + Cardinality((Scanning(e))')
    BY DEF Credit, Scanning
  <2> QED BY <1>1, <2>1, <2>2, FS_EmptySet
<1>5. Level'
  <2>1. Entries = 0 .. (N - 1) /\ N \in Nat \ {0} /\ UsizeMod \in Nat \ {0}
    BY ConfigAssumption DEF Entries
  <2>2. next_index' \in Nat
    BY <1>0, <2>1 DEF TypeOK
  <2>3. Due' \in 0 .. (N - 1)
    <3>1. \A n \in Nat : n % N \in 0 .. (N - 1)
      BY <2>1
    <3> QED BY <2>2, <3>1 DEF Due
  <2>4. \A e \in Entries : ~((Age(e))' < 0)
    <3>1. \A d, e \in 0 .. (N - 1) : ~((IF e < d THEN d - 1 - e ELSE d - 1 - e + N) < 0)
      BY <2>1
    <3> QED BY <2>1, <2>3, <3>1 DEF Age
  <2>5. \A e \in Entries : (Credit(e))' = 0 + (IF (Age(e))' < 0 THEN 1 ELSE 0)
    BY <1>4, <2>4
  <2> QED BY <2>1, <2>5 DEF Level
<1>6. \A w \in Workers : pc'[w] = "scan" /\ counted'[w] => offset'[w] = 0
  BY <1>3
<1> QED BY <1>0, <1>5, <1>6 DEF RRInv

\* The candidate of a call that has just begun or has skipped nothing is its ticket's.
LEMMA CandidateOfTicket ==
    ASSUME NEW s \in 0 .. (UsizeMod - 1)
    PROVE  IndexAt(s, 0) = s % N
<1>1. UsizeMod \in Nat \ {0}
  BY ConfigAssumption
<1>2. (s + 0) % UsizeMod = s
  BY <1>1
<1> QED BY <1>2 DEF IndexAt

\* With every backend up, and while it stays so, only the three steps of a call
\* matter: its start adds to the entry that is due, its return only turns a call
\* under way into a pick, and nobody skips.
LEMMA SteadyCredit ==
    ASSUME RRInv, Steady, Down = {}
    PROVE  \/ /\ \E w \in Workers : SelectStart(w)
              /\ \A e \in Entries : (Credit(e))' = Credit(e) + (IF e = Due THEN 1 ELSE 0)
           \/ /\ next_index' = next_index
              /\ \A e \in Entries : (Credit(e))' = Credit(e)
<1>0. /\ pc \in [Workers -> {"idle", "scan"}] /\ start \in [Workers -> 0 .. (UsizeMod - 1)]
      /\ offset \in [Workers -> Entries] /\ result \in [Workers -> Addr \cup {None, NoHealthyBackend}]
      /\ next_index \in 0 .. (UsizeMod - 1) /\ picks \in [Entries -> Nat]
      /\ counted \in [Workers -> BOOLEAN] /\ \A w \in Workers : pc[w] = "idle" => counted[w]
  BY DEF RRInv, TypeOK
<1>a. /\ picks' = [e \in Entries |->
                picks[e] + Cardinality({w \in Workers : Returns(w) /\ counted[w] /\ Candidate(w) = e})]
      /\ counted' = [w \in Workers |-> counted[w] \/ pc'[w] = "idle"]
  BY DEF Steady, RRNext
<1>b. picks' \in [Entries -> Nat]
  BY RRTypes DEF Steady
<1>c. \A e \in Entries : /\ Credit(e) = picks[e] + Cardinality(Scanning(e)) /\ Cardinality(Scanning(e)) \in Nat
                         /\ IsFiniteSet(Scanning(e))
  BY <1>0, CreditTypes
<1>d. \A e \in Entries : (Credit(e))' = picks'[e] + Cardinality((Scanning(e))')
  BY DEF Credit, Scanning
<1>e. Cardinality({}) = 0
  BY FS_EmptySet
<1>1. ASSUME NEW w \in Workers, SelectStart(w)
      PROVE  \A e \in Entries : (Credit(e))' = Credit(e) + (IF e = Due THEN 1 ELSE 0)
  <2>1. /\ pc[w] = "idle" /\ pc'[w] = "scan" /\ start'[w] = next_index /\ offset'[w] = 0
        /\ \A v \in Workers \ {w} : pc'[v] = pc[v] /\ start'[v] = start[v] /\ offset'[v] = offset[v]
    BY <1>0, <1>1 DEF SelectStart
  <2>2. \A v \in Workers : ~Returns(v)
    BY <2>1 DEF Returns
  <2>3. \A e \in Entries : picks'[e] = picks[e]
    <3>1. \A e \in Entries : {v \in Workers : Returns(v) /\ counted[v] /\ Candidate(v) = e} = {}
      BY <2>2
    <3> QED BY <1>0, <1>a, <1>e, <3>1
  <2>4. counted'[w] /\ counted[w] /\ \A v \in Workers \ {w} : counted'[v] <=> counted[v]
    BY <1>0, <1>a, <2>1
  <2>5. Candidate(w)' = Due /\ \A v \in Workers \ {w} : Candidate(v)' = Candidate(v)
    <3>1. Candidate(w)' = IndexAt(next_index, 0)
      BY <2>1 DEF Candidate, IndexAt
    <3>2. \A v \in Workers \ {w} : Candidate(v)' = Candidate(v)
      BY <2>1 DEF Candidate, IndexAt
    <3> QED BY <1>0, <3>1, <3>2, CandidateOfTicket DEF Due
  <2>6. ASSUME NEW e \in Entries PROVE (Credit(e))' = Credit(e) + (IF e = Due THEN 1 ELSE 0)
    <3>1. w \notin Scanning(e)
      BY <2>1 DEF Scanning
    <3>2. CASE e = Due
      <4>1. (Scanning(e))' = Scanning(e) \cup {w}
        BY <2>1, <2>4, <2>5, <3>2 DEF Scanning
      <4>2. Cardinality((Scanning(e))') = Cardinality(Scanning(e)) + 1
        BY <1>c, <3>1, <4>1, FS_AddElement
      <4> QED BY <1>0, <1>c, <1>d, <2>3, <3>2, <4>2
    <3>3. CASE e # Due
      <4>1. (Scanning(e))' = Scanning(e)
        BY <2>1, <2>4, <2>5, <3>3 DEF Scanning
      <4> QED BY <1>0, <1>c, <1>d, <2>3, <3>3, <4>1
    <3> QED BY <3>2, <3>3
  <2> QED BY <2>6
<1>2. ASSUME NEW w \in Workers, SelectFound(w)
      PROVE  next_index' = next_index /\ \A e \in Entries : (Credit(e))' = Credit(e)
  <2>1. /\ pc[w] = "scan" /\ pc'[w] = "idle" /\ result'[w] = AddrOf[Candidate(w)]
        /\ next_index' = next_index /\ start' = start /\ offset' = offset
        /\ \A v \in Workers \ {w} : pc'[v] = pc[v]
    BY <1>0, <1>2 DEF SelectFound, Candidate
  <2>2. Candidate(w) \in Entries
    <3>1. start[w] \in Nat /\ offset[w] \in Nat
      BY <1>0, ConfigAssumption DEF Entries
    <3> QED BY <3>1, IndexInBounds DEF Candidate
  <2>3. Returns(w) /\ \A v \in Workers \ {w} : ~Returns(v)
    <3>1. AddrOf[Candidate(w)] \in Addr
      BY <2>2, ConfigAssumption
    <3>2. result'[w] # NoHealthyBackend
      BY <2>1, <3>1, ErrorAssumption
    <3> QED BY <2>1, <3>2 DEF Returns
  <2>4. \A v \in Workers : Candidate(v)' = Candidate(v)
    BY <2>1 DEF Candidate, IndexAt
  <2>5. \A v \in Workers \ {w} : counted'[v] <=> counted[v]
    BY <1>0, <1>a, <2>1
  <2>6. ASSUME NEW e \in Entries PROVE (Credit(e))' = Credit(e)
    <3>1. CASE counted[w] /\ Candidate(w) = e
      <4>1. {v \in Workers : Returns(v) /\ counted[v] /\ Candidate(v) = e} = {w}
        BY <2>3, <3>1
      <4>2. picks'[e] = picks[e] + 1
        BY <1>a, <4>1, FS_Singleton
      <4>3. w \in Scanning(e) /\ (Scanning(e))' = Scanning(e) \ {w}
        BY <2>1, <2>4, <2>5, <3>1 DEF Scanning
      <4>4. Cardinality((Scanning(e))') = Cardinality(Scanning(e)) - 1
        BY <1>c, <4>3, FS_RemoveElement
      <4> QED BY <1>0, <1>c, <1>d, <4>2, <4>4
    <3>2. CASE ~(counted[w] /\ Candidate(w) = e)
      <4>1. {v \in Workers : Returns(v) /\ counted[v] /\ Candidate(v) = e} = {}
        BY <2>3, <3>2
      <4>2. picks'[e] = picks[e]
        BY <1>0, <1>a, <1>e, <4>1
      <4>3. (Scanning(e))' = Scanning(e)
        BY <2>1, <2>4, <2>5, <3>2 DEF Scanning
      <4> QED BY <1>c, <1>d, <4>2, <4>3
    <3> QED BY <3>1, <3>2
  <2> QED BY <2>1, <2>6
<1>3. ASSUME NEW w \in Workers, SelectSkip(w) \/ SelectNone(w) PROVE FALSE
  <2>1. ~healthy[IndexAt(start[w], offset[w])]
    BY <1>3 DEF SelectSkip, SelectNone, IsUp
  <2>2. IndexAt(start[w], offset[w]) \in Entries
    <3>1. start[w] \in Nat /\ offset[w] \in Nat
      BY <1>0, ConfigAssumption DEF Entries
    <3> QED BY <3>1, IndexInBounds
  <2> QED BY <2>1, <2>2 DEF Down, Up
<1>4. ASSUME UNCHANGED select_vars
      PROVE  next_index' = next_index /\ \A e \in Entries : (Credit(e))' = Credit(e)
  <2>1. next_index' = next_index /\ pc' = pc /\ start' = start /\ offset' = offset
    BY <1>4 DEF select_vars
  <2>2. \A v \in Workers : ~Returns(v)
    BY <2>1 DEF Returns
  <2>3. \A e \in Entries : picks'[e] = picks[e]
    <3>1. \A e \in Entries : {v \in Workers : Returns(v) /\ counted[v] /\ Candidate(v) = e} = {}
      BY <2>2
    <3> QED BY <1>0, <1>a, <1>e, <3>1
  <2>4. \A v \in Workers : counted'[v] <=> counted[v]
    BY <1>0, <1>a, <2>1
  <2>5. \A e \in Entries : (Scanning(e))' = Scanning(e)
    <3>1. \A v \in Workers : Candidate(v)' = Candidate(v)
      BY <2>1 DEF Candidate, IndexAt
    <3> QED BY <2>1, <2>4, <3>1 DEF Scanning
  <2> QED BY <1>c, <1>d, <2>1, <2>3, <2>5
<1>5. CASE HealthStep \/ StopSignal \/ StopJoin \/ \E a \in Addr : BackendChanges(a)
  <2>1. UNCHANGED select_vars
    BY <1>5 DEF HealthStep, HealthTop, HealthCheck, HealthProbe, HealthSleep, StopSignal, StopJoin,
                BackendChanges
  <2> QED BY <1>4, <2>1
<1> QED BY <1>1, <1>2, <1>3, <1>5 DEF Steady, RRNext, Next, SelectNext

LEMMA SteadyStep ==
    ASSUME MaxCalls < UsizeMod \/ UsizeMod % N = 0, RRInv, Steady
    PROVE  RRInv'
<1>0. /\ TypeOK' /\ picks' \in [Entries -> Nat] /\ counted' \in [Workers -> BOOLEAN]
      /\ \A w \in Workers : pc'[w] = "idle" => counted'[w]
  BY RRTypes DEF Steady
<1>1. Down' = Down
  BY DEF Steady, Down, Up
<1>2. SUFFICES ASSUME Down = {}
               PROVE  /\ \A w \in Workers : pc'[w] = "scan" /\ counted'[w] => offset'[w] = 0
                      /\ Level'
  BY <1>0, <1>1 DEF RRInv
<1>3. TypeOK /\ Level /\ picks \in [Entries -> Nat]
  BY <1>2 DEF RRInv
<1>4. \A w \in Workers : pc'[w] = "scan" /\ counted'[w] => offset'[w] = 0
  <2> SUFFICES ASSUME NEW w \in Workers, pc'[w] = "scan", counted'[w] PROVE offset'[w] = 0
    OBVIOUS
  <2>1. counted[w]
    BY DEF Steady, RRNext
  <2>2. pc[w] = "scan" => offset[w] = 0
    BY <1>2, <2>1 DEF RRInv
  <2>3. pc \in [Workers -> {"idle", "scan"}] /\ offset \in [Workers -> Entries]
        /\ start \in [Workers -> 0 .. (UsizeMod - 1)]
    BY <1>3 DEF TypeOK
  <2>4. ASSUME NEW v \in Workers, SelectStart(v) PROVE offset'[w] = 0
    BY <2>2, <2>3, <2>4 DEF SelectStart
  <2>5. ASSUME NEW v \in Workers, SelectFound(v) \/ SelectNone(v) PROVE offset'[w] = 0
    BY <2>2, <2>3, <2>5 DEF SelectFound, SelectNone
  <2>6. ASSUME NEW v \in Workers, SelectSkip(v) PROVE FALSE
    <3>1. ~healthy[IndexAt(start[v], offset[v])]
      BY <2>6 DEF SelectSkip, IsUp
    <3>2. start[v] \in Nat /\ offset[v] \in Nat
      BY <2>3, ConfigAssumption DEF Entries
    <3>3. IndexAt(start[v], offset[v]) \in Entries
      BY <3>2, IndexInBounds
    <3> QED BY <1>2, <3>1, <3>3 DEF Down, Up
  <2>7. CASE HealthStep \/ StopSignal \/ StopJoin \/ \E a \in Addr : BackendChanges(a)
    BY <2>2, <2>7 DEF HealthStep, HealthTop, HealthCheck, HealthProbe, HealthSleep, StopSignal, StopJoin,
                      BackendChanges, select_vars
  <2> QED BY <2>4, <2>5, <2>6, <2>7 DEF Steady, RRNext, Next, SelectNext
<1>5. Level'
  <2>1. ASSUME NEW w \in Workers, SelectStart(w),
               \A e \in Entries : (Credit(e))' = Credit(e) + (IF e = Due THEN 1 ELSE 0)
        PROVE  Level'
    <3>1. next_index < MaxCalls /\ next_index' = NextTicket
      BY <2>1 DEF SelectStart
    <3>2. Due \in Entries /\ Due' = IF Due + 1 = N THEN 0 ELSE Due + 1
      <4>1. Due' = NextTicket % N
        BY <3>1 DEF Due
      <4> QED BY <1>3, <3>1, <4>1, TicketsGoRound
    <3>3. \A e \in Entries : Credit(e) \in Nat
      BY <1>3, CreditTypes
    <3> QED BY <1>3, <2>1, <3>2, <3>3, LevelStep, ConfigAssumption
  <2>2. ASSUME next_index' = next_index, \A e \in Entries : (Credit(e))' = Credit(e)
        PROVE  Level'
    <3>1. \A e \in Entries : (Age(e))' = Age(e)
      BY <2>2 DEF Age, Due
    <3> QED BY <1>3, <2>2, <3>1 DEF Level
  <2> QED BY <1>2, <2>1, <2>2, SteadyCredit
<1> QED BY <1>4, <1>5

\* FairWhenAllUp for any number of backends and workers, as long as the ticket
\* counter does not wrap or wraps at a multiple of the number of backends:
\* select_next never puts a healthy backend two requests ahead of another.
\* (Where the counter wraps elsewhere, the entries after the wrap come early.)
THEOREM RoundRobinIsFair ==
    ASSUME MaxCalls < UsizeMod \/ UsizeMod % N = 0
    PROVE  RRSpec => []FairWhenAllUp
<1>1. RRInit => RRInv
  <2> SUFFICES ASSUME RRInit PROVE RRInv
    OBVIOUS
  <2>1. TypeOK /\ next_index = 0 /\ \A w \in Workers : pc[w] = "idle" /\ counted[w]
    BY TypeInit DEF RRInit, Init
  <2>2. picks = [e \in Entries |-> 0] /\ counted = [w \in Workers |-> TRUE]
    BY DEF RRInit
  <2>3. \A e \in Entries : Credit(e) = 0
    <3> SUFFICES ASSUME NEW e \in Entries PROVE Credit(e) = 0
      OBVIOUS
    <3>1. Scanning(e) = {}
      BY <2>1 DEF Scanning
    <3>2. picks \in [Entries -> Nat] /\ picks[e] = 0
      BY <2>2
    <3> QED BY <3>1, <3>2, CreditTypes, FS_EmptySet
  <2>4. Entries = 0 .. (N - 1) /\ N \in Nat \ {0}
    BY ConfigAssumption DEF Entries
  <2>5. Due = 0
    BY <2>1, <2>4 DEF Due
  <2>6. \A e \in Entries : ~(Age(e) < 0)
    BY <2>4, <2>5 DEF Age
  <2>7. \A e \in Entries : Credit(e) = 0 + (IF Age(e) < 0 THEN 1 ELSE 0)
    BY <2>3, <2>6
  <2>8. Level
    BY <2>4, <2>7 DEF Level
  <2> QED BY <2>1, <2>2, <2>8 DEF RRInv
<1>2. RRInv /\ [RRNext]_rr_vars => RRInv'
  <2> SUFFICES ASSUME RRInv, [RRNext]_rr_vars PROVE RRInv'
    OBVIOUS
  <2>1. CASE UNCHANGED rr_vars
    <3>1. TypeOK'
      BY RRTypes
    <3>2. UNCHANGED <<healthy, next_index, pc, start, offset, picks, counted>>
      BY <2>1 DEF rr_vars, vars, entry_vars, select_vars
    <3>3. Down' = Down /\ (Level <=> Level')
      BY <3>2 DEF Down, Up, Level, Credit, Candidate, Age, Due, IndexAt
    <3> QED BY <3>1, <3>2, <3>3 DEF RRInv
  <2>2. CASE RRNext
    BY <2>2, FlagChange, SteadyStep DEF Steady
  <2> QED BY <2>1, <2>2
<1>3. RRInv => FairWhenAllUp
  <2> SUFFICES ASSUME RRInv, Down = {}, NEW e \in Entries, NEW f \in Entries
               PROVE  Credit(e) <= Credit(f) + 1
    BY DEF FairWhenAllUp
  <2>1. PICK c \in Nat, k \in Entries : \A g \in Entries : Credit(g) = c + (IF Age(g) < k THEN 1 ELSE 0)
    BY DEF RRInv, Level
  <2>2. Credit(e) \in {c, c + 1} /\ Credit(f) \in {c, c + 1}
    BY <2>1
  <2> QED BY <2>2
<1> QED BY <1>1, <1>2, <1>3, PTL DEF RRSpec

=============================================================================
