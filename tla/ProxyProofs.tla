----------------------------- MODULE ProxyProofs -----------------------------
(***************************************************************************)
(* Proofs about module Proxy, for any number of backends, retries and      *)
(* concurrent requests.                                                    *)
(*                                                                         *)
(* What a request has behind it at each stage (Progress) carries the type  *)
(* invariant and the records.  That retries stay bounded counts deliveries *)
(* against attempts (Bounds); that a retry moves on needs to know where    *)
(* the ticket of an undisturbed request points (Tickets).                  *)
(***************************************************************************)
EXTENDS Proxy, TLAPS

Records == {"request_complete", "request_failed"}

\* What request r has behind it, by the stage it is in.
RequestProgress(r) ==
    /\ stage[r] \in {"new", "parse"} => tried[r] = <<>>
    /\ stage[r] = "parse" \/ tried[r] # <<>> => target[r] \in Backends
    /\ stage[r] \in {"attempt", "respond"} => tried[r] # <<>>
    /\ stage[r] = "respond" => delivered[r] > 0
    /\ listed = 0 => stage[r] \in {"new", "done"}
    /\ stage[r] # "done" => records[r] = <<>> /\ reply[r] = "none"
    /\ stage[r] = "done" => \/ \E x \in Records : records[r] = <<x>>
                            \/ records[r] = <<>> /\ listed = 0 /\ reply[r] = "none"
    /\ records[r] = <<"request_complete">> => reply[r] = "response" /\ delivered[r] > 0

Progress == \A r \in Requests : RequestProgress(r)

\* A request that is at an attempt has one delivery fewer than attempts at most,
\* and one that looks for a backend has an attempt left.
RequestBounds(r) ==
    /\ delivered[r] <= Len(tried[r])
    /\ Len(tried[r]) <= Attempts
    /\ stage[r] \in {"new", "parse"} => delivered[r] = 0
    /\ stage[r] = "attempt" => delivered[r] < Len(tried[r])
    /\ stage[r] = "select" => Len(tried[r]) < Attempts

Bounds == \A r \in Requests : RequestBounds(r)

\* Where the tickets of a request point: while it is alone the next one is the
\* successor of its last, and the backend it goes to is the one its last ticket
\* named; a ticket drawn in turn is not the one before.
RequestTickets(r) ==
    /\ stage[r] = "new" => ~alone[r]
    /\ alone[r] => /\ \A b \in Backends : healthy[b]
                   /\ next_index = (start[r] + 1) % N
                   /\ offset[r] = 0
                   /\ stage[r] = "parse" => target[r] = start[r]
                   /\ stage[r] = "attempt" => Current(r) = start[r]
    /\ in_turn[r] => /\ \A b \in Backends : healthy[b]
                     /\ stage[r] = "select" /\ tried[r] # <<>> /\ N > 1 =>
                           offset[r] = 0 /\ Current(r) # start[r]

Tickets == \A r \in Requests : RequestTickets(r)

ProxyInv == TypeOK /\ Progress /\ Bounds
RoutingInv == TypeOK /\ Progress /\ Tickets

-----------------------------------------------------------------------------
(* The operators *)

LEMMA CandidateInRange ==
    ASSUME NEW n \in Backends, NEW o \in Backends
    PROVE  Candidate(n, o) \in Backends
<1>1. ASSUME NEW k \in Nat PROVE k % N \in 0 .. (N - 1)
  BY ProxyAssumption
<1>2. n + o \in Nat
  BY ProxyAssumption DEF Backends
<1> QED BY <1>1, <1>2 DEF Candidate, Backends

LEMMA NoOffset ==
    ASSUME NEW n \in Backends
    PROVE  Candidate(n, 0) = n
<1>1. n \in 0 .. (N - 1) /\ N \in Nat \ {0} /\ n + 0 = n
  BY ProxyAssumption DEF Backends
<1> QED BY <1>1 DEF Candidate

\* The next ticket is in range, and another one if there is another backend.
LEMMA SuccessorMoves ==
    ASSUME NEW n \in Backends
    PROVE  (n + 1) % N \in Backends /\ (N > 1 => (n + 1) % N # n)
<1>1. n \in 0 .. (N - 1) /\ N \in Nat \ {0} /\ n + 1 \in Nat
  BY ProxyAssumption DEF Backends
<1>2. CASE n + 1 < N
  <2>1. (n + 1) % N = n + 1
    BY <1>1, <1>2
  <2> QED BY <1>1, <1>2, <2>1 DEF Backends
<1>3. CASE n + 1 = N
  <2>1. (n + 1) % N = 0
    BY <1>1, <1>3
  <2> QED BY <1>1, <1>3, <2>1 DEF Backends
<1> QED BY <1>1, <1>2, <1>3

\* A sequence that is not empty has a last element.
LEMMA LastIsElement ==
    ASSUME NEW S, NEW q \in Seq(S), q # <<>>
    PROVE  q[Len(q)] \in S
  OBVIOUS

LEMMA NoBackendIsNone == NoBackend \notin Backends /\ 0 \in Backends
  BY ProxyAssumption DEF NoBackend, Backends

LEMMA LooksInRange ==
    ASSUME TypeOK, NEW r \in Requests
    PROVE  Looks(r) \in Backends
  BY CandidateInRange DEF TypeOK, Looks

-----------------------------------------------------------------------------
(* Type correctness *)

LEMMA TypeInit == Init => TypeOK
  BY NoBackendIsNone DEF Init, TypeOK

LEMMA TypeStep ==
    ASSUME TypeOK, Progress, [Next]_vars
    PROVE  TypeOK'
<1> USE DEF route_vars, stat_vars
<1>1. ASSUME NEW r \in Requests, Handle(r)
      PROVE  TypeOK'
  <2> USE DEF Finish
  <2>0. Looks(r) \in Backends /\ 0 \in Backends
    BY LooksInRange, NoBackendIsNone
  <2>s. ASSUME StartSelect(r)
        PROVE  /\ next_index' \in Backends
               /\ start' \in [Requests -> Backends] /\ offset' \in [Requests -> Backends]
               /\ stage' \in [Requests -> {"new", "select", "parse", "attempt", "respond", "done"}]
               /\ alone' \in [Requests -> BOOLEAN] /\ in_turn' \in [Requests -> BOOLEAN]
               /\ healthy' \in [Backends -> BOOLEAN] /\ listed' \in {0, N}
    <3>1. NextTicket \in Backends
      BY SuccessorMoves DEF TypeOK, NextTicket
    <3>2. alone' \in [Requests -> BOOLEAN] /\ in_turn' \in [Requests -> BOOLEAN]
      BY <2>s, Zenon DEF StartSelect, TypeOK
    <3> QED BY <2>0, <2>s, <3>1, <3>2 DEF StartSelect, TypeOK
  <2>d. ASSUME NEW how, Deliver(r, how)
        PROVE  delivered' \in [Requests -> Nat]
    BY <2>d DEF Deliver, TypeOK
  <2>c. ASSUME NEW ok \in BOOLEAN, RecordRequest(r, ok), target[r] \in Backends
        PROVE  /\ requests' \in [Backends -> Nat]
               /\ errors' \in [Backends -> Nat]
    <3>1. /\ requests' = [requests EXCEPT ![target[r]] = @ + 1]
          /\ errors' = errors \/ errors' = [errors EXCEPT ![target[r]] = @ + 1]
      BY <2>c, Zenon DEF RecordRequest
    <3>2. requests' \in [Backends -> Nat]
      BY <2>c, <3>1, SMTT(30) DEF TypeOK
    <3>3. errors' \in [Backends -> Nat]
      <4>1. errors \in [Backends -> Nat]
        BY DEF TypeOK
      <4>2. [errors EXCEPT ![target[r]] = @ + 1] \in [Backends -> Nat]
        BY <2>c, <4>1
      <4> QED BY <3>1, <4>1, <4>2, Zenon
    <3> QED BY <3>2, <3>3
  <2>1. CASE SetTimeoutFails(r)
    BY <2>1, SMTT(30) DEF SetTimeoutFails, TypeOK
  <2>n. CASE NoServers(r)
    BY <2>n DEF NoServers, TypeOK
  <2>2. CASE Select(r)
    BY <2>2, <2>s DEF Select, TypeOK
  <2>3. CASE SelectSkip(r)
    <3>1. offset[r] + 1 \in Backends
      <4>1. offset[r] \in Backends /\ offset[r] + 1 < N
        BY <2>3 DEF SelectSkip, MoreToScan, TypeOK
      <4> QED BY <4>1, ProxyAssumption DEF Backends
    <3>2. offset' \in [Requests -> Backends]
      BY <2>3, <3>1 DEF SelectSkip, TypeOK
    <3> QED BY <2>3, <3>2 DEF SelectSkip, TypeOK
  <2>4. CASE SelectTarget(r)
    BY <2>4, <2>0 DEF SelectTarget, TypeOK
  <2>5. CASE NoHealthyBackend(r)
    BY <2>5, SMTT(30) DEF NoHealthyBackend, TypeOK
  <2>6. CASE NextAttempt(r)
    <3>1. tried[r] # <<>> => Current(r) \in Backends
      BY LastIsElement DEF TypeOK, Current
    <3>2. tried' \in [Requests -> Seq(Backends)]
      <4>1. PICK b \in Backends : tried' = [tried EXCEPT ![r] = Tried(r, b)]
        BY <2>6, <2>0, <3>1 DEF NextAttempt
      <4> QED BY <4>1 DEF Tried, TypeOK
    <3> QED BY <2>6, <3>2 DEF NextAttempt, TypeOK
  <2>7. CASE RequestTooLarge(r)
    BY <2>7, SMTT(30) DEF RequestTooLarge, TypeOK
  <2>8. CASE ParseFails(r)
    BY <2>8, SMTT(30) DEF ParseFails, TypeOK
  <2>9. CASE ParseOk(r)
    BY <2>9, SMTT(30) DEF ParseOk, TypeOK, Progress, RequestProgress
  <2>10. CASE AttemptOk(r)
    BY <2>10, <2>d DEF AttemptOk, TypeOK
  <2>11. ASSUME NEW how \in Failures, Retry(r, how) PROVE TypeOK'
    BY <2>11, <2>s, <2>d DEF Retry, TypeOK
  <2>12. ASSUME NEW how \in Failures, GiveUp(r, how) PROVE TypeOK'
    <3>1. target[r] \in Backends
      BY <2>12 DEF GiveUp, Progress, RequestProgress
    <3>2. RecordRequest(r, FALSE) /\ Deliver(r, how)
      BY <2>12 DEF GiveUp
    <3>3. /\ requests' \in [Backends -> Nat]
          /\ errors' \in [Backends -> Nat]
      BY <2>c, <3>1, <3>2, Zenon
    <3>4. Finish(r, "request_failed") /\ UNCHANGED <<route_vars, target, tried, reply>>
      BY <2>12, Zenon DEF GiveUp
    <3> QED BY <2>d, <3>2, <3>3, <3>4, SMTT(40) DEF TypeOK
  <2>13. CASE ClientTakes(r)
    <3>1. target[r] \in Backends
      BY <2>13 DEF ClientTakes, Progress, RequestProgress
    <3>2. RecordRequest(r, TRUE)
      BY <2>13 DEF ClientTakes
    <3>3. /\ requests' \in [Backends -> Nat]
          /\ errors' \in [Backends -> Nat]
      BY <2>c, <3>1, <3>2, Zenon
    <3>4. /\ Finish(r, "request_complete") /\ reply' = [reply EXCEPT ![r] = "response"]
          /\ UNCHANGED <<route_vars, target, tried, delivered>>
      BY <2>13, Zenon DEF ClientTakes
    <3> QED BY <3>3, <3>4, SMTT(40) DEF TypeOK
  <2>14. CASE ClientFails(r)
    <3>1. PICK x \in {"none", "partial", "response"} : reply' = [reply EXCEPT ![r] = x]
      BY <2>14 DEF ClientFails
    <3> QED BY <2>14, <3>1, SMTT(30) DEF ClientFails, TypeOK
  <2> QED BY <1>1, <2>1, <2>n, <2>2, <2>3, <2>4, <2>5, <2>6, <2>7, <2>8, <2>9, <2>10, <2>11, <2>12,
             <2>13, <2>14 DEF Handle
<1>2. ASSUME NEW b \in Backends, HealthFlips(b)
      PROVE  TypeOK'
  <2>1. healthy' \in [Backends -> BOOLEAN]
    BY <1>2, Zenon DEF HealthFlips, TypeOK
  <2> QED BY <1>2, <2>1 DEF HealthFlips, TypeOK
<1>3. CASE UNCHANGED vars
  BY <1>3 DEF vars, TypeOK
<1> QED BY <1>1, <1>2, <1>3 DEF Next

-----------------------------------------------------------------------------
(* What a request has behind it *)

LEMMA ProgressInit == Init => Progress
  BY NoBackendIsNone DEF Init, Progress, RequestProgress

\* No step adds a backend to the list or takes one away.
LEMMA ListedFixed == [Next]_vars => listed' = listed
  BY DEF Next, vars, Handle, HealthFlips, SetTimeoutFails, NoServers, Select, StartSelect, SelectSkip,
         SelectTarget, NoHealthyBackend, NextAttempt, RequestTooLarge, ParseFails, ParseOk,
         AttemptOk, Retry, GiveUp, ClientTakes, ClientFails, route_vars

\* A step of one request leaves every other where it was.
LEMMA OthersUntouched ==
    ASSUME TypeOK, NEW r \in Requests, Handle(r), NEW q \in Requests, q # r
    PROVE  /\ stage'[q] = stage[q] /\ tried'[q] = tried[q] /\ target'[q] = target[q]
           /\ delivered'[q] = delivered[q] /\ reply'[q] = reply[q]
           /\ records'[q] = records[q]
           /\ start'[q] = start[q] /\ offset'[q] = offset[q] /\ in_turn'[q] = in_turn[q]
<1> USE DEF route_vars, stat_vars, Finish, TypeOK
<1>1. CASE SetTimeoutFails(r)
  BY <1>1 DEF SetTimeoutFails
<1>n. CASE NoServers(r)
  BY <1>n DEF NoServers
<1>2. CASE Select(r)
  BY <1>2 DEF Select, StartSelect
<1>3. CASE SelectSkip(r)
  BY <1>3 DEF SelectSkip
<1>4. CASE SelectTarget(r)
  BY <1>4 DEF SelectTarget
<1>5. CASE NoHealthyBackend(r)
  BY <1>5 DEF NoHealthyBackend
<1>6. CASE NextAttempt(r)
  BY <1>6 DEF NextAttempt
<1>7. CASE RequestTooLarge(r)
  BY <1>7 DEF RequestTooLarge
<1>8. CASE ParseFails(r)
  BY <1>8 DEF ParseFails
<1>9. CASE ParseOk(r)
  BY <1>9 DEF ParseOk
<1>10. CASE AttemptOk(r)
  BY <1>10 DEF AttemptOk, Deliver
<1>11. CASE \E how \in Failures : Retry(r, how)
  BY <1>11 DEF Retry, StartSelect, Deliver
<1>12. CASE \E how \in Failures : GiveUp(r, how)
  BY <1>12 DEF GiveUp, Deliver, RecordRequest
<1>13. CASE ClientTakes(r)
  BY <1>13 DEF ClientTakes, RecordRequest
<1>14. CASE ClientFails(r)
  BY <1>14 DEF ClientFails
<1> QED BY <1>1, <1>n, <1>2, <1>3, <1>4, <1>5, <1>6, <1>7, <1>8, <1>9, <1>10, <1>11, <1>12, <1>13,
           <1>14 DEF Handle

LEMMA ProgressStep ==
    ASSUME TypeOK, Progress, [Next]_vars
    PROVE  Progress'
<1> USE DEF route_vars, stat_vars, Finish, TypeOK, Progress
<1>1. ASSUME NEW r \in Requests, Handle(r)
      PROVE  Progress'
  <2>0. RequestProgress(r)
    OBVIOUS
  <2>o. ASSUME NEW q \in Requests, q # r PROVE RequestProgress(q)'
    <3>1. RequestProgress(q)
      OBVIOUS
    <3>2. /\ stage'[q] = stage[q] /\ tried'[q] = tried[q] /\ target'[q] = target[q]
          /\ delivered'[q] = delivered[q] /\ reply'[q] = reply[q]
          /\ records'[q] = records[q] /\ listed' = listed
      BY <1>1, <2>o, OthersUntouched, ListedFixed
    <3> HIDE DEF TypeOK, Progress
    <3> QED BY <3>1, <3>2, Zenon DEF RequestProgress
  <2> SUFFICES RequestProgress(r)'
    BY <2>o
  <2>l. listed' = listed
    BY ListedFixed
  <2> USE DEF RequestProgress, Records
  <2>1. CASE SetTimeoutFails(r)
    BY <2>0, <2>1 DEF SetTimeoutFails
  <2>n. CASE NoServers(r)
    BY <2>0, <2>n DEF NoServers
  <2>2. CASE Select(r)
    BY <2>0, <2>2 DEF Select, StartSelect
  <2>3. CASE SelectSkip(r)
    BY <2>0, <2>3 DEF SelectSkip
  <2>4. CASE SelectTarget(r)
    BY <2>0, <2>4, LooksInRange DEF SelectTarget, Found
  <2>5. CASE NoHealthyBackend(r)
    BY <2>0, <2>5 DEF NoHealthyBackend, NotFound
  <2>6. CASE NextAttempt(r)
    <3>1. PICK b : tried' = [tried EXCEPT ![r] = Append(tried[r], b)]
      BY <2>6 DEF NextAttempt, Tried
    <3>2. tried'[r] # <<>>
      BY <3>1
    <3>3. /\ stage'[r] = "attempt" /\ target'[r] = target[r] /\ records'[r] = records[r]
          /\ stage[r] = "select" /\ tried[r] # <<>> /\ reply'[r] = reply[r]
      BY <2>6 DEF NextAttempt, Found, NotFound
    <3> HIDE DEF TypeOK, Progress
    <3> QED BY <2>0, <2>l, <3>2, <3>3
  <2>7. CASE RequestTooLarge(r)
    BY <2>0, <2>7 DEF RequestTooLarge
  <2>8. CASE ParseFails(r)
    BY <2>0, <2>8 DEF ParseFails
  <2>9. CASE ParseOk(r)
    BY <2>0, <2>9 DEF ParseOk
  <2>10. CASE AttemptOk(r)
    BY <2>0, <2>10 DEF AttemptOk, Deliver
  <2>11. CASE \E how \in Failures : Retry(r, how)
    BY <2>0, <2>11 DEF Retry, StartSelect, Deliver
  <2>12. CASE \E how \in Failures : GiveUp(r, how)
    <3>1. stage[r] # "done" /\ records[r] = <<>>
      BY <2>0, <2>12 DEF GiveUp
    <3>2. /\ stage'[r] = "done" /\ records'[r] = <<"request_failed">>
          /\ tried'[r] = tried[r] /\ target'[r] = target[r]
      BY <2>12, <3>1 DEF GiveUp
    <3> QED BY <2>0, <3>1, <3>2
  <2>13. CASE ClientTakes(r)
    <3>1. stage[r] # "done" /\ records[r] = <<>>
      BY <2>0, <2>13 DEF ClientTakes
    <3>2. /\ stage'[r] = "done" /\ records'[r] = <<"request_complete">>
          /\ tried'[r] = tried[r] /\ target'[r] = target[r]
      BY <2>13, <3>1 DEF ClientTakes
    <3>3. reply'[r] = "response" /\ delivered'[r] > 0
      BY <2>0, <2>13 DEF ClientTakes
    <3> QED BY <2>0, <3>1, <3>2, <3>3
  <2>14. CASE ClientFails(r)
    <3>1. stage[r] # "done" /\ records[r] = <<>>
      BY <2>0, <2>14 DEF ClientFails
    <3>2. /\ stage'[r] = "done" /\ records'[r] = <<"request_failed">>
          /\ tried'[r] = tried[r] /\ target'[r] = target[r]
      BY <2>14, <3>1 DEF ClientFails
    <3> QED BY <2>0, <3>1, <3>2
  <2> QED BY <1>1, <2>1, <2>n, <2>2, <2>3, <2>4, <2>5, <2>6, <2>7, <2>8, <2>9, <2>10, <2>11, <2>12,
             <2>13, <2>14 DEF Handle
<1>2. CASE \E b \in Backends : HealthFlips(b)
  BY <1>2 DEF HealthFlips, RequestProgress
<1>3. CASE UNCHANGED vars
  BY <1>3 DEF vars, RequestProgress
<1> QED BY <1>1, <1>2, <1>3 DEF Next

-----------------------------------------------------------------------------
(* Attempts and deliveries *)

LEMMA AttemptsBound == Attempts \in Nat /\ 0 < Attempts /\ Attempts <= MaxBackendRetries + 1
  BY ProxyAssumption DEF Attempts

LEMMA BoundsInit == Init => Bounds
  BY AttemptsBound DEF Init, Bounds, RequestBounds

LEMMA BoundsStep ==
    ASSUME TypeOK, Progress, Bounds, [Next]_vars
    PROVE  Bounds'
<1> Attempts \in Nat /\ 0 < Attempts
  BY AttemptsBound
<1>1. ASSUME NEW r \in Requests, Handle(r)
      PROVE  Bounds'
  <2>0. RequestBounds(r) /\ RequestProgress(r)
    BY DEF Bounds, Progress
  <2>t. delivered[r] \in Nat /\ tried[r] \in Seq(Backends) /\ Len(tried[r]) \in Nat
    BY DEF TypeOK
  <2>o. ASSUME NEW q \in Requests, q # r PROVE RequestBounds(q)'
    <3>1. RequestBounds(q)
      BY DEF Bounds
    <3>2. stage'[q] = stage[q] /\ tried'[q] = tried[q] /\ delivered'[q] = delivered[q]
      BY <1>1, <2>o, OthersUntouched
    <3> QED BY <3>1, <3>2, Zenon DEF RequestBounds
  <2> SUFFICES RequestBounds(r)'
    BY <2>o DEF Bounds
  \* A step that makes no attempt and delivers nothing.
  <2>q. ASSUME tried'[r] = tried[r], delivered'[r] = delivered[r],
               \/ stage'[r] \in {"respond", "done"}
               \/ stage'[r] \in {"parse", "select"} /\ delivered[r] = 0 /\ tried[r] = <<>>
               \/ stage'[r] = stage[r]
        PROVE  RequestBounds(r)'
    <3>1. (tried[r] = <<>>) => Len(tried[r]) = 0
      OBVIOUS
    <3> QED BY <2>0, <2>t, <2>q, <3>1 DEF RequestBounds
  \* An attempt that is over.
  <2>d. ASSUME NEW how, Deliver(r, how), tried' = tried, stage[r] = "attempt",
               stage'[r] \in {"select", "respond", "done"},
               stage'[r] = "select" => Len(tried[r]) < Attempts
        PROVE  RequestBounds(r)'
    <3>1. delivered'[r] \in {delivered[r], delivered[r] + 1}
      BY <2>d DEF Deliver, TypeOK
    <3> QED BY <2>0, <2>t, <2>d, <3>1 DEF RequestBounds
  <2>1. CASE SetTimeoutFails(r)
    BY <2>q, <2>1 DEF SetTimeoutFails, Finish, TypeOK
  <2>n. CASE NoServers(r)
    BY <2>q, <2>n DEF NoServers, TypeOK
  <2>2. CASE Select(r)
    BY <2>0, <2>q, <2>2 DEF Select, StartSelect, TypeOK, RequestBounds, RequestProgress
  <2>3. CASE SelectSkip(r)
    BY <2>q, <2>3 DEF SelectSkip
  <2>4. CASE SelectTarget(r)
    <3>1. tried'[r] = tried[r] /\ delivered'[r] = delivered[r] /\ stage'[r] = "parse" /\ tried[r] = <<>>
      BY <2>4 DEF SelectTarget, TypeOK
    <3>2. Len(tried[r]) = 0
      BY <3>1
    <3>3. delivered[r] = 0
      BY <2>0, <2>t, <3>2 DEF RequestBounds
    <3> QED BY <2>q, <3>1, <3>3
  <2>5. CASE NoHealthyBackend(r)
    BY <2>q, <2>5 DEF NoHealthyBackend, Finish, TypeOK
  <2>6. CASE NextAttempt(r)
    <3>1. PICK b : tried' = [tried EXCEPT ![r] = Append(tried[r], b)]
      BY <2>6 DEF NextAttempt, Tried
    <3>2. /\ stage[r] = "select" /\ stage'[r] = "attempt" /\ delivered'[r] = delivered[r]
          /\ tried'[r] = Append(tried[r], b)
      BY <2>6, <3>1 DEF NextAttempt, Found, NotFound, TypeOK
    <3>3. Len(tried'[r]) = Len(tried[r]) + 1
      BY <2>t, <3>2
    <3> QED BY <2>0, <2>t, <3>2, <3>3 DEF RequestBounds
  <2>7. CASE RequestTooLarge(r)
    BY <2>q, <2>7 DEF RequestTooLarge, Finish, TypeOK
  <2>8. CASE ParseFails(r)
    BY <2>q, <2>8 DEF ParseFails, Finish, TypeOK
  <2>9. CASE ParseOk(r)
    <3>1. /\ stage[r] = "parse" /\ stage'[r] = "attempt" /\ delivered'[r] = delivered[r]
          /\ tried'[r] = <<target[r]>>
      BY <2>9 DEF ParseOk, TypeOK
    <3>2. Len(tried'[r]) = 1
      BY <3>1
    <3> QED BY <2>0, <2>t, <3>1, <3>2 DEF RequestBounds
  <2>10. CASE AttemptOk(r)
    <3>1. Deliver(r, "answered") /\ tried' = tried /\ stage[r] = "attempt" /\ stage'[r] = "respond"
      BY <2>10 DEF AttemptOk, TypeOK
    <3> QED BY <2>d, <3>1
  <2>11. CASE \E how \in Failures : Retry(r, how)
    <3>1. PICK how \in Failures : Retry(r, how)
      BY <2>11
    <3>2. /\ Deliver(r, how) /\ tried' = tried /\ stage[r] = "attempt" /\ stage'[r] = "select"
          /\ Len(tried[r]) < Attempts
      BY <3>1 DEF Retry, StartSelect, TypeOK
    <3> QED BY <2>d, <3>2
  <2>12. CASE \E how \in Failures : GiveUp(r, how)
    <3>1. PICK how \in Failures : GiveUp(r, how)
      BY <2>12
    <3>2. Deliver(r, how) /\ tried' = tried /\ stage[r] = "attempt" /\ stage'[r] = "done"
      BY <3>1 DEF GiveUp, Finish, TypeOK
    <3> QED BY <2>d, <3>2
  <2>13. CASE ClientTakes(r)
    BY <2>q, <2>13 DEF ClientTakes, Finish, TypeOK
  <2>14. CASE ClientFails(r)
    BY <2>q, <2>14 DEF ClientFails, Finish, TypeOK
  <2> QED BY <1>1, <2>1, <2>n, <2>2, <2>3, <2>4, <2>5, <2>6, <2>7, <2>8, <2>9, <2>10, <2>11, <2>12,
             <2>13, <2>14 DEF Handle
<1>2. CASE \E b \in Backends : HealthFlips(b)
  BY <1>2 DEF HealthFlips, Bounds, RequestBounds
<1>3. CASE UNCHANGED vars
  BY <1>3 DEF vars, Bounds, RequestBounds
<1> QED BY <1>1, <1>2, <1>3 DEF Next

-----------------------------------------------------------------------------
(* Where the tickets point *)

LEMMA TicketsInit == Init => Tickets
  BY DEF Init, Tickets, RequestTickets

\* What a step of another request does to q: nothing, or it draws a ticket, and
\* then q is no longer alone.
LEMMA OthersTickets ==
    ASSUME TypeOK, NEW r \in Requests, Handle(r), NEW q \in Requests, q # r, RequestTickets(q)
    PROVE  RequestTickets(q)'
<1>1. healthy' = healthy /\ (alone'[q] => alone[q] /\ next_index' = next_index)
  <2>1. \/ StartSelect(r)
        \/ healthy' = healthy /\ alone' = alone /\ next_index' = next_index
    BY DEF Handle, SetTimeoutFails, NoServers, Select, SelectSkip, SelectTarget, NoHealthyBackend, NextAttempt,
           RequestTooLarge, ParseFails, ParseOk, AttemptOk, Retry, GiveUp, ClientTakes, ClientFails,
           route_vars
  <2>2. CASE StartSelect(r)
    BY <2>2 DEF StartSelect
  <2> QED BY <2>1, <2>2
<1>2. /\ stage'[q] = stage[q] /\ tried'[q] = tried[q] /\ target'[q] = target[q]
      /\ start'[q] = start[q] /\ offset'[q] = offset[q] /\ in_turn'[q] = in_turn[q]
  BY OthersUntouched
<1>3. Current(q)' = Current(q)
  BY <1>2 DEF Current
<1> QED BY <1>1, <1>2, <1>3, Zenon DEF RequestTickets

LEMMA TicketsStep ==
    ASSUME TypeOK, Progress, Tickets, [Next]_vars
    PROVE  Tickets'
<1>1. ASSUME NEW r \in Requests, Handle(r)
      PROVE  Tickets'
  <2>0. RequestTickets(r) /\ RequestProgress(r)
    BY DEF Tickets, Progress
  <2> SUFFICES RequestTickets(r)'
    BY <1>1, OthersTickets DEF Tickets
  \* The stages that use no ticket.
  <2>q. ASSUME UNCHANGED route_vars, stage'[r] \in {"respond", "done"}
        PROVE  RequestTickets(r)'
    <3>1. alone'[r] = alone[r] /\ in_turn'[r] = in_turn[r] /\ healthy' = healthy
          /\ next_index' = next_index /\ start'[r] = start[r] /\ offset'[r] = offset[r]
      BY <2>q DEF route_vars
    <3> QED BY <2>0, <2>q, <3>1 DEF RequestTickets
  \* A new ticket.
  <2>s. ASSUME StartSelect(r), tried'[r] = tried[r], tried[r] # <<>> => stage[r] = "attempt"
        PROVE  RequestTickets(r)'
    <3> DEFINE allUp == \A b \in Backends : healthy[b]
    <3>1. /\ stage'[r] = "select" /\ start'[r] = next_index /\ offset'[r] = 0 /\ healthy' = healthy
          /\ next_index' = (next_index + 1) % N
      BY <2>s DEF StartSelect, TypeOK, NextTicket
    <3>2. (alone'[r] => allUp) /\ (in_turn'[r] => alone[r] /\ allUp)
      BY <2>s, Zenon DEF StartSelect, TypeOK
    <3>3. ASSUME in_turn'[r], tried'[r] # <<>>, N > 1
          PROVE  Current(r)' # start'[r]
      <4>1. Current(r)' = start[r] /\ next_index = (start[r] + 1) % N
        BY <2>0, <2>s, <3>2, <3>3 DEF RequestTickets, Current
      <4>2. start[r] \in Backends
        BY DEF TypeOK
      <4> QED BY <3>1, <3>3, <4>1, <4>2, SuccessorMoves
    <3>4. (\A b \in Backends : healthy[b])' <=> allUp
      BY <3>1
    <3> HIDE DEF allUp
    <3> QED BY <3>1, <3>2, <3>3, <3>4 DEF RequestTickets
  \* A scan that nothing disturbed finds the backend its ticket names.
  <2>f. ASSUME alone[r] \/ (in_turn[r] /\ stage[r] = "select" /\ tried[r] # <<>> /\ N > 1)
        PROVE  Looks(r) = start[r] /\ healthy[Looks(r)]
    <3>1. offset[r] = 0 /\ \A b \in Backends : healthy[b]
      BY <2>0, <2>f DEF RequestTickets
    <3>2. start[r] \in Backends
      BY DEF TypeOK
    <3> QED BY <3>1, <3>2, NoOffset DEF Looks
  <2>1. CASE SetTimeoutFails(r)
    BY <2>q, <2>1 DEF SetTimeoutFails, Finish, TypeOK
  <2>n. CASE NoServers(r)
    BY <2>q, <2>n DEF NoServers, TypeOK
  <2>2. CASE Select(r)
    BY <2>0, <2>2, <2>s DEF Select, RequestProgress
  <2>3. CASE SelectSkip(r)
    <3>1. ~alone[r] /\ ~(in_turn[r] /\ tried[r] # <<>> /\ N > 1)
      BY <2>3, <2>f DEF SelectSkip
    <3>2. /\ alone' = alone /\ in_turn' = in_turn /\ healthy' = healthy
          /\ tried' = tried /\ stage' = stage
      BY <2>3 DEF SelectSkip
    <3> QED BY <2>0, <3>1, <3>2 DEF RequestTickets
  <2>4. CASE SelectTarget(r)
    <3>1. stage'[r] = "parse" /\ target'[r] = Looks(r)
      BY <2>4 DEF SelectTarget, TypeOK
    <3>2. /\ alone' = alone /\ in_turn' = in_turn /\ healthy' = healthy
          /\ next_index' = next_index /\ start' = start /\ offset' = offset
      BY <2>4 DEF SelectTarget, route_vars
    <3> QED BY <2>0, <2>f, <3>1, <3>2 DEF RequestTickets
  <2>5. CASE NoHealthyBackend(r)
    BY <2>q, <2>5 DEF NoHealthyBackend, Finish, TypeOK
  <2>6. CASE NextAttempt(r)
    <3>1. stage'[r] = "attempt"
      BY <2>6 DEF NextAttempt, TypeOK
    <3>2. /\ alone' = alone /\ in_turn' = in_turn /\ healthy' = healthy
          /\ next_index' = next_index /\ start' = start /\ offset' = offset
      BY <2>6 DEF NextAttempt, route_vars
    <3>3. ASSUME alone[r] PROVE Current(r)' = start[r]
      <4>1. tried' = [tried EXCEPT ![r] = Append(tried[r], start[r])]
        BY <2>6, <2>f, <3>3 DEF NextAttempt, NotFound, Tried
      <4>2. tried'[r] = Append(tried[r], start[r]) /\ tried[r] \in Seq(Backends)
        BY <4>1 DEF TypeOK
      <4> QED BY <4>2 DEF Current
    <3> QED BY <2>0, <3>1, <3>2, <3>3 DEF RequestTickets
  <2>7. CASE RequestTooLarge(r)
    BY <2>q, <2>7 DEF RequestTooLarge, Finish, TypeOK
  <2>8. CASE ParseFails(r)
    BY <2>q, <2>8 DEF ParseFails, Finish, TypeOK
  <2>9. CASE ParseOk(r)
    <3>1. stage'[r] = "attempt" /\ tried'[r] = <<target[r]>> /\ stage[r] = "parse"
      BY <2>9 DEF ParseOk, TypeOK
    <3>2. /\ alone' = alone /\ in_turn' = in_turn /\ healthy' = healthy
          /\ next_index' = next_index /\ start' = start /\ offset' = offset
      BY <2>9 DEF ParseOk, route_vars
    <3>3. Current(r)' = target[r]
      BY <3>1 DEF Current
    <3> QED BY <2>0, <3>1, <3>2, <3>3 DEF RequestTickets
  <2>10. CASE AttemptOk(r)
    BY <2>q, <2>10 DEF AttemptOk, TypeOK
  <2>11. CASE \E how \in Failures : Retry(r, how)
    BY <2>s, <2>11 DEF Retry
  <2>12. CASE \E how \in Failures : GiveUp(r, how)
    BY <2>q, <2>12 DEF GiveUp, Finish, TypeOK
  <2>13. CASE ClientTakes(r)
    BY <2>q, <2>13 DEF ClientTakes, Finish, TypeOK
  <2>14. CASE ClientFails(r)
    BY <2>q, <2>14 DEF ClientFails, Finish, TypeOK
  <2> QED BY <1>1, <2>1, <2>n, <2>2, <2>3, <2>4, <2>5, <2>6, <2>7, <2>8, <2>9, <2>10, <2>11, <2>12,
             <2>13, <2>14 DEF Handle
<1>2. CASE \E b \in Backends : HealthFlips(b)
  <2>1. ASSUME NEW r \in Requests
        PROVE  ~alone'[r] /\ ~in_turn'[r] /\ stage'[r] = stage[r]
    BY <1>2 DEF HealthFlips
  <2> QED BY <2>1 DEF Tickets, RequestTickets
<1>3. CASE UNCHANGED vars
  <2>1. /\ alone' = alone /\ in_turn' = in_turn /\ healthy' = healthy /\ next_index' = next_index
        /\ start' = start /\ offset' = offset /\ tried' = tried /\ stage' = stage /\ target' = target
    BY <1>3 DEF vars, route_vars
  <2>2. \A r \in Requests : Current(r)' = Current(r)
    BY <2>1 DEF Current
  <2> QED BY <2>1, <2>2 DEF Tickets, RequestTickets
<1> QED BY <1>1, <1>2, <1>3 DEF Next

-----------------------------------------------------------------------------
(* The theorems *)

LEMMA ProxyInvariant == Spec => []ProxyInv
<1>1. Init => ProxyInv
  BY TypeInit, ProgressInit, BoundsInit DEF ProxyInv
<1>2. ProxyInv /\ [Next]_vars => ProxyInv'
  BY TypeStep, ProgressStep, BoundsStep DEF ProxyInv
<1> QED BY <1>1, <1>2, PTL DEF Spec

\* Every variable of the requests handled by handle_connection keeps its type;
\* in particular the scan never leaves the list of backends, and the list of
\* attempts holds backends only.
THEOREM TypeCorrect == Spec => []TypeOK
<1>1. ProxyInv => TypeOK
  BY DEF ProxyInv
<1> QED BY <1>1, ProxyInvariant, PTL

\* Every path through handle_connection, retries included, ends with exactly one
\* request_complete or request_failed record, the former only for a request that
\* a backend got and whose response the client took; except that with an empty
\* BackendSet the handler passes EmptyServerList on, without a record and
\* without an answer.
THEOREM OneRecord == Spec => []OneRecordPerRequest
<1>1. ProxyInv => OneRecordPerRequest
  <2> SUFFICES ASSUME Progress, NEW r \in Requests
               PROVE  /\ Len(records[r]) <= 1
                      /\ stage[r] = "done" <=>
                            \/ records[r] # <<>>
                            \/ listed = 0 /\ stage[r] # "new" /\ reply[r] = "none"
                      /\ records[r] = <<"request_complete">> =>
                            reply[r] = "response" /\ delivered[r] > 0
    BY DEF ProxyInv, OneRecordPerRequest
  <2>1. RequestProgress(r)
    BY DEF Progress
  <2>2. records[r] = <<>> \/ \E x \in Records : records[r] = <<x>>
    BY <2>1 DEF RequestProgress
  <2>3. Len(records[r]) <= 1
    <3>1. CASE records[r] = <<>>
      BY <3>1
    <3>2. CASE \E x \in Records : records[r] = <<x>>
      <4>1. PICK x \in Records : records[r] = <<x>>
        BY <3>2
      <4> QED BY <4>1
    <3> QED BY <2>2, <3>1, <3>2
  <2>4. (\E x \in Records : records[r] = <<x>>) => records[r] # <<>>
    OBVIOUS
  <2> QED BY <2>1, <2>3, <2>4 DEF RequestProgress
<1> QED BY <1>1, ProxyInvariant, PTL

\* Whatever the number of backends, retries and concurrent requests, and also
\* where max_backend_retries is the largest u32: a request goes out whole at
\* most once per attempt, in at most max_backend_retries + 1 attempts.
THEOREM DeliveriesBounded == Spec => []DeliveriesAreBounded
<1>1. ProxyInv => DeliveriesAreBounded
  <2> SUFFICES ASSUME TypeOK, Bounds, NEW r \in Requests
               PROVE  delivered[r] <= Len(tried[r]) /\ Len(tried[r]) <= MaxBackendRetries + 1
    BY DEF ProxyInv, DeliveriesAreBounded
  <2>1. RequestBounds(r) /\ tried[r] \in Seq(Backends)
    BY DEF Bounds, TypeOK
  <2>2. Len(tried[r]) \in Nat
    BY <2>1
  <2> QED BY <2>1, <2>2, AttemptsBound, ProxyAssumption DEF RequestBounds
<1> QED BY <1>1, ProxyInvariant, PTL

\* proxy_with_retries does not go back to the backend that just failed, unless
\* another request drew a ticket in between or a backend was down.
THEOREM RetriesMoveOn == Spec => RetryMovesOn
<1> DEFINE Moves == \A r \in Requests :
               N > 1 /\ in_turn[r] /\ tried[r] # <<>> /\ tried'[r] # tried[r]
                   => tried'[r][Len(tried'[r])] # Current(r)
<1>1. Init => RoutingInv
  BY TypeInit, ProgressInit, TicketsInit DEF RoutingInv
<1>2. RoutingInv /\ [Next]_vars => RoutingInv'
  BY TypeStep, ProgressStep, TicketsStep DEF RoutingInv
<1>3. RoutingInv /\ [Next]_vars => [Moves]_vars
  <2> SUFFICES ASSUME RoutingInv, Next,
                      NEW r \in Requests, N > 1, in_turn[r], tried[r] # <<>>, tried'[r] # tried[r]
               PROVE  tried'[r][Len(tried'[r])] # Current(r)
    BY DEF vars
  <2>1. TypeOK /\ RequestProgress(r) /\ RequestTickets(r)
    BY DEF RoutingInv, Progress, Tickets
  <2>2. NextAttempt(r)
    <3>1. ~ \E b \in Backends : HealthFlips(b)
      BY DEF HealthFlips
    <3>2. PICK q \in Requests : Handle(q)
      BY <3>1 DEF Next
    <3>3. q = r
      BY <2>1, <3>2, OthersUntouched
    <3>4. tried' # tried
      OBVIOUS
    <3>5. ~ParseOk(r)
      BY <2>1 DEF ParseOk, RequestProgress
    <3> QED BY <3>2, <3>3, <3>4, <3>5
            DEF Handle, SetTimeoutFails, NoServers, Select, SelectSkip, SelectTarget, NoHealthyBackend,
                RequestTooLarge, ParseFails, AttemptOk, Retry, GiveUp, ClientTakes, ClientFails
  <2>3. stage[r] = "select" /\ (Found(r) \/ NotFound(r))
    BY <2>2 DEF NextAttempt, Found, NotFound
  <2>4. offset[r] = 0 /\ Current(r) # start[r] /\ start[r] \in Backends
        /\ \A b \in Backends : healthy[b]
    BY <2>1, <2>3 DEF RequestTickets, TypeOK
  <2>5. Looks(r) = start[r]
    BY <2>4, NoOffset DEF Looks
  <2>6. tried' = [tried EXCEPT ![r] = Append(tried[r], start[r])]
    BY <2>2, <2>4, <2>5 DEF NextAttempt, NotFound, Tried
  <2>7. tried'[r] = Append(tried[r], start[r]) /\ tried[r] \in Seq(Backends)
    BY <2>1, <2>6 DEF TypeOK
  <2>8. tried'[r][Len(tried'[r])] = start[r]
    BY <2>4, <2>7
  <2> QED BY <2>4, <2>8
<1>4. RetryMovesOn <=> [][Moves]_vars
  BY DEF RetryMovesOn
<1> QED BY <1>1, <1>2, <1>3, <1>4, PTL DEF Spec
=============================================================================
