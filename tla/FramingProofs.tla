---------------------------- MODULE FramingProofs ----------------------------
(***************************************************************************)
(* Proofs about module Framing, for any limits, any messages and any way   *)
(* TCP cuts them into reads: the types, the bounds on what a peer can make *)
(* a reader keep, that what is taken for a message is what was sent, and   *)
(* what becomes of it.                                                     *)
(*                                                                         *)
(* The bounds hold only because of where the code checks its limits: a     *)
(* length that is announced is refused before anything is read for it, and *)
(* a body without one is checked after every read (BodyBound).             *)
(* Nothing is lost because whatever the socket handed out is, at every     *)
(* step, in the head, the body or the prefix, in this order (Stream).      *)
(*                                                                         *)
(* For the rest the written message is laid out: where its head, its       *)
(* chunks and their size lines are (WrittenFacts, ChunkedFacts), by        *)
(* induction over the parts of FlattenSeq.  PlaceInv says where in it the  *)
(* reader is; InChunks, which chunk it has come to, with the data of the   *)
(* ones before it.  Each way to return then has a lemma (HeadVerdict to    *)
(* EndVerdict), and VerdictStep puts them together.                        *)
(***************************************************************************)
EXTENDS Framing, SequenceTheorems, WellFoundedInduction, TLAPS

Tokens == Seq(STRING)

PcStates == {"head", "parse", "rest", "fixed", "eof", "size", "size_line", "data", "delim",
             "last", "last_line", "done"}
ResponseStates == PcStates \ {"head", "parse", "rest", "done"}
Outcomes == {"none", "ok", "parse", "empty", "io", "too_large"}

Types ==
    /\ input \in Inputs
    /\ pos \in 0 .. Len(input.wire)
    /\ pc \in PcStates
    /\ buf \in Tokens /\ prefix \in Tokens /\ body \in Tokens /\ line \in Tokens
    /\ need \in Nat
    /\ outcome \in Outcomes
    /\ pc = "done" <=> outcome # "none"
    /\ disturbed \in BOOLEAN

\* Where the reader of a request or of a response can be, and what it has then.
Stage ==
    /\ pc = "parse" => HeadEnds(buf) # {}
    /\ pc = "rest" => input.role = "request"
    /\ pc \in ResponseStates => input.role = "response"
    /\ pc \in {"head", "parse"} => body = <<>>
    /\ pc \in {"head", "parse", "eof"} => need = 0
    /\ pc = "data" => need > 0

\* The limits, while there is something to read and when there is not.
BodyBound ==
    /\ Len(buf) <= MaxHeader + ReadSize
    /\ Len(line) <= MaxLine + 1
    /\ pc # "done" => Len(line) <= MaxLine
    /\ input.role = "request" => Len(body) + need <= MaxBody
    /\ input.role = "response" => Len(body) + need <= MaxResponse + ReadSize
    /\ input.role = "response" /\ (pc # "done" \/ outcome = "ok") => Len(body) + need <= MaxResponse

FramingInv == Types /\ Stage /\ BodyBound

LEMMA Limits ==
    /\ ReadSize \in Nat \ {0} /\ MaxHeader \in Nat \ {0} /\ MaxBody \in Nat \ {0}
    /\ MaxResponse \in Nat \ {0} /\ MaxLine \in Nat \ {0}
  BY LimitAssumption

LEMMA InputTypes ==
    ASSUME input \in Inputs
    PROVE  input.role \in {"request", "response"} /\ input.wire \in Tokens /\ Len(input.wire) \in Nat
  BY InputAssumption DEF Tokens

-----------------------------------------------------------------------------
(* Sequences *)

LEMMA SubSeqFacts ==
    ASSUME NEW s \in Tokens, NEW m \in Nat, m >= 1, NEW n \in Nat, n <= Len(s)
    PROVE  /\ SubSeq(s, m, n) \in Tokens
           /\ Len(SubSeq(s, m, n)) = IF m <= n THEN n - m + 1 ELSE 0
           /\ \A i \in 1 .. (n - m + 1) : SubSeq(s, m, n)[i] = s[m + i - 1]
<1>1. \A i \in m .. n : s[i] \in STRING
  BY DEF Tokens
<1>2. m \in Int /\ n \in Int
  OBVIOUS
<1> QED BY <1>1, <1>2, SubSeqProperties DEF Tokens

LEMMA DropFacts ==
    ASSUME NEW s \in Tokens, NEW n \in Nat, n <= Len(s)
    PROVE  Drop(s, n) \in Tokens /\ Len(Drop(s, n)) = Len(s) - n
<1>1. Len(s) \in Nat
  BY DEF Tokens
<1>2. SubSeq(s, n + 1, Len(s)) \in Tokens
      /\ Len(SubSeq(s, n + 1, Len(s))) = IF n + 1 <= Len(s) THEN Len(s) - (n + 1) + 1 ELSE 0
  BY <1>1, SubSeqFacts
<1> QED BY <1>1, <1>2 DEF Drop

LEMMA ConcatFacts ==
    ASSUME NEW s \in Tokens, NEW t \in Tokens
    PROVE  s \o t \in Tokens /\ Len(s \o t) = Len(s) + Len(t)
  BY DEF Tokens

\* A set of indices that is not empty has a smallest one.
LEMMA MinFacts ==
    ASSUME NEW T, T \subseteq Nat, T # {}
    PROVE  Min(T) \in T
<1>1. PICK x \in T : \A y \in T : ~ (<<y, x>> \in OpToRel(<, Nat))
  BY WFMin, NatLessThanWellFounded, Zenon
<1>2. ASSUME NEW y \in T PROVE x <= y
  <2>1. x \in Nat /\ y \in Nat
    OBVIOUS
  <2>2. ~ (y < x)
    BY <1>1, <2>1 DEF OpToRel
  <2> QED BY <2>1, <2>2
<1>3. \E z \in T : \A y \in T : z =< y
  BY <1>2
<1> QED BY <1>3 DEF Min

LEMMA MinIs ==
    ASSUME NEW T, NEW x \in T, T \subseteq Nat, \A y \in T : x <= y
    PROVE  Min(T) = x
<1>1. Min(T) \in T /\ \A y \in T : Min(T) =< y
  BY Zenon DEF Min
<1>2. Min(T) \in Nat /\ x \in Nat /\ Min(T) <= x /\ x <= Min(T)
  BY <1>1
<1> QED BY <1>2

-----------------------------------------------------------------------------
(* Reads *)

\* What a read of up to k tokens returns, and what it leaves.
LEMMA ReadFacts ==
    ASSUME Types, NEW k \in Nat \ {0}, NEW seg \in Segments(k), Consume(seg)
    PROVE  /\ seg \in Tokens /\ Len(seg) \in 1 .. k
           /\ pos' \in 0 .. Len(input.wire) /\ prefix' \in Tokens
<1>0. input.wire \in Tokens /\ Len(input.wire) \in Nat /\ pos \in 0 .. Len(input.wire)
      /\ prefix \in Tokens /\ Len(prefix) \in Nat
  BY InputTypes DEF Types, Tokens
<1>1. CASE prefix # <<>>
  <2> DEFINE n == Smaller(k, Len(prefix))
  <2>1. seg = SubSeq(prefix, 1, n)
    BY <1>1 DEF Segments
  <2>2. Len(prefix) > 0
    BY <1>0, <1>1 DEF Tokens
  <2>3. n \in 1 .. k /\ n <= Len(prefix)
    BY <1>0, <2>2 DEF Smaller
  <2> HIDE DEF n
  <2>4. seg \in Tokens /\ Len(seg) = n
    BY <1>0, <2>1, <2>3, SubSeqFacts
  <2>5. prefix' = Drop(prefix, n) /\ pos' = pos
    BY <1>1, <2>4 DEF Consume
  <2>6. Drop(prefix, n) \in Tokens
    BY <1>0, <2>3, DropFacts
  <2> QED BY <1>0, <2>3, <2>4, <2>5, <2>6
<1>2. CASE prefix = <<>>
  <2>1. PICK n \in 1 .. Smaller(k, Len(input.wire) - pos) : seg = SubSeq(input.wire, pos + 1, pos + n)
    BY <1>2 DEF Segments
  <2>2. n \in 1 .. k /\ n <= Len(input.wire) - pos
    BY <1>0 DEF Smaller
  <2>3. seg \in Tokens /\ Len(seg) = n
    <3>1. pos + 1 \in Nat /\ pos + n \in Nat /\ pos + n <= Len(input.wire) /\ pos + 1 >= 1 /\ pos + 1 <= pos + n
          /\ (pos + n) - (pos + 1) + 1 = n
      BY <1>0, <2>2
    <3> QED BY <1>0, <2>1, <3>1, SubSeqFacts
  <2>4. pos' = pos + n /\ prefix' = prefix
    BY <1>2, <2>3 DEF Consume
  <2> QED BY <1>0, <2>2, <2>3, <2>4
<1> QED BY <1>1, <1>2

\* The head that has been found, and what came with it.
LEMMA HeadFacts ==
    ASSUME Types, HeadEnds(buf) # {}
    PROVE  /\ RawHead \in Tokens /\ Len(RawHead) <= Len(buf)
           /\ LeftOver \in Tokens /\ Len(LeftOver) <= Len(buf)
<1>1. buf \in Tokens /\ Len(buf) \in Nat
  BY DEF Types, Tokens
<1>2. HeadEnds(buf) \subseteq 2 .. Len(buf) /\ HeadEnds(buf) \subseteq Nat
  BY <1>1 DEF HeadEnds
<1>3. Min(HeadEnds(buf)) \in 2 .. Len(buf)
  BY <1>2, MinFacts
<1>4. RawHead \in Tokens /\ Len(RawHead) = Min(HeadEnds(buf))
  BY <1>1, <1>3, SubSeqFacts DEF RawHead
<1>5. LeftOver \in Tokens /\ Len(LeftOver) = Len(buf) - Min(HeadEnds(buf))
  BY <1>1, <1>3, DropFacts DEF LeftOver
<1> QED BY <1>1, <1>3, <1>4, <1>5

\* A length that is well-formed is a number.
LEMMA LengthFacts ==
    ASSUME NEW h \in Tokens, HasLength(h), ~LengthIsBad(h)
    PROVE  LengthOf(h) \in Nat
<1>1. FieldsNamed(h, LengthNames) \subseteq Nat /\ FieldsNamed(h, LengthNames) # {}
  BY DEF FieldsNamed, HasLength, Tokens
<1>2. Min(FieldsNamed(h, LengthNames)) \in FieldsNamed(h, LengthNames)
  BY <1>1, MinFacts
<1>3. header_field(h, LengthNames) \in LengthNames
  BY <1>2 DEF FieldsNamed, header_field
<1>4. header_field(h, LengthNames) \in DOMAIN ContentLength
  BY <1>3 DEF LengthIsBad, LengthNames
<1> QED BY <1>4, LimitAssumption DEF LengthOf

-----------------------------------------------------------------------------
(* The steps *)

LEMMA LengthTypes ==
    ASSUME Types
    PROVE  Len(buf) \in Nat /\ Len(prefix) \in Nat /\ Len(body) \in Nat /\ Len(line) \in Nat
           /\ input.role \in {"request", "response"}
  BY InputTypes DEF Types, Tokens

LEMMA FailStep ==
    ASSUME FramingInv, pc # "done", NEW e \in {"parse", "empty", "io", "too_large"},
           pc' = "done", outcome' = e, disturbed' \in BOOLEAN,
           UNCHANGED <<input, pos, buf, prefix, body, need, line>>
    PROVE  FramingInv'
<1>1. Types'
  BY DEF FramingInv, Types, Outcomes, PcStates
<1>2. Stage'
  BY DEF Stage, ResponseStates
<1>3. BodyBound'
  BY DEF FramingInv, BodyBound
<1> QED BY <1>1, <1>2, <1>3 DEF FramingInv

LEMMA HeadStep == ASSUME FramingInv, HeaderTooLong \/ ReadHeader PROVE FramingInv'
<1>0. Types /\ Len(buf) \in Nat
  BY LengthTypes DEF FramingInv
<1>1. CASE HeaderTooLong
  BY <1>0, <1>1, FailStep DEF HeaderTooLong, Fail, Types
<1>2. CASE ReadHeader
  <2>1. PICK seg \in Segments(ReadSize) :
           /\ buf' = buf \o seg /\ Consume(seg)
           /\ pc' = IF HeadEnds(buf \o seg) # {} THEN "parse" ELSE "head"
    BY <1>2 DEF ReadHeader
  <2>2. pc = "head" /\ Len(buf) <= MaxHeader /\ UNCHANGED <<input, body, need, line, outcome, disturbed>>
    BY <1>2 DEF ReadHeader, HeaderRoom
  <2>3. seg \in Tokens /\ Len(seg) \in 1 .. ReadSize /\ pos' \in 0 .. Len(input.wire) /\ prefix' \in Tokens
    BY <1>0, <2>1, Limits, ReadFacts
  <2>4. buf' \in Tokens /\ Len(buf') = Len(buf) + Len(seg)
    BY <1>0, <2>1, <2>3, ConcatFacts DEF Types
  <2>5. Types'
    BY <1>0, <2>1, <2>2, <2>3, <2>4 DEF Types, PcStates
  <2>6. Stage'
    BY <2>1, <2>2 DEF FramingInv, Stage, ResponseStates
  <2>7. Len(buf') <= MaxHeader + ReadSize
    BY <1>0, <2>2, <2>3, <2>4, Limits
  <2>8. BodyBound'
    BY <2>1, <2>2, <2>7 DEF FramingInv, BodyBound
  <2> QED BY <2>5, <2>6, <2>8 DEF FramingInv
<1> QED BY <1>1, <1>2

LEMMA RequestStep == ASSUME FramingInv, ParseRequest \/ ReadRest \/ RequestDone PROVE FramingInv'
<1>0. Types /\ Stage /\ BodyBound /\ Len(body) \in Nat /\ need \in Nat
  BY LengthTypes DEF FramingInv, Types
<1>1. CASE ParseRequest
  <2> DEFINE h == RawHead
             n == IF HasLength(h) THEN LengthOf(h) ELSE 0
  <2>1. pc = "parse" /\ input.role = "request" /\ outcome = "none"
    BY <1>0, <1>1 DEF ParseRequest, Types
  <2>2. h \in Tokens /\ FirstPart \in Tokens /\ Len(FirstPart) \in Nat
    <3>1. h \in Tokens /\ FirstPart \in Tokens
      BY <1>0, <2>1, HeadFacts DEF Stage, FirstPart
    <3> QED BY <3>1 DEF Tokens
  <2>3. CASE \E e \in {"parse", "too_large"} : Fail(e)
    BY <1>0, <2>1, <2>3, FailStep DEF Fail, Types
  <2>4. CASE ~(\E e \in {"parse", "too_large"} : Fail(e))
    <3>1. ~LengthIsBad(h) /\ ~(n > MaxBody) /\ ~(Len(FirstPart) > MaxBody)
          /\ body' = FirstPart /\ need' = Remaining(n, Len(FirstPart)) /\ pc' = "rest"
          /\ UNCHANGED <<input, pos, buf, prefix, line, outcome, disturbed>>
      BY <1>1, <2>4 DEF ParseRequest
    <3>2. n \in Nat
      BY <2>2, <3>1, LengthFacts
    <3> HIDE DEF n, h
    <3>3. need' \in Nat /\ Len(body') + need' <= MaxBody
      BY <2>2, <3>1, <3>2, Limits DEF Remaining
    <3>4. Types'
      BY <1>0, <2>1, <2>2, <3>1, <3>3 DEF Types, PcStates
    <3>5. Stage'
      BY <2>1, <3>1 DEF Stage, ResponseStates
    <3>6. BodyBound'
      BY <1>0, <2>1, <3>1, <3>3 DEF BodyBound
    <3> QED BY <3>4, <3>5, <3>6 DEF FramingInv
  <2> QED BY <2>3, <2>4
<1>2. CASE ReadRest
  <2>1. PICK seg \in Segments(need) : body' = body \o seg /\ need' = need - Len(seg) /\ Consume(seg)
    BY <1>2 DEF ReadRest
  <2>2. pc = "rest" /\ need > 0 /\ UNCHANGED <<input, pc, buf, line, outcome, disturbed>>
    BY <1>2 DEF ReadRest
  <2>3. input.role = "request"
    BY <1>0, <2>2 DEF Stage
  <2>4. seg \in Tokens /\ Len(seg) \in 1 .. need /\ pos' \in 0 .. Len(input.wire) /\ prefix' \in Tokens
    BY <1>0, <2>1, <2>2, ReadFacts
  <2>5. body' \in Tokens /\ Len(body') = Len(body) + Len(seg)
    BY <1>0, <2>1, <2>4, ConcatFacts DEF Types
  <2>6. need' \in Nat /\ Len(body') + need' = Len(body) + need
    BY <1>0, <2>1, <2>4, <2>5
  <2>7. Types'
    BY <1>0, <2>2, <2>4, <2>5, <2>6 DEF Types
  <2>8. Stage'
    BY <2>2, <2>3 DEF Stage, ResponseStates
  <2>9. BodyBound'
    BY <1>0, <2>2, <2>3, <2>6 DEF BodyBound
  <2> QED BY <2>7, <2>8, <2>9 DEF FramingInv
<1>3. CASE RequestDone
  <2>1. pc = "rest" /\ pc' = "done" /\ outcome' = "ok"
        /\ UNCHANGED <<input, pos, buf, prefix, body, need, line, disturbed>>
    BY <1>3 DEF RequestDone
  <2>2. input.role = "request"
    BY <1>0, <2>1 DEF Stage
  <2>3. Types'
    BY <1>0, <2>1 DEF Types, PcStates, Outcomes
  <2>4. Stage'
    BY <2>1 DEF Stage, ResponseStates
  <2>5. BodyBound'
    BY <1>0, <2>1, <2>2 DEF BodyBound
  <2> QED BY <2>3, <2>4, <2>5 DEF FramingInv
<1> QED BY <1>1, <1>2, <1>3

LEMMA DoneStep ==
    ASSUME FramingInv, pc \in ResponseStates, ResponseDone(body),
           UNCHANGED <<input, pos, buf, prefix, need, line, disturbed>>
    PROVE  FramingInv'
<1>1. pc' = "done" /\ outcome' = "ok" /\ body' = body /\ pc # "done"
  BY DEF ResponseDone, ResponseStates
<1>2. input.role = "response"
  BY DEF FramingInv, Stage
<1>3. Types'
  BY <1>1 DEF FramingInv, Types, PcStates, Outcomes
<1>4. Stage'
  BY <1>1 DEF Stage, ResponseStates
<1>5. BodyBound'
  BY <1>1, <1>2 DEF FramingInv, BodyBound
<1> QED BY <1>3, <1>4, <1>5 DEF FramingInv

\* A read that belongs to no body and leaves the limits alone.
LEMMA QuietStep ==
    ASSUME FramingInv, pc \in ResponseStates, pc' \in (ResponseStates \ {"eof"}) \cup {"done"},
           pos' \in 0 .. Len(input.wire), prefix' \in Tokens, line' \in Tokens,
           Len(line') <= MaxLine + 1, pc' # "done" => Len(line') <= MaxLine,
           outcome' \in Outcomes \ {"ok"}, pc' = "done" <=> outcome' # "none",
           need' \in Nat, Len(body) + need' <= MaxResponse, pc' = "data" => need' > 0,
           UNCHANGED <<input, buf, body, disturbed>>
    PROVE  FramingInv'
<1>0. Types /\ Stage /\ BodyBound /\ input.role = "response" /\ Len(body) \in Nat
  BY LengthTypes DEF FramingInv, Stage
<1>1. Types'
  BY <1>0 DEF Types, PcStates, ResponseStates
<1>2. Stage'
  BY <1>0 DEF Stage, ResponseStates
<1>3. Len(body') + need' <= MaxResponse + ReadSize
  <2>1. \A a \in Nat : a <= MaxResponse => a <= MaxResponse + ReadSize
    BY Limits
  <2>2. Len(body) + need' \in Nat /\ body' = body
    BY <1>0
  <2> QED BY <2>1, <2>2
<1>4. BodyBound'
  BY <1>0, <1>3 DEF BodyBound
<1> QED BY <1>1, <1>2, <1>4 DEF FramingInv

LEMMA ParseResponseStep == ASSUME FramingInv, ParseResponse PROVE FramingInv'
<1> DEFINE h == RawHead
<1>0. Types /\ Stage /\ BodyBound
  BY DEF FramingInv
<1>1. pc = "parse" /\ input.role = "response" /\ outcome = "none" /\ body = <<>> /\ Len(body) = 0
  BY <1>0 DEF ParseResponse, Types, Stage
<1>2. h \in Tokens /\ LeftOver \in Tokens
  BY <1>0, <1>1, HeadFacts DEF Stage
<1>3. CASE \E e \in {"parse", "too_large"} : Fail(e)
  BY <1>0, <1>1, <1>3, FailStep DEF Fail, Types
<1>4. CASE ~(\E e \in {"parse", "too_large"} : Fail(e))
  <2>1. /\ prefix' = LeftOver /\ UNCHANGED <<input, pos, buf, body, line, outcome, disturbed>>
        /\ \/ pc' \in {"fixed", "size", "eof"} /\ need' = 0
           \/ /\ pc' = "fixed" /\ need' = LengthOf(h) /\ ~LengthIsBad(h) /\ HasLength(h)
              /\ ~(LengthOf(h) > MaxResponse)
    BY <1>4 DEF ParseResponse
  <2>2. need' \in Nat /\ need' <= MaxResponse
    BY <1>2, <2>1, LengthFacts, Limits
  <2> HIDE DEF h
  <2>3. Types'
    BY <1>0, <1>1, <1>2, <2>1, <2>2 DEF Types, PcStates
  <2>4. Stage'
    BY <1>1, <2>1 DEF Stage, ResponseStates
  <2>5. Len(body') + need' <= MaxResponse /\ Len(body') + need' <= MaxResponse + ReadSize
    <3>1. \A a \in Nat : a <= MaxResponse => 0 + a <= MaxResponse /\ 0 + a <= MaxResponse + ReadSize
      BY Limits
    <3>2. Len(body') = 0
      BY <1>1, <2>1
    <3> QED BY <2>2, <3>1, <3>2
  <2>6. BodyBound'
    BY <1>0, <1>1, <2>1, <2>5 DEF BodyBound
  <2> QED BY <2>3, <2>4, <2>6 DEF FramingInv
<1> QED BY <1>3, <1>4

\* read_fixed_body and the read_exact of a chunk take what they wait for, no more.
LEMMA NeededStep ==
    ASSUME FramingInv, pc \in {"fixed", "data"}, pc' \in ResponseStates \ {"eof"}, need > 0,
           NEW k \in 1 .. need, NEW seg \in Segments(k), Consume(seg),
           body' = body \o seg, need' = need - Len(seg), pc' = "data" => need' > 0,
           UNCHANGED <<input, buf, line, outcome, disturbed>>
    PROVE  FramingInv'
<1>0. Types /\ Stage /\ BodyBound /\ Len(body) \in Nat /\ need \in Nat /\ input.role = "response"
      /\ pc # "done"
  BY LengthTypes DEF FramingInv, Types, Stage, ResponseStates, PcStates
<1>1. seg \in Tokens /\ Len(seg) \in 1 .. k /\ pos' \in 0 .. Len(input.wire) /\ prefix' \in Tokens
  <2>1. k \in Nat \ {0}
    BY <1>0
  <2> QED BY <1>0, <2>1, ReadFacts
<1>2. body' \in Tokens /\ Len(body') = Len(body) + Len(seg)
  BY <1>0, <1>1, ConcatFacts DEF Types
<1>3. need' \in Nat /\ Len(body') + need' = Len(body) + need
  BY <1>0, <1>1, <1>2
<1>4. Types'
  BY <1>0, <1>1, <1>2, <1>3 DEF Types, PcStates, ResponseStates
<1>5. Stage'
  BY <1>0 DEF Stage, ResponseStates
<1>6. BodyBound'
  BY <1>0, <1>3 DEF BodyBound
<1> QED BY <1>4, <1>5, <1>6 DEF FramingInv

LEMMA BodyStep == ASSUME FramingInv, ReadFixed \/ ReadChunk \/ ReadUntilEof PROVE FramingInv'
<1>0. Types /\ Stage /\ BodyBound /\ Len(body) \in Nat /\ need \in Nat
  BY LengthTypes DEF FramingInv, Types
<1>1. CASE ReadFixed
  <2>1. pc = "fixed" /\ UNCHANGED <<input, buf, line, disturbed>>
    BY <1>1 DEF ReadFixed
  <2>2. CASE need = 0
    <3>1. ResponseDone(body) /\ UNCHANGED <<pos, prefix, need>>
      BY <1>1, <2>2 DEF ReadFixed
    <3> QED BY <2>1, <3>1, DoneStep DEF ResponseStates, PcStates
  <2>3. CASE need # 0
    <3>1. PICK seg \in Segments(Smaller(need, ReadSize)) :
             body' = body \o seg /\ need' = need - Len(seg) /\ Consume(seg) /\ UNCHANGED <<pc, outcome>>
      BY <1>1, <2>3 DEF ReadFixed
    <3>2. Smaller(need, ReadSize) \in 1 .. need /\ need > 0
      BY <1>0, <2>3, Limits DEF Smaller
    <3>3. pc' \in ResponseStates \ {"eof"} /\ pc' # "data"
      BY <2>1, <3>1 DEF ResponseStates, PcStates
    <3> QED BY <2>1, <3>1, <3>2, <3>3, NeededStep
  <2> QED BY <2>2, <2>3
<1>2. CASE ReadChunk
  <2>1. PICK seg \in Segments(need) :
           /\ body' = body \o seg /\ need' = need - Len(seg) /\ Consume(seg)
           /\ pc' = IF need = Len(seg) THEN "delim" ELSE "data"
    BY <1>2 DEF ReadChunk
  <2>2. pc = "data" /\ UNCHANGED <<input, buf, line, outcome, disturbed>>
    BY <1>2 DEF ReadChunk
  <2>3. pc' \in ResponseStates \ {"eof"}
    BY <2>1 DEF ResponseStates, PcStates
  <2>4. need > 0
    BY <1>0, <2>2 DEF Stage
  <2>5. need \in 1 .. need /\ need \in Nat \ {0}
    BY <1>0, <2>4
  <2>6. Len(seg) \in 1 .. need
    BY <1>0, <2>1, <2>5, ReadFacts
  <2>7. pc' = "data" => need' > 0
    BY <1>0, <2>1, <2>6
  <2> QED BY <2>1, <2>2, <2>3, <2>4, <2>5, <2>7, NeededStep
<1>3. CASE ReadUntilEof
  <2>1. PICK seg \in Segments(ReadSize) :
           /\ body' = body \o seg /\ Consume(seg)
           /\ IF Len(body \o seg) > MaxResponse
              THEN pc' = "done" /\ outcome' = "too_large"
              ELSE UNCHANGED <<pc, outcome>>
    BY <1>3 DEF ReadUntilEof
  <2>2. pc = "eof" /\ outcome = "none" /\ UNCHANGED <<input, buf, need, line, disturbed>>
    BY <1>0, <1>3 DEF ReadUntilEof, Types
  <2>3. need = 0 /\ input.role = "response" /\ Len(body) + need <= MaxResponse
    BY <1>0, <2>2 DEF Stage, BodyBound, ResponseStates, PcStates
  <2>4. seg \in Tokens /\ Len(seg) \in 1 .. ReadSize /\ pos' \in 0 .. Len(input.wire) /\ prefix' \in Tokens
    BY <1>0, <2>1, Limits, ReadFacts
  <2>5. body' \in Tokens /\ Len(body') = Len(body) + Len(seg)
    BY <1>0, <2>1, <2>4, ConcatFacts DEF Types
  <2>6. Len(body') + need' <= MaxResponse + ReadSize
    BY <1>0, <2>2, <2>3, <2>4, <2>5, Limits
  <2>7. \/ pc' = "done" /\ outcome' = "too_large"
        \/ pc' = pc /\ outcome' = outcome /\ Len(body') + need' <= MaxResponse
    BY <1>0, <2>1, <2>2, <2>3, <2>4, <2>5, Limits
  <2>8. Types'
    BY <1>0, <2>2, <2>4, <2>5, <2>7 DEF Types, PcStates, Outcomes
  <2>9. Stage'
    BY <2>2, <2>3, <2>7 DEF Stage, ResponseStates
  <2>10. BodyBound'
    BY <1>0, <2>2, <2>3, <2>6, <2>7 DEF BodyBound
  <2> QED BY <2>8, <2>9, <2>10 DEF FramingInv
<1> QED BY <1>1, <1>2, <1>3

LEMMA LineStep == ASSUME FramingInv, ReadLineToken \/ SizeLine \/ ReadDelimiter PROVE FramingInv'
<1>0. /\ Types /\ Stage /\ BodyBound /\ Len(body) \in Nat /\ need \in Nat /\ Len(line) \in Nat
      /\ input.role \in {"request", "response"}
  BY LengthTypes DEF FramingInv, Types
<1>a. ASSUME pc \in ResponseStates
      PROVE  /\ pc # "done" /\ outcome = "none" /\ Len(body) + need <= MaxResponse /\ Len(line) <= MaxLine
             /\ Len(line) <= MaxLine + 1
  BY <1>0, <1>a DEF ResponseStates, PcStates, Types, Stage, BodyBound
<1>1. CASE ReadLineToken
  <2>1. PICK seg \in Segments(1) :
           /\ Consume(seg) /\ line' = Append(line, seg[1])
           /\ CASE LineTooLong(seg[1]) -> pc' = "done" /\ outcome' = "parse"
                [] seg[1] = Crlf /\ ~LineTooLong(seg[1]) ->
                     pc' = (IF pc = "size" THEN "size_line" ELSE "last_line") /\ UNCHANGED outcome
                [] OTHER -> UNCHANGED <<pc, outcome>>
    BY <1>1 DEF ReadLineToken
  <2>2. pc \in {"size", "last"} /\ UNCHANGED <<input, buf, body, need, disturbed>>
    BY <1>1 DEF ReadLineToken
  <2>3. pc \in ResponseStates
    BY <2>2 DEF ResponseStates, PcStates
  <2>4. seg \in Tokens /\ Len(seg) \in 1 .. 1 /\ pos' \in 0 .. Len(input.wire) /\ prefix' \in Tokens
    <3>1. Types /\ Consume(seg) /\ 1 \in Nat \ {0}
      BY <1>0, <2>1
    <3> QED BY <3>1, ReadFacts
  <2>5. seg[1] \in STRING
    <3>1. Len(seg) = 1 /\ seg \in Seq(STRING)
      BY <2>4 DEF Tokens
    <3>2. 1 \in 1 .. Len(seg)
      BY <3>1
    <3> QED BY <3>1, <3>2, ElementOfSeq
  <2>6. line' \in Tokens /\ Len(line') = Len(line) + 1
    BY <1>0, <2>1, <2>5 DEF Types, Tokens
  <2>7. LineTooLong(seg[1]) => pc' = "done" /\ outcome' = "parse"
    BY <2>1
  <2>8. ~LineTooLong(seg[1]) => pc' \in {"size", "last", "size_line", "last_line"} /\ outcome' = outcome
    BY <2>1, <2>2
  <2>9. ~LineTooLong(seg[1]) => Len(line) + 1 <= MaxLine
    <3>1. CASE seg[1] = Crlf
      BY <1>0, <3>1, Limits DEF LineTooLong
    <3>2. CASE seg[1] # Crlf
      BY <1>0, <3>2, Limits DEF LineTooLong
    <3> QED BY <3>1, <3>2
  <2>10. Len(line') <= MaxLine + 1
    BY <1>0, <1>a, <2>3, <2>6, Limits
  <2>11. pc' \in (ResponseStates \ {"eof"}) \cup {"done"} /\ pc' # "data"
         /\ outcome' \in Outcomes \ {"ok"} /\ (pc' = "done" <=> outcome' # "none")
         /\ (pc' # "done" => Len(line') <= MaxLine)
    BY <1>a, <2>3, <2>6, <2>7, <2>8, <2>9 DEF ResponseStates, PcStates, Outcomes
  <2> QED BY <1>0, <1>a, <2>2, <2>3, <2>4, <2>6, <2>10, <2>11, QuietStep
<1>2. CASE SizeLine
  <2> DEFINE l == Front(line)
  <2>1. pc = "size_line" /\ line' = <<>> /\ UNCHANGED <<input, pos, buf, prefix, body, disturbed>>
    BY <1>2 DEF SizeLine
  <2>2. pc \in ResponseStates
    BY <2>1 DEF ResponseStates, PcStates
  <2>3. \/ pc' = "done" /\ outcome' \in {"parse", "too_large"} /\ need' = need
        \/ pc' = "last" /\ outcome' = outcome /\ need' = need
        \/ /\ pc' = "data" /\ outcome' = outcome /\ need' = SizeOf[l[1]] /\ ~SizeIsBad(l) /\ SizeOf[l[1]] # 0
           /\ ~(Len(body) + SizeOf[l[1]] > MaxResponse)
    BY <1>2 DEF SizeLine
  <2>4. ~SizeIsBad(l) => SizeOf[l[1]] \in Nat
    <3> HIDE DEF l
    <3>1. ~SizeIsBad(l) => l[1] \in DOMAIN SizeOf
      BY DEF SizeIsBad
    <3>2. \A t \in DOMAIN SizeOf : SizeOf[t] \in Nat
      BY LimitAssumption
    <3> QED BY <3>1, <3>2
  <2> HIDE DEF l
  <2>5. need' \in Nat /\ Len(body) + need' <= MaxResponse /\ (pc' = "data" => need' > 0)
    BY <1>0, <1>a, <2>2, <2>3, <2>4, Limits
  <2>6. pc' \in (ResponseStates \ {"eof"}) \cup {"done"}
        /\ outcome' \in Outcomes \ {"ok"} /\ (pc' = "done" <=> outcome' # "none")
    BY <1>a, <2>2, <2>3 DEF ResponseStates, PcStates, Outcomes
  <2>7. line' \in Tokens /\ Len(line') <= MaxLine /\ Len(line') <= MaxLine + 1
    BY <2>1, Limits DEF Tokens
  <2>8. pos' \in 0 .. Len(input.wire) /\ prefix' \in Tokens
    BY <1>0, <2>1 DEF Types
  <2> QED BY <2>1, <2>2, <2>5, <2>6, <2>7, <2>8, QuietStep
<1>3. CASE ReadDelimiter
  <2>1. PICK seg \in Segments(1) :
           /\ Consume(seg)
           /\ \/ pc' = "size" /\ outcome' = outcome
              \/ pc' = "done" /\ outcome' = "parse"
    BY <1>3 DEF ReadDelimiter
  <2>2. pc = "delim" /\ UNCHANGED <<input, buf, body, need, line, disturbed>>
    BY <1>3 DEF ReadDelimiter
  <2>3. pc \in ResponseStates
    BY <2>2 DEF ResponseStates, PcStates
  <2>4. pos' \in 0 .. Len(input.wire) /\ prefix' \in Tokens
    <3>1. Types /\ Consume(seg) /\ 1 \in Nat \ {0}
      BY <1>0, <2>1
    <3> QED BY <3>1, ReadFacts
  <2>5. pc' \in (ResponseStates \ {"eof"}) \cup {"done"} /\ pc' # "data"
        /\ outcome' \in Outcomes \ {"ok"} /\ (pc' = "done" <=> outcome' # "none")
    BY <1>a, <2>1, <2>3 DEF ResponseStates, PcStates, Outcomes
  <2>6. line' \in Tokens
    BY <1>0, <2>2 DEF Types
  <2> QED BY <1>0, <1>a, <2>2, <2>3, <2>4, <2>5, <2>6, QuietStep
<1> QED BY <1>1, <1>2, <1>3

LEMMA EndStep == ASSUME FramingInv, LastLine \/ EndOfStream \/ ReadFails PROVE FramingInv'
<1>1. CASE LastLine
  BY <1>1, DoneStep DEF LastLine, ResponseStates, PcStates
<1>2. ASSUME ReadDue PROVE pc # "done"
  BY <1>2 DEF ReadDue
<1>3. CASE EndOfStream
  <2>1. CASE pc \in EndedByEof
    <3>1. pc = "eof" /\ ResponseDone(body) /\ UNCHANGED <<input, pos, buf, prefix, need, line, disturbed>>
      BY <1>3, <2>1 DEF EndOfStream, EndedByEof
    <3> QED BY <3>1, DoneStep DEF ResponseStates, PcStates
  <2>2. CASE pc \notin EndedByEof
    <3>1. \E e \in {"empty", "parse", "io"} : Fail(e)
      BY <1>3, <2>2 DEF EndOfStream
    <3>2. disturbed \in BOOLEAN /\ pc # "done"
      BY <1>2, <1>3 DEF EndOfStream, FramingInv, Types
    <3> QED BY <3>1, <3>2, FailStep DEF Fail
  <2> QED BY <2>1, <2>2
<1>4. CASE ReadFails
  <2>1. pc' = "done" /\ outcome' = "io" /\ UNCHANGED <<input, pos, buf, prefix, body, need, line>>
        /\ pc # "done"
    BY <1>2, <1>4 DEF ReadFails
  <2>2. disturbed' \in BOOLEAN
    BY <1>4 DEF ReadFails
  <2> QED BY <2>1, <2>2, FailStep
<1> QED BY <1>1, <1>3, <1>4

LEMMA FramingInvStep == ASSUME FramingInv, [Next]_vars PROVE FramingInv'
<1>1. CASE UNCHANGED vars
  BY <1>1 DEF vars, FramingInv, Types, Stage, BodyBound
<1>2. CASE Step
  BY <1>2, HeadStep, RequestStep, ParseResponseStep, BodyStep, LineStep, EndStep DEF Step
<1> QED BY <1>1, <1>2 DEF Next, Returned

LEMMA FramingInvariant == Spec => []FramingInv
<1>1. Init => FramingInv
  <2> SUFFICES ASSUME Init PROVE FramingInv
    OBVIOUS
  <2>1. /\ input \in Inputs /\ pos = 0 /\ pc = "head" /\ need = 0 /\ outcome = "none" /\ disturbed = FALSE
        /\ buf = <<>> /\ prefix = <<>> /\ body = <<>> /\ line = <<>>
    BY DEF Init
  <2>2. <<>> \in Tokens /\ Len(<<>>) = 0
    BY DEF Tokens
  <2>3. Types
    <3>1. pos \in 0 .. Len(input.wire)
      BY <2>1, InputTypes
    <3>2. pc \in PcStates /\ outcome \in Outcomes /\ (pc = "done" <=> outcome # "none")
      BY <2>1 DEF PcStates, Outcomes
    <3>3. disturbed \in BOOLEAN /\ need \in Nat
      BY <2>1
    <3> QED BY <2>1, <2>2, <3>1, <3>2, <3>3 DEF Types
  <2>4. Stage
    BY <2>1 DEF Stage, ResponseStates
  <2>5. BodyBound
    BY <2>1, <2>2, Limits DEF BodyBound
  <2> QED BY <2>3, <2>4, <2>5 DEF FramingInv
<1>2. FramingInv /\ [Next]_vars => FramingInv'
  BY FramingInvStep
<1> QED BY <1>1, <1>2, PTL DEF Spec

\* TypeOK for every input: however the stream is cut and wherever it ends, the
\* socket hands out no more than was sent, and a reader that is done has one
\* outcome.
THEOREM FramingTypes == Spec => []TypeOK
<1>1. FramingInv => TypeOK
  BY DEF FramingInv, Types, TypeOK, PcStates, Outcomes
<1> QED BY <1>1, FramingInvariant, PTL

\* The head is a beginning of what was read for it.
HeadBound == head \in Tokens /\ Len(head) <= MaxHeader + ReadSize

LEMMA HeadBoundStep == ASSUME FramingInv, HeadBound, [Next]_vars PROVE HeadBound'
<1>1. \/ head' = head
      \/ pc = "parse" /\ head' = RawHead
  BY DEF Next, vars, Step, Returned, Fail, ResponseDone, HeaderTooLong, ReadHeader, ParseRequest, ReadRest,
         RequestDone, ParseResponse, ReadFixed, ReadUntilEof, ReadLineToken, SizeLine, ReadChunk,
         ReadDelimiter, LastLine, EndOfStream, ReadFails
<1>2. CASE head' = head
  BY <1>2 DEF HeadBound
<1>3. CASE pc = "parse" /\ head' = RawHead
  <2>1. Types /\ HeadEnds(buf) # {} /\ Len(buf) <= MaxHeader + ReadSize
    BY <1>3 DEF FramingInv, Stage, BodyBound
  <2>2. RawHead \in Tokens /\ Len(RawHead) <= Len(buf)
    BY <2>1, HeadFacts
  <2>3. Len(buf) \in Nat /\ Len(RawHead) \in Nat /\ MaxHeader + ReadSize \in Nat
    BY <2>1, <2>2, Limits DEF Types, Tokens
  <2> QED BY <1>3, <2>1, <2>2, <2>3 DEF HeadBound
<1> QED BY <1>1, <1>2, <1>3

\* BuffersAreBounded for every input and all limits: the reads of
\* read_header_block, read_until_eof and the chunk reader overshoot a limit by
\* at most one buffer, an accepted head by as much, and an accepted body by
\* nothing.
THEOREM ReadersAreBounded == Spec => []BuffersAreBounded
<1>1. FramingInv /\ HeadBound => BuffersAreBounded
  <2> SUFFICES ASSUME FramingInv, HeadBound PROVE BuffersAreBounded
    OBVIOUS
  <2>1. Types /\ BodyBound /\ Len(body) \in Nat /\ need \in Nat
    BY LengthTypes DEF FramingInv, Types
  <2>2. input.role \in {"request", "response"}
    BY <2>1, InputTypes DEF Types
  <2>3. CASE input.role = "request"
    BY <2>1, <2>3, Limits DEF BodyBound, HeadBound, BuffersAreBounded
  <2>4. CASE input.role = "response"
    BY <2>1, <2>4, Limits DEF BodyBound, HeadBound, BuffersAreBounded
  <2> QED BY <2>2, <2>3, <2>4
<1>2. Init => HeadBound
  <2>1. <<>> \in Tokens /\ Len(<<>>) = 0
    BY DEF Tokens
  <2> QED BY <2>1, Limits DEF Init, HeadBound
<1>3. FramingInv /\ HeadBound /\ [Next]_vars => HeadBound'
  BY HeadBoundStep
<1> QED BY <1>1, <1>2, <1>3, FramingInvariant, PTL DEF Spec

-----------------------------------------------------------------------------
(* What is taken for a message is what was sent *)

Upto(n) == SubSeq(input.wire, 1, n)

ChunkStates == {"size", "size_line", "data", "delim", "last", "last_line"}

\* A request that is accepted is forwarded as the very tokens the client sent,
\* all that was read of them, and with at least the body its head announces
\* (Request::from_stream and to_bytes).  The head and the body of a response
\* that is accepted are the first tokens the backend sent: as many as the head
\* announces (read_fixed_body), or all of them (read_until_eof).
BodiesAreExact ==
    outcome = "ok" =>
        /\ input.role = "request" =>
              /\ forwarded = head \o body /\ forwarded = Upto(pos)
              /\ HasLength(head) => Len(body) >= LengthOf(head)
        /\ input.role = "response" /\ head[1] # "204" /\ ~IsChunked(head) =>
              IF HasLength(head)
              THEN Len(body) = LengthOf(head) /\ head \o body = Upto(Len(head \o body))
              ELSE head \o body = input.wire

\* Nothing that was handed out is lost, repeated or moved on its way from the
\* socket through buf and the prefix to the head and the body.
Stream ==
    /\ head \in Tokens
    /\ pc \in {"head", "parse"} => prefix = <<>> /\ buf = Upto(pos)
    /\ pc = "rest" => prefix = <<>> /\ head \o body = Upto(pos)
    /\ pc \in {"fixed", "eof"} => (head \o body) \o prefix = Upto(pos)

\* What is still due agrees with what the head announces.
Due ==
    /\ pc = "rest" /\ HasLength(head) => Len(body) + need >= LengthOf(head)
    /\ pc = "fixed" /\ head[1] # "204" =>
          ~IsChunked(head) /\ HasLength(head) /\ Len(body) + need = LengthOf(head)
    /\ pc = "eof" => ~IsChunked(head) /\ ~HasLength(head)
    /\ pc \in ChunkStates => IsChunked(head)

ExactInv == Stream /\ Due /\ BodiesAreExact

LEMMA Assoc == ASSUME NEW s \in Tokens, NEW t \in Tokens, NEW u \in Tokens
               PROVE  (s \o t) \o u = s \o (t \o u)
  BY ConcatAssociative DEF Tokens

LEMMA ConcatEmpty == ASSUME NEW s \in Tokens PROVE s \o <<>> = s /\ <<>> \o s = s /\ <<>> \in Tokens
  BY ConcatEmptySeq DEF Tokens

\* A sequence is its first n elements followed by the others.
LEMMA SplitAt == ASSUME NEW s \in Tokens, NEW n \in Nat, n <= Len(s)
                 PROVE  SubSeq(s, 1, n) \o Drop(s, n) = s
<1>1. Len(s) \in Nat /\ s \in Seq(STRING)
  BY DEF Tokens
<1>2. 1 \in 1 .. Len(s) + 1 /\ n \in (1 - 1) .. Len(s) /\ Len(s) \in n .. Len(s)
  BY <1>1
<1>3. SubSeq(s, 1, n) \o SubSeq(s, n + 1, Len(s)) = SubSeq(s, 1, Len(s))
  BY <1>1, <1>2, ConcatAdjacentSubSeq
<1>4. SubSeq(s, 1, Len(s)) = s
  BY <1>1, SubSeqFull
<1>5. Drop(s, n) = SubSeq(s, n + 1, Len(s))
  BY DEF Drop
<1> QED BY <1>3, <1>4, <1>5, Zenon

\* The beginning of a beginning.
LEMMA BeginningOf ==
    ASSUME NEW w \in Tokens, NEW p \in 0 .. Len(w), NEW x \in Tokens, NEW y \in Tokens,
           x \o y = SubSeq(w, 1, p)
    PROVE  x = SubSeq(w, 1, Len(x))
<1>1. Len(w) \in Nat /\ Len(x) \in Nat /\ Len(y) \in Nat
  BY DEF Tokens
<1>2. Len(x \o y) = Len(x) + Len(y) /\ \A i \in 1 .. Len(x) : (x \o y)[i] = x[i]
  BY <1>1 DEF Tokens
<1>3. Len(SubSeq(w, 1, p)) = p /\ \A i \in 1 .. p : SubSeq(w, 1, p)[i] = w[i]
  <2>1. p \in Nat /\ p <= Len(w) /\ 1 \in Nat
    BY <1>1
  <2>2. Len(SubSeq(w, 1, p)) = (IF 1 <= p THEN p - 1 + 1 ELSE 0)
        /\ \A i \in 1 .. (p - 1 + 1) : SubSeq(w, 1, p)[i] = w[1 + i - 1]
    BY <2>1, SubSeqFacts
  <2> QED BY <2>1, <2>2
<1>4. Len(x) <= p
  BY <1>1, <1>2, <1>3
<1>5. \A i \in 1 .. Len(x) : x[i] = w[i]
  BY <1>1, <1>2, <1>3, <1>4
<1>6. /\ SubSeq(w, 1, Len(x)) \in Tokens /\ Len(SubSeq(w, 1, Len(x))) = Len(x)
      /\ \A i \in 1 .. Len(x) : SubSeq(w, 1, Len(x))[i] = w[i]
  <2>1. Len(x) <= Len(w) /\ 1 \in Nat
    BY <1>1, <1>4
  <2>2. SubSeq(w, 1, Len(x)) \in Tokens
        /\ Len(SubSeq(w, 1, Len(x))) = (IF 1 <= Len(x) THEN Len(x) - 1 + 1 ELSE 0)
        /\ \A i \in 1 .. (Len(x) - 1 + 1) : SubSeq(w, 1, Len(x))[i] = w[1 + i - 1]
    BY <1>1, <2>1, SubSeqFacts
  <2> QED BY <1>1, <2>2
<1> QED BY <1>1, <1>5, <1>6, SeqEqual DEF Tokens

\* A read moves what it returns from the stream or the prefix to the end of
\* what was taken before.
LEMMA ReadMoves ==
    ASSUME Types, NEW k \in Nat \ {0}, NEW seg \in Segments(k), Consume(seg), input' = input,
           NEW x \in Tokens, x \o prefix = Upto(pos)
    PROVE  (x \o seg) \o prefix' = Upto(pos') /\ (prefix = <<>> => prefix' = <<>>)
<1>0. input.wire \in Tokens /\ Len(input.wire) \in Nat /\ pos \in 0 .. Len(input.wire)
      /\ prefix \in Tokens /\ Len(prefix) \in Nat /\ seg \in Tokens /\ prefix' \in Tokens
      /\ Len(seg) \in Nat
  BY InputTypes, ReadFacts DEF Types, Tokens
<1>1. CASE prefix # <<>>
  <2> DEFINE n == Smaller(k, Len(prefix))
  <2>1. seg = SubSeq(prefix, 1, n)
    BY <1>1 DEF Segments
  <2>2. n \in Nat /\ n <= Len(prefix)
    BY <1>0 DEF Smaller
  <2> HIDE DEF n
  <2>3. Len(seg) = n
    BY <1>0, <2>1, <2>2, SubSeqFacts
  <2>4. prefix' = Drop(prefix, n) /\ pos' = pos
    BY <1>1, <2>3 DEF Consume
  <2>5. seg \o prefix' = prefix
    BY <1>0, <2>1, <2>2, <2>4, SplitAt
  <2>6. (x \o seg) \o prefix' = x \o (seg \o prefix')
    BY <1>0, Assoc
  <2> QED BY <1>1, <2>4, <2>5, <2>6
<1>2. CASE prefix = <<>>
  <2>1. PICK n \in 1 .. Smaller(k, Len(input.wire) - pos) : seg = SubSeq(input.wire, pos + 1, pos + n)
    BY <1>2 DEF Segments
  <2>2. n \in Nat /\ pos + n <= Len(input.wire)
    BY <1>0 DEF Smaller
  <2>3. Len(seg) = n
    <3>1. pos + 1 \in Nat /\ pos + n \in Nat /\ pos + 1 >= 1
          /\ (IF pos + 1 <= pos + n THEN (pos + n) - (pos + 1) + 1 ELSE 0) = n
      BY <1>0, <2>1, <2>2
    <3> QED BY <1>0, <2>1, <2>2, <3>1, SubSeqFacts
  <2>4. pos' = pos + n /\ prefix' = <<>>
    BY <1>2, <2>3 DEF Consume
  <2>5. Upto(pos) \o seg = Upto(pos + n)
    <3>1. input.wire \in Seq(STRING) /\ 1 \in 1 .. Len(input.wire) + 1 /\ pos \in (1 - 1) .. Len(input.wire)
          /\ pos + n \in pos .. Len(input.wire)
      BY <1>0, <2>2 DEF Tokens
    <3>2. SubSeq(input.wire, 1, pos) \o SubSeq(input.wire, pos + 1, pos + n) = SubSeq(input.wire, 1, pos + n)
      BY <3>1, ConcatAdjacentSubSeq
    <3> QED BY <2>1, <3>2 DEF Upto
  <2>6. x = Upto(pos)
    BY <1>2, ConcatEmpty
  <2>7. x \o seg = Upto(pos') /\ x \o seg \in Tokens
    BY <1>0, <2>4, <2>5, <2>6, ConcatFacts
  <2> QED BY <2>4, <2>7, ConcatEmpty
<1> QED BY <1>1, <1>2

\* The head that was found and what came with it are what was read.
LEMMA HeadAndRest ==
    ASSUME Types, HeadEnds(buf) # {}
    PROVE  RawHead \o LeftOver = buf /\ RawHead \in Tokens /\ LeftOver \in Tokens
<1>1. buf \in Tokens /\ Len(buf) \in Nat
  BY DEF Types, Tokens
<1>2. HeadEnds(buf) \subseteq Nat /\ HeadEnds(buf) \subseteq 2 .. Len(buf)
  BY <1>1 DEF HeadEnds
<1>3. Min(HeadEnds(buf)) \in Nat /\ Min(HeadEnds(buf)) <= Len(buf)
  BY <1>1, <1>2, MinFacts
<1>4. SubSeq(buf, 1, Min(HeadEnds(buf))) \o Drop(buf, Min(HeadEnds(buf))) = buf
  BY <1>1, <1>3, SplitAt
<1> QED BY <1>4, HeadFacts DEF RawHead, LeftOver

\* A reader that fails has taken nothing for a message.
LEMMA FailExact ==
    ASSUME ExactInv, pc' = "done", outcome' # "ok", head' = head
    PROVE  ExactInv'
<1>1. Stream'
  BY DEF ExactInv, Stream
<1>2. Due'
  BY DEF Due, ChunkStates
<1>3. BodiesAreExact'
  BY DEF BodiesAreExact
<1> QED BY <1>1, <1>2, <1>3 DEF ExactInv

LEMMA HeadExact ==
    ASSUME FramingInv, ExactInv, HeaderTooLong \/ ReadHeader PROVE ExactInv'
<1>1. CASE HeaderTooLong
  BY <1>1, FailExact DEF HeaderTooLong, Fail
<1>2. CASE ReadHeader
  <2>1. PICK seg \in Segments(ReadSize) : buf' = buf \o seg /\ Consume(seg)
    BY <1>2 DEF ReadHeader
  <2>2. pc = "head" /\ pc' \in {"head", "parse"} /\ UNCHANGED <<input, head, outcome>>
    BY <1>2 DEF ReadHeader
  <2>3. Types /\ ReadSize \in Nat \ {0} /\ outcome = "none"
    BY <2>2, Limits DEF FramingInv, Types
  <2>4. buf \in Tokens /\ prefix = <<>> /\ buf = Upto(pos)
    BY <2>2, <2>3 DEF Types, ExactInv, Stream
  <2>5. buf \o prefix = Upto(pos)
    BY <2>4, ConcatEmpty
  <2>6. (buf \o seg) \o prefix' = Upto(pos') /\ prefix' = <<>>
    BY <2>1, <2>2, <2>3, <2>4, <2>5, ReadMoves
  <2>7. buf \o seg \in Tokens
    BY <2>1, <2>3, <2>4, ReadFacts, ConcatFacts
  <2>8. buf' = Upto(pos') /\ prefix' = <<>>
    BY <2>1, <2>6, <2>7, ConcatEmpty
  <2>9. Stream'
    BY <2>2, <2>8 DEF ExactInv, Stream, Upto
  <2>10. Due' /\ BodiesAreExact'
    BY <2>2, <2>3 DEF Due, ChunkStates, BodiesAreExact
  <2> QED BY <2>9, <2>10 DEF ExactInv
<1> QED BY <1>1, <1>2

LEMMA RequestExact ==
    ASSUME FramingInv, ExactInv, ParseRequest \/ ReadRest \/ RequestDone PROVE ExactInv'
<1>0. /\ Types /\ Stage /\ Stream /\ Due /\ body \in Tokens /\ head \in Tokens
      /\ Len(body) \in Nat /\ need \in Nat
  BY LengthTypes DEF FramingInv, ExactInv, Stream, Types
<1>1. CASE ParseRequest
  <2> DEFINE h == RawHead
             n == IF HasLength(h) THEN LengthOf(h) ELSE 0
  <2>1. pc = "parse" /\ input.role = "request" /\ outcome = "none"
    BY <1>0, <1>1 DEF ParseRequest, Types
  <2>2. h \o LeftOver = buf /\ h \in Tokens /\ LeftOver \in Tokens /\ Len(LeftOver) \in Nat
    <3>1. h \o LeftOver = buf /\ h \in Tokens /\ LeftOver \in Tokens
      BY <1>0, <2>1, HeadAndRest DEF Stage
    <3> QED BY <3>1 DEF Tokens
  <2>3. CASE \E e \in {"parse", "too_large"} : Fail(e)
    BY <2>3, FailExact DEF Fail
  <2>4. CASE ~(\E e \in {"parse", "too_large"} : Fail(e))
    <3>1. ~LengthIsBad(h) /\ head' = h /\ body' = LeftOver /\ need' = Remaining(n, Len(LeftOver)) /\ pc' = "rest"
          /\ UNCHANGED <<input, pos, prefix, outcome>>
      BY <1>1, <2>4 DEF ParseRequest, FirstPart
    <3>2. n \in Nat
      BY <2>2, <3>1, LengthFacts
    <3>3. HasLength(h) => n = LengthOf(h)
      OBVIOUS
    <3> HIDE DEF n, h
    <3>4. Len(body') + need' >= n
      BY <2>2, <3>1, <3>2 DEF Remaining
    <3>5. buf = Upto(pos) /\ prefix = <<>>
      BY <1>0, <2>1 DEF Stream
    <3>6. Stream'
      BY <2>2, <3>1, <3>5 DEF Stream, Upto
    <3>7. HasLength(head') => Len(body') + need' >= LengthOf(head')
      BY <3>1, <3>3, <3>4, Zenon
    <3>8. Due'
      BY <3>1, <3>7 DEF Due, ChunkStates, HasLength, LengthOf, FieldsNamed, header_field, LengthNames
    <3>9. BodiesAreExact'
      BY <2>1, <3>1 DEF BodiesAreExact
    <3> QED BY <3>6, <3>8, <3>9 DEF ExactInv
  <2> QED BY <2>3, <2>4
<1>2. CASE ReadRest
  <2>1. PICK seg \in Segments(need) : body' = body \o seg /\ need' = need - Len(seg) /\ Consume(seg)
    BY <1>2 DEF ReadRest
  <2>2. pc = "rest" /\ need > 0 /\ need \in Nat \ {0} /\ UNCHANGED <<input, pc, head, outcome>>
    BY <1>0, <1>2 DEF ReadRest
  <2>3. outcome = "none"
    BY <1>0, <2>2 DEF Types
  <2>4. seg \in Tokens /\ Len(seg) \in 1 .. need
    BY <1>0, <2>1, <2>2, ReadFacts
  <2>5. prefix = <<>> /\ head \o body = Upto(pos) /\ head \o body \in Tokens
    BY <1>0, <2>2, ConcatFacts DEF Stream
  <2>6. (head \o body) \o prefix = Upto(pos)
    BY <2>5, ConcatEmpty
  <2>7. ((head \o body) \o seg) \o prefix' = Upto(pos') /\ prefix' = <<>>
    BY <1>0, <2>1, <2>2, <2>5, <2>6, ReadMoves
  <2>8. (head \o body) \o seg \in Tokens
    BY <2>4, <2>5, ConcatFacts
  <2>9. (head \o body) \o seg = Upto(pos')
    BY <2>7, <2>8, ConcatEmpty
  <2>10. head' \o body' = Upto(pos')
    BY <1>0, <2>1, <2>2, <2>4, <2>9, Assoc
  <2>11. Stream'
    BY <1>0, <2>2, <2>7, <2>10 DEF Stream, Upto
  <2>12. Len(body') + need' = Len(body) + need
    BY <1>0, <2>1, <2>4, ConcatFacts
  <2>13. Due'
    BY <1>0, <2>2, <2>12 DEF Due, ChunkStates, HasLength, LengthOf, FieldsNamed, header_field, LengthNames
  <2>14. BodiesAreExact'
    BY <2>2, <2>3 DEF BodiesAreExact
  <2> QED BY <2>11, <2>13, <2>14 DEF ExactInv
<1>3. CASE RequestDone
  <2>1. pc = "rest" /\ need = 0 /\ pc' = "done" /\ outcome' = "ok" /\ forwarded' = head \o body
        /\ UNCHANGED <<input, pos, head, body, need>>
    BY <1>3 DEF RequestDone
  <2>2. input.role = "request"
    BY <1>0, <2>1 DEF Stage
  <2>3. HasLength(head) => Len(body) >= LengthOf(head)
    <3>1. Len(body) + need = Len(body)
      BY <1>0, <2>1
    <3>2. HasLength(head) => Len(body) + need >= LengthOf(head)
      BY <1>0, <2>1 DEF Due
    <3> QED BY <3>1, <3>2, Zenon
  <2>4. head \o body = Upto(pos)
    BY <1>0, <2>1 DEF Stream
  <2>5. BodiesAreExact'
    BY <2>1, <2>2, <2>3, <2>4 DEF BodiesAreExact, Upto, HasLength, LengthOf, FieldsNamed, header_field, LengthNames
  <2>6. Stream' /\ Due'
    BY <1>0, <2>1 DEF Stream, Due, ChunkStates
  <2> QED BY <2>5, <2>6 DEF ExactInv
<1> QED BY <1>1, <1>2, <1>3

LEMMA ParseResponseExact == ASSUME FramingInv, ExactInv, ParseResponse PROVE ExactInv'
<1> DEFINE h == RawHead
<1>0. /\ Types /\ Stage /\ Stream /\ pc = "parse" /\ outcome = "none"
  BY DEF FramingInv, ExactInv, Types, ParseResponse
<1>1. h \o LeftOver = buf /\ h \in Tokens /\ LeftOver \in Tokens
  BY <1>0, HeadAndRest DEF Stage
<1>2. body = <<>> /\ buf = Upto(pos) /\ Len(body) = 0
  BY <1>0 DEF Stage, Stream
<1>3. CASE \E e \in {"parse", "too_large"} : Fail(e)
  BY <1>3, FailExact DEF Fail
<1>4. CASE ~(\E e \in {"parse", "too_large"} : Fail(e))
  <2>1. /\ head' = h /\ prefix' = LeftOver /\ UNCHANGED <<input, pos, body, outcome>>
        /\ \/ pc' = "fixed" /\ h[1] = "204"
           \/ pc' = "size" /\ IsChunked(h)
           \/ pc' = "eof" /\ ~IsChunked(h) /\ ~HasLength(h)
           \/ pc' = "fixed" /\ ~IsChunked(h) /\ HasLength(h) /\ ~LengthIsBad(h) /\ need' = LengthOf(h)
    BY <1>4 DEF ParseResponse
  <2> HIDE DEF h
  <2>2. (head' \o body') \o prefix' = Upto(pos')
    BY <1>1, <1>2, <2>1, ConcatEmpty
  <2>3. Stream'
    BY <1>1, <2>1, <2>2 DEF Stream, Upto
  <2>4. ~LengthIsBad(h) /\ HasLength(h) /\ need' = LengthOf(h) => Len(body') + need' = LengthOf(h)
    BY <1>1, <1>2, <2>1, LengthFacts
  <2>5. Due'
    BY <2>1, <2>4 DEF Due, ChunkStates, HasLength, LengthOf, FieldsNamed, header_field, LengthNames, IsChunked, CodingNames
  <2>6. BodiesAreExact'
    BY <1>0, <2>1 DEF BodiesAreExact
  <2> QED BY <2>3, <2>5, <2>6 DEF ExactInv
<1> QED BY <1>3, <1>4

LEMMA PlainExact == ASSUME FramingInv, ExactInv, ReadFixed \/ ReadUntilEof PROVE ExactInv'
<1>0. /\ Types /\ Stage /\ Stream /\ Due /\ body \in Tokens /\ head \in Tokens /\ prefix \in Tokens
      /\ Len(body) \in Nat /\ need \in Nat /\ head \o body \in Tokens
      /\ input.wire \in Tokens /\ pos \in 0 .. Len(input.wire)
  BY LengthTypes, InputTypes, ConcatFacts DEF FramingInv, ExactInv, Stream, Types
<1>1. ASSUME pc \in {"fixed", "eof"}, NEW k \in Nat \ {0}, NEW seg \in Segments(k), Consume(seg),
             body' = body \o seg, UNCHANGED <<input, head>>
      PROVE  (head' \o body') \o prefix' = Upto(pos') /\ seg \in Tokens /\ Len(seg) \in 1 .. k
  <2>1. (head \o body) \o prefix = Upto(pos)
    BY <1>0, <1>1 DEF Stream
  <2>2. ((head \o body) \o seg) \o prefix' = Upto(pos')
    BY <1>0, <1>1, <2>1, ReadMoves
  <2>3. seg \in Tokens /\ Len(seg) \in 1 .. k
    BY <1>0, <1>1, ReadFacts
  <2>4. (head \o body) \o seg = head \o (body \o seg)
    <3>1. head \in Tokens /\ body \in Tokens /\ seg \in Tokens
      BY <1>0, <2>3
    <3> QED BY <3>1, Assoc
  <2> QED BY <1>1, <2>2, <2>3, <2>4
<1>2. CASE ReadFixed /\ need = 0
  <2>1. pc = "fixed" /\ pc' = "done" /\ outcome' = "ok" /\ body' = body
        /\ UNCHANGED <<input, pos, prefix, need, head>>
    BY <1>2 DEF ReadFixed, ResponseDone
  <2>2. input.role = "response"
    BY <1>0, <2>1 DEF Stage, ResponseStates, PcStates
  <2>3. (head \o body) \o prefix = Upto(pos)
    BY <1>0, <2>1 DEF Stream
  <2>4. head \o body = Upto(Len(head \o body))
    BY <1>0, <2>3, BeginningOf DEF Upto
  <2>5. head[1] # "204" => HasLength(head) /\ Len(body) = LengthOf(head)
    <3>1. Len(body) + need = Len(body)
      BY <1>0, <1>2
    <3> QED BY <1>0, <2>1, <3>1 DEF Due
  <2>6. BodiesAreExact'
    BY <2>1, <2>2, <2>4, <2>5
       DEF BodiesAreExact, Upto, HasLength, LengthOf, FieldsNamed, header_field, LengthNames, IsChunked, CodingNames
  <2>7. Stream' /\ Due'
    BY <1>0, <2>1 DEF Stream, Due, ChunkStates
  <2> QED BY <2>6, <2>7 DEF ExactInv
<1>3. CASE ReadFixed /\ need # 0
  <2>1. PICK seg \in Segments(Smaller(need, ReadSize)) :
           body' = body \o seg /\ need' = need - Len(seg) /\ Consume(seg)
    BY <1>3 DEF ReadFixed
  <2>2. pc = "fixed" /\ UNCHANGED <<input, pc, head, outcome>>
    BY <1>3 DEF ReadFixed
  <2>3. outcome = "none"
    BY <1>0, <2>2 DEF Types
  <2>4. Smaller(need, ReadSize) \in Nat \ {0}
    BY <1>0, <1>3, Limits DEF Smaller
  <2>5. (head' \o body') \o prefix' = Upto(pos') /\ seg \in Tokens /\ Len(seg) \in Nat
    <3>1. (head' \o body') \o prefix' = Upto(pos') /\ seg \in Tokens /\ Len(seg) \in 1 .. Smaller(need, ReadSize)
      BY <1>1, <2>1, <2>2, <2>4
    <3> QED BY <2>4, <3>1
  <2>6. Len(body') + need' = Len(body) + need
    BY <1>0, <2>1, <2>5, ConcatFacts
  <2>7. Stream'
    BY <1>0, <2>2, <2>5 DEF Stream, Upto
  <2>8. Due'
    BY <1>0, <2>2, <2>6
       DEF Due, ChunkStates, HasLength, LengthOf, FieldsNamed, header_field, LengthNames, IsChunked, CodingNames
  <2>9. BodiesAreExact'
    BY <2>2, <2>3 DEF BodiesAreExact
  <2> QED BY <2>7, <2>8, <2>9 DEF ExactInv
<1>4. CASE ReadUntilEof
  <2>1. PICK seg \in Segments(ReadSize) : body' = body \o seg /\ Consume(seg)
    BY <1>4 DEF ReadUntilEof
  <2>2. pc = "eof" /\ UNCHANGED <<input, head>>
        /\ \/ pc' = "done" /\ outcome' = "too_large"
           \/ UNCHANGED <<pc, outcome>>
    BY <1>4 DEF ReadUntilEof
  <2>3. CASE pc' = "done" /\ outcome' = "too_large"
    BY <2>2, <2>3, FailExact
  <2>4. CASE UNCHANGED <<pc, outcome>>
    <3>1. outcome = "none"
      BY <1>0, <2>2 DEF Types
    <3>2. (head' \o body') \o prefix' = Upto(pos')
      BY <1>1, <2>1, <2>2, Limits
    <3>3. Stream'
      BY <1>0, <2>2, <2>4, <3>2 DEF Stream, Upto
    <3>4. Due'
      BY <1>0, <2>2, <2>4 DEF Due, ChunkStates, HasLength, FieldsNamed, header_field, LengthNames, IsChunked, CodingNames
    <3>5. BodiesAreExact'
      BY <2>4, <3>1 DEF BodiesAreExact
    <3> QED BY <3>3, <3>4, <3>5 DEF ExactInv
  <2> QED BY <2>2, <2>3, <2>4
<1> QED BY <1>2, <1>3, <1>4

\* A step of the chunk reader leaves the head alone and takes no message but by
\* LastLine.
LEMMA ChunkExact ==
    ASSUME FramingInv, ExactInv,
           ReadLineToken \/ SizeLine \/ ReadChunk \/ ReadDelimiter \/ LastLine
    PROVE  ExactInv'
<1>1. pc \in ChunkStates /\ head' = head /\ pc' \in ChunkStates \cup {"done"}
      /\ (outcome' = "ok" => pc' = "done")
  <2>0. Types
    BY DEF FramingInv
  <2>1. CASE ReadLineToken
    <3>1. pc \in {"size", "last"} /\ head' = head
          /\ \/ pc' = "done" /\ outcome' = "parse"
             \/ pc' \in {"size_line", "last_line"} /\ outcome' = outcome
             \/ pc' = pc /\ outcome' = outcome
      BY <2>1 DEF ReadLineToken
    <3> QED BY <2>0, <3>1 DEF Types, ChunkStates
  <2>2. CASE SizeLine
    <3>1. pc = "size_line" /\ head' = head
          /\ \/ pc' = "done"
             \/ pc' \in {"last", "data"} /\ outcome' = outcome
      BY <2>2 DEF SizeLine
    <3> QED BY <2>0, <3>1 DEF Types, ChunkStates
  <2>3. CASE ReadChunk
    <3>1. pc = "data" /\ head' = head /\ pc' \in {"delim", "data"} /\ outcome' = outcome
      BY <2>3 DEF ReadChunk
    <3> QED BY <2>0, <3>1 DEF Types, ChunkStates
  <2>4. CASE ReadDelimiter
    <3>1. pc = "delim" /\ head' = head
          /\ \/ pc' = "size" /\ outcome' = outcome
             \/ pc' = "done" /\ outcome' = "parse"
      BY <2>4 DEF ReadDelimiter
    <3> QED BY <2>0, <3>1 DEF Types, ChunkStates
  <2>5. CASE LastLine
    BY <2>5 DEF LastLine, ResponseDone, ChunkStates
  <2> QED BY <2>1, <2>2, <2>3, <2>4, <2>5
<1>2. UNCHANGED input /\ input.role = "response"
  <2>1. UNCHANGED input
    BY DEF ReadLineToken, SizeLine, ReadChunk, ReadDelimiter, LastLine
  <2>2. pc \in ResponseStates
    BY <1>1 DEF ChunkStates, ResponseStates, PcStates
  <2> QED BY <2>1, <2>2 DEF FramingInv, Stage
<1>3. IsChunked(head) /\ IsChunked(head')
  BY <1>1 DEF ExactInv, Due
<1>4. Stream'
  BY <1>1 DEF ExactInv, Stream, ChunkStates
<1>5. Due'
  BY <1>1, <1>3 DEF Due, ChunkStates, IsChunked, FieldsNamed, header_field, CodingNames
<1>6. BodiesAreExact'
  BY <1>2, <1>3 DEF BodiesAreExact, IsChunked, FieldsNamed, header_field, CodingNames
<1> QED BY <1>4, <1>5, <1>6 DEF ExactInv

LEMMA EndExact == ASSUME FramingInv, ExactInv, EndOfStream \/ ReadFails PROVE ExactInv'
<1>1. CASE ReadFails
  BY <1>1, FailExact DEF ReadFails
<1>2. CASE EndOfStream /\ pc \notin EndedByEof
  <2>1. \E e \in {"empty", "parse", "io"} : Fail(e)
    BY <1>2 DEF EndOfStream
  <2> QED BY <2>1, FailExact DEF Fail
<1>3. CASE EndOfStream /\ pc \in EndedByEof
  <2>1. /\ pc = "eof" /\ prefix = <<>> /\ pos = Len(input.wire)
        /\ pc' = "done" /\ outcome' = "ok" /\ body' = body /\ UNCHANGED <<input, head>>
    BY <1>3 DEF EndOfStream, EndedByEof, AtEnd, ResponseDone
  <2>2. input.role = "response" /\ input.wire \in Tokens /\ head \o body \in Tokens
    BY <2>1, InputTypes, ConcatFacts
       DEF FramingInv, Types, Stage, ResponseStates, PcStates, ExactInv, Stream
  <2>3. (head \o body) \o prefix = Upto(pos)
    BY <2>1 DEF ExactInv, Stream
  <2>4. Upto(Len(input.wire)) = input.wire
    BY <2>2, SubSeqFull DEF Upto, Tokens
  <2>5. head \o body = input.wire
    BY <2>1, <2>2, <2>3, <2>4, ConcatEmpty
  <2>6. ~HasLength(head)
    BY <2>1 DEF ExactInv, Due
  <2>7. BodiesAreExact'
    BY <2>1, <2>2, <2>5, <2>6 DEF BodiesAreExact, HasLength, FieldsNamed, LengthNames
  <2>8. Stream' /\ Due'
    BY <2>1 DEF ExactInv, Stream, Due, ChunkStates
  <2> QED BY <2>7, <2>8 DEF ExactInv
<1> QED BY <1>1, <1>2, <1>3

LEMMA ExactStep == ASSUME FramingInv, ExactInv, [Next]_vars PROVE ExactInv'
<1>1. CASE UNCHANGED vars
  <2>1. Stream' /\ Due'
    BY <1>1 DEF vars, ExactInv, Stream, Due, Upto, HasLength, LengthOf, FieldsNamed, header_field, LengthNames, IsChunked, CodingNames
  <2>2. BodiesAreExact'
    BY <1>1 DEF vars, ExactInv, BodiesAreExact, Upto, HasLength, LengthOf, FieldsNamed, header_field, LengthNames,
                IsChunked, CodingNames
  <2> QED BY <2>1, <2>2 DEF ExactInv
<1>2. CASE Step
  BY <1>2, HeadExact, RequestExact, ParseResponseExact, PlainExact, ChunkExact, EndExact DEF Step
<1> QED BY <1>1, <1>2 DEF Next, Returned

LEMMA ExactInvariant == Spec => []ExactInv
<1>1. Init => ExactInv
  <2> SUFFICES ASSUME Init PROVE ExactInv
    OBVIOUS
  <2>1. /\ input \in Inputs /\ pos = 0 /\ pc = "head" /\ outcome = "none"
        /\ buf = <<>> /\ prefix = <<>> /\ head = <<>>
    BY DEF Init
  <2>2. Upto(0) = <<>>
    BY SubSeqEmpty DEF Upto
  <2>3. <<>> \in Tokens
    BY DEF Tokens
  <2>4. Stream
    BY <2>1, <2>2, <2>3 DEF Stream
  <2>5. Due /\ BodiesAreExact
    BY <2>1 DEF Due, BodiesAreExact, ChunkStates
  <2> QED BY <2>4, <2>5 DEF ExactInv
<1>2. FramingInv /\ ExactInv /\ [Next]_vars => ExactInv'
  BY ExactStep
<1> QED BY <1>1, <1>2, FramingInvariant, PTL DEF Spec

\* BodiesAreExact for any wire, any limits and any way the reads are cut.
THEOREM MessagesArriveIntact == Spec => []BodiesAreExact
<1>1. ExactInv => BodiesAreExact
  BY DEF ExactInv
<1> QED BY <1>1, ExactInvariant, PTL

-----------------------------------------------------------------------------
(* Induction, and FlattenSeq *)

\* Induction over the natural numbers, for a set instead of a predicate.
LEMMA SetInduction ==
    ASSUME NEW S, 0 \in S, \A n \in Nat : n \in S => n + 1 \in S
    PROVE  \A n \in Nat : n \in S
<1> SUFFICES ASSUME NEW m \in Nat, m \notin S PROVE FALSE
  OBVIOUS
<1> DEFINE T == Nat \ S
<1>1. T \subseteq Nat /\ T # {}
  OBVIOUS
<1> HIDE DEF T
<1>2. PICK x \in T : \A y \in T : ~ (<<y, x>> \in OpToRel(<, Nat))
  BY <1>1, WFMin, NatLessThanWellFounded, Zenon
<1>3. x \in Nat /\ x \notin S
  BY DEF T
<1>4. x # 0 /\ x - 1 \in Nat /\ x - 1 < x /\ (x - 1) + 1 = x
  BY <1>3
<1>5. x - 1 \in T
  BY <1>3, <1>4 DEF T
<1>6. <<x - 1, x>> \in OpToRel(<, Nat)
  BY <1>3, <1>4 DEF OpToRel
<1> QED BY <1>2, <1>5, <1>6, Zenon

LEMMA TokensLen == \A s \in Tokens : Len(s) \in Nat
  BY DEF Tokens

LEMMA Singleton == ASSUME NEW S, NEW c \in S PROVE <<c>> \in Seq(S)
  OBVIOUS

LEMMA OneToken ==
    ASSUME NEW c \in STRING PROVE <<c>> \in Tokens /\ Len(<<c>>) = 1 /\ <<c>>[1] = c
<1>1. <<c>> \in Seq(STRING)
  BY Singleton, Zenon
<1>2. Len(<<c>>) = 1 /\ <<c>>[1] = c
  OBVIOUS
<1> QED BY <1>1, <1>2, Zenon DEF Tokens

LEMMA ConcatAt ==
    ASSUME NEW s \in Tokens, NEW t \in Tokens
    PROVE  /\ \A i \in 1 .. Len(s) : (s \o t)[i] = s[i]
           /\ \A j \in 1 .. Len(t) : (s \o t)[Len(s) + j] = t[j]
<1>1. Len(s) \in Nat /\ Len(t) \in Nat /\ s \in Seq(STRING) /\ t \in Seq(STRING)
  BY DEF Tokens
<1>2. \A i \in 1 .. (Len(s) + Len(t)) : (s \o t)[i] = IF i <= Len(s) THEN s[i] ELSE t[i - Len(s)]
  BY <1>1, ConcatProperties
<1>3. ASSUME NEW j \in 1 .. Len(t) PROVE (s \o t)[Len(s) + j] = t[j]
  <2>1. Len(s) + j \in 1 .. (Len(s) + Len(t)) /\ ~(Len(s) + j <= Len(s)) /\ (Len(s) + j) - Len(s) = j
    BY <1>1
  <2> QED BY <1>2, <2>1
<1>4. ASSUME NEW i \in 1 .. Len(s) PROVE (s \o t)[i] = s[i]
  <2>1. i \in 1 .. (Len(s) + Len(t)) /\ i <= Len(s)
    BY <1>1
  <2> QED BY <1>2, <2>1
<1> QED BY <1>3, <1>4

LEMMA PrependFacts ==
    ASSUME NEW S, NEW x \in S, NEW r \in Seq(S)
    PROVE  /\ <<x>> \o r \in Seq(S) /\ Len(<<x>> \o r) = 1 + Len(r)
           /\ (<<x>> \o r)[1] = x /\ Tail(<<x>> \o r) = r
<1> DEFINE t == <<x>> \o r
<1>1. <<x>> \in Seq(S) /\ Len(<<x>>) = 1 /\ <<x>>[1] = x /\ Len(r) \in Nat
  OBVIOUS
<1>2. t \in Seq(S) /\ Len(t) = 1 + Len(r)
      /\ \A i \in 1 .. (1 + Len(r)) : t[i] = IF i <= 1 THEN <<x>>[i] ELSE r[i - 1]
  BY <1>1, ConcatProperties
<1> HIDE DEF t
<1>3. t[1] = x /\ \A i \in 1 .. Len(r) : t[i + 1] = r[i]
  <2>1. 1 \in 1 .. (1 + Len(r)) /\ 1 <= 1
    BY <1>1
  <2>2. \A i \in 1 .. Len(r) : i + 1 \in 1 .. (1 + Len(r)) /\ ~(i + 1 <= 1) /\ (i + 1) - 1 = i
    BY <1>1
  <2> QED BY <1>1, <1>2, <2>1, <2>2
<1>4. t # <<>>
  BY <1>1, <1>2
<1>5. Tail(t) \in Seq(S) /\ Len(Tail(t)) = Len(t) - 1 /\ \A i \in 1 .. Len(Tail(t)) : Tail(t)[i] = t[i + 1]
  BY <1>2, <1>4, HeadTailProperties
<1>6. Len(Tail(t)) = Len(r) /\ \A i \in 1 .. Len(r) : Tail(t)[i] = r[i]
  BY <1>1, <1>2, <1>3, <1>5
<1>7. Tail(t) = r
  BY <1>5, <1>6, SeqEqual
<1> QED BY <1>2, <1>3, <1>7 DEF t

\* The two parts of a concatenation.
LEMMA Parts ==
    ASSUME NEW s \in Tokens, NEW t \in Tokens
    PROVE  SubSeq(s \o t, 1, Len(s)) = s /\ Drop(s \o t, Len(s)) = t
<1> DEFINE u == s \o t
           n == Len(s)
           a == SubSeq(u, 1, n)
           b == Drop(u, n)
<1>1. u \in Tokens /\ Len(u) = n + Len(t) /\ n \in Nat /\ Len(t) \in Nat /\ Len(u) \in Nat
  BY ConcatFacts, TokensLen
<1>2. (\A i \in 1 .. n : u[i] = s[i]) /\ \A j \in 1 .. Len(t) : u[n + j] = t[j]
  BY ConcatAt
<1> HIDE DEF u, n
<1>3. n <= Len(u) /\ 1 \in Nat /\ n + 1 \in Nat /\ n + 1 >= 1
  BY <1>1
<1>4. a \in Tokens /\ Len(a) = n /\ \A i \in 1 .. n : a[i] = u[i]
  <2>1. a \in Tokens /\ Len(a) = (IF 1 <= n THEN n - 1 + 1 ELSE 0)
        /\ \A i \in 1 .. (n - 1 + 1) : a[i] = u[1 + i - 1]
    BY <1>1, <1>3, SubSeqFacts
  <2>2. n - 1 + 1 = n /\ \A i \in 1 .. n : 1 + i - 1 = i
    BY <1>1
  <2> QED BY <1>1, <2>1, <2>2
<1>5. b \in Tokens /\ Len(b) = Len(t) /\ \A j \in 1 .. Len(t) : b[j] = u[n + j]
  <2>1. b \in Tokens /\ Len(b) = Len(u) - n
    BY <1>1, <1>3, DropFacts
  <2>2. \A i \in 1 .. (Len(u) - (n + 1) + 1) : SubSeq(u, n + 1, Len(u))[i] = u[(n + 1) + i - 1]
    BY <1>1, <1>3, SubSeqFacts
  <2>3. Len(u) - (n + 1) + 1 = Len(t) /\ Len(u) - n = Len(t) /\ \A i \in 1 .. Len(t) : (n + 1) + i - 1 = n + i
    BY <1>1
  <2> QED BY <2>1, <2>2, <2>3 DEF Drop
<1> HIDE DEF a, b
<1>6. a = s
  BY <1>2, <1>4, SeqEqual DEF Tokens, n
<1>7. b = t
  BY <1>2, <1>5, SeqEqual DEF Tokens
<1> QED BY <1>6, <1>7 DEF a, b, u, n

\* f has the partial results of FlattenSeq(s) up to n.
IsFlatten(f, s, n) == f = [i \in 1 .. n |-> IF i = 1 THEN s[i] ELSE f[i - 1] \o s[i]]

LEMMA FlattenExists == ASSUME NEW s, NEW n \in Nat PROVE \E f : IsFlatten(f, s, n)
<1> DEFINE S == {k \in Nat : \E f : IsFlatten(f, s, k)}
<1>1. 0 \in S
  <2>1. IsFlatten([i \in 1 .. 0 |-> 0], s, 0)
    BY DEF IsFlatten
  <2> QED BY <2>1
<1>2. ASSUME NEW k \in Nat, k \in S PROVE k + 1 \in S
  <2>1. PICK f : IsFlatten(f, s, k)
    BY <1>2
  <2> DEFINE g == [i \in 1 .. (k + 1) |->
                     IF i = k + 1 THEN (IF i = 1 THEN s[i] ELSE f[i - 1] \o s[i]) ELSE f[i]]
  <2>2. ASSUME NEW i \in 1 .. (k + 1) PROVE g[i] = IF i = 1 THEN s[i] ELSE g[i - 1] \o s[i]
    <3>1. CASE i = 1
      BY <2>1, <3>1 DEF IsFlatten
    <3>2. CASE i # 1
      <4>1. i - 1 \in 1 .. k /\ i - 1 # k + 1 /\ i - 1 \in 1 .. (k + 1)
        BY <3>2
      <4>2. g[i - 1] = f[i - 1]
        BY <4>1
      <4>3. CASE i = k + 1
        BY <4>2, <4>3, <3>2
      <4>4. CASE i # k + 1
        <5>1. i \in 1 .. k
          BY <4>4
        <5>2. f[i] = f[i - 1] \o s[i]
          BY <5>1, <2>1, <3>2 DEF IsFlatten
        <5> QED BY <4>2, <4>4, <3>2, <5>2
      <4> QED BY <4>3, <4>4
    <3> QED BY <3>1, <3>2
  <2>3. g = [i \in 1 .. (k + 1) |-> g[i]]
    OBVIOUS
  <2> HIDE DEF g
  <2>4. IsFlatten(g, s, k + 1)
    BY <2>2, <2>3, Zenon DEF IsFlatten
  <2> QED BY <2>4
<1> HIDE DEF S
<1>3. n \in S
  BY <1>1, <1>2, SetInduction
<1> QED BY <1>3 DEF S

\* The partial results, the empty one included.
Flat(s) == CHOOSE f : IsFlatten(f, s, Len(s))
Joined(s, i) == IF i = 0 THEN <<>> ELSE Flat(s)[i]

LEMMA FlattenSteps ==
    ASSUME NEW s \in Seq(Tokens)
    PROVE  /\ Joined(s, 0) = <<>> /\ FlattenSeq(s) = Joined(s, Len(s))
           /\ \A i \in 0 .. Len(s) : Joined(s, i) \in Tokens
           /\ \A i \in 1 .. Len(s) : Joined(s, i) = Joined(s, i - 1) \o s[i]
<1> DEFINE n == Len(s)
<1>1. n \in Nat /\ \A i \in 1 .. n : s[i] \in Tokens
  OBVIOUS
<1>2. IsFlatten(Flat(s), s, n)
  BY <1>1, FlattenExists, Zenon DEF Flat
<1>3. Joined(s, 0) = <<>>
  BY DEF Joined
<1>4. FlattenSeq(s) = Joined(s, n)
  <2>1. CASE n = 0
    <3>1. s = <<>>
      BY <1>1, <2>1
    <3> QED BY <2>1, <3>1 DEF FlattenSeq, Joined
  <2>2. CASE n # 0
    <3>1. FlattenSeq(s) = Flat(s)[n]
      BY <2>2 DEF FlattenSeq, Flat, IsFlatten
    <3> QED BY <2>2, <3>1 DEF Joined
  <2> QED BY <2>1, <2>2
<1> HIDE DEF n
<1>5. ASSUME NEW i \in 1 .. n PROVE Joined(s, i) = Joined(s, i - 1) \o s[i]
  <2>1. Flat(s)[i] = IF i = 1 THEN s[i] ELSE Flat(s)[i - 1] \o s[i]
    BY <1>2 DEF IsFlatten
  <2>2. CASE i = 1
    <3>1. Joined(s, i) = s[i] /\ Joined(s, i - 1) = <<>>
      BY <2>1, <2>2 DEF Joined
    <3> QED BY <1>1, <3>1, ConcatEmpty
  <2>3. CASE i # 1
    <3>1. i # 0 /\ i - 1 # 0
      BY <1>1, <2>3
    <3>2. Joined(s, i) = Flat(s)[i] /\ Joined(s, i - 1) = Flat(s)[i - 1]
      BY <3>1 DEF Joined
    <3> QED BY <2>1, <2>3, <3>2
  <2> QED BY <2>2, <2>3
<1>6. \A i \in 0 .. n : Joined(s, i) \in Tokens
  <2> DEFINE S == {i \in Nat : i <= n => Joined(s, i) \in Tokens}
  <2>1. 0 \in S
    <3>1. <<>> \in Tokens
      BY DEF Tokens
    <3> QED BY <1>3, <3>1
  <2>2. ASSUME NEW i \in Nat, i \in S PROVE i + 1 \in S
    <3>1. CASE i + 1 <= n
      <4>1. i + 1 \in 1 .. n /\ (i + 1) - 1 = i /\ i <= n
        BY <1>1, <3>1
      <4>2. Joined(s, i + 1) = Joined(s, i) \o s[i + 1]
        BY <1>5, <4>1
      <4>3. Joined(s, i) \in Tokens /\ s[i + 1] \in Tokens
        BY <1>1, <2>2, <4>1
      <4>4. Joined(s, i + 1) \in Tokens
        BY <4>2, <4>3, ConcatFacts
      <4> QED BY <4>4
    <3> QED BY <3>1
  <2> HIDE DEF S
  <2>3. \A i \in Nat : i \in S
    BY <2>1, <2>2, SetInduction
  <2> QED BY <1>1, <2>3 DEF S
<1> QED BY <1>3, <1>4, <1>5, <1>6 DEF n

\* Where the pieces of a flattened sequence are.
LEMMA FlattenLayout ==
    ASSUME NEW s \in Seq(Tokens), NEW k \in 1 .. Len(s)
    PROVE  /\ Len(Joined(s, k)) = Len(Joined(s, k - 1)) + Len(s[k])
           /\ Len(Joined(s, k)) <= Len(FlattenSeq(s))
           /\ \A j \in 1 .. Len(s[k]) : FlattenSeq(s)[Len(Joined(s, k - 1)) + j] = s[k][j]
<1>0. Len(s) \in Nat /\ \A i \in 1 .. Len(s) : s[i] \in Tokens /\ Len(s[i]) \in Nat
  BY DEF Tokens
<1>1. \A i \in 0 .. Len(s) : Joined(s, i) \in Tokens /\ Len(Joined(s, i)) \in Nat
  <2>1. \A i \in 0 .. Len(s) : Joined(s, i) \in Tokens
    BY FlattenSteps
  <2> QED BY <2>1, TokensLen
<1>2. k - 1 \in 0 .. Len(s) /\ k \in 0 .. Len(s) /\ k \in Nat /\ Len(s) \in 0 .. Len(s)
  BY <1>0
<1>3. Joined(s, k) = Joined(s, k - 1) \o s[k]
  BY FlattenSteps
<1>4. Len(Joined(s, k)) = Len(Joined(s, k - 1)) + Len(s[k])
      /\ \A j \in 1 .. Len(s[k]) : Joined(s, k)[Len(Joined(s, k - 1)) + j] = s[k][j]
  BY <1>0, <1>1, <1>2, <1>3, ConcatFacts, ConcatAt
<1> DEFINE S == {i \in Nat : k + i <= Len(s) =>
                    /\ Len(Joined(s, k)) <= Len(Joined(s, k + i))
                    /\ \A j \in 1 .. Len(Joined(s, k)) : Joined(s, k + i)[j] = Joined(s, k)[j]}
<1>5. 0 \in S
  BY <1>1, <1>2
<1>6. ASSUME NEW i \in Nat, i \in S PROVE i + 1 \in S
  <2>1. CASE k + (i + 1) <= Len(s)
    <3>1. k + (i + 1) \in 1 .. Len(s) /\ (k + (i + 1)) - 1 = k + i /\ k + i <= Len(s) /\ k + i \in 0 .. Len(s)
      BY <1>0, <1>2, <2>1
    <3>2. Joined(s, k + (i + 1)) = Joined(s, k + i) \o s[k + (i + 1)]
      BY <3>1, FlattenSteps
    <3>3. Len(Joined(s, k + (i + 1))) = Len(Joined(s, k + i)) + Len(s[k + (i + 1)])
          /\ \A j \in 1 .. Len(Joined(s, k + i)) : Joined(s, k + (i + 1))[j] = Joined(s, k + i)[j]
      <4>1. Joined(s, k + i) \in Tokens /\ s[k + (i + 1)] \in Tokens
        BY <1>0, <1>1, <3>1
      <4>2. Len(Joined(s, k + (i + 1))) = Len(Joined(s, k + i)) + Len(s[k + (i + 1)])
        BY <3>2, <4>1, ConcatFacts
      <4>3. \A j \in 1 .. Len(Joined(s, k + i)) : Joined(s, k + (i + 1))[j] = Joined(s, k + i)[j]
        BY <3>2, <4>1, ConcatAt
      <4> QED BY <4>2, <4>3
    <3>4. Len(Joined(s, k)) <= Len(Joined(s, k + i))
          /\ \A j \in 1 .. Len(Joined(s, k)) : Joined(s, k + i)[j] = Joined(s, k)[j]
      BY <1>6, <3>1
    <3>5. Len(Joined(s, k)) \in Nat /\ Len(Joined(s, k + i)) \in Nat /\ Len(s[k + (i + 1)]) \in Nat
      BY <1>0, <1>1, <1>2, <3>1
    <3>6. Len(Joined(s, k)) <= Len(Joined(s, k + (i + 1)))
      <4>1. \A a, b, c \in Nat : a <= b => a <= b + c
        OBVIOUS
      <4> QED BY <3>3, <3>4, <3>5, <4>1
    <3>7. \A j \in 1 .. Len(Joined(s, k)) : Joined(s, k + (i + 1))[j] = Joined(s, k)[j]
      <4>1. \A j \in 1 .. Len(Joined(s, k)) : j \in 1 .. Len(Joined(s, k + i))
        BY <3>4, <3>5
      <4> QED BY <3>3, <3>4, <4>1
    <3> QED BY <3>6, <3>7
  <2> QED BY <2>1
<1> HIDE DEF S
<1>7. Len(s) - k \in S
  <2>1. Len(s) - k \in Nat
    BY <1>0
  <2> QED BY <1>5, <1>6, <2>1, SetInduction
<1>8. Len(Joined(s, k)) <= Len(FlattenSeq(s))
      /\ \A j \in 1 .. Len(Joined(s, k)) : FlattenSeq(s)[j] = Joined(s, k)[j]
  <2>1. k + (Len(s) - k) = Len(s) /\ Len(s) <= Len(s)
    BY <1>0
  <2> QED BY <1>7, <2>1, FlattenSteps DEF S
<1>9. \A j \in 1 .. Len(s[k]) : Len(Joined(s, k - 1)) + j \in 1 .. Len(Joined(s, k))
  <2>1. Len(Joined(s, k - 1)) \in Nat /\ Len(s[k]) \in Nat
    BY <1>0, <1>1, <1>2
  <2> QED BY <1>4, <2>1
<1> QED BY <1>4, <1>8, <1>9

-----------------------------------------------------------------------------
(* Heads: lines with their ends, and an empty line *)

LEMMA Parity ==
    /\ \A j \in Nat : (2 * j) % 2 = 0 /\ (2 * j + 1) % 2 = 1 /\ ((2 * j + 1) + 1) \div 2 = j + 1
    /\ \A i \in Nat : \E j \in Nat : i = 2 * j \/ i = 2 * j + 1
<1>1. ASSUME NEW j \in Nat
      PROVE  (2 * j) % 2 = 0 /\ (2 * j + 1) % 2 = 1 /\ ((2 * j + 1) + 1) \div 2 = j + 1
  OBVIOUS
<1>2. ASSUME NEW i \in Nat PROVE \E j \in Nat : i = 2 * j \/ i = 2 * j + 1
  <2>1. i \div 2 \in Nat /\ (i = 2 * (i \div 2) \/ i = 2 * (i \div 2) + 1)
    OBVIOUS
  <2> QED BY <2>1
<1> QED BY <1>1, <1>2

LEMMA EndedFacts ==
    ASSUME NEW L \in Seq(Text)
    PROVE  /\ Ended(L) \in Tokens /\ Len(Ended(L)) = 2 * Len(L)
           /\ \A j \in Nat : j < Len(L) => Ended(L)[2 * j + 1] = L[j + 1] /\ Ended(L)[2 * j + 2] = Crlf
<1>1. Len(L) \in Nat /\ 2 * Len(L) \in Nat /\ \A i \in 1 .. Len(L) : L[i] \in Text
  OBVIOUS
<1>2. Text \subseteq STRING /\ Crlf \in STRING
  BY InputAssumption DEF Text
<1>3. ASSUME NEW j \in Nat, j < Len(L) PROVE Ended(L)[2 * j + 1] = L[j + 1] /\ Ended(L)[2 * j + 2] = Crlf
  <2>1. 2 * j + 1 \in 1 .. 2 * Len(L) /\ 2 * j + 2 \in 1 .. 2 * Len(L)
    BY <1>1, <1>3
  <2>2. (2 * j + 1) % 2 = 1 /\ ((2 * j + 1) + 1) \div 2 = j + 1
    BY Parity
  <2>3. 2 * j + 2 = 2 * (j + 1) /\ j + 1 \in Nat
    OBVIOUS
  <2>4. (2 * j + 2) % 2 = 0
    BY <2>3, Parity
  <2>5. (2 * j + 2) % 2 # 1
    BY <2>4
  <2>6. Ended(L)[2 * j + 1] = IF (2 * j + 1) % 2 = 1 THEN L[((2 * j + 1) + 1) \div 2] ELSE Crlf
    BY <2>1 DEF Ended
  <2>7. Ended(L)[2 * j + 2] = IF (2 * j + 2) % 2 = 1 THEN L[((2 * j + 2) + 1) \div 2] ELSE Crlf
    BY <2>1 DEF Ended
  <2>8. Ended(L)[2 * j + 1] = L[j + 1]
    BY <2>2, <2>6
  <2>9. Ended(L)[2 * j + 2] = Crlf
    BY <2>5, <2>7
  <2> QED BY <2>8, <2>9
<1>4. ASSUME NEW i \in 1 .. 2 * Len(L) PROVE Ended(L)[i] \in STRING
  <2>1. PICK j \in Nat : i - 1 = 2 * j \/ i - 1 = 2 * j + 1
    <3>1. i - 1 \in Nat
      BY <1>1
    <3> QED BY <3>1, Parity
  <2>2. (i = 2 * j + 1 \/ i = 2 * j + 2) /\ j < Len(L) /\ j + 1 \in 1 .. Len(L)
    BY <1>1, <2>1
  <2> QED BY <1>1, <1>2, <1>3, <2>2
<1>5. Ended(L) = [i \in 1 .. 2 * Len(L) |-> Ended(L)[i]]
  BY DEF Ended
<1>6. Ended(L) \in [1 .. 2 * Len(L) -> STRING]
  BY <1>4, <1>5
<1>7. Ended(L) \in Seq(STRING) /\ Len(Ended(L)) = 2 * Len(L)
  BY <1>1, <1>6, SeqDef, LenProperties
<1> QED BY <1>3, <1>7 DEF Tokens

\* A head as it is written.
HeadWith(L) == Ended(L) \o <<Crlf>>

LEMMA HeadWithFacts ==
    ASSUME NEW L \in Seq(Text)
    PROVE  /\ HeadWith(L) \in Tokens /\ Len(HeadWith(L)) = 2 * Len(L) + 1
           /\ \A j \in Nat : j < Len(L) => HeadWith(L)[2 * j + 1] = L[j + 1] /\ HeadWith(L)[2 * j + 2] = Crlf
           /\ HeadWith(L)[2 * Len(L) + 1] = Crlf
<1>1. <<Crlf>> \in Tokens /\ Len(<<Crlf>>) = 1 /\ <<Crlf>>[1] = Crlf
  BY InputAssumption, OneToken
<1>2. Ended(L) \in Tokens /\ Len(Ended(L)) = 2 * Len(L) /\ Len(L) \in Nat
  BY EndedFacts
<1>3. HeadWith(L) \in Tokens /\ Len(HeadWith(L)) = 2 * Len(L) + 1
  BY <1>1, <1>2, ConcatFacts DEF HeadWith
<1>4. HeadWith(L)[2 * Len(L) + 1] = Crlf
  BY <1>1, <1>2, ConcatAt DEF HeadWith
<1>5. \A i \in 1 .. 2 * Len(L) : HeadWith(L)[i] = Ended(L)[i]
  BY <1>1, <1>2, ConcatAt DEF HeadWith
<1>6. \A j \in Nat : j < Len(L) => 2 * j + 1 \in 1 .. 2 * Len(L) /\ 2 * j + 2 \in 1 .. 2 * Len(L)
  BY <1>2
<1>7. ASSUME NEW j \in Nat, j < Len(L)
      PROVE  HeadWith(L)[2 * j + 1] = L[j + 1] /\ HeadWith(L)[2 * j + 2] = Crlf
  BY <1>5, <1>6, <1>7, EndedFacts
<1> QED BY <1>3, <1>4, <1>7

\* A terminator is found where the head ends, and not before: a head is found
\* exactly when all of it has been read.
LEMMA HeadEnd ==
    ASSUME NEW L \in Seq(Text), Len(L) >= 1, NEW s \in Tokens,
           \A i \in 1 .. Len(s) : i <= 2 * Len(L) + 1 => s[i] = HeadWith(L)[i]
    PROVE  /\ Len(s) >= 2 * Len(L) + 1 => HeadEnds(s) # {} /\ Min(HeadEnds(s)) = 2 * Len(L) + 1
           /\ Len(s) < 2 * Len(L) + 1 => HeadEnds(s) = {}
<1> DEFINE n == Len(L)
<1>0. n \in Nat /\ n >= 1 /\ Len(s) \in Nat /\ \A j \in 1 .. n : L[j] # Crlf
  BY DEF Tokens, Text
<1> HIDE DEF n
<1>1. ASSUME NEW i \in HeadEnds(s), i < 2 * n + 1 PROVE FALSE
  <2>1. i \in 2 .. Len(s) /\ s[i - 1] = Crlf /\ s[i] = Crlf
    BY <1>1 DEF HeadEnds
  <2>2. PICK j \in Nat : i - 1 = 2 * j \/ i - 1 = 2 * j + 1
    <3>1. i - 1 \in Nat
      BY <1>0, <2>1
    <3> QED BY <3>1, Parity
  <2>3. i - 1 \in 1 .. Len(s) /\ i \in 1 .. Len(s) /\ i <= 2 * n + 1 /\ i - 1 <= 2 * n + 1
    BY <1>0, <1>1, <2>1
  <2>4. HeadWith(L)[i - 1] = Crlf /\ HeadWith(L)[i] = Crlf
    BY <2>1, <2>3 DEF n
  <2>5. j < n /\ j + 1 \in 1 .. n
    BY <1>0, <1>1, <2>1, <2>2
  <2>6. HeadWith(L)[2 * j + 1] = L[j + 1] /\ L[j + 1] # Crlf
    BY <1>0, <2>5, HeadWithFacts DEF n
  <2>7. 2 * j + 1 = i \/ 2 * j + 1 = i - 1
    BY <2>1, <2>2
  <2> QED BY <2>4, <2>6, <2>7
<1>2. HeadEnds(s) \subseteq 2 .. Len(s) /\ HeadEnds(s) \subseteq Nat
  BY <1>0 DEF HeadEnds
<1>3. CASE Len(s) < 2 * n + 1
  BY <1>0, <1>1, <1>2, <1>3 DEF n
<1>4. CASE Len(s) >= 2 * n + 1
  <2>1. 2 * n + 1 \in 2 .. Len(s) /\ 2 * n \in 1 .. Len(s) /\ 2 * n + 1 \in 1 .. Len(s)
        /\ (2 * n + 1) - 1 = 2 * n /\ n - 1 \in Nat /\ n - 1 < n /\ 2 * (n - 1) + 2 = 2 * n
    BY <1>0, <1>4
  <2>2. HeadWith(L)[2 * n] = Crlf /\ HeadWith(L)[2 * n + 1] = Crlf
    BY <2>1, HeadWithFacts DEF n
  <2>3. s[2 * n] = Crlf /\ s[2 * n + 1] = Crlf
    BY <1>0, <2>1, <2>2 DEF n
  <2>4. 2 * n + 1 \in HeadEnds(s)
    BY <2>1, <2>3 DEF HeadEnds
  <2>5. \A i \in HeadEnds(s) : 2 * n + 1 <= i
    BY <1>0, <1>1, <1>2
  <2>6. Min(HeadEnds(s)) = 2 * n + 1
    BY <1>0, <1>2, <2>4, <2>5, MinIs
  <2> QED BY <1>0, <1>4, <2>4, <2>6 DEF n
<1> QED BY <1>0, <1>3, <1>4 DEF n

-----------------------------------------------------------------------------
(* What is sent to the client *)

\* The pieces Without joins.
Pieces(s, S) == [i \in DOMAIN s |-> IF s[i] \in S THEN <<>> ELSE <<s[i]>>]

LEMMA PiecesFacts ==
    ASSUME NEW s \in Tokens, NEW S
    PROVE  /\ Pieces(s, S) \in Seq(Tokens) /\ Len(Pieces(s, S)) = Len(s)
           /\ \A i \in 1 .. Len(s) : Pieces(s, S)[i] = IF s[i] \in S THEN <<>> ELSE <<s[i]>>
           /\ Without(s, S) = Joined(Pieces(s, S), Len(s))
<1>1. DOMAIN s = 1 .. Len(s) /\ Len(s) \in Nat /\ \A i \in 1 .. Len(s) : s[i] \in STRING
  BY DEF Tokens
<1>2. \A i \in 1 .. Len(s) : Pieces(s, S)[i] = IF s[i] \in S THEN <<>> ELSE <<s[i]>>
  BY <1>1 DEF Pieces
<1>3. \A i \in 1 .. Len(s) : Pieces(s, S)[i] \in Tokens
  <2>1. <<>> \in Tokens
    BY DEF Tokens
  <2> QED BY <1>1, <1>2, <2>1, OneToken
<1>4. Pieces(s, S) = [i \in 1 .. Len(s) |-> Pieces(s, S)[i]]
  BY <1>1 DEF Pieces
<1>5. Pieces(s, S) \in [1 .. Len(s) -> Tokens]
  BY <1>3, <1>4
<1>6. Pieces(s, S) \in Seq(Tokens) /\ Len(Pieces(s, S)) = Len(s)
  BY <1>1, <1>5, SeqDef, LenProperties
<1>7. Without(s, S) = Joined(Pieces(s, S), Len(s))
  <2>1. Without(s, S) = FlattenSeq(Pieces(s, S))
    BY DEF Without, Pieces
  <2> QED BY <1>6, <2>1, FlattenSteps
<1> QED BY <1>2, <1>6, <1>7

LEMMA WithoutType ==
    ASSUME NEW T, T \subseteq STRING, NEW s \in Seq(T), NEW S
    PROVE  Without(s, S) \in Seq(T \ S)
<1> DEFINE g == Pieces(s, S)
           n == Len(s)
           I == {k \in Nat : k <= n => Joined(g, k) \in Seq(T \ S)}
<1>1. s \in Tokens /\ n \in Nat /\ \A i \in 1 .. n : s[i] \in T
  <2>1. n \in Nat /\ \A i \in 1 .. n : s[i] \in T
    OBVIOUS
  <2>2. \A i \in 1 .. n : s[i] \in STRING
    BY <2>1
  <2>3. s \in Seq(STRING)
    BY <2>1, <2>2
  <2> QED BY <2>1, <2>3 DEF Tokens
<1>2. g \in Seq(Tokens) /\ Len(g) = n /\ Without(s, S) = Joined(g, n)
      /\ \A i \in 1 .. n : g[i] = IF s[i] \in S THEN <<>> ELSE <<s[i]>>
  BY <1>1, PiecesFacts
<1> HIDE DEF g, n
<1>3. 0 \in I
  <2>1. Joined(g, 0) = <<>>
    BY DEF Joined
  <2>2. <<>> \in Seq(T \ S)
    BY EmptySeq
  <2> QED BY <2>1, <2>2
<1>4. ASSUME NEW k \in Nat, k \in I PROVE k + 1 \in I
  <2>1. CASE k + 1 <= n
    <3>1. k + 1 \in 1 .. n /\ (k + 1) - 1 = k /\ k <= n
      BY <1>1, <2>1
    <3>2. Joined(g, k + 1) = Joined(g, k) \o g[k + 1] /\ Joined(g, k) \in Seq(T \ S)
      BY <1>2, <1>4, <3>1, FlattenSteps
    <3>3. g[k + 1] \in Seq(T \ S)
      <4>1. CASE s[k + 1] \in S
        <5>1. g[k + 1] = <<>>
          BY <1>2, <3>1, <4>1
        <5> QED BY <5>1, EmptySeq
      <4>2. CASE s[k + 1] \notin S
        <5>1. g[k + 1] = <<s[k + 1]>> /\ s[k + 1] \in T \ S
          BY <1>1, <1>2, <3>1, <4>2
        <5> QED BY <5>1, Singleton
      <4> QED BY <4>1, <4>2
    <3>4. Joined(g, k + 1) \in Seq(T \ S)
      BY <3>2, <3>3, ConcatProperties
    <3> QED BY <3>4
  <2> QED BY <2>1
<1> HIDE DEF I
<1>5. n \in I
  BY <1>1, <1>3, <1>4, SetInduction
<1> QED BY <1>1, <1>2, <1>5 DEF I

\* parse_header_fields finds the lines after the first in a head.
LEMMA FieldsOfHead ==
    ASSUME NEW L \in Seq(Text), Len(L) >= 1
    PROVE  Fields(HeadWith(L)) = Tail(L)
<1> DEFINE n == Len(L)
           h == HeadWith(L)
           t == Tail(h)
           g == Pieces(t, {Crlf})
           I == {j \in Nat : j < n => /\ Joined(g, 2 * j + 1) \in Tokens
                                      /\ Len(Joined(g, 2 * j + 1)) = j
                                      /\ \A k \in 1 .. j : Joined(g, 2 * j + 1)[k] = L[k + 1]}
<1>1. n \in Nat /\ n >= 1 /\ \A i \in 1 .. n : L[i] # Crlf /\ L[i] \in STRING
  BY DEF Text
<1>2. h \in Tokens /\ Len(h) = 2 * n + 1 /\ h[2 * n + 1] = Crlf
      /\ \A j \in Nat : j < n => h[2 * j + 1] = L[j + 1] /\ h[2 * j + 2] = Crlf
  BY HeadWithFacts
<1> HIDE DEF h, n
<1>3. t \in Tokens /\ Len(t) = 2 * n /\ \A i \in 1 .. 2 * n : t[i] = h[i + 1]
  <2>1. h # <<>> /\ h \in Seq(STRING)
    BY <1>1, <1>2 DEF Tokens
  <2>2. t \in Seq(STRING) /\ Len(t) = Len(h) - 1 /\ \A i \in 1 .. Len(t) : t[i] = h[i + 1]
    BY <2>1, HeadTailProperties
  <2> QED BY <1>1, <1>2, <2>2 DEF Tokens
<1> HIDE DEF t
<1>4. g \in Seq(Tokens) /\ Len(g) = 2 * n /\ Fields(h) = Joined(g, 2 * n)
      /\ \A i \in 1 .. 2 * n : g[i] = IF t[i] = Crlf THEN <<>> ELSE <<t[i]>>
  <2>1. g \in Seq(Tokens) /\ Len(g) = 2 * n /\ Without(t, {Crlf}) = Joined(g, 2 * n)
        /\ \A i \in 1 .. 2 * n : g[i] = IF t[i] \in {Crlf} THEN <<>> ELSE <<t[i]>>
    BY <1>3, PiecesFacts
  <2>2. Fields(h) = Without(t, {Crlf})
    BY DEF Fields, t
  <2> QED BY <2>1, <2>2
<1> HIDE DEF g
<1>5. /\ \A i \in 0 .. 2 * n : Joined(g, i) \in Tokens
      /\ \A i \in 1 .. 2 * n : Joined(g, i) = Joined(g, i - 1) \o g[i]
      /\ Joined(g, 0) = <<>>
  BY <1>4, FlattenSteps
\* an odd token of t is a line end, an even one is a line
<1>6. ASSUME NEW j \in Nat, j < n PROVE g[2 * j + 1] = <<>> /\ 2 * j + 1 \in 1 .. 2 * n
  <2>1. 2 * j + 1 \in 1 .. 2 * n /\ (2 * j + 1) + 1 = 2 * j + 2
    BY <1>1, <1>6
  <2> QED BY <1>2, <1>3, <1>4, <1>6, <2>1
<1>7. ASSUME NEW j \in Nat, j + 1 < n
      PROVE  g[2 * j + 2] = <<L[j + 2]>> /\ L[j + 2] \in STRING /\ 2 * j + 2 \in 1 .. 2 * n
  <2>1. 2 * j + 2 \in 1 .. 2 * n /\ (2 * j + 2) + 1 = 2 * (j + 1) + 1 /\ j + 1 \in Nat /\ (j + 1) + 1 = j + 2
        /\ j + 2 \in 1 .. n
    BY <1>1, <1>7
  <2>2. t[2 * j + 2] = L[j + 2]
    BY <1>2, <1>3, <1>7, <2>1
  <2> QED BY <1>1, <1>4, <2>1, <2>2
<1>8. 0 \in I
  <2>1. 0 < n /\ 2 * 0 + 1 = 1 /\ 1 - 1 = 0 /\ 1 \in 1 .. 2 * n
    BY <1>1
  <2>2. g[1] = <<>>
    BY <1>6, <2>1
  <2>3. Joined(g, 1) = <<>> \o <<>>
    BY <1>5, <2>1, <2>2
  <2>4. Joined(g, 1) = <<>> /\ <<>> \in Tokens
    BY <2>3, ConcatEmpty DEF Tokens
  <2> QED BY <2>1, <2>4
<1>9. ASSUME NEW j \in Nat, j \in I PROVE j + 1 \in I
  <2>1. CASE j + 1 < n
    <3>1. 2 * (j + 1) + 1 = 2 * j + 3 /\ 2 * j + 3 \in 1 .. 2 * n /\ 2 * j + 2 \in 1 .. 2 * n
          /\ (2 * j + 3) - 1 = 2 * j + 2 /\ (2 * j + 2) - 1 = 2 * j + 1 /\ 2 * j + 2 \in 0 .. 2 * n
          /\ j < n
      BY <1>1, <2>1
    <3> DEFINE x == Joined(g, 2 * j + 1)
               c == L[j + 2]
    <3>2. x \in Tokens /\ Len(x) = j /\ \A k \in 1 .. j : x[k] = L[k + 1]
      BY <1>9, <3>1
    <3>3. c \in STRING /\ g[2 * j + 2] = <<c>>
      BY <1>7, <2>1
    <3>4. g[2 * j + 3] = <<>>
      BY <1>6, <2>1, <3>1
    <3>5. Joined(g, 2 * j + 2) = x \o <<c>> /\ Joined(g, 2 * j + 2) \in Tokens
      BY <1>5, <3>1, <3>3
    <3>6. Joined(g, 2 * j + 3) = x \o <<c>>
      BY <1>5, <3>1, <3>4, <3>5, ConcatEmpty
    <3> HIDE DEF x, c
    <3>7. Len(x \o <<c>>) = j + 1 /\ x \o <<c>> \in Tokens
          /\ (\A k \in 1 .. j : (x \o <<c>>)[k] = x[k]) /\ (x \o <<c>>)[j + 1] = c
      <4>1. <<c>> \in Tokens /\ Len(<<c>>) = 1 /\ <<c>>[1] = c
        BY <3>3, OneToken
      <4>2. Len(x \o <<c>>) = j + 1 /\ x \o <<c>> \in Tokens
        BY <3>2, <4>1, ConcatFacts
      <4>3. (\A k \in 1 .. Len(x) : (x \o <<c>>)[k] = x[k])
            /\ \A k \in 1 .. Len(<<c>>) : (x \o <<c>>)[Len(x) + k] = <<c>>[k]
        BY <3>2, <4>1, ConcatAt
      <4>4. 1 \in 1 .. 1
        OBVIOUS
      <4> QED BY <3>2, <4>1, <4>2, <4>3, <4>4
    <3>8. ASSUME NEW k \in 1 .. (j + 1) PROVE (x \o <<c>>)[k] = L[k + 1]
      <4>1. k \in 1 .. j \/ (k = j + 1 /\ k + 1 = j + 2)
        OBVIOUS
      <4> QED BY <3>2, <3>7, <4>1 DEF c
    <3>9. /\ Joined(g, 2 * (j + 1) + 1) \in Tokens
          /\ Len(Joined(g, 2 * (j + 1) + 1)) = j + 1
          /\ \A k \in 1 .. (j + 1) : Joined(g, 2 * (j + 1) + 1)[k] = L[k + 1]
      BY <3>1, <3>6, <3>7, <3>8
    <3> QED BY <3>9
  <2> QED BY <2>1
<1> HIDE DEF I
<1>10. n - 1 \in I
  <2>1. n - 1 \in Nat
    BY <1>1
  <2> QED BY <1>8, <1>9, <2>1, SetInduction
<1> DEFINE r == Joined(g, 2 * n - 1)
<1>11. r \in Tokens /\ Len(r) = n - 1 /\ \A k \in 1 .. (n - 1) : r[k] = L[k + 1]
  <2>1. 2 * (n - 1) + 1 = 2 * n - 1 /\ n - 1 < n
    BY <1>1
  <2> QED BY <1>10, <2>1 DEF I
<1> HIDE DEF r
<1>12. Joined(g, 2 * n) = r
  <2>1. 2 * n \in 1 .. 2 * n
    BY <1>1
  <2>2. g[2 * n] = <<>>
    BY <1>2, <1>3, <1>4, <2>1
  <2> QED BY <1>5, <1>11, <2>1, <2>2, ConcatEmpty DEF r
<1>13. Tail(L) \in Tokens /\ Len(Tail(L)) = n - 1 /\ \A k \in 1 .. (n - 1) : Tail(L)[k] = L[k + 1]
  <2>1. L \in Seq(STRING) /\ L # <<>>
    BY <1>1 DEF n
  <2>2. Tail(L) \in Seq(STRING) /\ Len(Tail(L)) = Len(L) - 1 /\ \A i \in 1 .. Len(Tail(L)) : Tail(L)[i] = L[i + 1]
    BY <2>1, HeadTailProperties
  <2> QED BY <2>2 DEF Tokens, n
<1>14. r = Tail(L)
  BY <1>11, <1>13, SeqEqual DEF Tokens
<1> QED BY <1>4, <1>12, <1>14 DEF h

\* A response that is being read has a start line; one that was taken is encoded
\* from its head and its body.
IsSent == outcome = "ok" /\ input.role = "response"

Sent ==
    /\ pc \in ResponseStates \/ IsSent => Len(head) >= 2 /\ head[1] # Crlf
    /\ IsSent => forwarded = Encode(head, body)

\* What the steps of a response's reader have in common.
LEMMA ResponseSteps ==
    ASSUME FramingInv, Step, pc \in ResponseStates
    PROVE  /\ UNCHANGED <<input, head, buf>> /\ (outcome' = "ok" => body' = body /\ forwarded' = Encode(head, body))
           /\ pc' \in ResponseStates \cup {"done"}
<1>0. outcome = "none" /\ pc \notin {"head", "parse", "rest", "done"}
  BY DEF FramingInv, Types, ResponseStates
<1>1. CASE ReadFixed
  BY <1>0, <1>1 DEF ReadFixed, ResponseDone, ResponseStates, PcStates
<1>2. CASE ReadUntilEof
  BY <1>0, <1>2 DEF ReadUntilEof, ResponseStates, PcStates
<1>3. CASE ReadLineToken
  <2>1. /\ UNCHANGED <<input, head, buf>>
        /\ \/ pc' = "done" /\ outcome' = "parse"
           \/ pc' \in {"size_line", "last_line"} /\ outcome' = outcome
           \/ pc' = pc /\ outcome' = outcome
    BY <1>3 DEF ReadLineToken
  <2> QED BY <1>0, <2>1 DEF ResponseStates, PcStates
<1>4. CASE SizeLine
  <2>1. /\ UNCHANGED <<input, head, buf>>
        /\ \/ pc' = "done" /\ outcome' \in {"parse", "too_large"}
           \/ pc' \in {"last", "data"} /\ outcome' = outcome
    BY <1>4 DEF SizeLine
  <2> QED BY <1>0, <2>1 DEF ResponseStates, PcStates
<1>5. CASE ReadChunk
  BY <1>0, <1>5 DEF ReadChunk, ResponseStates, PcStates
<1>6. CASE ReadDelimiter
  BY <1>0, <1>6 DEF ReadDelimiter, ResponseStates, PcStates
<1>7. CASE LastLine
  BY <1>7 DEF LastLine, ResponseDone
<1>8. CASE EndOfStream
  BY <1>0, <1>8 DEF EndOfStream, ResponseDone, Fail
<1>9. CASE ReadFails
  BY <1>9 DEF ReadFails
<1>10. ~(HeaderTooLong \/ ReadHeader \/ ParseRequest \/ ReadRest \/ RequestDone \/ ParseResponse)
  BY <1>0 DEF HeaderTooLong, ReadHeader, ParseRequest, ReadRest, RequestDone, ParseResponse
<1> QED BY <1>1, <1>2, <1>3, <1>4, <1>5, <1>6, <1>7, <1>8, <1>9, <1>10 DEF Step

\* A response is not begun and not taken before its head has been parsed.
LEMMA OtherSteps ==
    ASSUME FramingInv, Step, pc \notin ResponseStates
    PROVE  /\ UNCHANGED input
           /\ outcome' = "ok" => RequestDone
           /\ pc' \in ResponseStates => ParseResponse /\ outcome' = "none"
<1>0. pc \in {"head", "parse", "rest"} /\ outcome = "none"
  <2>1. pc # "done"
    BY DEF Step, HeaderTooLong, ReadHeader, ParseRequest, ReadRest, RequestDone, ParseResponse, ReadFixed,
           ReadUntilEof, ReadLineToken, SizeLine, ReadChunk, ReadDelimiter, LastLine, EndOfStream, ReadFails,
           ReadDue
  <2> QED BY <2>1 DEF FramingInv, Types, ResponseStates, PcStates
<1>1. CASE HeaderTooLong \/ ReadHeader
  BY <1>0, <1>1 DEF HeaderTooLong, ReadHeader, Fail, ResponseStates
<1>2. CASE ParseRequest
  BY <1>0, <1>2 DEF ParseRequest, Fail, ResponseStates
<1>3. CASE ReadRest
  BY <1>0, <1>3 DEF ReadRest, ResponseStates
<1>4. CASE RequestDone
  BY <1>4 DEF RequestDone, ResponseStates
<1>5. CASE ParseResponse
  BY <1>0, <1>5 DEF ParseResponse, Fail, ResponseStates
<1>6. CASE EndOfStream
  BY <1>0, <1>6 DEF EndOfStream, EndedByEof, Fail, ResponseStates
<1>7. CASE ReadFails
  BY <1>7 DEF ReadFails, ResponseStates
<1>8. ~(ReadFixed \/ ReadUntilEof \/ ReadLineToken \/ SizeLine \/ ReadChunk \/ ReadDelimiter \/ LastLine)
  BY <1>0 DEF ReadFixed, ReadUntilEof, ReadLineToken, SizeLine, ReadChunk, ReadDelimiter, LastLine
<1> QED BY <1>1, <1>2, <1>3, <1>4, <1>5, <1>6, <1>7, <1>8 DEF Step

LEMMA SentStep == ASSUME FramingInv, FramingInv', Sent, [Next]_vars PROVE Sent'
<1>1. CASE UNCHANGED vars
  BY <1>1 DEF vars, Sent, IsSent, Encode, KeptFields, Fields, LengthField
<1>2. CASE Step /\ pc \in ResponseStates
  <2>1. UNCHANGED <<input, head>> /\ (outcome' = "ok" => body' = body /\ forwarded' = Encode(head, body))
    BY <1>2, ResponseSteps
  <2>2. Len(head) >= 2 /\ head[1] # Crlf
    BY <1>2 DEF Sent
  <2>3. outcome' = "ok" => forwarded' = Encode(head', body')
    BY <2>1
  <2> QED BY <2>1, <2>2, <2>3 DEF Sent, IsSent
<1>3. CASE Step /\ pc \notin ResponseStates
  <2>1. CASE RequestDone
    <3>1. pc' \notin ResponseStates /\ input.role = "request" /\ input' = input
      BY <2>1 DEF RequestDone, ResponseStates, FramingInv, Stage
    <3> QED BY <3>1 DEF Sent, IsSent
  <2>2. CASE ~RequestDone /\ ParseResponse
    <3>1. outcome' # "ok"
      BY <1>3, <2>2, OtherSteps
    <3>2. CASE pc' \in ResponseStates
      <4>1. pc = "parse" /\ head' = RawHead /\ ~StatusIsBad(RawHead)
        BY <2>2, <3>2 DEF ParseResponse, Fail, ResponseStates
      <4>2. HeadEnds(buf) # {} /\ buf \in Tokens /\ Len(buf) \in Nat
        BY <4>1, LengthTypes DEF FramingInv, Stage, Types
      <4>3. HeadEnds(buf) \subseteq 2 .. Len(buf) /\ HeadEnds(buf) \subseteq Nat
        BY <4>2 DEF HeadEnds
      <4>4. Min(HeadEnds(buf)) \in 2 .. Len(buf)
        BY <4>2, <4>3, MinFacts
      <4>5. Len(RawHead) >= 2
        BY <4>2, <4>4, SubSeqFacts DEF RawHead
      <4>6. RawHead[1] # Crlf
        BY <4>1 DEF StatusIsBad, Crlf
      <4> QED BY <3>1, <4>1, <4>5, <4>6 DEF Sent, IsSent
    <3>3. CASE pc' \notin ResponseStates
      BY <3>1, <3>3 DEF Sent, IsSent
    <3> QED BY <3>2, <3>3
  <2>3. CASE ~RequestDone /\ ~ParseResponse
    BY <1>3, <2>3, OtherSteps DEF Sent, IsSent
  <2> QED BY <2>1, <2>2, <2>3
<1> QED BY <1>1, <1>2, <1>3 DEF Next, Returned

LEMMA SentIsFramed == ASSUME FramingInv, Stream, Sent PROVE ForwardedIsFramed
<1> SUFFICES ASSUME outcome = "ok", input.role = "response", head[1] # "204"
             PROVE  LET end == Min(HeadEnds(forwarded))
                        h   == SubSeq(forwarded, 1, end)
                    IN  /\ Drop(forwarded, end) = body
                        /\ h[1] = head[1]
                        /\ Fields(h) = Without(Fields(head), FramingNames) \o <<LengthField(Len(body))>>
  BY DEF ForwardedIsFramed
<1> DEFINE kept == KeptFields(head)
           lf == LengthField(Len(body))
           L == (<<head[1]>> \o kept) \o <<lf>>
<1>1. head \in Tokens /\ body \in Tokens /\ Len(body) \in Nat /\ Len(head) \in Nat /\ need \in Nat
  BY LengthTypes, TokensLen DEF FramingInv, Types, Stream
<1>2. forwarded = Encode(head, body) /\ Len(head) >= 2 /\ head[1] # Crlf
  BY DEF Sent, IsSent
<1>3. head[1] \in Text
  <2>1. head[1] \in STRING
    BY <1>1, <1>2 DEF Tokens
  <2> QED BY <1>2, <2>1 DEF Text
<1>4. kept \in Seq(Text)
  <2>1. Tail(head) \in Seq(STRING)
    BY <1>1, <1>2 DEF Tokens
  <2>2. Fields(head) \in Seq(Text)
    <3>1. STRING \subseteq STRING
      OBVIOUS
    <3> QED BY <2>1, <3>1, WithoutType DEF Fields, Text
  <2>3. Text \subseteq STRING
    BY DEF Text
  <2>4. kept \in Seq(Text \ FramingNames)
    BY <2>2, <2>3, WithoutType DEF KeptFields
  <2>5. \A i \in 1 .. Len(kept) : kept[i] \in Text
    BY <2>4
  <2> QED BY <2>4, <2>5
<1>5. lf \in Text
  <2>1. Len(body) <= MaxResponse
    BY <1>1, Limits DEF FramingInv, BodyBound
  <2>2. \E t \in DOMAIN ContentLength : ContentLength[t] = Len(body)
    BY <1>1, <2>1, LimitAssumption
  <2>3. lf \in DOMAIN ContentLength
    BY <2>2, Zenon DEF LengthField
  <2> QED BY <2>3, LimitAssumption
<1> HIDE DEF kept, lf
<1>6. <<head[1]>> \in Seq(Text) /\ <<lf>> \in Seq(Text) /\ Len(<<head[1]>>) = 1
  BY <1>3, <1>5, Singleton
<1>7. L \in Seq(Text) /\ Len(L) = Len(kept) + 2 /\ L[1] = head[1] /\ Tail(L) = kept \o <<lf>>
  <2>1. L = <<head[1]>> \o (kept \o <<lf>>)
    BY <1>4, <1>6, ConcatAssociative
  <2>2. kept \o <<lf>> \in Seq(Text) /\ Len(kept \o <<lf>>) = Len(kept) + 1 /\ Len(kept) \in Nat
    BY <1>4, <1>6
  <2> DEFINE r == kept \o <<lf>>
             x == head[1]
  <2> HIDE DEF r, x
  <2>3. r \in Seq(Text) /\ x \in Text
    BY <1>3, <2>2 DEF r, x
  <2>4. <<x>> \o r \in Seq(Text) /\ Len(<<x>> \o r) = 1 + Len(r) /\ (<<x>> \o r)[1] = x /\ Tail(<<x>> \o r) = r
    BY <2>3, PrependFacts
  <2> QED BY <2>1, <2>2, <2>4 DEF r, x
<1>8. forwarded = HeadWith(L) \o body
  BY <1>2 DEF Encode, HeadWith, kept, lf
<1> HIDE DEF L
<1> DEFINE H == HeadWith(L)
<1>9. H \in Tokens /\ Len(H) = 2 * Len(L) + 1 /\ Len(L) \in Nat /\ Len(L) >= 1
  <2>1. Len(kept) \in Nat
    BY <1>4
  <2> QED BY <1>7, <2>1, HeadWithFacts
<1>10. H[1] = L[1]
  <2>1. 0 \in Nat /\ 0 < Len(L) /\ 2 * 0 + 1 = 1 /\ 0 + 1 = 1
    BY <1>9
  <2> QED BY <1>7, <2>1, HeadWithFacts
<1> HIDE DEF H
<1>11. forwarded \in Tokens /\ Len(forwarded) = Len(H) + Len(body)
       /\ \A i \in 1 .. Len(H) : forwarded[i] = H[i]
  <2>1. H \o body \in Tokens /\ Len(H \o body) = Len(H) + Len(body)
    BY <1>1, <1>9, ConcatFacts
  <2>2. \A i \in 1 .. Len(H) : (H \o body)[i] = H[i]
    BY <1>1, <1>9, ConcatAt
  <2>3. forwarded = H \o body
    BY <1>8 DEF H
  <2> QED BY <2>1, <2>2, <2>3
<1>12. Min(HeadEnds(forwarded)) = Len(H)
  <2>1. \A i \in 1 .. Len(forwarded) : i <= 2 * Len(L) + 1 => forwarded[i] = HeadWith(L)[i]
    BY <1>1, <1>9, <1>11 DEF H
  <2>2. Len(forwarded) >= 2 * Len(L) + 1
    BY <1>1, <1>9, <1>11
  <2> QED BY <1>7, <1>9, <1>11, <2>1, <2>2, HeadEnd
<1>13. SubSeq(forwarded, 1, Len(H)) = H /\ Drop(forwarded, Len(H)) = body
  BY <1>1, <1>8, <1>9, Parts DEF H
<1>14. Fields(H) = kept \o <<lf>>
  BY <1>7, <1>9, FieldsOfHead DEF H
<1> QED BY <1>7, <1>10, <1>12, <1>13, <1>14 DEF kept, lf, KeptFields

\* ForwardedIsFramed for every instance: a client that reads the response finds
\* the end of its head and of its body where the proxy put them, whatever the
\* backend's framing was and whatever the body holds.
THEOREM ForwardedResponsesAreFramed == Spec => []ForwardedIsFramed
<1>1. Init => Sent
  BY DEF Init, Sent, IsSent, ResponseStates
<1>2. FramingInv /\ FramingInv' /\ Sent /\ [Next]_vars => Sent'
  BY SentStep
<1>3. FramingInv /\ Stream /\ Sent => ForwardedIsFramed
  BY SentIsFramed
<1>4. Spec => []Stream
  BY ExactInvariant, PTL DEF ExactInv
<1> QED BY <1>1, <1>2, <1>3, <1>4, FramingInvariant, PTL DEF Spec

-----------------------------------------------------------------------------
(* Messages as they are written *)

LinesOf(m) == <<m.start>> \o m.fields

LEMMA WrittenHeadFacts ==
    ASSUME NEW m, IsMessage(m)
    PROVE  /\ LinesOf(m) \in Seq(Text) /\ Len(LinesOf(m)) \in Nat /\ Len(LinesOf(m)) >= 1
           /\ WrittenHead(m) = HeadWith(LinesOf(m))
           /\ WrittenHead(m) \in Tokens /\ Len(WrittenHead(m)) = 2 * Len(LinesOf(m)) + 1
           /\ Len(WrittenHead(m)) \in Nat /\ Len(WrittenHead(m)) >= 3
           /\ WrittenHead(m)[1] = m.start
<1>1. m.start \in Text /\ m.fields \in Seq(Text)
  BY Zenon DEF IsMessage
<1>a. Len(m.fields) \in Nat
  BY <1>1
<1>2. LinesOf(m) \in Seq(Text) /\ Len(LinesOf(m)) = 1 + Len(m.fields) /\ LinesOf(m)[1] = m.start
  BY <1>1, PrependFacts DEF LinesOf
<1>3. WrittenHead(m) = HeadWith(LinesOf(m))
  BY DEF WrittenHead, HeadWith, LinesOf
<1>4. Len(LinesOf(m)) \in Nat /\ Len(LinesOf(m)) >= 1
  BY <1>a, <1>2
<1>5. HeadWith(LinesOf(m)) \in Tokens /\ Len(HeadWith(LinesOf(m))) = 2 * Len(LinesOf(m)) + 1
  BY <1>2, HeadWithFacts
<1>6. HeadWith(LinesOf(m))[1] = m.start
  <2>1. 0 \in Nat /\ 0 < Len(LinesOf(m)) /\ 2 * 0 + 1 = 1 /\ 0 + 1 = 1
    BY <1>4
  <2> QED BY <1>2, <2>1, HeadWithFacts
<1> QED BY <1>2, <1>3, <1>4, <1>5, <1>6

LEMMA PartsFacts ==
    ASSUME NEW m, IsMessage(m)
    PROVE  /\ m.parts \in Seq(Tokens) /\ Len(m.parts) \in Nat
           /\ \A i \in 1 .. Len(m.parts) : m.parts[i] \in Tokens /\ Len(m.parts[i]) \in Nat /\ Len(m.parts[i]) > 0
           /\ m.extension \in Tokens /\ Len(m.extension) \in Nat
           /\ \A j \in 1 .. Len(m.extension) : m.extension[j] # Crlf
           /\ Payload(m) \in Tokens /\ Len(Payload(m)) \in Nat
<1> DEFINE P == Seq(STRING) \ {<<>>}
<1>1. m.parts \in Seq(P) /\ m.extension \in Seq(Text)
  BY Zenon DEF IsMessage
<1>2. Len(m.parts) \in Nat /\ \A i \in 1 .. Len(m.parts) : m.parts[i] \in P
  BY <1>1
<1>3. \A i \in 1 .. Len(m.parts) : m.parts[i] \in Tokens /\ Len(m.parts[i]) \in Nat /\ Len(m.parts[i]) > 0
  <2> SUFFICES ASSUME NEW i \in 1 .. Len(m.parts)
               PROVE  m.parts[i] \in Tokens /\ Len(m.parts[i]) \in Nat /\ Len(m.parts[i]) > 0
    OBVIOUS
  <2>1. m.parts[i] \in Tokens /\ m.parts[i] # <<>>
    BY <1>2 DEF Tokens
  <2> QED BY <2>1 DEF Tokens
<1>4. m.parts \in Seq(Tokens)
  <2>1. m.parts = [i \in 1 .. Len(m.parts) |-> m.parts[i]]
    BY <1>1
  <2>2. m.parts \in [1 .. Len(m.parts) -> Tokens]
    BY <1>3, <2>1, Zenon
  <2> DEFINE q == m.parts
             k == Len(m.parts)
  <2>3. k \in Nat /\ q \in [1 .. k -> Tokens]
    BY <1>2, <2>2
  <2> HIDE DEF q, k
  <2>4. q \in Seq(Tokens)
    BY <2>3, SeqDef
  <2> QED BY <2>4 DEF q
<1>5. Payload(m) \in Tokens
  <2>1. Len(m.parts) \in 0 .. Len(m.parts)
    BY <1>2
  <2> QED BY <1>4, <2>1, FlattenSteps DEF Payload
<1>6. m.extension \in Tokens /\ \A j \in 1 .. Len(m.extension) : m.extension[j] # Crlf
  <2>1. Len(m.extension) \in Nat /\ \A j \in 1 .. Len(m.extension) : m.extension[j] \in Text
    BY <1>1
  <2>2. \A j \in 1 .. Len(m.extension) : m.extension[j] \in STRING /\ m.extension[j] # Crlf
    BY <2>1 DEF Text
  <2>3. m.extension = [j \in 1 .. Len(m.extension) |-> m.extension[j]]
    BY <1>1, LenProperties
  <2>4. m.extension \in [1 .. Len(m.extension) -> STRING]
    BY <2>2, <2>3, Zenon
  <2> QED BY <2>1, <2>2, <2>4 DEF Tokens
<1> QED BY <1>2, <1>3, <1>4, <1>5, <1>6, TokensLen

LEMMA SizeTokenFacts ==
    ASSUME NEW m, IsMessage(m), NEW n \in {0} \cup {Len(m.parts[i]) : i \in DOMAIN m.parts}
    PROVE  SizeToken(n) \in DOMAIN SizeOf /\ SizeOf[SizeToken(n)] = n /\ SizeToken(n) \in STRING
           /\ SizeToken(n) # Crlf
<1>1. \E t \in DOMAIN SizeOf : SizeOf[t] = n
  BY Zenon DEF IsMessage
<1>2. SizeToken(n) \in DOMAIN SizeOf /\ SizeOf[SizeToken(n)] = n
  BY <1>1, Zenon DEF SizeToken
<1> QED BY <1>2, LimitAssumption DEF Text

LEMMA JoinFacts ==
    ASSUME NEW s \in Tokens, NEW n \in Nat, Len(s) = n, NEW t \in Tokens
    PROVE  /\ s \o t \in Tokens /\ Len(s \o t) = n + Len(t)
           /\ \A i \in 1 .. n : (s \o t)[i] = s[i]
           /\ \A j \in 1 .. Len(t) : (s \o t)[n + j] = t[j]
  BY ConcatFacts, ConcatAt

LEMMA ExtendFacts ==
    ASSUME NEW s \in Tokens, NEW n \in Nat, Len(s) = n, NEW c \in STRING
    PROVE  /\ s \o <<c>> \in Tokens /\ Len(s \o <<c>>) = n + 1
           /\ \A i \in 1 .. n : (s \o <<c>>)[i] = s[i]
           /\ (s \o <<c>>)[n + 1] = c
<1> DEFINE u == <<c>>
<1>1. u \in Tokens /\ Len(u) = 1 /\ u[1] = c
  BY OneToken
<1> HIDE DEF u
<1>2. /\ s \o u \in Tokens /\ Len(s \o u) = n + Len(u)
      /\ \A i \in 1 .. n : (s \o u)[i] = s[i]
      /\ \A j \in 1 .. Len(u) : (s \o u)[n + j] = u[j]
  <2>1. u \in Tokens
    BY <1>1
  <2> QED BY <2>1, JoinFacts, Zenon
<1>3. 1 \in 1 .. 1
  OBVIOUS
<1> QED BY <1>1, <1>2, <1>3, Zenon DEF u

\* Where everything is in a chunk.
LEMMA ChunkLayout ==
    ASSUME NEW m, IsMessage(m), NEW i \in 1 .. Len(m.parts)
    PROVE  LET c == Chunk(m, i)
               e == Len(m.extension)
               p == m.parts[i]
           IN  /\ c \in Tokens /\ Len(c) = e + 3 + Len(p)
               /\ c[1] = SizeToken(Len(p)) /\ (\A j \in 1 .. e : c[1 + j] = m.extension[j])
               /\ c[e + 2] = Crlf
               /\ (\A j \in 1 .. Len(p) : c[e + 2 + j] = p[j]) /\ c[e + 3 + Len(p)] = Crlf
<1> DEFINE e == Len(m.extension)
           p == m.parts[i]
           t == SizeToken(Len(p))
           x == m.extension
           a == <<t>> \o x
           b == a \o <<Crlf>>
           d == b \o p
           c == d \o <<Crlf>>
<1>1. p \in Tokens /\ Len(p) \in Nat /\ x \in Tokens /\ e \in Nat
  BY PartsFacts
<1>2. t \in STRING
  <2>1. DOMAIN m.parts = 1 .. Len(m.parts)
    BY PartsFacts
  <2>2. Len(p) \in {0} \cup {Len(m.parts[k]) : k \in DOMAIN m.parts}
    BY <2>1
  <2> QED BY <2>2, SizeTokenFacts
<1>3. c = Chunk(m, i)
  BY DEF Chunk
<1> HIDE DEF p, t, x
<1>4. <<Crlf>> \in Tokens /\ Len(<<Crlf>>) = 1 /\ <<Crlf>>[1] = Crlf /\ 1 \in 1 .. 1
      /\ <<t>> \in Tokens /\ Len(<<t>>) = 1 /\ <<t>>[1] = t
  BY <1>2, OneToken, InputAssumption
<1> HIDE DEF e
<1>5. a \in Tokens /\ Len(a) = e + 1 /\ a[1] = t /\ \A j \in 1 .. e : a[1 + j] = x[j]
  <2>1. e = Len(x) /\ 1 \in 1 .. 1 /\ 1 \in Nat /\ 1 + e = e + 1
    BY <1>1 DEF e, x
  <2> DEFINE u == <<t>>
  <2>2. u \in Tokens /\ Len(u) = 1 /\ u[1] = t
    BY <1>4
  <2> HIDE DEF u
  <2>a. x \in Tokens
    BY <1>1
  <2>3. u \o x \in Tokens /\ Len(u \o x) = 1 + e /\ (\A j \in 1 .. 1 : (u \o x)[j] = u[j])
        /\ \A j \in 1 .. e : (u \o x)[1 + j] = x[j]
    BY <2>a, <2>1, <2>2, JoinFacts, ZenonT(40)
  <2> QED BY <2>1, <2>2, <2>3, Zenon DEF u
<1> HIDE DEF a
<1>c. Crlf \in STRING
  BY InputAssumption
<1>6. b \in Tokens /\ Len(b) = e + 2 /\ (\A j \in 1 .. (e + 1) : b[j] = a[j]) /\ b[e + 2] = Crlf
  <2> DEFINE k == e + 1
  <2>1. k \in Nat /\ k + 1 = e + 2 /\ a \in Tokens /\ Len(a) = k
    BY <1>1, <1>5
  <2> HIDE DEF k
  <2>2. b \in Tokens /\ Len(b) = k + 1 /\ (\A j \in 1 .. k : b[j] = a[j]) /\ b[k + 1] = Crlf
    BY <1>c, <2>1, ExtendFacts, Zenon
  <2> QED BY <2>1, <2>2 DEF k
<1> HIDE DEF b
<1>7. d \in Tokens /\ Len(d) = e + 2 + Len(p) /\ (\A j \in 1 .. (e + 2) : d[j] = b[j])
      /\ \A j \in 1 .. Len(p) : d[e + 2 + j] = p[j]
  <2> DEFINE k == e + 2
  <2>1. k \in Nat /\ b \in Tokens /\ Len(b) = k /\ p \in Tokens
    BY <1>1, <1>6
  <2> HIDE DEF k
  <2>2. d \in Tokens /\ Len(d) = k + Len(p) /\ (\A j \in 1 .. k : d[j] = b[j])
        /\ \A j \in 1 .. Len(p) : d[k + j] = p[j]
    BY <2>1, JoinFacts, ZenonT(40)
  <2> QED BY <2>2 DEF k
<1> HIDE DEF d
<1>8. c \in Tokens /\ Len(c) = e + 3 + Len(p) /\ (\A j \in 1 .. (e + 2 + Len(p)) : c[j] = d[j])
      /\ c[e + 3 + Len(p)] = Crlf
  <2> DEFINE k == e + 2 + Len(p)
  <2>1. k \in Nat /\ k + 1 = e + 3 + Len(p) /\ d \in Tokens /\ Len(d) = k
    BY <1>1, <1>7
  <2> HIDE DEF k
  <2>2. c \in Tokens /\ Len(c) = k + 1 /\ (\A j \in 1 .. k : c[j] = d[j]) /\ c[k + 1] = Crlf
    BY <1>c, <2>1, ExtendFacts, Zenon
  <2> QED BY <2>1, <2>2 DEF k
<1> HIDE DEF c
<1>9. \A j \in 1 .. (e + 1) : j \in 1 .. (e + 2) /\ j \in 1 .. (e + 2 + Len(p))
  BY <1>1
<1>10. c[1] = t
  <2>1. 1 \in 1 .. (e + 1)
    BY <1>1
  <2> QED BY <1>5, <1>6, <1>7, <1>8, <1>9, <2>1
<1>11. ASSUME NEW j \in 1 .. e PROVE c[1 + j] = x[j]
  <2>1. 1 + j \in 1 .. (e + 1)
    BY <1>1
  <2> QED BY <1>5, <1>6, <1>7, <1>8, <1>9, <2>1
<1>12. c[e + 2] = Crlf
  <2>1. e + 2 \in 1 .. (e + 2) /\ e + 2 \in 1 .. (e + 2 + Len(p))
    BY <1>1
  <2> QED BY <1>6, <1>7, <1>8, <2>1
<1>13. ASSUME NEW j \in 1 .. Len(p) PROVE c[e + 2 + j] = p[j]
  <2>1. e + 2 + j \in 1 .. (e + 2 + Len(p))
    BY <1>1
  <2> QED BY <1>7, <1>8, <2>1
<1> QED BY <1>3, <1>8, <1>10, <1>11, <1>12, <1>13 DEF e, p, t, x

LEMMA ThreeTokens ==
    ASSUME NEW a \in STRING, NEW b \in STRING, NEW c \in STRING
    PROVE  /\ <<a, b, c>> \in Tokens /\ Len(<<a, b, c>>) = 3
           /\ <<a, b, c>>[1] = a /\ <<a, b, c>>[2] = b /\ <<a, b, c>>[3] = c
<1>1. <<a, b, c>> = [i \in 1 .. 3 |-> <<a, b, c>>[i]] /\ Len(<<a, b, c>>) = 3
      /\ <<a, b, c>>[1] = a /\ <<a, b, c>>[2] = b /\ <<a, b, c>>[3] = c
  OBVIOUS
<1> DEFINE u == <<a, b, c>>
<1>2. u = [i \in 1 .. 3 |-> u[i]] /\ u[1] = a /\ u[2] = b /\ u[3] = c
  BY <1>1
<1> HIDE DEF u
<1>3. \A i \in 1 .. 3 : i = 1 \/ i = 2 \/ i = 3
  OBVIOUS
<1>4. \A i \in 1 .. 3 : u[i] \in STRING
  BY <1>2, <1>3, Zenon
<1>5. u \in [1 .. 3 -> STRING]
  BY <1>2, <1>4, Zenon
<1>6. u \in Seq(STRING)
  BY <1>5, SeqDef
<1>7. u \in Tokens
  BY <1>6 DEF Tokens
<1> QED BY <1>1, <1>7, Zenon DEF u

ChunkList(m) == [i \in DOMAIN m.parts |-> Chunk(m, i)]
Trailer      == <<SizeToken(0), Crlf, Crlf>>

LEMMA ChunkListFacts ==
    ASSUME NEW m, IsMessage(m)
    PROVE  /\ ChunkList(m) \in Seq(Tokens) /\ Len(ChunkList(m)) = Len(m.parts)
           /\ \A i \in 1 .. Len(m.parts) : ChunkList(m)[i] = Chunk(m, i)
           /\ Trailer \in Tokens /\ Len(Trailer) = 3
           /\ Trailer[1] = SizeToken(0) /\ Trailer[2] = Crlf /\ Trailer[3] = Crlf
<1>1. Len(m.parts) \in Nat /\ DOMAIN m.parts = 1 .. Len(m.parts)
  BY PartsFacts
<1>2. \A i \in 1 .. Len(m.parts) : ChunkList(m)[i] = Chunk(m, i) /\ Chunk(m, i) \in Tokens
  BY <1>1, ChunkLayout DEF ChunkList
<1>3. ChunkList(m) = [i \in 1 .. Len(m.parts) |-> ChunkList(m)[i]]
  BY <1>1 DEF ChunkList
<1>4. ChunkList(m) \in [1 .. Len(m.parts) -> Tokens]
  BY <1>2, <1>3, Zenon
<1>5. ChunkList(m) \in Seq(Tokens) /\ Len(ChunkList(m)) = Len(m.parts)
  <2> DEFINE q == ChunkList(m)
             k == Len(m.parts)
  <2>1. k \in Nat /\ q \in [1 .. k -> Tokens]
    BY <1>1, <1>4
  <2> HIDE DEF q, k
  <2>2. q \in Seq(Tokens) /\ Len(q) = k
    BY <2>1, SeqDef, LenProperties
  <2> QED BY <2>2 DEF q, k
<1>6. SizeToken(0) \in STRING
  <2>1. 0 \in {0} \cup {Len(m.parts[i]) : i \in DOMAIN m.parts}
    OBVIOUS
  <2> QED BY <2>1, SizeTokenFacts
<1> QED BY <1>2, <1>5, <1>6, ThreeTokens, InputAssumption DEF Trailer

LEMMA WrittenFacts ==
    ASSUME NEW m, IsMessage(m)
    PROVE  LET h == WrittenHead(m)
               b == WrittenBody(m)
               w == Written(m)
           IN  /\ b \in Tokens /\ Len(b) \in Nat
               /\ w \in Tokens /\ Len(w) = Len(h) + Len(b)
               /\ \A i \in 1 .. Len(h) : w[i] = h[i]
               /\ \A j \in 1 .. Len(b) : w[Len(h) + j] = b[j]
<1> DEFINE h == WrittenHead(m)
           b == WrittenBody(m)
           all == FlattenSeq(ChunkList(m))
<1>1. h \in Tokens /\ Payload(m) \in Tokens /\ <<>> \in Tokens
  BY WrittenHeadFacts, PartsFacts, ConcatEmpty
<1>2. all \o Trailer \in Tokens
  <2>1. Len(ChunkList(m)) \in 0 .. Len(ChunkList(m))
    BY ChunkListFacts, PartsFacts
  <2>2. all \in Tokens
    BY <2>1, ChunkListFacts, FlattenSteps
  <2> QED BY <2>2, ChunkListFacts, ConcatFacts
<1>3. b = IF m.start = "204" THEN <<>> ELSE IF IsChunked(h) THEN all \o Trailer ELSE Payload(m)
  BY DEF WrittenBody, ChunkList, Trailer
<1>4. Written(m) = h \o b
  BY DEF Written
<1> HIDE DEF h, b, all
<1>5. b \in Tokens
  BY <1>1, <1>2, <1>3
<1>6. h \o b \in Tokens /\ Len(h \o b) = Len(h) + Len(b)
  BY <1>1, <1>5, ConcatFacts
<1>7. (\A i \in 1 .. Len(h) : (h \o b)[i] = h[i]) /\ \A j \in 1 .. Len(b) : (h \o b)[Len(h) + j] = b[j]
  BY <1>1, <1>5, ConcatAt
<1> QED BY <1>4, <1>5, <1>6, <1>7, TokensLen DEF h, b

\* Where the i-th chunk begins, and how much of the payload is before it.
StartOf(m, i) == Len(WrittenHead(m)) + Len(Joined(ChunkList(m), i))
Before(m, i)  == Len(Joined(m.parts, i))

LEMMA BeforeFacts ==
    ASSUME NEW m, IsMessage(m)
    PROVE  /\ Before(m, 0) = 0 /\ Before(m, Len(m.parts)) = Len(Payload(m))
           /\ \A i \in 0 .. Len(m.parts) : Before(m, i) \in Nat /\ Before(m, i) <= Len(Payload(m))
           /\ \A i \in 0 .. Len(m.parts) : i < Len(m.parts) =>
                 /\ i + 1 \in 1 .. Len(m.parts) /\ i + 1 \in 0 .. Len(m.parts)
                 /\ Before(m, i + 1) = Before(m, i) + Len(m.parts[i + 1])
                 /\ \A j \in 1 .. Len(m.parts[i + 1]) : Payload(m)[Before(m, i) + j] = m.parts[i + 1][j]
<1> DEFINE s == m.parts
           n == Len(m.parts)
<1>1. s \in Seq(Tokens) /\ n \in Nat /\ Payload(m) \in Tokens /\ Len(Payload(m)) \in Nat
  BY PartsFacts
<1>2. /\ Joined(s, 0) = <<>> /\ Payload(m) = Joined(s, n)
      /\ \A i \in 0 .. n : Joined(s, i) \in Tokens
  BY <1>1, FlattenSteps DEF Payload
<1>3. Before(m, 0) = 0 /\ Before(m, n) = Len(Payload(m))
  BY <1>2 DEF Before
<1>4. \A i \in 0 .. n : Before(m, i) \in Nat
  BY <1>2, TokensLen DEF Before
<1>5. \A k \in 1 .. n : /\ Before(m, k) = Before(m, k - 1) + Len(s[k])
                        /\ Before(m, k) <= Len(Payload(m))
                        /\ \A j \in 1 .. Len(s[k]) : Payload(m)[Before(m, k - 1) + j] = s[k][j]
  BY <1>1, FlattenLayout DEF Before, Payload
<1>6. \A i \in 0 .. n : Before(m, i) <= Len(Payload(m))
  BY <1>1, <1>3, <1>5
<1> HIDE DEF s, n
<1>7. ASSUME NEW i \in 0 .. n, i < n
      PROVE  /\ i + 1 \in 1 .. n /\ i + 1 \in 0 .. n
             /\ Before(m, i + 1) = Before(m, i) + Len(s[i + 1])
             /\ \A j \in 1 .. Len(s[i + 1]) : Payload(m)[Before(m, i) + j] = s[i + 1][j]
  <2>1. i + 1 \in 1 .. n /\ i + 1 \in 0 .. n /\ (i + 1) - 1 = i
    BY <1>1, <1>7
  <2> QED BY <1>5, <2>1
<1> QED BY <1>3, <1>4, <1>6, <1>7 DEF s, n

\* Where everything is in a chunked message.
LEMMA StartFacts ==
    ASSUME NEW m, IsMessage(m), m.start # "204", IsChunked(WrittenHead(m))
    PROVE  LET n == Len(m.parts)
               w == Written(m)
           IN  /\ StartOf(m, 0) = Len(WrittenHead(m)) /\ (\A i \in 0 .. n : StartOf(m, i) \in Nat)
               /\ Len(w) = StartOf(m, n) + 3
               /\ w[StartOf(m, n) + 1] = SizeToken(0)
               /\ w[StartOf(m, n) + 2] = Crlf /\ w[StartOf(m, n) + 3] = Crlf
               /\ \A i \in 0 .. n : i < n =>
                     /\ StartOf(m, i + 1) = StartOf(m, i) + Len(Chunk(m, i + 1))
                     /\ StartOf(m, i + 1) <= StartOf(m, n)
                     /\ \A j \in 1 .. Len(Chunk(m, i + 1)) : w[StartOf(m, i) + j] = Chunk(m, i + 1)[j]
<1> DEFINE s == ChunkList(m)
           n == Len(m.parts)
           h == WrittenHead(m)
           b == WrittenBody(m)
           w == Written(m)
           all == FlattenSeq(s)
<1>1. s \in Seq(Tokens) /\ n \in Nat /\ Len(s) = n /\ Len(h) \in Nat
      /\ Trailer \in Tokens /\ Len(Trailer) = 3
  BY PartsFacts, ChunkListFacts, WrittenHeadFacts
<1>2. Joined(s, 0) = <<>> /\ all = Joined(s, n) /\ \A i \in 0 .. n : Joined(s, i) \in Tokens
  BY <1>1, FlattenSteps
<1>3. \A i \in 0 .. n : Len(Joined(s, i)) \in Nat /\ StartOf(m, i) \in Nat
                         /\ StartOf(m, i) = Len(h) + Len(Joined(s, i))
  BY <1>1, <1>2, TokensLen DEF StartOf
<1>4. Len(Joined(s, 0)) = 0 /\ StartOf(m, 0) = Len(h)
  <2>1. 0 \in 0 .. n
    BY <1>1
  <2> QED BY <1>1, <1>2, <1>3, <2>1
<1>5. b = all \o Trailer
  BY DEF WrittenBody, ChunkList, Trailer
<1>6. all \in Tokens /\ Len(all) \in Nat /\ StartOf(m, n) = Len(h) + Len(all)
  <2>1. n \in 0 .. n
    BY <1>1
  <2> QED BY <1>2, <1>3, <2>1
<1>7. b \in Tokens /\ Len(b) = Len(all) + 3
  BY <1>1, <1>5, <1>6, ConcatFacts
<1>8. (\A j \in 1 .. Len(all) : b[j] = all[j]) /\ \A j \in 1 .. 3 : b[Len(all) + j] = Trailer[j]
  <2> HIDE DEF all, b
  <2>1. Trailer \in Tokens /\ all \in Tokens /\ Len(all) \in Nat
    BY <1>1, <1>6
  <2>2. (\A j \in 1 .. Len(all) : (all \o Trailer)[j] = all[j])
        /\ \A j \in 1 .. Len(Trailer) : (all \o Trailer)[Len(all) + j] = Trailer[j]
    BY <2>1, ConcatAt, ZenonT(40)
  <2>3. Len(Trailer) = 3
    BY <1>1
  <2> QED BY <1>5, <2>2, <2>3, ZenonT(40)
<1>9. Len(w) = Len(h) + Len(b) /\ \A j \in 1 .. Len(b) : w[Len(h) + j] = b[j]
  BY WrittenFacts
<1>10. ASSUME NEW k \in 1 .. n
       PROVE  /\ s[k] = Chunk(m, k) /\ Len(s[k]) \in Nat
              /\ Len(Joined(s, k)) = Len(Joined(s, k - 1)) + Len(s[k])
              /\ Len(Joined(s, k)) <= Len(all)
              /\ \A j \in 1 .. Len(s[k]) : all[Len(Joined(s, k - 1)) + j] = s[k][j]
  <2>1. s[k] = Chunk(m, k)
    BY ChunkListFacts
  <2>2. Len(s[k]) \in Nat
    BY <2>1, ChunkLayout, TokensLen
  <2>3. k \in 1 .. Len(s)
    BY <1>1
  <2> HIDE DEF s
  <2> QED BY <1>1, <2>1, <2>2, <2>3, FlattenLayout
<1> HIDE DEF s, n, h, b, w, all
<1>11. Len(w) = StartOf(m, n) + 3
  BY <1>1, <1>6, <1>7, <1>9
<1>12. \A j \in 1 .. 3 : w[StartOf(m, n) + j] = Trailer[j]
  <2> TAKE j \in 1 .. 3
  <2>1. Len(all) + j \in 1 .. Len(b) /\ Len(h) + (Len(all) + j) = StartOf(m, n) + j
    BY <1>1, <1>6, <1>7
  <2> QED BY <1>8, <1>9, <2>1
<1>13. ASSUME NEW i \in 0 .. n, i < n
       PROVE  /\ StartOf(m, i + 1) = StartOf(m, i) + Len(Chunk(m, i + 1))
              /\ StartOf(m, i + 1) <= StartOf(m, n)
              /\ \A j \in 1 .. Len(Chunk(m, i + 1)) : w[StartOf(m, i) + j] = Chunk(m, i + 1)[j]
  <2>1. i + 1 \in 1 .. n /\ i + 1 \in 0 .. n /\ (i + 1) - 1 = i
    BY <1>1, <1>13
  <2>2. /\ s[i + 1] = Chunk(m, i + 1) /\ Len(s[i + 1]) \in Nat
        /\ Len(Joined(s, i + 1)) = Len(Joined(s, i)) + Len(s[i + 1])
        /\ Len(Joined(s, i + 1)) <= Len(all)
        /\ \A j \in 1 .. Len(s[i + 1]) : all[Len(Joined(s, i)) + j] = s[i + 1][j]
    BY <1>10, <2>1
  <2>3. StartOf(m, i + 1) = StartOf(m, i) + Len(s[i + 1]) /\ StartOf(m, i + 1) <= StartOf(m, n)
    <3>1. /\ StartOf(m, i) = Len(h) + Len(Joined(s, i)) /\ Len(Joined(s, i)) \in Nat
          /\ StartOf(m, i + 1) = Len(h) + Len(Joined(s, i + 1)) /\ Len(Joined(s, i + 1)) \in Nat
      BY <1>3, <2>1
    <3> DEFINE x == Len(Joined(s, i))
               y == Len(Joined(s, i + 1))
               z == Len(all)
               l == Len(s[i + 1])
               a == Len(h)
    <3>2. x \in Nat /\ y \in Nat /\ z \in Nat /\ l \in Nat /\ a \in Nat /\ y = x + l /\ y <= z
      BY <1>1, <1>6, <2>2, <3>1
    <3>3. StartOf(m, i) = a + x /\ StartOf(m, i + 1) = a + y /\ StartOf(m, n) = a + z
      BY <1>6, <3>1
    <3> HIDE DEF x, y, z, a, l
    <3>4. StartOf(m, i + 1) = StartOf(m, i) + l /\ StartOf(m, i + 1) <= StartOf(m, n)
      BY <3>2, <3>3
    <3> QED BY <3>4 DEF l
  <2>4. ASSUME NEW j \in 1 .. Len(s[i + 1]) PROVE w[StartOf(m, i) + j] = s[i + 1][j]
    <3> DEFINE g == Len(Joined(s, i))
    <3>1. g \in Nat /\ StartOf(m, i) = Len(h) + g /\ g + Len(s[i + 1]) <= Len(all)
      BY <1>3, <2>2
    <3>2. all[g + j] = s[i + 1][j]
      BY <2>2
    <3> HIDE DEF g
    <3>3. g + j \in 1 .. Len(all) /\ g + j \in 1 .. Len(b) /\ Len(h) + (g + j) = StartOf(m, i) + j
      BY <1>1, <1>6, <1>7, <2>2, <3>1
    <3> QED BY <1>8, <1>9, <3>2, <3>3
  <2> QED BY <2>2, <2>3, <2>4
<1>14. 1 \in 1 .. 3 /\ 2 \in 1 .. 3 /\ 3 \in 1 .. 3
  OBVIOUS
<1> QED BY <1>3, <1>4, <1>11, <1>12, <1>13, <1>14, ChunkListFacts DEF n, w, h

\* The size line of the i-th chunk, without its line end.
LineLen(m, i) == IF i < Len(m.parts) THEN 1 + Len(m.extension) ELSE 1

\* A chunked message, as a reader that knows where it is finds it.
LEMMA ChunkedFacts ==
    ASSUME NEW m, IsMessage(m), m.start # "204", IsChunked(WrittenHead(m)), NEW i \in 0 .. Len(m.parts)
    PROVE  LET s == StartOf(m, i)
               l == LineLen(m, i)
               w == Written(m)
           IN  /\ s \in Nat /\ l \in Nat /\ l >= 1 /\ s + l + 1 <= Len(w)
               /\ (\A j \in 1 .. l : w[s + j] # Crlf) /\ w[s + l + 1] = Crlf
               /\ w[s + 1] \in DOMAIN SizeOf /\ (l > 1 => w[s + 2] = Semicolon)
               /\ i < Len(m.parts) =>
                     /\ SizeOf[w[s + 1]] = Len(m.parts[i + 1])
                     /\ StartOf(m, i + 1) = s + l + 2 + Len(m.parts[i + 1])
                     /\ StartOf(m, i + 1) \in Nat /\ StartOf(m, i + 1) + 3 <= Len(w)
                     /\ \A j \in 1 .. Len(m.parts[i + 1]) : w[s + l + 1 + j] = m.parts[i + 1][j]
                     /\ w[StartOf(m, i + 1)] = Crlf
               /\ i = Len(m.parts) =>
                     SizeOf[w[s + 1]] = 0 /\ l = 1 /\ s + 3 = Len(w) /\ w[s + 3] = Crlf
<1> DEFINE n == Len(m.parts)
           s == StartOf(m, i)
           l == LineLen(m, i)
           w == Written(m)
           e == Len(m.extension)
           x == m.extension
<1>1. n \in Nat /\ e \in Nat /\ s \in Nat /\ Len(w) \in Nat /\ StartOf(m, n) \in Nat
      /\ Len(w) = StartOf(m, n) + 3
  <2>1. n \in Nat /\ e \in Nat
    BY PartsFacts
  <2>2. Len(w) \in Nat
    BY WrittenFacts, TokensLen
  <2>3. n \in 0 .. n
    BY <2>1
  <2> QED BY <2>1, <2>2, <2>3, StartFacts
<1>2. CASE i = n
  <2>1. w[s + 1] = SizeToken(0) /\ w[s + 2] = Crlf /\ w[s + 3] = Crlf
    BY <1>2, StartFacts
  <2>2. SizeToken(0) \in DOMAIN SizeOf /\ SizeOf[SizeToken(0)] = 0 /\ SizeToken(0) # Crlf
    <3>1. 0 \in {0} \cup {Len(m.parts[k]) : k \in DOMAIN m.parts}
      OBVIOUS
    <3> QED BY <3>1, SizeTokenFacts
  <2>3. l = 1 /\ ~(i < n)
    BY <1>1, <1>2 DEF LineLen
  <2>4. \A j \in 1 .. 1 : j = 1
    OBVIOUS
  <2>5. s + l + 1 = s + 2 /\ s + l + 1 <= Len(w) /\ s + 3 = Len(w)
    BY <1>1, <1>2, <2>3
  <2> HIDE DEF s, l, w, n
  <2>6. \A j \in 1 .. l : w[s + j] # Crlf
    BY <2>1, <2>2, <2>3, <2>4
  <2>7. l \in Nat /\ l >= 1 /\ ~(l > 1)
    BY <2>3
  <2> QED BY <1>1, <1>2, <2>1, <2>2, <2>3, <2>5, <2>6, <2>7 DEF s, l, w, n
<1>3. CASE i < n
  <2> DEFINE p == m.parts[i + 1]
             c == Chunk(m, i + 1)
             t == SizeToken(Len(p))
  <2>1. i + 1 \in 1 .. n /\ i + 1 \in 0 .. n
    BY <1>1, <1>3
  <2>2. Len(p) \in Nat /\ Len(p) > 0 /\ (\A j \in 1 .. e : x[j] # Crlf) /\ (e > 0 => x[1] = Semicolon)
    <3>1. x = <<>> \/ x[1] = Semicolon
      BY Zenon DEF IsMessage
    <3>2. x = <<>> => e = 0
      OBVIOUS
    <3>3. e > 0 => x[1] = Semicolon
      <4> HIDE DEF e, x
      <4> QED BY <3>1, <3>2
    <3>4. Len(p) \in Nat /\ Len(p) > 0
      BY <2>1, PartsFacts
    <3>5. \A j \in 1 .. e : x[j] # Crlf
      BY PartsFacts
    <3> QED BY <3>3, <3>4, <3>5
  <2>3. /\ Len(c) = e + 3 + Len(p)
        /\ c[1] = t /\ (\A j \in 1 .. e : c[1 + j] = x[j])
        /\ c[e + 2] = Crlf
        /\ (\A j \in 1 .. Len(p) : c[e + 2 + j] = p[j]) /\ c[e + 3 + Len(p)] = Crlf
    BY <2>1, ChunkLayout
  <2>4. t \in DOMAIN SizeOf /\ SizeOf[t] = Len(p) /\ t # Crlf
    <3>1. DOMAIN m.parts = 1 .. n
      BY PartsFacts
    <3>2. Len(p) \in {0} \cup {Len(m.parts[k]) : k \in DOMAIN m.parts}
      BY <2>1, <3>1
    <3> QED BY <3>2, SizeTokenFacts
  <2>5. /\ StartOf(m, i + 1) = s + Len(c) /\ StartOf(m, i + 1) <= StartOf(m, n)
        /\ \A j \in 1 .. Len(c) : w[s + j] = c[j]
    BY <1>3, StartFacts
  <2>6. l = 1 + e /\ l \in Nat /\ l >= 1
    BY <1>1, <1>3 DEF LineLen
  <2> DEFINE q == StartOf(m, i + 1)
             a == Len(c)
             d == Len(p)
             f == Len(w)
  <2> HIDE DEF s, l, w, n, p, c, t, e, x
  <2>a. /\ s \in Nat /\ e \in Nat /\ d \in Nat /\ d > 0 /\ a = e + 3 + d /\ q = s + a
        /\ f = StartOf(m, n) + 3 /\ q <= StartOf(m, n) /\ StartOf(m, n) \in Nat /\ l = 1 + e
    BY <1>1, <2>2, <2>3, <2>5, <2>6
  <2>b. \A j \in 1 .. a : w[s + j] = c[j]
    BY <2>5
  <2>c. \A j \in 1 .. d : c[e + 2 + j] = p[j]
    BY <2>3
  <2>d. c[1] = t /\ c[e + 2] = Crlf /\ c[e + 3 + d] = Crlf /\ \A j \in 1 .. e : c[1 + j] = x[j]
    BY <2>3
  <2> HIDE DEF q, a, d, f
  <2>7. w[s + 1] = t
    <3>1. 1 \in 1 .. a
      BY <2>a
    <3> QED BY <2>b, <2>d, <3>1
  <2>8. ASSUME NEW j \in 1 .. e PROVE w[s + (1 + j)] = x[j]
    <3>1. 1 + j \in 1 .. a
      BY <2>a
    <3> QED BY <2>b, <2>d, <3>1
  <2>9. \A j \in 1 .. l : w[s + j] # Crlf
    <3> TAKE j \in 1 .. l
    <3>1. CASE j = 1
      BY <2>4, <2>7, <3>1
    <3>2. CASE j # 1
      <4>1. j - 1 \in 1 .. e /\ 1 + (j - 1) = j
        BY <1>1, <2>6, <3>2
      <4>2. w[s + (1 + (j - 1))] = x[j - 1] /\ x[j - 1] # Crlf
        BY <2>2, <2>8, <4>1
      <4> QED BY <4>1, <4>2
    <3> QED BY <3>1, <3>2
  <2>10. w[s + l + 1] = Crlf
    <3>1. e + 2 \in 1 .. a /\ s + (e + 2) = s + l + 1
      BY <2>a
    <3> QED BY <2>b, <2>d, <3>1
  <2>11. l > 1 => w[s + 2] = Semicolon
    <3>1. l > 1 => 1 \in 1 .. e /\ e > 0
      BY <2>a
    <3>2. 1 + 1 = 2
      OBVIOUS
    <3>3. 1 \in 1 .. e => w[s + (1 + 1)] = x[1]
      BY <2>8
    <3>4. e > 0 => x[1] = Semicolon
      BY <2>2
    <3> QED BY <3>1, <3>2, <3>3, <3>4
  <2>12. q = s + l + 2 + d /\ q \in Nat /\ q + 3 <= f /\ s + l + 1 <= f
    BY <2>a
  <2>13. \A j \in 1 .. d : w[s + l + 1 + j] = p[j]
    <3> TAKE j \in 1 .. d
    <3>1. e + 2 + j \in 1 .. a /\ s + (e + 2 + j) = s + l + 1 + j
      BY <2>a
    <3> QED BY <2>b, <2>c, <3>1
  <2>14. w[q] = Crlf
    <3>1. e + 3 + d \in 1 .. a /\ s + (e + 3 + d) = q
      BY <2>a
    <3> QED BY <2>b, <2>d, <3>1
  <2>15. i # n
    BY <1>1, <1>3
  <2>16. SizeOf[w[s + 1]] = Len(p) /\ w[s + 1] \in DOMAIN SizeOf
    BY <2>4, <2>7
  <2> QED BY <1>1, <2>6, <2>9, <2>10, <2>11, <2>12, <2>13, <2>14, <2>15, <2>16
          DEF s, l, w, n, p, q, d, f
<1>4. i = n \/ i < n
  BY <1>1
<1> QED BY <1>2, <1>3, <1>4

-----------------------------------------------------------------------------
(* Where the reader is in its message *)

M == input.message

\* How many tokens of the wire were taken from the prefix or the socket.
At == pos - Len(prefix)

\* What is left of the prefix is what the wire has next.
Buffered == Len(prefix) <= pos /\ \A j \in 1 .. Len(prefix) : prefix[j] = input.wire[At + j]

LEMMA MessageFacts ==
    ASSUME input \in Inputs
    PROVE  /\ IsMessage(M) /\ input.closes \in BOOLEAN
           /\ Written(M) \in Tokens /\ Len(Written(M)) \in Nat
           /\ \A i \in Nat : i >= 1 /\ i <= Len(input.wire) /\ i <= Len(Written(M)) =>
                 input.wire[i] = Written(M)[i]
           /\ Len(Written(M)) = Len(WrittenHead(M)) + Len(WrittenBody(M))
           /\ WrittenHead(M) \in Tokens /\ Len(WrittenHead(M)) \in Nat /\ Len(WrittenBody(M)) \in Nat
           /\ WrittenHead(M)[1] = M.start
<1>1. IsMessage(M) /\ input.closes \in BOOLEAN
      /\ \A i \in 1 .. Smaller(Len(input.wire), Len(Written(M))) : input.wire[i] = Written(M)[i]
  BY MessageAssumption, Zenon DEF M
<1>2. Written(M) \in Tokens /\ Len(Written(M)) \in Nat
      /\ Len(Written(M)) = Len(WrittenHead(M)) + Len(WrittenBody(M)) /\ Len(WrittenBody(M)) \in Nat
  BY <1>1, WrittenFacts, TokensLen
<1>3. WrittenHead(M) \in Tokens /\ Len(WrittenHead(M)) \in Nat /\ WrittenHead(M)[1] = M.start
  BY <1>1, WrittenHeadFacts
<1>4. Len(input.wire) \in Nat
  BY InputTypes
<1>5. ASSUME NEW i \in Nat, i >= 1, i <= Len(input.wire), i <= Len(Written(M))
      PROVE  input.wire[i] = Written(M)[i]
  <2>1. i \in 1 .. Smaller(Len(input.wire), Len(Written(M)))
    BY <1>2, <1>4, <1>5 DEF Smaller
  <2> QED BY <1>1, <2>1
<1> QED BY <1>1, <1>2, <1>3, <1>5

\* A read returns what the wire has next, and moves on by as much.
LEMMA ReadAt ==
    ASSUME Types, Buffered, NEW k \in Nat \ {0}, NEW seg \in Segments(k), Consume(seg), input' = input
    PROVE  /\ Buffered' /\ At \in Nat /\ At' = At + Len(seg) /\ At' <= Len(input.wire)
           /\ \A j \in 1 .. Len(seg) : seg[j] = input.wire[At + j]
<1> DEFINE w == input.wire
           n == Len(prefix)
           f == Len(w)
           g == Len(seg)
<1>1. w \in Tokens /\ f \in Nat /\ pos \in Nat /\ pos <= f /\ prefix \in Tokens /\ n \in Nat /\ n <= pos
      /\ seg \in Tokens /\ g \in Nat /\ g >= 1 /\ g <= k
  BY InputTypes, ReadFacts DEF Types, Buffered
<1>2. CASE prefix # <<>>
  <2> DEFINE c == Smaller(k, n)
  <2>1. seg = SubSeq(prefix, 1, c) /\ prefix' = Drop(prefix, g) /\ pos' = pos
    BY <1>2 DEF Segments, Consume
  <2>2. c \in Nat /\ c <= n /\ c >= 1
    <3>1. n > 0
      BY <1>1, <1>2 DEF Tokens
    <3> QED BY <1>1, <3>1 DEF Smaller
  <2> HIDE DEF c
  <2>3. g = c /\ \A i \in 1 .. c : seg[i] = prefix[i]
    <3>1. Len(SubSeq(prefix, 1, c)) = (IF 1 <= c THEN c - 1 + 1 ELSE 0)
          /\ \A i \in 1 .. (c - 1 + 1) : SubSeq(prefix, 1, c)[i] = prefix[1 + i - 1]
      BY <1>1, <2>2, SubSeqFacts
    <3>2. c - 1 + 1 = c /\ \A i \in 1 .. c : 1 + i - 1 = i
      BY <2>2
    <3> QED BY <2>1, <2>2, <3>1, <3>2
  <2>4. Len(prefix') = n - g /\ \A i \in 1 .. (n - g) : prefix'[i] = prefix[g + i]
    <3>1. g \in Nat /\ g <= n
      BY <2>2, <2>3
    <3>2. Len(Drop(prefix, g)) = n - g
      BY <1>1, <3>1, DropFacts
    <3>3. \A i \in 1 .. (n - (g + 1) + 1) : SubSeq(prefix, g + 1, n)[i] = prefix[(g + 1) + i - 1]
      <4>1. g + 1 \in Nat /\ g + 1 >= 1 /\ n <= Len(prefix)
        BY <1>1
      <4> QED BY <1>1, <4>1, SubSeqFacts
    <3>4. n - (g + 1) + 1 = n - g /\ \A i \in 1 .. (n - g) : (g + 1) + i - 1 = g + i
      BY <1>1
    <3>5. prefix' = SubSeq(prefix, g + 1, n)
      BY <2>1 DEF Drop
    <3>6. \A i \in 1 .. (n - g) : prefix'[i] = prefix[g + i]
      BY <3>3, <3>4, <3>5
    <3> QED BY <2>1, <3>2, <3>6
  <2>5. At = pos - n /\ At' = pos - (n - g)
    BY <2>1, <2>4 DEF At
  <2>6. \A j \in 1 .. n : prefix[j] = w[At + j]
    BY DEF Buffered
  <2> HIDE DEF n, g, w, f
  <2>7. At \in Nat /\ At' = At + g /\ At' <= f /\ n - g <= pos /\ g <= n
    BY <1>1, <2>2, <2>3, <2>5
  <2>8. \A j \in 1 .. g : seg[j] = w[At + j]
    <3>1. \A j \in 1 .. g : j \in 1 .. n
      BY <1>1, <2>7
    <3> QED BY <2>3, <2>6, <3>1
  <2>9. \A j \in 1 .. (n - g) : prefix'[j] = w[At' + j]
    <3> TAKE j \in 1 .. (n - g)
    <3>1. g + j \in 1 .. n /\ At + (g + j) = At' + j
      BY <1>1, <2>7
    <3> QED BY <2>4, <2>6, <3>1
  <2>10. Buffered'
    <3>1. Len(prefix') <= pos' /\ w = input'.wire
      BY <2>1, <2>4, <2>7 DEF w
    <3> QED BY <2>4, <2>9, <3>1 DEF Buffered
  <2> QED BY <2>7, <2>8, <2>10 DEF g, w, f
<1>3. CASE prefix = <<>>
  <2>1. prefix' = prefix /\ pos' = pos + g /\ n = 0
    BY <1>3 DEF Consume
  <2>2. PICK c \in 1 .. Smaller(k, f - pos) : seg = SubSeq(w, pos + 1, pos + c)
    BY <1>3 DEF Segments
  <2>3. c \in Nat /\ c >= 1 /\ pos + c <= f
    BY <1>1, <2>2 DEF Smaller
  <2>4. g = c /\ \A i \in 1 .. c : seg[i] = w[pos + i]
    <3> HIDE DEF w, f
    <3>1. /\ Len(SubSeq(w, pos + 1, pos + c)) = IF pos + 1 <= pos + c THEN (pos + c) - (pos + 1) + 1 ELSE 0
          /\ \A i \in 1 .. ((pos + c) - (pos + 1) + 1) : SubSeq(w, pos + 1, pos + c)[i] = w[(pos + 1) + i - 1]
      <4>1. pos + 1 \in Nat /\ pos + 1 >= 1 /\ pos + c \in Nat /\ pos + c <= Len(w)
        BY <1>1, <2>3 DEF f
      <4> QED BY <1>1, <4>1, SubSeqFacts
    <3>2. (pos + c) - (pos + 1) + 1 = c /\ pos + 1 <= pos + c /\ \A i \in 1 .. c : (pos + 1) + i - 1 = pos + i
      BY <1>1, <2>3
    <3> QED BY <2>2, <3>1, <3>2
  <2>5. At = pos /\ At' = pos + g /\ At \in Nat /\ At' <= f
    BY <1>1, <2>1, <2>3, <2>4 DEF At
  <2>6. Buffered'
    <3>1. Len(prefix') = 0 /\ Len(prefix') <= pos'
      BY <1>1, <2>1
    <3>2. \A j \in 1 .. Len(prefix') : FALSE
      BY <3>1
    <3> QED BY <3>1, <3>2 DEF Buffered
  <2> HIDE DEF g, w, f
  <2>7. \A j \in 1 .. g : seg[j] = w[At + j]
    BY <2>4, <2>5
  <2> QED BY <2>5, <2>6, <2>7 DEF g, w, f
<1> QED BY <1>2, <1>3

\* read_header_block finds the end of the head where the peer put it, or the
\* head is not there yet.
LEMMA HeadSeen ==
    ASSUME FramingInv, Stream, pc \in {"head", "parse"}
    PROVE  /\ Len(buf) = pos
           /\ HeadEnds(buf) # {} => /\ Len(WrittenHead(M)) <= pos /\ RawHead = WrittenHead(M)
                                    /\ Min(HeadEnds(buf)) = Len(WrittenHead(M))
                                    /\ Len(LeftOver) = pos - Len(WrittenHead(M))
           /\ HeadEnds(buf) = {} => pos < Len(WrittenHead(M))
<1> DEFINE h == WrittenHead(M)
           L == LinesOf(M)
           w == input.wire
<1>1. w \in Tokens /\ Len(w) \in Nat /\ pos \in Nat /\ pos <= Len(w) /\ buf \in Tokens /\ input \in Inputs
  BY InputTypes DEF FramingInv, Types
<1>2. L \in Seq(Text) /\ Len(L) >= 1 /\ h = HeadWith(L) /\ Len(h) = 2 * Len(L) + 1 /\ Len(h) \in Nat
      /\ h \in Tokens
  BY <1>1, MessageFacts, WrittenHeadFacts
<1>3. Len(buf) = pos /\ \A i \in 1 .. pos : buf[i] = w[i]
  <2>1. buf = SubSeq(w, 1, pos)
    BY DEF Stream, Upto
  <2>2. /\ Len(SubSeq(w, 1, pos)) = (IF 1 <= pos THEN pos - 1 + 1 ELSE 0)
        /\ \A i \in 1 .. (pos - 1 + 1) : SubSeq(w, 1, pos)[i] = w[1 + i - 1]
    BY <1>1, SubSeqFacts
  <2>3. pos - 1 + 1 = pos /\ (~(1 <= pos) => pos = 0) /\ \A i \in 1 .. pos : 1 + i - 1 = i
    BY <1>1
  <2> QED BY <2>1, <2>2, <2>3
<1>4. \A i \in 1 .. Len(buf) : i <= 2 * Len(L) + 1 => buf[i] = HeadWith(L)[i]
  <2> SUFFICES ASSUME NEW i \in 1 .. Len(buf), i <= Len(h) PROVE buf[i] = h[i]
    BY <1>2
  <2>1. i \in Nat /\ i >= 1 /\ i <= Len(w) /\ i <= Len(Written(M)) /\ i \in 1 .. Len(h) /\ i \in 1 .. pos
    <3>1. Len(Written(M)) = Len(h) + Len(WrittenBody(M)) /\ Len(WrittenBody(M)) \in Nat
      BY <1>1, MessageFacts
    <3> HIDE DEF h, w
    <3> QED BY <1>1, <1>2, <1>3, <3>1
  <2>2. w[i] = Written(M)[i]
    BY <1>1, <2>1, MessageFacts
  <2>3. Written(M)[i] = h[i]
    BY <1>1, <2>1, MessageFacts, WrittenFacts
  <2> QED BY <1>3, <2>1, <2>2, <2>3
<1>5. /\ Len(buf) >= 2 * Len(L) + 1 => HeadEnds(buf) # {} /\ Min(HeadEnds(buf)) = 2 * Len(L) + 1
      /\ Len(buf) < 2 * Len(L) + 1 => HeadEnds(buf) = {}
  BY <1>1, <1>2, <1>4, HeadEnd
<1>6. /\ pos >= Len(h) => HeadEnds(buf) # {} /\ Min(HeadEnds(buf)) = Len(h)
      /\ pos < Len(h) => HeadEnds(buf) = {}
  BY <1>2, <1>3, <1>5
<1>7. ASSUME Len(h) <= pos, Min(HeadEnds(buf)) = Len(h)
      PROVE  RawHead = h /\ Len(LeftOver) = pos - Len(h)
  <2>1. RawHead = SubSeq(buf, 1, Len(h)) /\ LeftOver = Drop(buf, Len(h))
    BY <1>7 DEF RawHead, LeftOver
  <2>2. Len(h) <= Len(buf)
    BY <1>3, <1>7
  <2>3. Len(LeftOver) = pos - Len(h)
    BY <1>1, <1>2, <1>3, <2>1, <2>2, DropFacts
  <2>4. /\ SubSeq(buf, 1, Len(h)) \in Tokens
        /\ Len(SubSeq(buf, 1, Len(h))) = (IF 1 <= Len(h) THEN Len(h) - 1 + 1 ELSE 0)
        /\ \A i \in 1 .. (Len(h) - 1 + 1) : SubSeq(buf, 1, Len(h))[i] = buf[1 + i - 1]
    BY <1>1, <1>2, <2>2, SubSeqFacts
  <2> DEFINE s == SubSeq(buf, 1, Len(h))
  <2>5. Len(h) - 1 + 1 = Len(h) /\ (~(1 <= Len(h)) => Len(h) = 0) /\ \A i \in 1 .. Len(h) : 1 + i - 1 = i
    BY <1>2
  <2>6. s \in Tokens /\ Len(s) = Len(h)
    BY <2>4, <2>5
  <2>7. \A i \in 1 .. Len(h) : s[i] = buf[i]
    BY <2>4, <2>5
  <2>8. \A i \in 1 .. Len(h) : buf[i] = h[i]
    <3> TAKE i \in 1 .. Len(h)
    <3>1. i \in 1 .. Len(buf) /\ i <= 2 * Len(L) + 1
      BY <1>1, <1>2, <1>3, <2>2
    <3> QED BY <1>2, <1>4, <3>1
  <2> HIDE DEF s
  <2>9. s = h
    BY <1>2, <2>6, <2>7, <2>8, SeqEqual DEF Tokens
  <2> QED BY <2>1, <2>3, <2>9 DEF s
<1> HIDE DEF h
<1>8. pos >= Len(h) \/ pos < Len(h)
  BY <1>1, <1>2
<1>9. pos >= Len(h) => Len(h) <= pos
  BY <1>1, <1>2
<1> QED BY <1>3, <1>6, <1>7, <1>8, <1>9 DEF h

Announced(h) == IF HasLength(h) THEN LengthOf(h) ELSE 0

\* The head that was found is the one that was written.
Headed ==
    /\ pc = "head" => HeadEnds(buf) = {}
    /\ pc \in {"rest"} \cup ResponseStates \/ outcome = "ok" => head = WrittenHead(M)

\* What parse_head and body_mode let through.
Parsed ==
    /\ pc = "rest" => /\ M.start = "get" /\ ~FieldsAreBad(head) /\ ~LengthIsBad(head)
                      /\ need > 0 => Len(body) + need = Announced(head)
    /\ pc \in ResponseStates => M.start \in {"200", "204"} /\ ~FieldsAreBad(head)
    /\ pc = "fixed" => IF M.start = "204" THEN need = 0 ELSE ~LengthIsBad(head)
    /\ pc \in {"eof"} \cup ChunkStates => M.start # "204"

PlaceInv == Buffered /\ Headed /\ Parsed

LEMMA Unmoved == ASSUME Buffered, UNCHANGED <<input, pos, prefix>> PROVE Buffered'
  BY DEF Buffered, At

LEMMA FailPlace ==
    ASSUME PlaceInv, pc' = "done", outcome' # "ok", UNCHANGED <<input, pos, prefix>> PROVE PlaceInv'
<1>1. Headed' /\ Parsed'
  BY DEF Headed, Parsed, ResponseStates, ChunkStates
<1> QED BY <1>1, Unmoved DEF PlaceInv

LEMMA StayPlace ==
    ASSUME FramingInv, Headed, Parsed, UNCHANGED <<input, head>>, pc \in ResponseStates,
           \/ pc' = "done"
           \/ pc \in ChunkStates /\ pc' \in ChunkStates
           \/ pc = "eof" /\ pc' = "eof"
           \/ pc = "fixed" /\ pc' = "fixed" /\ need # 0
    PROVE  Headed' /\ Parsed'
<1>1. M' = M /\ head = WrittenHead(M) /\ head' = WrittenHead(M')
  BY DEF M, Headed
<1>2. Headed'
  <2>1. pc' # "head"
    BY DEF ChunkStates
  <2> QED BY <1>1, <2>1 DEF Headed
<1>3. pc = "fixed" /\ need # 0 => M.start # "204"
  BY DEF Parsed
<1> QED BY <1>1, <1>2, <1>3 DEF Parsed, ResponseStates, ChunkStates, PcStates

LEMMA HeadPlace ==
    ASSUME FramingInv, Stream, PlaceInv, HeaderTooLong \/ ReadHeader PROVE PlaceInv'
<1>1. CASE HeaderTooLong
  BY <1>1, FailPlace DEF HeaderTooLong, Fail
<1>2. CASE ReadHeader
  <2>1. PICK seg \in Segments(ReadSize) :
           /\ buf' = buf \o seg /\ Consume(seg)
           /\ pc' = IF HeadEnds(buf \o seg) # {} THEN "parse" ELSE "head"
    BY <1>2 DEF ReadHeader
  <2>2. input' = input /\ outcome' = outcome /\ pc = "head"
    BY <1>2 DEF ReadHeader
  <2>3. Types /\ Buffered /\ ReadSize \in Nat \ {0} /\ outcome = "none"
    BY <2>2, Limits DEF FramingInv, Types, PlaceInv
  <2>4. Buffered'
    BY <2>1, <2>2, <2>3, ReadAt
  <2>5. pc' \in {"parse", "head"} /\ (pc' = "head" => HeadEnds(buf') = {})
    BY <2>1
  <2>6. Headed'
    BY <2>2, <2>3, <2>5 DEF Headed, ResponseStates
  <2>7. Parsed'
    BY <2>5 DEF Parsed, ResponseStates, ChunkStates
  <2> QED BY <2>4, <2>6, <2>7 DEF PlaceInv
<1> QED BY <1>1, <1>2

LEMMA RequestPlace ==
    ASSUME FramingInv, Stream, PlaceInv, ParseRequest \/ ReadRest \/ RequestDone PROVE PlaceInv'
<1>1. Types /\ Buffered /\ Headed /\ Parsed /\ need \in Nat /\ Len(body) \in Nat
  BY LengthTypes DEF FramingInv, PlaceInv, Types
<1>2. CASE ParseRequest
  <2> DEFINE h == RawHead
             n == Announced(h)
             f == FirstPart
  <2>1. CASE pc' = "done"
    <3>1. outcome' # "ok" /\ UNCHANGED <<input, pos, prefix>>
      BY <1>2, <2>1 DEF ParseRequest, Fail
    <3> QED BY <2>1, <3>1, FailPlace
  <2>2. CASE pc' # "done"
    <3>1. /\ ~RequestLineIsBad(h) /\ ~FieldsAreBad(h) /\ ~LengthIsBad(h)
          /\ head' = h /\ body' = f /\ need' = Remaining(n, Len(f)) /\ pc' = "rest" /\ pc = "parse"
          /\ UNCHANGED <<input, pos, prefix, outcome>>
      BY <1>2, <2>2 DEF ParseRequest, Fail, Announced
    <3>2. HeadEnds(buf) # {} /\ outcome = "none"
      BY <3>1 DEF FramingInv, Stage, Types
    <3>3. h = WrittenHead(M)
      BY <3>1, <3>2, HeadSeen
    <3>4. M' = M /\ h[1] = M.start /\ head' = WrittenHead(M')
      BY <1>1, <3>1, <3>3, MessageFacts DEF M, Types
    <3>5. Headed'
      BY <3>1, <3>2, <3>4 DEF Headed
    <3>6. f \in Tokens /\ h \in Tokens /\ Len(f) \in Nat
      BY <1>1, <3>2, HeadFacts, TokensLen DEF FirstPart
    <3>7. n \in Nat
      BY <3>1, <3>6, LengthFacts DEF Announced
    <3>8. need' > 0 => Len(body') + need' = Announced(head')
      <4> HIDE DEF n, f
      <4>1. need' > 0 => Len(f) + need' = n
        BY <3>1, <3>6, <3>7 DEF Remaining
      <4> QED BY <3>1, <4>1 DEF n
    <3>9. M'.start = "get"
      BY <3>1, <3>4 DEF RequestLineIsBad
    <3>10. Parsed'
      BY <3>1, <3>8, <3>9 DEF Parsed, ResponseStates, ChunkStates
    <3> QED BY <1>1, <3>1, <3>5, <3>10, Unmoved DEF PlaceInv
  <2> QED BY <2>1, <2>2
<1>3. CASE ReadRest
  <2>1. PICK seg \in Segments(need) :
           body' = body \o seg /\ need' = need - Len(seg) /\ Consume(seg)
    BY <1>3 DEF ReadRest
  <2>2. UNCHANGED <<input, pc, head, outcome>> /\ pc = "rest" /\ need > 0 /\ M' = M
    BY <1>3 DEF ReadRest, M
  <2>3. need \in Nat \ {0}
    BY <1>1, <2>2
  <2>4. Buffered' /\ seg \in Tokens /\ Len(seg) \in Nat
    BY <1>1, <2>1, <2>2, <2>3, ReadAt, ReadFacts, TokensLen
  <2>5. Len(body') = Len(body) + Len(seg)
    BY <1>1, <2>1, <2>4, ConcatFacts DEF Types
  <2>6. Len(body) + need = Announced(head)
    BY <1>1, <2>2 DEF Parsed
  <2>7. Len(body') + need' = Announced(head')
    BY <1>1, <2>1, <2>2, <2>4, <2>5, <2>6
  <2>8. Headed'
    BY <1>1, <2>2 DEF Headed
  <2>9. Parsed'
    BY <1>1, <2>2, <2>7 DEF Parsed, ResponseStates, ChunkStates
  <2> QED BY <2>4, <2>8, <2>9 DEF PlaceInv
<1>4. CASE RequestDone
  <2>1. UNCHANGED <<input, pos, prefix, head>> /\ pc = "rest" /\ pc' = "done" /\ M' = M
    BY <1>4 DEF RequestDone, M
  <2>2. Headed' /\ Parsed'
    BY <1>1, <2>1 DEF Headed, Parsed, ResponseStates, ChunkStates
  <2> QED BY <1>1, <2>1, <2>2, Unmoved DEF PlaceInv
<1> QED BY <1>2, <1>3, <1>4

LEMMA LeftOverAt ==
    ASSUME FramingInv, Stream, pc = "parse"
    PROVE  /\ Len(LeftOver) = pos - Len(WrittenHead(M)) /\ Len(WrittenHead(M)) <= pos
           /\ \A j \in 1 .. Len(LeftOver) : LeftOver[j] = input.wire[Len(WrittenHead(M)) + j]
<1> DEFINE a == Len(WrittenHead(M))
           w == input.wire
<1>1. w \in Tokens /\ Len(w) \in Nat /\ pos \in Nat /\ pos <= Len(w) /\ buf \in Tokens /\ input \in Inputs
  BY InputTypes DEF FramingInv, Types
<1>2. HeadEnds(buf) # {}
  BY DEF FramingInv, Stage
<1>3. Len(buf) = pos /\ a <= pos /\ Min(HeadEnds(buf)) = a /\ Len(LeftOver) = pos - a
  BY <1>2, HeadSeen
<1>4. a \in Nat
  BY <1>1, MessageFacts
<1>5. LeftOver = SubSeq(buf, a + 1, pos)
  BY <1>3 DEF LeftOver, Drop
<1>6. buf = SubSeq(w, 1, pos)
  BY DEF Stream, Upto
<1> HIDE DEF a, w
<1>7. \A i \in 1 .. pos : buf[i] = w[i]
  <2>1. \A i \in 1 .. (pos - 1 + 1) : SubSeq(w, 1, pos)[i] = w[1 + i - 1]
    BY <1>1, SubSeqFacts
  <2>2. pos - 1 + 1 = pos /\ \A i \in 1 .. pos : 1 + i - 1 = i
    BY <1>1
  <2> QED BY <1>6, <2>1, <2>2
<1>8. \A i \in 1 .. (pos - (a + 1) + 1) : SubSeq(buf, a + 1, pos)[i] = buf[(a + 1) + i - 1]
  <2>1. a + 1 \in Nat /\ a + 1 >= 1 /\ pos <= Len(buf)
    BY <1>1, <1>3, <1>4
  <2> QED BY <1>1, <2>1, SubSeqFacts
<1>9. ASSUME NEW j \in 1 .. (pos - a) PROVE LeftOver[j] = w[a + j]
  <2>1. j \in 1 .. (pos - (a + 1) + 1) /\ (a + 1) + j - 1 = a + j /\ a + j \in 1 .. pos
    BY <1>1, <1>3, <1>4
  <2> QED BY <1>5, <1>7, <1>8, <2>1
<1> QED BY <1>3, <1>9 DEF a, w

\* Where the reader of a body begins.
LEMMA ParsePlace ==
    ASSUME FramingInv, Stream, PlaceInv, ParseResponse
    PROVE  PlaceInv' /\ (pc' # "done" => At' = Len(WrittenHead(M)))
<1> DEFINE h == RawHead
<1>1. pc = "parse" /\ outcome = "none" /\ HeadEnds(buf) # {} /\ input \in Inputs
  BY DEF ParseResponse, FramingInv, Types, Stage
<1>2. h = WrittenHead(M) /\ h[1] = M.start /\ Len(h) \in Nat
  BY <1>1, HeadSeen, MessageFacts
<1>3. CASE pc' = "done"
  <2>1. outcome' # "ok" /\ UNCHANGED <<input, pos, prefix>>
    BY <1>3 DEF ParseResponse, Fail
  <2> QED BY <1>3, <2>1, FailPlace
<1>4. CASE pc' # "done"
  <2>1. ~FieldsAreBad(h) /\ ~StatusIsBad(h)
    BY <1>4 DEF ParseResponse, Fail
  <2>2. head' = h /\ prefix' = LeftOver /\ UNCHANGED <<input, pos, outcome>>
    BY <1>4, <2>1 DEF ParseResponse, Fail
  <2>3. \/ pc' = "fixed" /\ h[1] = "204" /\ need' = 0
        \/ pc' = "size" /\ h[1] # "204"
        \/ pc' = "eof" /\ h[1] # "204"
        \/ pc' = "fixed" /\ h[1] # "204" /\ ~LengthIsBad(h)
    BY <1>4, <2>1 DEF ParseResponse, Fail
  <2>4. M' = M /\ head' = WrittenHead(M') /\ M'.start = h[1]
    BY <1>2, <2>2 DEF M
  <2>5. Headed'
    BY <1>1, <2>2, <2>3, <2>4 DEF Headed
  <2>6. M'.start \in {"200", "204"}
    BY <2>1, <2>4 DEF StatusIsBad
  <2>7. Parsed'
    BY <2>1, <2>2, <2>3, <2>4, <2>6 DEF Parsed, ResponseStates, ChunkStates, PcStates
  <2>8. Len(prefix') = pos - Len(h) /\ Len(h) <= pos /\ pos \in Nat
    BY <1>1, <1>2, <2>2, LeftOverAt DEF FramingInv, Types
  <2>9. At' = Len(h)
    BY <1>2, <2>2, <2>8 DEF At
  <2>10. \A j \in 1 .. Len(prefix') : prefix'[j] = input'.wire[At' + j]
    BY <1>1, <1>2, <2>2, <2>9, LeftOverAt
  <2>11. Len(prefix') <= pos'
    BY <1>2, <2>2, <2>8
  <2>12. Buffered'
    BY <2>10, <2>11 DEF Buffered
  <2> QED BY <1>2, <2>5, <2>7, <2>9, <2>12 DEF PlaceInv
<1> QED BY <1>3, <1>4

LEMMA BodyPlace ==
    ASSUME FramingInv, PlaceInv, ReadFixed \/ ReadUntilEof PROVE PlaceInv'
<1>1. Types /\ Buffered /\ Headed /\ Parsed /\ need \in Nat
  BY DEF FramingInv, PlaceInv, Types
<1>2. CASE ReadFixed /\ need = 0
  <2>1. UNCHANGED <<input, pos, prefix, head>> /\ pc = "fixed" /\ pc' = "done"
    BY <1>2 DEF ReadFixed, ResponseDone
  <2> QED BY <1>1, <2>1, StayPlace, Unmoved DEF PlaceInv, ResponseStates, PcStates
<1>3. CASE ReadFixed /\ need # 0
  <2>1. PICK seg \in Segments(Smaller(need, ReadSize)) : Consume(seg)
    BY <1>3 DEF ReadFixed
  <2>2. UNCHANGED <<input, pc, head>> /\ pc = "fixed"
    BY <1>3 DEF ReadFixed
  <2>3. Smaller(need, ReadSize) \in Nat \ {0}
    BY <1>1, <1>3, Limits DEF Smaller
  <2>4. Buffered'
    BY <1>1, <2>1, <2>2, <2>3, ReadAt
  <2>5. Headed' /\ Parsed'
    BY <1>1, <1>3, <2>2, StayPlace DEF ResponseStates, PcStates
  <2> QED BY <2>4, <2>5 DEF PlaceInv
<1>4. CASE ReadUntilEof
  <2>1. PICK seg \in Segments(ReadSize) : Consume(seg)
    BY <1>4 DEF ReadUntilEof
  <2>2. UNCHANGED <<input, head>> /\ pc = "eof" /\ pc' \in {"eof", "done"}
    BY <1>4 DEF ReadUntilEof
  <2>3. Buffered'
    BY <1>1, <2>1, <2>2, Limits, ReadAt
  <2>4. Headed' /\ Parsed'
    BY <1>1, <2>2, StayPlace DEF ResponseStates, PcStates
  <2> QED BY <2>3, <2>4 DEF PlaceInv
<1> QED BY <1>2, <1>3, <1>4

LEMMA ChunkPlace ==
    ASSUME FramingInv, PlaceInv,
           ReadLineToken \/ SizeLine \/ ReadChunk \/ ReadDelimiter \/ LastLine
    PROVE  PlaceInv'
<1>1. Types /\ Buffered /\ Headed /\ Parsed /\ need \in Nat
  BY DEF FramingInv, PlaceInv, Types
<1>2. UNCHANGED <<input, head>> /\ pc \in ChunkStates /\ pc' \in ChunkStates \cup {"done"}
  <2>1. CASE ReadLineToken
    <3>1. PICK seg \in Segments(1) :
             /\ Consume(seg)
             /\ CASE LineTooLong(seg[1]) -> pc' = "done" /\ outcome' = "parse"
                  [] seg[1] = Crlf /\ ~LineTooLong(seg[1]) ->
                       pc' = (IF pc = "size" THEN "size_line" ELSE "last_line") /\ UNCHANGED outcome
                  [] OTHER -> UNCHANGED <<pc, outcome>>
      BY <2>1 DEF ReadLineToken
    <3>2. pc' \in {"done", "size_line", "last_line", pc}
      BY <3>1
    <3> QED BY <2>1, <3>2 DEF ReadLineToken, ChunkStates
  <2>2. CASE SizeLine
    BY <2>2 DEF SizeLine, ChunkStates
  <2>3. CASE ReadChunk
    BY <2>3 DEF ReadChunk, ChunkStates
  <2>4. CASE ReadDelimiter
    BY <2>4 DEF ReadDelimiter, ChunkStates
  <2>5. CASE LastLine
    BY <2>5 DEF LastLine, ResponseDone, ChunkStates
  <2> QED BY <2>1, <2>2, <2>3, <2>4, <2>5
<1>3. Headed' /\ Parsed'
  BY <1>1, <1>2, StayPlace DEF ResponseStates, ChunkStates, PcStates
<1>4. Buffered'
  <2>1. ASSUME NEW k \in Nat \ {0}, NEW seg \in Segments(k), Consume(seg) PROVE Buffered'
    BY <1>1, <1>2, <2>1, ReadAt
  <2>2. CASE ReadLineToken \/ ReadDelimiter
    <3>1. PICK seg \in Segments(1) : Consume(seg)
      BY <2>2 DEF ReadLineToken, ReadDelimiter
    <3> QED BY <2>1, <3>1
  <2>3. CASE ReadChunk
    <3>1. PICK seg \in Segments(need) : Consume(seg)
      BY <2>3 DEF ReadChunk
    <3>2. need \in Nat \ {0}
      BY <1>1, <2>3 DEF ReadChunk, FramingInv, Stage
    <3> QED BY <2>1, <3>1, <3>2
  <2>4. CASE SizeLine \/ LastLine
    BY <1>1, <2>4, Unmoved DEF SizeLine, LastLine
  <2> QED BY <2>2, <2>3, <2>4
<1> QED BY <1>3, <1>4 DEF PlaceInv

LEMMA EndPlace == ASSUME FramingInv, PlaceInv, EndOfStream \/ ReadFails PROVE PlaceInv'
<1>1. CASE EndOfStream /\ pc \in EndedByEof
  <2>1. UNCHANGED <<input, pos, prefix, head>> /\ pc = "eof" /\ pc' = "done"
    BY <1>1 DEF EndOfStream, ResponseDone, EndedByEof
  <2> QED BY <2>1, StayPlace, Unmoved DEF PlaceInv, ResponseStates, PcStates
<1>2. CASE EndOfStream /\ pc \notin EndedByEof
  BY <1>2, FailPlace DEF EndOfStream, Fail
<1>3. CASE ReadFails
  BY <1>3, FailPlace DEF ReadFails
<1> QED BY <1>1, <1>2, <1>3

LEMMA PlaceStep == ASSUME FramingInv, Stream, PlaceInv, [Next]_vars PROVE PlaceInv'
<1>1. CASE UNCHANGED vars
  BY <1>1 DEF vars, PlaceInv, Buffered, At, Headed, Parsed, M
<1> QED BY <1>1, HeadPlace, RequestPlace, ParsePlace, BodyPlace, ChunkPlace, EndPlace
        DEF Next, Step, Returned

-----------------------------------------------------------------------------
(* Where the reader of chunks is *)

\* The reader is at the i-th chunk, or at the end: what it has of the body is
\* the payload so far, what it has of a line is what was written there.
InChunks(i) ==
    /\ \A j \in 1 .. Len(body) : body[j] = Payload(M)[j]
    /\ pc \in {"size", "size_line"} =>
          /\ Len(body) = Before(M, i) /\ At = StartOf(M, i) + Len(line)
          /\ \A j \in 1 .. Len(line) : line[j] = Written(M)[StartOf(M, i) + j]
          /\ pc = "size" => Len(line) <= LineLen(M, i)
          /\ pc = "size_line" => Len(line) = LineLen(M, i) + 1
    /\ pc = "data" =>
          /\ i < Len(M.parts) /\ line = <<>>
          /\ Len(body) >= Before(M, i) /\ Len(body) + need = Before(M, i + 1)
          /\ At = StartOf(M, i) + LineLen(M, i) + 1 + (Len(body) - Before(M, i))
    /\ pc = "delim" =>
          /\ i < Len(M.parts) /\ line = <<>>
          /\ Len(body) = Before(M, i + 1) /\ At + 1 = StartOf(M, i + 1)
    /\ pc = "last" =>
          i = Len(M.parts) /\ line = <<>> /\ Len(body) = Before(M, i) /\ At = StartOf(M, i) + 2
    /\ pc = "last_line" => i = Len(M.parts) /\ Len(body) = Before(M, i) /\ At = StartOf(M, i) + 3
    /\ i > 0 \/ pc \in {"data", "delim"} => Len(M.extension) + 1 < MaxLine

ChunkInv ==
    /\ pc \in {"head", "parse"} => line = <<>>
    /\ pc \in ChunkStates => \E i \in 0 .. Len(M.parts) : InChunks(i)

ReaderInv == FramingInv /\ ExactInv /\ PlaceInv

LEMMA ChunkedMessage ==
    ASSUME ReaderInv, pc \in ChunkStates
    PROVE  /\ IsMessage(M) /\ M.start # "204" /\ IsChunked(WrittenHead(M)) /\ head = WrittenHead(M)
           /\ input \in Inputs /\ M.start = "200" /\ ~FieldsAreBad(WrittenHead(M))
           /\ input.role = "response"
<1>1. input \in Inputs /\ IsMessage(M)
  BY MessageFacts DEF ReaderInv, FramingInv, Types
<1>2. head = WrittenHead(M) /\ IsChunked(head) /\ M.start # "204" /\ M.start \in {"200", "204"}
      /\ ~FieldsAreBad(head) /\ input.role = "response"
  BY DEF ReaderInv, PlaceInv, Headed, Parsed, ExactInv, Due, ResponseStates, ChunkStates, PcStates,
         FramingInv, Stage
<1> QED BY <1>1, <1>2

\* One token is the next of the message.
LEMMA ReadOne ==
    ASSUME Types, Buffered, NEW seg \in Segments(1), Consume(seg), input' = input,
           At + 1 <= Len(Written(M))
    PROVE  /\ At \in Nat /\ At' = At + 1 /\ At + 1 <= Len(input.wire)
           /\ seg[1] = Written(M)[At + 1] /\ seg[1] \in STRING
<1>a. 1 \in Nat \ {0} /\ \A n \in 1 .. 1 : n = 1
  OBVIOUS
<1>1. seg \in Tokens /\ Len(seg) \in 1 .. 1
  BY <1>a, ReadFacts
<1>2. Len(seg) = 1 /\ 1 \in 1 .. Len(seg)
  BY <1>a, <1>1, Zenon
<1>3. At \in Nat /\ At' = At + Len(seg) /\ At' <= Len(input.wire) /\ seg[1] = input.wire[At + 1]
  BY <1>a, <1>2, ReadAt
<1>4. At' = At + 1 /\ At + 1 <= Len(input.wire) /\ At + 1 \in Nat /\ At + 1 >= 1
  BY <1>2, <1>3
<1>5. input \in Inputs
  BY DEF Types
<1>6. input.wire[At + 1] = Written(M)[At + 1]
  BY <1>4, <1>5, MessageFacts
<1>7. seg[1] \in STRING
  BY <1>1, <1>2 DEF Tokens
<1> QED BY <1>3, <1>4, <1>6, <1>7

\* read_line meets the line end where the message has one.
LEMMA LineRead ==
    ASSUME ReaderInv, ReadLineToken, NEW i \in 0 .. Len(M.parts), InChunks(i)
    PROVE  \E t \in STRING :
              /\ line' = Append(line, t) /\ At' = At + 1 /\ t = Written(M)[At + 1]
              /\ pc = "size" => (t = Crlf <=> Len(line) = LineLen(M, i))
              /\ pc = "last" => t = Crlf
              /\ LineTooLong(t) => pc' = "done" /\ outcome' = "parse"
              /\ ~LineTooLong(t) /\ t = Crlf => pc' = (IF pc = "size" THEN "size_line" ELSE "last_line")
              /\ ~LineTooLong(t) /\ t # Crlf => pc' = pc
<1> DEFINE s == StartOf(M, i)
           l == LineLen(M, i)
           w == Written(M)
           g == Len(line)
<1>1. PICK seg \in Segments(1) :
         /\ Consume(seg)
         /\ line' = Append(line, seg[1])
         /\ CASE LineTooLong(seg[1]) -> pc' = "done" /\ outcome' = "parse"
              [] seg[1] = Crlf /\ ~LineTooLong(seg[1]) ->
                   pc' = (IF pc = "size" THEN "size_line" ELSE "last_line") /\ UNCHANGED outcome
              [] OTHER -> UNCHANGED <<pc, outcome>>
  BY DEF ReadLineToken
<1>2. pc \in {"size", "last"} /\ input' = input
  BY DEF ReadLineToken
<1>3. Types /\ Buffered
  BY DEF ReaderInv, FramingInv, PlaceInv
<1>4. g \in Nat
  BY <1>3, LengthTypes
<1>5. /\ s \in Nat /\ l \in Nat /\ l >= 1 /\ s + l + 1 <= Len(w)
      /\ (\A j \in 1 .. l : w[s + j] # Crlf) /\ w[s + l + 1] = Crlf
      /\ i = Len(M.parts) => s + 3 = Len(w) /\ w[s + 3] = Crlf
  <2>1. IsMessage(M) /\ M.start # "204" /\ IsChunked(WrittenHead(M))
    BY <1>2, ChunkedMessage DEF ChunkStates
  <2> QED BY <2>1, ChunkedFacts
<1>6. pc = "size" => At = s + g /\ g <= l
  BY DEF InChunks
<1>7. pc = "last" => At = s + 2 /\ i = Len(M.parts)
  BY DEF InChunks
<1>8. Len(w) \in Nat
  BY <1>3, MessageFacts DEF Types
<1> HIDE DEF s, l, w, g
<1>9. At + 1 <= Len(w)
  BY <1>2, <1>4, <1>5, <1>6, <1>7, <1>8
<1>10. At \in Nat /\ At' = At + 1 /\ seg[1] = w[At + 1] /\ seg[1] \in STRING
  BY <1>1, <1>2, <1>3, <1>9, ReadOne DEF w
<1>11. ASSUME pc = "size" PROVE seg[1] = Crlf <=> g = l
  <2>1. At + 1 = s + (g + 1) /\ (g = l => At + 1 = s + l + 1) /\ (g # l => g + 1 \in 1 .. l)
    BY <1>4, <1>5, <1>6, <1>11
  <2> QED BY <1>5, <1>10, <2>1
<1>12. ASSUME pc = "last" PROVE seg[1] = Crlf
  <2>1. At + 1 = s + 3
    BY <1>5, <1>7, <1>12
  <2> QED BY <1>5, <1>7, <1>10, <1>12, <2>1
<1>13. /\ LineTooLong(seg[1]) => pc' = "done" /\ outcome' = "parse"
       /\ ~LineTooLong(seg[1]) /\ seg[1] = Crlf => pc' = (IF pc = "size" THEN "size_line" ELSE "last_line")
       /\ ~LineTooLong(seg[1]) /\ seg[1] # Crlf => pc' = pc
  BY <1>1
<1> QED BY <1>1, <1>10, <1>11, <1>12, <1>13 DEF w, g, l

\* read_chunked_body understands every size line as it was meant.
LEMMA SizeRead ==
    ASSUME ReaderInv, SizeLine, NEW i \in 0 .. Len(M.parts), InChunks(i)
    PROVE  /\ LineLen(M, i) + 1 <= MaxLine
           /\ i = Len(M.parts) => pc' = "last"
           /\ i < Len(M.parts) =>
                 IF Len(body) + Len(M.parts[i + 1]) > MaxResponse
                 THEN pc' = "done" /\ outcome' = "too_large"
                 ELSE pc' = "data" /\ need' = Len(M.parts[i + 1])
<1> DEFINE s == StartOf(M, i)
           n == LineLen(M, i)
           w == Written(M)
           l == Front(line)
<1>1. pc = "size_line" /\ IsMessage(M) /\ M.start # "204" /\ IsChunked(WrittenHead(M))
  BY ChunkedMessage DEF SizeLine, ChunkStates
<1>2. /\ n \in Nat /\ n >= 1
      /\ w[s + 1] \in DOMAIN SizeOf /\ (n > 1 => w[s + 2] = Semicolon)
      /\ i < Len(M.parts) => SizeOf[w[s + 1]] = Len(M.parts[i + 1])
      /\ i = Len(M.parts) => SizeOf[w[s + 1]] = 0
  BY <1>1, ChunkedFacts
<1>3. Len(line) = n + 1 /\ \A j \in 1 .. Len(line) : line[j] = w[s + j]
  BY <1>1 DEF InChunks
<1>4. line \in Tokens /\ Len(line) <= MaxLine
  BY <1>1 DEF ReaderInv, FramingInv, Types, BodyBound
<1> HIDE DEF s, n, w
<1>5. l \in Tokens /\ Len(l) = n /\ \A j \in 1 .. n : l[j] = line[j]
  <2>1. Front(line) = SubSeq(line, 1, n)
    <3>1. Len(line) - 1 = n
      BY <1>2, <1>3
    <3> QED BY <3>1 DEF Front
  <2>2. 1 \in Nat /\ 1 >= 1 /\ n <= Len(line)
    BY <1>2, <1>3
  <2>3. /\ SubSeq(line, 1, n) \in Tokens
        /\ Len(SubSeq(line, 1, n)) = (IF 1 <= n THEN n - 1 + 1 ELSE 0)
        /\ \A j \in 1 .. (n - 1 + 1) : SubSeq(line, 1, n)[j] = line[1 + j - 1]
    BY <1>2, <1>4, <2>2, SubSeqFacts
  <2>4. n - 1 + 1 = n /\ 1 <= n /\ \A j \in 1 .. n : 1 + j - 1 = j
    BY <1>2
  <2> QED BY <2>1, <2>3, <2>4
<1> HIDE DEF l
<1>6. l[1] = w[s + 1] /\ (n > 1 => l[2] = w[s + 2])
  <2>1. 1 \in 1 .. n /\ 1 \in 1 .. Len(line) /\ (n > 1 => 2 \in 1 .. n /\ 2 \in 1 .. Len(line))
    BY <1>2, <1>3
  <2> QED BY <1>3, <1>5, <2>1
<1>7. ~SizeIsBad(l)
  <2>1. l # <<>>
    BY <1>2, <1>5
  <2> QED BY <1>2, <1>5, <1>6, <2>1 DEF SizeIsBad
<1>8. IF SizeOf[w[s + 1]] = 0 THEN pc' = "last"
      ELSE IF Len(body) + SizeOf[w[s + 1]] > MaxResponse
      THEN pc' = "done" /\ outcome' = "too_large"
      ELSE pc' = "data" /\ need' = SizeOf[w[s + 1]]
  BY <1>6, <1>7 DEF SizeLine, l
<1>9. i < Len(M.parts) => Len(M.parts[i + 1]) # 0
  <2>1. Len(M.parts) \in Nat
    BY <1>1, PartsFacts
  <2>2. i < Len(M.parts) => i + 1 \in 1 .. Len(M.parts)
    BY <2>1
  <2>3. \A k \in 1 .. Len(M.parts) : Len(M.parts[k]) \in Nat /\ Len(M.parts[k]) > 0
    BY <1>1, PartsFacts
  <2> QED BY <2>2, <2>3
<1>10. n + 1 <= MaxLine
  BY <1>3, <1>4
<1> QED BY <1>2, <1>8, <1>9, <1>10 DEF n

LEMMA ReadLineChunks == ASSUME ReaderInv, ChunkInv, ReadLineToken PROVE ChunkInv'
<1>1. pc \in {"size", "last"} /\ UNCHANGED <<input, body>> /\ M' = M
  BY DEF ReadLineToken, M
<1>2. PICK i \in 0 .. Len(M.parts) : InChunks(i)
  BY <1>1 DEF ChunkInv, ChunkStates
<1>3. PICK t \in STRING :
         /\ line' = Append(line, t) /\ At' = At + 1 /\ t = Written(M)[At + 1]
         /\ pc = "size" => (t = Crlf <=> Len(line) = LineLen(M, i))
         /\ pc = "last" => t = Crlf
         /\ LineTooLong(t) => pc' = "done" /\ outcome' = "parse"
         /\ ~LineTooLong(t) /\ t = Crlf => pc' = (IF pc = "size" THEN "size_line" ELSE "last_line")
         /\ ~LineTooLong(t) /\ t # Crlf => pc' = pc
  BY <1>2, LineRead
<1>4. line \in Tokens /\ Len(line) \in Nat
  BY LengthTypes DEF ReaderInv, FramingInv, Types
<1>5. Len(line') = Len(line) + 1 /\ line'[Len(line) + 1] = t
      /\ \A j \in 1 .. Len(line) : line'[j] = line[j]
  BY <1>3, <1>4, AppendProperties DEF Tokens
<1>6. CASE LineTooLong(t)
  <2>1. pc' = "done"
    BY <1>3, <1>6
  <2> QED BY <2>1 DEF ChunkInv, ChunkStates
<1>7. CASE ~LineTooLong(t) /\ pc = "size"
  <2> DEFINE s == StartOf(M, i)
             n == LineLen(M, i)
             g == Len(line)
  <2>1. Len(body) = Before(M, i) /\ At = s + g /\ (\A j \in 1 .. g : line[j] = Written(M)[s + j]) /\ g <= n
        /\ (\A j \in 1 .. Len(body) : body[j] = Payload(M)[j])
        /\ (i > 0 => Len(M.extension) + 1 < MaxLine)
    BY <1>2, <1>7 DEF InChunks
  <2>2. s \in Nat /\ n \in Nat
    BY <1>1, ChunkedMessage, ChunkedFacts DEF ChunkStates
  <2> HIDE DEF s, n
  <2>3. At' = s + Len(line') /\ At + 1 = s + (g + 1)
    BY <1>3, <1>4, <1>5, <2>1, <2>2
  <2>4. \A j \in 1 .. Len(line') : line'[j] = Written(M)[s + j]
    <3> TAKE j \in 1 .. Len(line')
    <3>1. j \in 1 .. g \/ j = g + 1
      BY <1>4, <1>5
    <3> QED BY <1>3, <1>5, <2>1, <2>3, <3>1
  <2>5. \/ pc' = "size_line" /\ Len(line') = n + 1
        \/ pc' = "size" /\ Len(line') <= n
    <3>1. CASE t = Crlf
      <4>1. pc' = "size_line" /\ g = n
        BY <1>3, <1>7, <3>1 DEF n
      <4> QED BY <1>5, <4>1
    <3>2. CASE t # Crlf
      <4>1. pc' = "size" /\ g # n
        BY <1>3, <1>7, <3>2 DEF n
      <4>2. g + 1 <= n
        BY <1>4, <2>1, <2>2, <4>1
      <4> QED BY <1>5, <4>1, <4>2
    <3> QED BY <3>1, <3>2
  <2>6. Len(body') = Before(M', i) /\ At' = StartOf(M', i) + Len(line')
        /\ (\A j \in 1 .. Len(line') : line'[j] = Written(M')[StartOf(M', i) + j])
        /\ (\A j \in 1 .. Len(body') : body'[j] = Payload(M')[j])
        /\ (pc' = "size" => Len(line') <= LineLen(M', i))
        /\ (pc' = "size_line" => Len(line') = LineLen(M', i) + 1)
        /\ (i > 0 => Len(M'.extension) + 1 < MaxLine) /\ i \in 0 .. Len(M'.parts)
    BY <1>1, <2>1, <2>3, <2>4, <2>5 DEF s, n
  <2>7. InChunks(i)'
    BY <2>5, <2>6 DEF InChunks
  <2> QED BY <2>5, <2>6, <2>7 DEF ChunkInv
<1>8. CASE ~LineTooLong(t) /\ pc = "last"
  <2>1. pc' = "last_line"
    BY <1>3, <1>8
  <2>2. i = Len(M.parts) /\ Len(body) = Before(M, i) /\ At = StartOf(M, i) + 2
        /\ (\A j \in 1 .. Len(body) : body[j] = Payload(M)[j])
        /\ (i > 0 => Len(M.extension) + 1 < MaxLine)
    BY <1>2, <1>8 DEF InChunks
  <2>3. StartOf(M, i) \in Nat
    BY <1>1, ChunkedMessage, ChunkedFacts DEF ChunkStates
  <2>4. At' = StartOf(M, i) + 3
    BY <1>3, <2>2, <2>3
  <2>5. i = Len(M'.parts) /\ Len(body') = Before(M', i) /\ At' = StartOf(M', i) + 3
        /\ (\A j \in 1 .. Len(body') : body'[j] = Payload(M')[j])
        /\ (i > 0 => Len(M'.extension) + 1 < MaxLine) /\ i \in 0 .. Len(M'.parts)
    BY <1>1, <2>2, <2>4
  <2>6. InChunks(i)'
    BY <2>1, <2>5 DEF InChunks
  <2> QED BY <2>1, <2>5, <2>6 DEF ChunkInv
<1> QED BY <1>1, <1>6, <1>7, <1>8

LEMMA SizeChunks == ASSUME ReaderInv, ChunkInv, SizeLine PROVE ChunkInv'
<1>1. pc = "size_line" /\ UNCHANGED <<input, pos, prefix, body>> /\ M' = M /\ At' = At /\ line' = <<>>
  BY DEF SizeLine, M, At
<1>2. PICK i \in 0 .. Len(M.parts) : InChunks(i)
  BY <1>1 DEF ChunkInv, ChunkStates
<1> DEFINE s == StartOf(M, i)
           n == LineLen(M, i)
<1>3. IsMessage(M) /\ s \in Nat /\ n \in Nat /\ (i = Len(M.parts) => n = 1) /\ Len(M.parts) \in Nat
  BY <1>1, ChunkedMessage, ChunkedFacts, PartsFacts DEF ChunkStates
<1>4. /\ n + 1 <= MaxLine
      /\ i = Len(M.parts) => pc' = "last"
      /\ i < Len(M.parts) => IF Len(body) + Len(M.parts[i + 1]) > MaxResponse
                             THEN pc' = "done" /\ outcome' = "too_large"
                             ELSE pc' = "data" /\ need' = Len(M.parts[i + 1])
  BY <1>2, SizeRead
<1>5. Len(body) = Before(M, i) /\ At = s + Len(line) /\ Len(line) = n + 1
      /\ (\A j \in 1 .. Len(body) : body[j] = Payload(M)[j])
      /\ (i > 0 => Len(M.extension) + 1 < MaxLine)
  BY <1>1, <1>2 DEF InChunks
<1>6. /\ (\A j \in 1 .. Len(body') : body'[j] = Payload(M')[j])
      /\ i \in 0 .. Len(M'.parts) /\ Len(body') = Before(M', i)
  BY <1>1, <1>5
<1>7. CASE i = Len(M.parts)
  <2>1. pc' = "last" /\ At' = s + 2
    BY <1>1, <1>3, <1>4, <1>5, <1>7
  <2>2. At' = StartOf(M', i) + 2 /\ (i > 0 => Len(M'.extension) + 1 < MaxLine) /\ i = Len(M'.parts)
    BY <1>1, <1>5, <1>7, <2>1
  <2>3. InChunks(i)'
    BY <1>1, <1>6, <2>1, <2>2 DEF InChunks
  <2> QED BY <1>6, <2>1, <2>3 DEF ChunkInv
<1>8. CASE i < Len(M.parts) /\ pc' # "done"
  <2>1. pc' = "data" /\ need' = Len(M.parts[i + 1])
    BY <1>4, <1>8
  <2>2. Before(M, i) \in Nat /\ Before(M, i + 1) = Before(M, i) + Len(M.parts[i + 1])
    BY <1>3, <1>8, BeforeFacts
  <2>3. Len(body') + need' = Before(M', i + 1) /\ Len(body') >= Before(M', i)
    BY <1>1, <1>5, <2>1, <2>2
  <2>4. At' = s + n + 1 + (Len(body') - Before(M, i))
    <3>1. Len(body') - Before(M, i) = 0
      BY <1>1, <1>5, <2>2
    <3> HIDE DEF s, n
    <3> QED BY <1>1, <1>3, <1>5, <3>1
  <2>5. At' = StartOf(M', i) + LineLen(M', i) + 1 + (Len(body') - Before(M', i))
    BY <1>1, <2>4
  <2>6. Len(M'.extension) + 1 < MaxLine /\ i < Len(M'.parts)
    <3>1. n = 1 + Len(M.extension) /\ Len(M.extension) \in Nat
      BY <1>3, <1>8, PartsFacts DEF LineLen
    <3> HIDE DEF n
    <3>2. Len(M.extension) + 1 < MaxLine
      BY <1>4, <3>1, Limits
    <3> QED BY <1>1, <1>8, <3>2
  <2>7. InChunks(i)'
    BY <1>1, <1>6, <2>1, <2>3, <2>5, <2>6 DEF InChunks
  <2> QED BY <1>6, <2>1, <2>7 DEF ChunkInv
<1>9. CASE pc' = "done"
  BY <1>9 DEF ChunkInv, ChunkStates
<1>10. i = Len(M.parts) \/ i < Len(M.parts)
  BY <1>3
<1> QED BY <1>7, <1>8, <1>9, <1>10

\* read_exact takes no more than the chunk.
LEMMA DataChunks == ASSUME ReaderInv, ChunkInv, ReadChunk PROVE ChunkInv'
<1>1. PICK seg \in Segments(need) :
         /\ body' = body \o seg /\ need' = need - Len(seg) /\ Consume(seg)
         /\ pc' = IF need = Len(seg) THEN "delim" ELSE "data"
  BY DEF ReadChunk
<1>2. pc = "data" /\ UNCHANGED <<input, line>> /\ M' = M
  BY DEF ReadChunk, M
<1>3. PICK i \in 0 .. Len(M.parts) : InChunks(i)
  BY <1>2 DEF ChunkInv, ChunkStates
<1> DEFINE s == StartOf(M, i)
           n == LineLen(M, i)
           w == Written(M)
           p == M.parts[i + 1]
           a == Before(M, i)
           b == Len(body)
           c == Len(p)
           g == Len(seg)
           q == StartOf(M, i + 1)
           z == Before(M, i + 1)
<1>4. /\ i < Len(M.parts) /\ line = <<>> /\ b >= a /\ b + need = z /\ At = s + n + 1 + (b - a)
      /\ (\A j \in 1 .. b : body[j] = Payload(M)[j]) /\ Len(M.extension) + 1 < MaxLine
  BY <1>2, <1>3 DEF InChunks
<1>5. IsMessage(M) /\ M.start # "204" /\ IsChunked(WrittenHead(M))
  BY <1>2, ChunkedMessage DEF ChunkStates
<1>6. /\ s \in Nat /\ n \in Nat /\ q = s + n + 2 + c /\ q + 3 <= Len(w)
      /\ \A j \in 1 .. c : w[s + n + 1 + j] = p[j]
  BY <1>4, <1>5, ChunkedFacts
<1>7. a \in Nat /\ z = a + c /\ c \in Nat /\ (\A j \in 1 .. c : Payload(M)[a + j] = p[j])
  <2>1. i + 1 \in 1 .. Len(M.parts)
    BY <1>4, <1>5, BeforeFacts
  <2>2. c \in Nat
    BY <1>5, <2>1, PartsFacts
  <2>3. a \in Nat /\ z = a + c /\ (\A j \in 1 .. c : Payload(M)[a + j] = p[j])
    BY <1>4, <1>5, BeforeFacts
  <2> QED BY <2>2, <2>3
<1>8. Types /\ Buffered /\ need \in Nat \ {0} /\ body \in Tokens /\ b \in Nat /\ input \in Inputs
  BY <1>2, LengthTypes DEF ReaderInv, FramingInv, PlaceInv, Types, Stage
<1>9. seg \in Tokens /\ g \in 1 .. need
  BY <1>1, <1>8, ReadFacts
<1>10. At \in Nat /\ At' = At + g /\ At' <= Len(input.wire)
       /\ \A j \in 1 .. g : seg[j] = input.wire[At + j]
  BY <1>1, <1>2, <1>8, ReadAt
<1>11. Len(w) \in Nat /\ Len(input.wire) \in Nat
       /\ \A k \in Nat : k >= 1 /\ k <= Len(input.wire) /\ k <= Len(w) => input.wire[k] = w[k]
  BY <1>8, MessageFacts, InputTypes
<1>12. Len(body') = b + g
  BY <1>1, <1>8, <1>9, ConcatFacts
<1>13. (\A j \in 1 .. b : body'[j] = body[j]) /\ \A j \in 1 .. g : body'[b + j] = seg[j]
  BY <1>1, <1>8, <1>9, ConcatAt
<1> DEFINE lw == Len(w)
           lf == Len(input.wire)
<1>a. lw \in Nat /\ lf \in Nat /\ q + 3 <= lw /\ At' <= lf
      /\ \A k \in Nat : k >= 1 /\ k <= lf /\ k <= lw => input.wire[k] = w[k]
  BY <1>6, <1>10, <1>11
<1> HIDE DEF s, n, w, p, a, b, c, g, q, z, lw, lf
<1>14. ASSUME NEW j \in 1 .. g PROVE seg[j] = Payload(M)[b + j]
  <2> DEFINE d == b - a + j
  <2>1. d \in 1 .. c /\ At + j = s + n + 1 + d /\ a + d = b + j /\ At + j \in Nat /\ At + j >= 1
        /\ At + j <= lf /\ At + j <= lw
    BY <1>4, <1>6, <1>7, <1>8, <1>9, <1>10, <1>a
  <2> HIDE DEF d
  <2>2. input.wire[At + j] = w[At + j]
    BY <1>a, <2>1
  <2>3. w[At + j] = p[d] /\ Payload(M)[b + j] = p[d]
    BY <1>6, <1>7, <2>1
  <2> QED BY <1>10, <2>2, <2>3
<1>15. \A j \in 1 .. Len(body') : body'[j] = Payload(M)[j]
  <2> TAKE j \in 1 .. Len(body')
  <2>1. j \in 1 .. b \/ (j - b \in 1 .. g /\ b + (j - b) = j)
    BY <1>8, <1>9, <1>12
  <2>2. CASE j \in 1 .. b
    BY <1>4, <1>13, <2>2
  <2>3. CASE j - b \in 1 .. g /\ b + (j - b) = j
    BY <1>13, <1>14, <2>3
  <2> QED BY <2>1, <2>2, <2>3
<1> DEFINE r == Len(body')
<1>b. /\ b \in Nat /\ a \in Nat /\ c \in Nat /\ g \in Nat /\ need \in Nat /\ s \in Nat /\ n \in Nat
      /\ b >= a /\ b + need = z /\ z = a + c /\ r = b + g /\ q = s + n + 2 + c
      /\ At = s + n + 1 + (b - a) /\ At' = At + g /\ need' = need - g
  BY <1>1, <1>4, <1>6, <1>7, <1>8, <1>9, <1>10, <1>12 DEF g
<1> HIDE DEF r
<1>16. r >= a /\ r + need' = z /\ At' = s + n + 1 + (r - a)
  BY <1>b
<1>17. need = g => r = z /\ At' + 1 = q
  BY <1>b
<1>18. /\ i \in 0 .. Len(M'.parts) /\ i < Len(M'.parts) /\ line' = <<>>
       /\ (\A j \in 1 .. Len(body') : body'[j] = Payload(M')[j]) /\ Len(M'.extension) + 1 < MaxLine
       /\ Len(body') >= Before(M', i) /\ Len(body') + need' = Before(M', i + 1)
       /\ At' = StartOf(M', i) + LineLen(M', i) + 1 + (Len(body') - Before(M', i))
       /\ need = g => Len(body') = Before(M', i + 1) /\ At' + 1 = StartOf(M', i + 1)
  BY <1>2, <1>4, <1>15, <1>16, <1>17 DEF a, z, s, n, q, r
<1>19. (pc' = "delim" /\ need = g) \/ pc' = "data"
  BY <1>1 DEF g
<1>20. InChunks(i)'
  BY <1>18, <1>19 DEF InChunks
<1> QED BY <1>18, <1>19, <1>20 DEF ChunkInv

\* Where read_exact_delimiter reads, there is a line end.
LEMMA DelimiterChunks == ASSUME ReaderInv, ChunkInv, ReadDelimiter PROVE ChunkInv' /\ pc' = "size"
<1>1. PICK seg \in Segments(1) :
         Consume(seg) /\ IF seg[1] = Crlf THEN pc' = "size" ELSE pc' = "done"
  BY DEF ReadDelimiter
<1>2. pc = "delim" /\ UNCHANGED <<input, line, body>> /\ M' = M
  BY DEF ReadDelimiter, M
<1>3. PICK i \in 0 .. Len(M.parts) : InChunks(i)
  BY <1>2 DEF ChunkInv, ChunkStates
<1>4. /\ i < Len(M.parts) /\ line = <<>> /\ Len(body) = Before(M, i + 1) /\ At + 1 = StartOf(M, i + 1)
      /\ (\A j \in 1 .. Len(body) : body[j] = Payload(M)[j]) /\ Len(M.extension) + 1 < MaxLine
  BY <1>2, <1>3 DEF InChunks
<1>5. IsMessage(M) /\ M.start # "204" /\ IsChunked(WrittenHead(M)) /\ Types /\ Buffered /\ input \in Inputs
  BY <1>2, ChunkedMessage DEF ChunkStates, ReaderInv, FramingInv, PlaceInv
<1>6. StartOf(M, i + 1) + 3 <= Len(Written(M)) /\ Written(M)[StartOf(M, i + 1)] = Crlf
      /\ StartOf(M, i + 1) \in Nat
  BY <1>4, <1>5, ChunkedFacts
<1>7. Len(Written(M)) \in Nat
  BY <1>5, MessageFacts
<1>8. At + 1 <= Len(Written(M))
  BY <1>4, <1>6, <1>7
<1>9. At' = At + 1 /\ seg[1] = Written(M)[At + 1]
  BY <1>1, <1>2, <1>5, <1>8, ReadOne
<1>10. pc' = "size" /\ At' = StartOf(M, i + 1)
  BY <1>1, <1>4, <1>6, <1>9
<1>11. i + 1 \in 0 .. Len(M.parts)
  BY <1>4, <1>5, BeforeFacts
<1>12. LineLen(M, i + 1) \in Nat
  BY <1>5, <1>11, ChunkedFacts
<1>13. Len(line') = 0 /\ (\A j \in 1 .. Len(line') : FALSE) /\ Len(line') <= LineLen(M, i + 1)
       /\ At' = StartOf(M, i + 1) + Len(line')
  <2>1. Len(line') = 0
    BY <1>2, <1>4
  <2> QED BY <1>6, <1>10, <1>12, <2>1
<1>14. /\ i + 1 \in 0 .. Len(M'.parts) /\ Len(body') = Before(M', i + 1)
       /\ (\A j \in 1 .. Len(body') : body'[j] = Payload(M')[j]) /\ Len(M'.extension) + 1 < MaxLine
       /\ Len(line') <= LineLen(M', i + 1) /\ At' = StartOf(M', i + 1) + Len(line')
  BY <1>2, <1>4, <1>11, <1>13
<1>15. InChunks(i + 1)'
  BY <1>10, <1>13, <1>14 DEF InChunks
<1> QED BY <1>10, <1>14, <1>15 DEF ChunkInv

LEMMA ParseChunks == ASSUME ReaderInv, ChunkInv, ParseResponse, ReaderInv' PROVE ChunkInv'
<1>1. pc = "parse" /\ line = <<>> /\ line' = line /\ body' = body /\ body = <<>> /\ input' = input /\ M' = M
      /\ pc' \in {"done", "fixed", "size", "eof"}
  BY DEF ParseResponse, Fail, ChunkInv, M, ReaderInv, FramingInv, Stage
<1>2. CASE pc' # "size"
  BY <1>1, <1>2 DEF ChunkInv, ChunkStates
<1>3. CASE pc' = "size"
  <2>1. At' = Len(WrittenHead(M))
    BY <1>3, ParsePlace DEF ReaderInv, ExactInv
  <2>2. IsMessage(M') /\ M'.start # "204" /\ IsChunked(WrittenHead(M'))
    <3>1. /\ input' \in Inputs
          /\ head' = WrittenHead(M') /\ IsChunked(head') /\ M'.start # "204"
      BY <1>3 DEF ReaderInv, PlaceInv, Headed, Parsed, ExactInv, Due, ResponseStates, ChunkStates,
                  PcStates, FramingInv, Types
    <3>2. IsMessage(M)
      BY MessageFacts DEF ReaderInv, FramingInv, Types
    <3> QED BY <1>1, <3>1, <3>2
  <2>3. IsMessage(M) /\ M.start # "204" /\ IsChunked(WrittenHead(M)) /\ Len(M.parts) \in Nat
    BY <1>1, <2>2, PartsFacts
  <2>4. 0 \in 0 .. Len(M.parts)
    BY <2>3
  <2>5. StartOf(M, 0) = Len(WrittenHead(M)) /\ StartOf(M, 0) \in Nat /\ LineLen(M, 0) \in Nat
    BY <2>3, <2>4, StartFacts, ChunkedFacts
  <2>6. Before(M, 0) = 0
    BY <2>3, BeforeFacts
  <2>7. Len(line') = 0 /\ Len(body') = 0
    BY <1>1
  <2>8. /\ (\A j \in 1 .. Len(line') : FALSE) /\ (\A j \in 1 .. Len(body') : FALSE)
        /\ Len(body') = Before(M', 0) /\ At' = StartOf(M', 0) + Len(line')
        /\ Len(line') <= LineLen(M', 0) /\ 0 \in 0 .. Len(M'.parts) /\ ~(0 > 0)
    BY <1>1, <2>1, <2>4, <2>5, <2>6, <2>7
  <2>9. InChunks(0)'
    BY <1>3, <2>8 DEF InChunks
  <2> QED BY <1>3, <2>8, <2>9 DEF ChunkInv
<1> QED BY <1>2, <1>3

LEMMA ChunkStep == ASSUME ReaderInv, ReaderInv', ChunkInv, [Next]_vars PROVE ChunkInv'
<1>1. CASE UNCHANGED vars
  <2>1. UNCHANGED <<pc, body, line, need>> /\ M' = M /\ At' = At
    BY <1>1 DEF vars, M, At
  <2>2. ASSUME NEW i, InChunks(i) PROVE InChunks(i)'
    BY <2>1, <2>2 DEF InChunks
  <2> QED BY <2>1, <2>2 DEF ChunkInv
<1>2. CASE HeaderTooLong \/ ReadHeader \/ ParseRequest \/ ReadRest \/ RequestDone
  <2>1. \/ pc' \in {"rest", "done"}
        \/ pc = "head" /\ pc' \in {"head", "parse"} /\ line' = line
    BY <1>2 DEF HeaderTooLong, Fail, ReadHeader, ParseRequest, ReadRest, RequestDone
  <2> QED BY <2>1 DEF ChunkInv, ChunkStates
<1>3. CASE ReadFixed \/ ReadUntilEof \/ LastLine \/ EndOfStream \/ ReadFails
  <2>1. pc' \in {"fixed", "eof", "done"}
    BY <1>3 DEF ReadFixed, ReadUntilEof, LastLine, EndOfStream, ReadFails, Fail, ResponseDone
  <2> QED BY <2>1 DEF ChunkInv, ChunkStates
<1> QED BY <1>1, <1>2, <1>3, ParseChunks, ReadLineChunks, SizeChunks, DataChunks, DelimiterChunks
        DEF Next, Step, Returned

-----------------------------------------------------------------------------
(* What becomes of a message *)

LEMMA ExpectedResponse ==
    ASSUME NEW m
    PROVE  LET h == WrittenHead(m)
               x == Expected("response", m)
           IN  /\ m.start \notin {"200", "204"} \/ FieldsAreBad(h) => x = "parse"
               /\ m.start = "204" /\ ~FieldsAreBad(h) => x = "ok"
               /\ m.start = "200" /\ ~FieldsAreBad(h) =>
                     x = IF \/ ~IsChunked(h) /\ LengthIsBad(h)
                            \/ IsChunked(h) /\ m.parts # <<>> /\ Len(m.extension) + 1 >= MaxLine
                         THEN "parse"
                         ELSE IF Len(Payload(m)) > MaxResponse THEN "too_large" ELSE "ok"
<1> DEFINE h == WrittenHead(m)
<1>1. CASE m.start \notin {"200", "204"} \/ FieldsAreBad(h)
  BY <1>1, Zenon DEF Expected
<1>2. CASE m.start = "204" /\ ~FieldsAreBad(h)
  BY <1>2 DEF Expected
<1>3. CASE m.start = "200" /\ ~FieldsAreBad(h)
  BY <1>3 DEF Expected
<1> QED BY <1>1, <1>2, <1>3

LEMMA ExpectedRequest ==
    ASSUME NEW m
    PROVE  LET h == WrittenHead(m)
               x == Expected("request", m)
           IN  /\ m.start # "get" \/ FieldsAreBad(h) => x = "parse"
               /\ m.start = "get" /\ ~FieldsAreBad(h) =>
                     x = IF LengthIsBad(h) THEN "parse"
                         ELSE IF Len(Payload(m)) > MaxBody THEN "too_large" ELSE "ok"
<1> DEFINE h == WrittenHead(m)
<1>1. CASE m.start # "get" \/ FieldsAreBad(h)
  BY <1>1, Zenon DEF Expected
<1>2. CASE m.start = "get" /\ ~FieldsAreBad(h)
  BY <1>2 DEF Expected
<1> QED BY <1>1, <1>2

\* A length that has to be right is.
LEMMA MeasuredResponse ==
    ASSUME NEW m, m.start # "204", ~IsChunked(WrittenHead(m)), ~LengthIsBad(WrittenHead(m)),
           Framed("response", m)
    PROVE  HasLength(WrittenHead(m)) /\ LengthOf(WrittenHead(m)) = Len(Payload(m))
  BY DEF Framed

LEMMA MeasuredRequest ==
    ASSUME NEW m, IsMessage(m), ~LengthIsBad(WrittenHead(m)), Framed("request", m)
    PROVE  ~IsChunked(WrittenHead(m)) /\ Announced(WrittenHead(m)) = Len(Payload(m))
<1> DEFINE h == WrittenHead(m)
<1>1. ~IsChunked(h)
  BY DEF Framed
<1>2. (HasLength(h) /\ LengthOf(h) = Len(Payload(m))) \/ (~HasLength(h) /\ m.parts = <<>>)
  BY DEF Framed
<1>3. m.parts = <<>> => Len(Payload(m)) = 0
  <2>1. m.parts = <<>> => Len(m.parts) = 0
    OBVIOUS
  <2> QED BY <2>1, BeforeFacts
<1> QED BY <1>1, <1>2, <1>3 DEF Announced

LEMMA PlainWritten ==
    ASSUME NEW m, IsMessage(m), ~IsChunked(WrittenHead(m))
    PROVE  LET h == WrittenHead(m)
           IN  /\ Len(h) \in Nat /\ Len(Payload(m)) \in Nat /\ Len(Written(m)) \in Nat
               /\ Len(Written(m)) <= Len(h) + Len(Payload(m))
               /\ m.start # "204" =>
                     /\ Len(Written(m)) = Len(h) + Len(Payload(m))
                     /\ \A j \in 1 .. Len(Payload(m)) : Written(m)[Len(h) + j] = Payload(m)[j]
<1> DEFINE h == WrittenHead(m)
           b == WrittenBody(m)
           p == Payload(m)
<1>1. Len(h) \in Nat /\ Len(p) \in Nat /\ Len(b) \in Nat /\ Len(Written(m)) = Len(h) + Len(b)
      /\ \A j \in 1 .. Len(b) : Written(m)[Len(h) + j] = b[j]
  BY WrittenHeadFacts, PartsFacts, WrittenFacts
<1>2. b = IF m.start = "204" THEN <<>> ELSE p
  BY DEF WrittenBody
<1> HIDE DEF h, b, p
<1>3. CASE m.start # "204"
  <2>1. b = p
    BY <1>2, <1>3
  <2> QED BY <1>1, <1>3, <2>1 DEF h, p
<1>4. CASE m.start = "204"
  <2>1. b = <<>>
    BY <1>2, <1>4
  <2>2. Len(b) = 0
    BY <2>1
  <2> QED BY <1>1, <1>4, <2>2 DEF h, p
<1> QED BY <1>3, <1>4

\* What has been read is the head, the body and the prefix.
LEMMA Lengths ==
    ASSUME ReaderInv, pc \in {"rest", "fixed", "eof"}
    PROVE  /\ Len(head) \in Nat /\ Len(body) \in Nat /\ pos \in Nat /\ pos <= Len(input.wire)
           /\ Len(prefix) \in Nat /\ Len(head) + Len(body) + Len(prefix) = pos
           /\ pc = "rest" => Len(head) + Len(body) = pos
<1>1. head \in Tokens /\ body \in Tokens /\ prefix \in Tokens /\ head \o body \in Tokens
      /\ input.wire \in Tokens /\ Len(input.wire) \in Nat /\ pos \in Nat /\ pos <= Len(input.wire)
  BY InputTypes, ConcatFacts DEF ReaderInv, FramingInv, ExactInv, Stream, Types
<1>2. Len(Upto(pos)) = pos
  <2>1. Len(SubSeq(input.wire, 1, pos)) = IF 1 <= pos THEN pos - 1 + 1 ELSE 0
    BY <1>1, SubSeqFacts
  <2> QED BY <1>1, <2>1 DEF Upto
<1>3. Len(head) \in Nat /\ Len(body) \in Nat /\ Len(prefix) \in Nat
      /\ Len(head \o body) = Len(head) + Len(body)
      /\ Len((head \o body) \o prefix) = Len(head \o body) + Len(prefix)
  BY <1>1, ConcatFacts, TokensLen
<1>4. CASE pc = "rest"
  <2>1. prefix = <<>> /\ head \o body = Upto(pos)
    BY <1>4 DEF ReaderInv, ExactInv, Stream
  <2>2. Len(prefix) = 0
    BY <2>1
  <2>3. Len(head) + Len(body) = pos
    BY <1>2, <1>3, <2>1
  <2> DEFINE a == Len(head)
             b == Len(body)
             c == Len(prefix)
  <2>4. a \in Nat /\ b \in Nat /\ c = 0 /\ a + b = pos
    BY <1>3, <2>2, <2>3
  <2> HIDE DEF a, b, c
  <2>5. a + b + c = pos
    BY <2>4
  <2> QED BY <1>1, <1>3, <2>3, <2>5 DEF a, b, c
<1>5. CASE pc # "rest"
  <2>1. (head \o body) \o prefix = Upto(pos)
    BY <1>5 DEF ReaderInv, ExactInv, Stream
  <2> QED BY <1>1, <1>2, <1>3, <1>5, <2>1
<1> QED BY <1>4, <1>5

\* A body that is as long as it should be is the body that was written.
LEMMA BodyIsPayload ==
    ASSUME ReaderInv, pc \in {"fixed", "eof"}, M.start # "204", Len(body) = Len(Payload(M))
    PROVE  body = Payload(M)
<1> DEFINE h == WrittenHead(M)
           p == Payload(M)
           w == input.wire
<1>1. input \in Inputs /\ IsMessage(M) /\ head = h /\ ~IsChunked(h)
  BY MessageFacts DEF ReaderInv, FramingInv, Types, PlaceInv, Headed, ExactInv, Due, ResponseStates, PcStates
<1>2. head \in Tokens /\ body \in Tokens /\ prefix \in Tokens /\ w \in Tokens
      /\ Len(w) \in Nat /\ p \in Tokens
  BY <1>1, InputTypes, PartsFacts DEF ReaderInv, FramingInv, ExactInv, Stream, Types
<1>3. Len(head) \in Nat /\ Len(body) \in Nat /\ pos \in Nat /\ pos <= Len(w)
      /\ Len(prefix) \in Nat /\ Len(head) + Len(body) + Len(prefix) = pos
  BY Lengths
<1>4. (head \o body) \o prefix = SubSeq(w, 1, pos)
  BY DEF ReaderInv, ExactInv, Stream, Upto
<1>5. head \o body \in Tokens /\ Len(head \o body) = Len(head) + Len(body)
  BY <1>2, ConcatFacts
<1>6. Len(Written(M)) = Len(h) + Len(p) /\ Len(p) \in Nat
      /\ \A j \in 1 .. Len(p) : Written(M)[Len(h) + j] = p[j]
  BY <1>1, PlainWritten
<1>7. \A k \in Nat : k >= 1 /\ k <= Len(w) /\ k <= Len(Written(M)) => w[k] = Written(M)[k]
  BY <1>1, MessageFacts
<1>8. \A k \in 1 .. (pos - 1 + 1) : SubSeq(w, 1, pos)[k] = w[1 + k - 1]
  BY <1>2, <1>3, SubSeqFacts
<1> HIDE DEF h, p, w
<1>9. \A j \in 1 .. Len(body) : body[j] = p[j]
  <2> TAKE j \in 1 .. Len(body)
  <2> DEFINE k == Len(head) + j
  <2>1. k \in 1 .. Len(head \o body) /\ k \in 1 .. (pos - 1 + 1) /\ 1 + k - 1 = k /\ k \in Nat /\ k >= 1
        /\ k <= Len(w)
    BY <1>2, <1>3, <1>5
  <2>2. (head \o body)[k] = body[j]
    BY <1>2, ConcatAt
  <2> HIDE DEF k
  <2>3. ((head \o body) \o prefix)[k] = (head \o body)[k]
    BY <1>2, <1>5, <2>1, ConcatAt
  <2>4. body[j] = w[k]
    BY <1>4, <1>8, <2>1, <2>2, <2>3
  <2>5. k <= Len(Written(M)) /\ j \in 1 .. Len(p) /\ k = Len(h) + j
    <3>1. Len(body) = Len(p) /\ Len(head) = Len(h)
      BY <1>1 DEF p
    <3> QED BY <1>3, <1>6, <3>1 DEF k
  <2> QED BY <1>6, <1>7, <2>1, <2>4, <2>5
<1>10. Len(body) = Len(p)
  BY DEF p
<1>11. body = p
  BY <1>2, <1>9, <1>10, SeqEqual DEF Tokens
<1> QED BY <1>11 DEF p

\* The messages the properties speak of, and what they say of an outcome.
ResponseAsked ==
    /\ input.role = "response" /\ Complete /\ HeadFits
    /\ \/ Framed("response", M)
       \/ ~HasLength(WrittenHead(M)) /\ input.closes /\ input.wire = Written(M)

RequestAsked ==
    input.role = "request" /\ Framed("request", M) /\ HeadFits /\ input.wire = Written(M)

Verdict == ResponseIsExpected /\ RequestIsExpected /\ TruncationIsDetected

LEMMA VerdictOf ==
    ASSUME input' = input,
           ~disturbed' /\ ResponseAsked =>
              /\ outcome' = Expected("response", M)
              /\ outcome' = "ok" /\ M.start # "204" => body' = Payload(M),
           ~disturbed' /\ RequestAsked =>
              /\ outcome' = Expected("request", M)
              /\ outcome' = "ok" => forwarded' = input.wire,
           outcome' = "ok" /\ Framed(input.role, M) => Complete
    PROVE  Verdict'
<1>1. ResponseIsExpected'
  BY DEF ResponseIsExpected, ResponseAsked, Returns, Complete, HeadFits, M
<1>2. RequestIsExpected'
  BY DEF RequestIsExpected, RequestAsked, Returns, Complete, HeadFits, M
<1>3. TruncationIsDetected'
  BY DEF TruncationIsDetected, Complete, M
<1> QED BY <1>1, <1>2, <1>3 DEF Verdict

LEMMA NotReturned == ASSUME pc' # "done", outcome' = "none" PROVE Verdict'
  BY DEF Verdict, ResponseIsExpected, RequestIsExpected, TruncationIsDetected, Returns

LEMMA Roles == ASSUME ReaderInv
               PROVE  /\ input \in Inputs /\ IsMessage(M)
                      /\ ~(input.role = "request" /\ input.role = "response")
  BY MessageFacts DEF ReaderInv, FramingInv, Types

LEMMA HeadVerdict == ASSUME ReaderInv, ReaderInv', HeaderTooLong \/ ReadHeader PROVE Verdict'
<1>1. CASE HeaderTooLong
  <2>1. input' = input /\ outcome' = "parse" /\ pc = "head" /\ Len(buf) > MaxHeader
    BY <1>1, LengthTypes, Limits DEF HeaderTooLong, Fail, HeaderRoom, ReaderInv, FramingInv
  <2>2. Len(buf) = pos /\ pos < Len(WrittenHead(M))
    BY <2>1, HeadSeen DEF ReaderInv, ExactInv, PlaceInv, Headed
  <2>3. ~HeadFits
    <3>1. input \in Inputs /\ pos \in Nat /\ MaxHeader \in Nat
      BY Limits DEF ReaderInv, FramingInv, Types
    <3>2. Len(WrittenHead(M)) \in Nat
      BY <3>1, MessageFacts
    <3> QED BY <2>1, <2>2, <3>1, <3>2 DEF HeadFits, M
  <2> QED BY <2>1, <2>3, VerdictOf DEF ResponseAsked, RequestAsked
<1>2. CASE ReadHeader
  <2>1. pc' \in {"parse", "head"}
    BY <1>2 DEF ReadHeader
  <2>2. outcome' = "none"
    BY <2>1 DEF ReaderInv, FramingInv, Types
  <2> QED BY <2>1, <2>2, NotReturned
<1> QED BY <1>1, <1>2

LEMMA RequestVerdict ==
    ASSUME ReaderInv, ReaderInv', ParseRequest \/ ReadRest \/ RequestDone PROVE Verdict'
<1> DEFINE h == WrittenHead(M)
           p == Len(Payload(M))
<1>1. input \in Inputs /\ IsMessage(M) /\ pos \in Nat /\ pos <= Len(input.wire) /\ Len(input.wire) \in Nat
      /\ Len(h) \in Nat /\ p \in Nat /\ MaxBody \in Nat
  BY Roles, MessageFacts, PartsFacts, InputTypes, Limits DEF ReaderInv, FramingInv, Types
<1>2. CASE ParseRequest /\ pc' # "done"
  <2>1. outcome' = "none"
    BY <1>2 DEF ReaderInv, FramingInv, Types
  <2> QED BY <1>2, <2>1, NotReturned
<1>3. CASE ParseRequest /\ pc' = "done"
  <2>1. pc = "parse" /\ input.role = "request" /\ HeadEnds(buf) # {}
    BY <1>3 DEF ParseRequest, ReaderInv, FramingInv, Stage
  <2>2. RawHead = h /\ h[1] = M.start /\ Len(LeftOver) = pos - Len(h) /\ Len(h) <= pos
    BY <1>1, <2>1, HeadSeen, MessageFacts DEF ReaderInv, ExactInv
  <2>3. input' = input /\ outcome' # "ok" /\ ~ResponseAsked
    BY <1>3, <2>1 DEF ParseRequest, Fail, ResponseAsked
  <2>4. CASE RequestLineIsBad(h) \/ FieldsAreBad(h) \/ LengthIsBad(h)
    <3>1. outcome' = "parse"
      BY <1>3, <2>2, <2>4 DEF ParseRequest, Fail
    <3>2. Expected("request", M) = "parse"
      BY <2>2, <2>4, ExpectedRequest DEF RequestLineIsBad
    <3> QED BY <2>3, <3>1, <3>2, VerdictOf
  <2>5. CASE ~(RequestLineIsBad(h) \/ FieldsAreBad(h) \/ LengthIsBad(h))
    <3>1. outcome' = "too_large" /\ (Announced(h) > MaxBody \/ Len(LeftOver) > MaxBody)
      BY <1>3, <2>2, <2>5 DEF ParseRequest, Fail, Announced, FirstPart
    <3>2. ASSUME RequestAsked PROVE Expected("request", M) = "too_large"
      <4>1. Announced(h) = p /\ ~IsChunked(h) /\ input.wire = Written(M)
        BY <1>1, <2>5, <3>2, MeasuredRequest DEF RequestAsked
      <4>2. Len(input.wire) <= Len(h) + p
        BY <1>1, <4>1, PlainWritten
      <4>3. p > MaxBody
        <5> HIDE DEF h, p
        <5> QED BY <1>1, <2>2, <3>1, <4>1, <4>2
      <4> QED BY <2>2, <2>5, <4>3, ExpectedRequest DEF RequestLineIsBad
    <3> QED BY <2>3, <3>1, <3>2, VerdictOf
  <2> QED BY <2>4, <2>5
<1>4. CASE ReadRest
  <2>1. pc' = "rest"
    BY <1>4 DEF ReadRest
  <2>2. outcome' = "none"
    BY <2>1 DEF ReaderInv, FramingInv, Types
  <2> QED BY <2>1, <2>2, NotReturned
<1>5. CASE RequestDone
  <2>1. input' = input /\ outcome' = "ok" /\ forwarded' = head \o body /\ pc = "rest" /\ need = 0
    BY <1>5 DEF RequestDone
  <2>2. head = h /\ M.start = "get" /\ ~FieldsAreBad(h) /\ ~LengthIsBad(h) /\ input.role = "request"
        /\ head \o body = Upto(pos) /\ (HasLength(head) => Len(body) + need >= LengthOf(head))
        /\ Len(body) + need <= MaxBody
    BY <2>1 DEF ReaderInv, PlaceInv, Headed, Parsed, FramingInv, Stage, BodyBound, ExactInv, Stream, Due
  <2>3. Len(body) \in Nat /\ Len(head) + Len(body) = pos
    BY <2>1, Lengths
  <2>4. Len(body) >= Announced(h) /\ Len(body) <= MaxBody
    <3>1. Len(body) + need = Len(body)
      BY <2>1, <2>3
    <3> QED BY <2>2, <2>3, <3>1 DEF Announced
  <2>5. ASSUME Framed("request", M)
        PROVE  Complete /\ Len(body) >= p /\ ~IsChunked(h)
    <3>1. Announced(h) = p /\ ~IsChunked(h)
      BY <1>1, <2>2, <2>5, MeasuredRequest
    <3>2. Len(Written(M)) <= Len(h) + p /\ Len(Written(M)) \in Nat
      BY <1>1, <3>1, PlainWritten
    <3>3. Len(body) >= p /\ Len(h) + Len(body) = pos
      BY <2>2, <2>3, <2>4, <3>1
    <3> HIDE DEF h, p
    <3>4. Len(input.wire) >= Len(Written(M))
      BY <1>1, <2>3, <3>2, <3>3
    <3> QED BY <3>1, <3>3, <3>4 DEF Complete, M
  <2>6. ASSUME RequestAsked PROVE Expected("request", M) = "ok" /\ forwarded' = input.wire
    <3>1. Framed("request", M) /\ input.wire = Written(M)
      BY <2>6 DEF RequestAsked
    <3>2. Len(input.wire) = Len(h) + p
      BY <1>1, <2>2, <2>5, <3>1, PlainWritten
    <3>3. Len(body) >= p /\ Len(h) + Len(body) = pos
      BY <2>2, <2>3, <2>5, <3>1
    <3>4. Len(body) = p /\ pos = Len(input.wire) /\ ~(p > MaxBody)
      <4> HIDE DEF h, p
      <4> QED BY <1>1, <2>3, <2>4, <3>2, <3>3
    <3>5. Expected("request", M) = "ok"
      BY <2>2, <3>4, ExpectedRequest
    <3>6. Upto(pos) = input.wire
      BY <1>1, <3>4, InputTypes, SubSeqFull DEF Upto, Tokens
    <3> QED BY <2>1, <2>2, <3>5, <3>6
  <2>7. ~ResponseAsked
    BY <2>2 DEF ResponseAsked
  <2> QED BY <2>1, <2>2, <2>5, <2>6, <2>7, VerdictOf
<1> QED BY <1>2, <1>3, <1>4, <1>5

LEMMA ParseVerdict == ASSUME ReaderInv, ReaderInv', ParseResponse PROVE Verdict'
<1> DEFINE h == WrittenHead(M)
<1>1. CASE pc' # "done"
  <2>1. outcome' = "none"
    BY <1>1 DEF ReaderInv, FramingInv, Types
  <2> QED BY <1>1, <2>1, NotReturned
<1>2. CASE pc' = "done"
  <2>1. pc = "parse" /\ input.role = "response" /\ HeadEnds(buf) # {} /\ input \in Inputs
    BY DEF ParseResponse, ReaderInv, FramingInv, Stage, Types
  <2>2. RawHead = h /\ h[1] = M.start
    BY <2>1, HeadSeen, MessageFacts DEF ReaderInv, ExactInv
  <2>3. input' = input /\ outcome' # "ok" /\ ~RequestAsked
    BY <1>2, <2>1 DEF ParseResponse, Fail, RequestAsked
  <2>4. CASE FieldsAreBad(h) \/ StatusIsBad(h)
    <3>1. outcome' = "parse"
      BY <2>2, <2>4 DEF ParseResponse, Fail
    <3>2. Expected("response", M) = "parse"
      BY <2>2, <2>4, ExpectedResponse DEF StatusIsBad
    <3> QED BY <2>3, <3>1, <3>2, VerdictOf
  <2>5. CASE ~(FieldsAreBad(h) \/ StatusIsBad(h))
    <3>1. M.start = "200" /\ ~IsChunked(h)
          /\ \/ LengthIsBad(h) /\ outcome' = "parse"
             \/ /\ ~LengthIsBad(h) /\ HasLength(h) /\ LengthOf(h) > MaxResponse
                /\ outcome' = "too_large"
      <4>1. M.start # "204" /\ ~IsChunked(h)
        BY <1>2, <2>2, <2>5 DEF ParseResponse, Fail
      <4>2. M.start = "200"
        BY <2>2, <2>5, <4>1 DEF StatusIsBad
      <4>3. \/ LengthIsBad(h) /\ outcome' = "parse"
            \/ /\ ~LengthIsBad(h) /\ HasLength(h) /\ LengthOf(h) > MaxResponse
               /\ outcome' = "too_large"
        BY <1>2, <2>2, <2>5, <4>1 DEF ParseResponse, Fail
      <4> QED BY <4>1, <4>2, <4>3
    <3>2. CASE LengthIsBad(h)
      <4>1. outcome' = "parse" /\ Expected("response", M) = "parse"
        BY <2>5, <3>1, <3>2, ExpectedResponse
      <4> QED BY <2>3, <4>1, VerdictOf
    <3>3. CASE ~LengthIsBad(h)
      <4>1. ASSUME ResponseAsked PROVE Expected("response", M) = "too_large"
        <5>1. Framed("response", M)
          BY <3>1, <3>3, <4>1 DEF ResponseAsked
        <5>2. LengthOf(h) = Len(Payload(M))
          BY <3>1, <3>3, <5>1, MeasuredResponse
        <5> QED BY <2>5, <3>1, <3>3, <5>2, ExpectedResponse
      <4> QED BY <2>3, <3>1, <3>3, <4>1, VerdictOf
    <3> QED BY <3>2, <3>3
  <2> QED BY <2>4, <2>5
<1> QED BY <1>1, <1>2

LEMMA PlainVerdict == ASSUME ReaderInv, ReaderInv', ReadFixed \/ ReadUntilEof PROVE Verdict'
<1> DEFINE h == WrittenHead(M)
           p == Len(Payload(M))
<1>1. CASE pc' # "done"
  <2>1. outcome' = "none"
    BY <1>1 DEF ReaderInv, FramingInv, Types
  <2> QED BY <1>1, <2>1, NotReturned
<1>2. pc \in {"fixed", "eof"} /\ input' = input
  BY DEF ReadFixed, ReadUntilEof
<1>3. input \in Inputs /\ IsMessage(M) /\ input.role = "response" /\ ~RequestAsked
      /\ M.start \in {"200", "204"} /\ head = h /\ ~FieldsAreBad(h) /\ h[1] = M.start
  <2>1. input \in Inputs /\ IsMessage(M) /\ input.role = "response"
        /\ M.start \in {"200", "204"} /\ head = h /\ ~FieldsAreBad(head)
    BY <1>2, Roles DEF ReaderInv, FramingInv, Stage, PlaceInv, Headed, Parsed, ResponseStates, PcStates
  <2> QED BY <2>1, MessageFacts DEF RequestAsked
<1>4. Len(head) \in Nat /\ Len(body) \in Nat /\ pos \in Nat /\ pos <= Len(input.wire)
      /\ Len(prefix) \in Nat /\ Len(head) + Len(body) + Len(prefix) = pos
  BY <1>2, Lengths
<1>5. Len(input.wire) \in Nat /\ MaxResponse \in Nat
  BY <1>3, InputTypes, Limits
<1>6. CASE ReadFixed /\ pc' = "done"
  <2>1. pc = "fixed" /\ need = 0 /\ outcome' = "ok" /\ body' = body
    BY <1>6 DEF ReadFixed, ResponseDone
  <2>2. CASE M.start = "204"
    <3>1. Expected("response", M) = "ok"
      BY <1>3, <2>2, ExpectedResponse
    <3>2. Complete
      <4>1. WrittenBody(M) = <<>>
        BY <2>2 DEF WrittenBody
      <4>2. Len(WrittenBody(M)) = 0
        BY <4>1
      <4>3. Len(Written(M)) = Len(h) + 0 /\ Len(h) \in Nat
        BY <1>3, <4>2, MessageFacts
      <4>4. Len(h) + Len(body) + Len(prefix) = pos
        BY <1>3, <1>4
      <4> HIDE DEF h
      <4>5. Len(input.wire) >= Len(Written(M))
        BY <1>4, <1>5, <4>3, <4>4
      <4> QED BY <4>5 DEF Complete, M
    <3> QED BY <1>2, <1>3, <2>1, <2>2, <3>1, <3>2, VerdictOf
  <2>3. CASE M.start # "204"
    <3>1. M.start = "200" /\ ~LengthIsBad(h)
      BY <1>3, <2>1, <2>3 DEF ReaderInv, PlaceInv, Parsed
    <3>2. ~IsChunked(h) /\ HasLength(h) /\ Len(body) + need = LengthOf(h)
      BY <1>3, <2>1, <2>3 DEF ReaderInv, ExactInv, Due
    <3>3. Len(body) = LengthOf(h) /\ Len(body) <= MaxResponse
      <4>1. Len(body) + need = Len(body)
        BY <1>4, <2>1
      <4>2. Len(body) + need <= MaxResponse
        BY <1>3, <2>1 DEF ReaderInv, FramingInv, BodyBound
      <4> QED BY <3>2, <4>1, <4>2
    <3>4. ASSUME Framed("response", M)
          PROVE  Complete /\ Expected("response", M) = "ok" /\ body = Payload(M)
      <4>1. Len(body) = p /\ p \in Nat
        BY <1>3, <2>3, <3>1, <3>2, <3>3, <3>4, MeasuredResponse, PartsFacts
      <4>2. body = Payload(M)
        BY <1>2, <2>3, <4>1, BodyIsPayload
      <4>3. ~(p > MaxResponse)
        BY <1>5, <3>3, <4>1
      <4>4. Expected("response", M) = "ok"
        BY <1>3, <3>1, <3>2, <4>3, ExpectedResponse
      <4>5. Len(Written(M)) <= Len(h) + p /\ Len(Written(M)) \in Nat /\ Len(h) + Len(body) + Len(prefix) = pos
            /\ Len(h) \in Nat
        BY <1>3, <1>4, <3>2, PlainWritten
      <4>6. Len(input.wire) >= Len(Written(M))
        <5> HIDE DEF h, p
        <5> QED BY <1>4, <1>5, <4>1, <4>5
      <4> QED BY <4>2, <4>4, <4>6 DEF Complete, M
    <3>5. ResponseAsked => Framed("response", M)
      BY <3>2 DEF ResponseAsked
    <3> QED BY <1>2, <1>3, <2>1, <3>4, <3>5, VerdictOf
  <2> QED BY <2>2, <2>3
<1>7. CASE ReadUntilEof /\ pc' = "done"
  <2>1. pc = "eof" /\ outcome' = "too_large" /\ Len(body') > MaxResponse
    BY <1>7 DEF ReadUntilEof
  <2>2. M.start = "200" /\ ~IsChunked(h) /\ ~HasLength(h)
    BY <1>3, <2>1 DEF ReaderInv, ExactInv, Due, PlaceInv, Parsed
  <2>3. ~LengthIsBad(h)
    BY <2>2 DEF LengthIsBad
  <2>4. ASSUME ResponseAsked PROVE Expected("response", M) = "too_large"
    <3>1. input.wire = Written(M)
      BY <2>2, <2>3, <2>4, MeasuredResponse DEF ResponseAsked
    <3>2. Len(input.wire) = Len(h) + p /\ Len(h) \in Nat /\ p \in Nat
      BY <1>3, <2>2, <3>1, PlainWritten
    <3>3. PICK seg \in Segments(ReadSize) : body' = body \o seg /\ Consume(seg)
      BY <1>7 DEF ReadUntilEof
    <3>4. Types /\ Buffered /\ ReadSize \in Nat \ {0} /\ body \in Tokens
      BY Limits DEF ReaderInv, FramingInv, PlaceInv, Types
    <3>5. At' = At + Len(seg) /\ At' <= Len(input.wire) /\ seg \in Tokens /\ Len(seg) \in Nat
      BY <1>2, <3>3, <3>4, ReadAt, ReadFacts, TokensLen
    <3>6. Len(body') = Len(body) + Len(seg)
      BY <3>3, <3>4, <3>5, ConcatFacts
    <3>7. At = Len(h) + Len(body)
      BY <1>3, <1>4 DEF At
    <3>8. p > MaxResponse
      <4> DEFINE r == Len(body')
                 b == Len(body)
                 g == Len(seg)
                 a == Len(h)
      <4>1. /\ r = b + g /\ r > MaxResponse /\ At' = At + g /\ At' <= a + p /\ At = a + b
            /\ b \in Nat /\ g \in Nat /\ a \in Nat /\ p \in Nat /\ MaxResponse \in Nat
        BY <1>4, <1>5, <2>1, <3>2, <3>5, <3>6, <3>7
      <4> HIDE DEF a, p, r, b, g
      <4> QED BY <4>1
    <3> QED BY <1>3, <2>2, <2>3, <3>8, ExpectedResponse
  <2> QED BY <1>2, <1>3, <2>1, <2>4, VerdictOf
<1> QED BY <1>1, <1>6, <1>7

\* The reader of chunks takes no token that is not of the message, and is not
\* at its end while it waits for one.
LEMMA ChunksRemain ==
    ASSUME ReaderInv, ChunkInv, pc \in {"size", "data", "delim", "last"}
    PROVE  At < Len(Written(M))
<1>1. PICK i \in 0 .. Len(M.parts) : InChunks(i)
  BY DEF ChunkInv, ChunkStates
<1> DEFINE s == StartOf(M, i)
           l == LineLen(M, i)
           q == StartOf(M, i + 1)
           a == Before(M, i)
           b == Len(body)
           c == Len(M.parts[i + 1])
           f == Len(Written(M))
           g == Len(line)
<1>2. IsMessage(M) /\ M.start # "204" /\ IsChunked(WrittenHead(M)) /\ input \in Inputs
  BY ChunkedMessage DEF ChunkStates
<1>3. /\ s \in Nat /\ l \in Nat /\ s + l + 1 <= f
      /\ i < Len(M.parts) => q = s + l + 2 + c /\ q \in Nat /\ q + 3 <= f
      /\ i = Len(M.parts) => s + 3 = f
  BY <1>2, ChunkedFacts
<1>4. f \in Nat /\ g \in Nat /\ b \in Nat /\ need \in Nat
  BY <1>2, MessageFacts, LengthTypes DEF ReaderInv, FramingInv, Types
<1>5. CASE pc = "size"
  <2>1. At = s + g /\ g <= l
    BY <1>1, <1>5 DEF InChunks
  <2> HIDE DEF s, l, f, g
  <2> QED BY <1>3, <1>4, <2>1 DEF f
<1>6. CASE pc = "data"
  <2>1. i < Len(M.parts) /\ b >= a /\ b + need = Before(M, i + 1) /\ At = s + l + 1 + (b - a)
    BY <1>1, <1>6 DEF InChunks
  <2>2. a \in Nat /\ Before(M, i + 1) = a + c
    BY <1>2, <2>1, BeforeFacts
  <2>3. c \in Nat
    <3>1. i + 1 \in 1 .. Len(M.parts)
      BY <1>2, <2>1, BeforeFacts
    <3> QED BY <1>2, <3>1, PartsFacts
  <2>4. q = s + l + 2 + c /\ q + 3 <= f /\ b + need = a + c
    BY <1>3, <2>1, <2>2
  <2> HIDE DEF s, l, q, a, b, c, f
  <2>5. At < f
    BY <1>3, <1>4, <2>1, <2>2, <2>3, <2>4
  <2> QED BY <2>5 DEF f
<1>7. CASE pc = "delim"
  <2>1. i < Len(M.parts) /\ At + 1 = q
    BY <1>1, <1>7 DEF InChunks
  <2>2. pos \in Nat /\ Len(prefix) \in Nat
    BY LengthTypes DEF ReaderInv, FramingInv, Types
  <2>3. At \in Int
    BY <2>2 DEF At
  <2>4. q \in Nat /\ q + 3 <= f
    BY <1>3, <2>1
  <2> HIDE DEF q, f
  <2>5. At < f
    BY <1>4, <2>1, <2>3, <2>4
  <2> QED BY <2>5 DEF f
<1>8. CASE pc = "last"
  <2>1. i = Len(M.parts) /\ At = s + 2
    BY <1>1, <1>8 DEF InChunks
  <2>2. s + 3 = f /\ s \in Nat
    BY <1>3, <2>1
  <2> HIDE DEF s, f
  <2>3. At < f
    BY <2>1, <2>2
  <2> QED BY <2>3 DEF f
<1> QED BY <1>5, <1>6, <1>7, <1>8

LEMMA ChunkVerdict ==
    ASSUME ReaderInv, ReaderInv', ChunkInv,
           ReadLineToken \/ SizeLine \/ ReadChunk \/ ReadDelimiter \/ LastLine
    PROVE  Verdict'
<1> DEFINE h == WrittenHead(M)
           p == Len(Payload(M))
           e == Len(M.extension)
<1>1. CASE pc' # "done"
  <2>1. outcome' = "none"
    BY <1>1 DEF ReaderInv, FramingInv, Types
  <2> QED BY <1>1, <2>1, NotReturned
<1>2. pc \in ChunkStates /\ input' = input
  BY DEF ReadLineToken, SizeLine, ReadChunk, ReadDelimiter, LastLine, ChunkStates
<1>3. IsMessage(M) /\ M.start = "200" /\ IsChunked(h) /\ ~FieldsAreBad(h) /\ input \in Inputs
      /\ input.role = "response" /\ ~RequestAsked /\ M.start # "204"
  BY <1>2, ChunkedMessage DEF RequestAsked
<1>4. PICK i \in 0 .. Len(M.parts) : InChunks(i)
  BY <1>2 DEF ChunkInv
<1>5. p \in Nat /\ e \in Nat /\ Len(M.parts) \in Nat /\ Len(line) \in Nat /\ Len(body) \in Nat
      /\ MaxLine \in Nat /\ MaxLine > 1 /\ MaxResponse \in Nat
  BY <1>3, PartsFacts, LengthTypes, LimitAssumption DEF ReaderInv, FramingInv
<1>6. i < Len(M.parts) => M.parts # <<>>
  <2>1. M.parts = <<>> => Len(M.parts) = 0
    OBVIOUS
  <2>2. i < Len(M.parts) => Len(M.parts) # 0
    BY <1>5
  <2> QED BY <2>1, <2>2
<1>7. CASE ReadLineToken /\ pc' = "done"
  <2>1. PICK t \in STRING :
           /\ pc = "size" => (t = Crlf <=> Len(line) = LineLen(M, i))
           /\ pc = "last" => t = Crlf
           /\ LineTooLong(t) => pc' = "done" /\ outcome' = "parse"
           /\ ~LineTooLong(t) /\ t = Crlf => pc' = (IF pc = "size" THEN "size_line" ELSE "last_line")
           /\ ~LineTooLong(t) /\ t # Crlf => pc' = pc
    BY <1>4, <1>7, LineRead
  <2>2. pc \in {"size", "last"}
    BY <1>7 DEF ReadLineToken
  <2>3. LineTooLong(t) /\ outcome' = "parse"
    BY <1>7, <2>1, <2>2
  <2>4. IF t = Crlf THEN Len(line) >= MaxLine ELSE Len(line) + 1 > MaxLine
    BY <2>3 DEF LineTooLong
  <2>5. pc = "size"
    <3>1. ASSUME pc = "last" PROVE FALSE
      <4>1. line = <<>> /\ t = Crlf
        BY <1>4, <2>1, <3>1 DEF InChunks
      <4>2. Len(line) = 0
        BY <4>1
      <4> QED BY <1>5, <2>4, <4>1, <4>2
    <3> QED BY <2>2, <3>1
  <2>6. Len(line) <= LineLen(M, i) /\ (t = Crlf <=> Len(line) = LineLen(M, i)) /\ LineLen(M, i) \in Nat
    BY <1>3, <1>4, <2>1, <2>5, ChunkedFacts DEF InChunks
  <2>7. LineLen(M, i) >= MaxLine
    BY <1>5, <2>4, <2>6
  <2>8. i < Len(M.parts) /\ e + 1 >= MaxLine
    BY <1>5, <2>7 DEF LineLen
  <2>9. Expected("response", M) = "parse"
    BY <1>3, <1>6, <2>8, ExpectedResponse
  <2> QED BY <1>2, <1>3, <2>3, <2>9, VerdictOf
<1>8. CASE SizeLine /\ pc' = "done"
  <2>1. /\ LineLen(M, i) + 1 <= MaxLine
        /\ i = Len(M.parts) => pc' = "last"
        /\ i < Len(M.parts) =>
              IF Len(body) + Len(M.parts[i + 1]) > MaxResponse
              THEN pc' = "done" /\ outcome' = "too_large"
              ELSE pc' = "data" /\ need' = Len(M.parts[i + 1])
    BY <1>4, <1>8, SizeRead
  <2>2. i < Len(M.parts)
    BY <1>5, <1>8, <2>1
  <2>3. Len(body) + Len(M.parts[i + 1]) > MaxResponse /\ outcome' = "too_large"
    BY <1>8, <2>1, <2>2
  <2>4. e + 1 < MaxLine
    <3>1. LineLen(M, i) = 1 + e
      BY <2>2 DEF LineLen
    <3> QED BY <1>5, <2>1, <3>1
  <2>5. Len(body) = Before(M, i)
    BY <1>4, <1>8 DEF InChunks, SizeLine
  <2>6. Before(M, i + 1) = Before(M, i) + Len(M.parts[i + 1]) /\ Before(M, i + 1) <= p
        /\ Before(M, i + 1) \in Nat
    BY <1>3, <2>2, BeforeFacts
  <2>7. p > MaxResponse
    <3> DEFINE z == Before(M, i + 1)
    <3>1. z > MaxResponse /\ z <= p /\ z \in Nat /\ p \in Nat /\ MaxResponse \in Nat
      BY <1>5, <2>3, <2>5, <2>6
    <3> HIDE DEF z, p
    <3> QED BY <3>1
  <2>8. ~(e + 1 >= MaxLine)
    BY <1>5, <2>4
  <2>9. Expected("response", M) = "too_large"
    BY <1>3, <2>7, <2>8, ExpectedResponse
  <2> QED BY <1>2, <1>3, <2>3, <2>9, VerdictOf
<1>9. CASE ReadChunk
  BY <1>1, <1>9 DEF ReadChunk
<1>10. CASE ReadDelimiter
  BY <1>1, <1>10, DelimiterChunks
<1>11. CASE LastLine
  <2>1. pc = "last_line" /\ outcome' = "ok" /\ body' = body
    BY <1>11 DEF LastLine, ResponseDone
  <2>2. /\ i = Len(M.parts) /\ Len(body) = Before(M, i) /\ At = StartOf(M, i) + 3
        /\ (\A j \in 1 .. Len(body) : body[j] = Payload(M)[j])
        /\ (i > 0 => e + 1 < MaxLine)
    BY <1>4, <2>1 DEF InChunks
  <2>3. Len(body) = p
    BY <1>3, <2>2, BeforeFacts
  <2>4. body = Payload(M)
    <3>1. body \in Tokens /\ Payload(M) \in Tokens
      BY <1>3, PartsFacts DEF ReaderInv, FramingInv, Types
    <3> QED BY <2>2, <2>3, <3>1, SeqEqual DEF Tokens
  <2>5. Complete
    <3>1. StartOf(M, i) + 3 = Len(Written(M)) /\ StartOf(M, i) \in Nat
      BY <1>3, <2>2, ChunkedFacts
    <3>2. pos \in Nat /\ Len(prefix) \in Nat /\ pos <= Len(input.wire) /\ Len(input.wire) \in Nat
      BY LengthTypes, InputTypes DEF ReaderInv, FramingInv, Types
    <3>3. At <= pos
      BY <3>2 DEF At
    <3>4. Len(input.wire) >= Len(Written(M))
      BY <2>2, <3>1, <3>2, <3>3
    <3> QED BY <3>4 DEF Complete, M
  <2>6. ~(p > MaxResponse)
    <3>1. Len(body) + need <= MaxResponse /\ need \in Nat
      BY <1>3, <2>1 DEF ReaderInv, FramingInv, BodyBound, Types
    <3> QED BY <1>5, <2>3, <3>1
  <2>7. ~(M.parts # <<>> /\ e + 1 >= MaxLine)
    <3>1. ASSUME M.parts # <<>> PROVE i > 0
      <4>1. M.parts \in Seq(Tokens)
        BY <1>3, PartsFacts
      <4>2. Len(M.parts) # 0
        BY <3>1, <4>1, EmptySeq
      <4> QED BY <1>5, <2>2, <4>2
    <3> QED BY <1>5, <2>2, <3>1
  <2>8. Expected("response", M) = "ok"
    BY <1>3, <2>6, <2>7, ExpectedResponse
  <2> QED BY <1>2, <1>3, <2>1, <2>4, <2>5, <2>8, VerdictOf
<1> QED BY <1>1, <1>7, <1>8, <1>9, <1>10, <1>11

\* A reader that waits at the end of the stream has not been sent its message.
LEMMA NothingMissing ==
    ASSUME ReaderInv, ChunkInv, ReadDue, AtEnd, pc # "eof" PROVE ~ResponseAsked /\ ~RequestAsked
<1> DEFINE h == WrittenHead(M)
           p == Len(Payload(M))
           a == Len(h)
           b == Len(body)
           f == Len(input.wire)
           g == Len(Written(M))
<1>1. input \in Inputs /\ IsMessage(M) /\ ~(input.role = "request" /\ input.role = "response")
  BY Roles
<1>2. a \in Nat /\ g \in Nat /\ g >= a /\ f \in Nat /\ p \in Nat /\ b \in Nat /\ need \in Nat
  BY <1>1, MessageFacts, InputTypes, PartsFacts, LengthTypes DEF ReaderInv, FramingInv, Types
<1>3. prefix = <<>> /\ pos = f
  BY DEF AtEnd
<1>4. Len(prefix) = 0 /\ At = f
  BY <1>2, <1>3 DEF At
<1>5. (ResponseAsked => f >= g /\ input.role = "response")
      /\ (RequestAsked => f >= g /\ f = g /\ input.role = "request")
  <2>1. RequestAsked => f = g /\ input.role = "request"
    BY DEF RequestAsked
  <2>2. ResponseAsked => f >= g /\ input.role = "response"
    BY DEF ResponseAsked, Complete, M
  <2> QED BY <1>2, <2>1, <2>2
<1> HIDE DEF a, b, f, g, p
<1>6. CASE pc = "head"
  <2>1. pos < a
    BY <1>6, HeadSeen DEF ReaderInv, ExactInv, PlaceInv, Headed, a
  <2> QED BY <1>2, <1>3, <1>5, <2>1
<1>7. CASE pc = "rest"
  <2>1. need > 0 /\ input.role = "request"
    BY <1>7 DEF ReadDue, ReaderInv, FramingInv, Stage
  <2>2. head = h /\ ~LengthIsBad(h) /\ b + need = Announced(h) /\ M.start = "get"
    BY <1>7, <2>1 DEF ReaderInv, PlaceInv, Headed, Parsed, b
  <2>3. a + b = pos
    BY <1>7, <2>2, Lengths DEF a, b
  <2>4. ASSUME RequestAsked PROVE FALSE
    <3>1. ~IsChunked(h) /\ Announced(h) = p
      BY <1>1, <2>2, <2>4, MeasuredRequest DEF RequestAsked, p
    <3>2. g = a + p
      BY <1>1, <2>2, <3>1, PlainWritten DEF a, g, p
    <3> HIDE DEF h
    <3> QED BY <1>2, <1>3, <1>5, <2>1, <2>2, <2>3, <2>4, <3>1, <3>2
  <2> QED BY <1>1, <1>5, <2>1, <2>4
<1>8. CASE pc = "fixed"
  <2>1. need > 0 /\ input.role = "response"
    BY <1>8 DEF ReadDue, ReaderInv, FramingInv, Stage, ResponseStates, PcStates
  <2>2. head = h /\ M.start # "204" /\ ~LengthIsBad(h)
    BY <1>2, <1>8, <2>1 DEF ReaderInv, PlaceInv, Headed, Parsed, ResponseStates, PcStates
  <2>3. h[1] = M.start
    BY <1>1, MessageFacts
  <2>4. ~IsChunked(h) /\ HasLength(h) /\ b + need = LengthOf(h)
    BY <1>8, <2>2, <2>3 DEF ReaderInv, ExactInv, Due, b
  <2>5. a + b + Len(prefix) = pos
    BY <1>8, <2>2, Lengths DEF a, b
  <2>6. ASSUME ResponseAsked PROVE FALSE
    <3>1. Framed("response", M)
      BY <2>4, <2>6 DEF ResponseAsked
    <3>2. LengthOf(h) = p
      BY <2>2, <2>4, <3>1, MeasuredResponse DEF p
    <3>3. g = a + p
      BY <1>1, <2>2, <2>4, PlainWritten DEF a, g, p
    <3> HIDE DEF h
    <3>4. b + need = p /\ f >= g /\ a + b + 0 = f
      BY <1>3, <1>4, <1>5, <2>4, <2>5, <2>6, <3>2
    <3> QED BY <1>2, <2>1, <3>3, <3>4
  <2> QED BY <1>1, <1>5, <2>1, <2>6
<1>9. CASE pc \in {"size", "data", "delim", "last"}
  <2>1. At < g /\ input.role = "response"
    BY <1>9, ChunksRemain, ChunkedMessage DEF g, ChunkStates
  <2> QED BY <1>1, <1>2, <1>4, <1>5, <2>1
<1> QED BY <1>6, <1>7, <1>8, <1>9 DEF ReadDue

LEMMA EndVerdict ==
    ASSUME ReaderInv, ReaderInv', ChunkInv, EndOfStream \/ ReadFails PROVE Verdict'
<1>1. ReadDue /\ input' = input /\ pc' = "done"
  BY DEF EndOfStream, ReadFails, Fail, ResponseDone
<1>2. ~disturbed' => AtEnd /\ (pc = "eof" /\ ~input.closes => outcome' = "io")
  BY DEF EndOfStream, ReadFails, AtEnd
<1>3. CASE pc # "eof"
  <2>1. outcome' # "ok"
    BY <1>3 DEF EndOfStream, ReadFails, Fail, EndedByEof
  <2> QED BY <1>1, <1>2, <1>3, <2>1, NothingMissing, VerdictOf
<1>4. CASE pc = "eof"
  <2> DEFINE h == WrittenHead(M)
             p == Len(Payload(M))
             a == Len(h)
             b == Len(body)
  <2>1. input.role = "response" /\ head = h /\ M.start = "200" /\ ~FieldsAreBad(h)
        /\ ~IsChunked(h) /\ ~HasLength(h)
    BY <1>4 DEF ReaderInv, FramingInv, Stage, PlaceInv, Headed, Parsed, ExactInv, Due, ResponseStates, PcStates
  <2>2. ~LengthIsBad(h) /\ ~RequestAsked /\ ~Framed("response", M)
    <3>1. ~LengthIsBad(h)
      BY <2>1 DEF LengthIsBad
    <3>2. M.start # "204"
      BY <2>1
    <3> QED BY <2>1, <3>1, <3>2, MeasuredResponse, Roles DEF RequestAsked
  <2>3. ~Framed(input.role, M)
    BY <2>1, <2>2
  <2>4. ASSUME ResponseAsked, ~disturbed'
        PROVE  outcome' = Expected("response", M) /\ (outcome' = "ok" => body' = Payload(M))
    <3>1. input.closes /\ input.wire = Written(M) /\ AtEnd
      BY <1>2, <2>2, <2>4 DEF ResponseAsked
    <3>2. outcome' = "ok" /\ body' = body
      BY <1>4, <2>4, <3>1 DEF EndOfStream, ReadFails, ResponseDone, EndedByEof
    <3>3. input \in Inputs /\ IsMessage(M)
      BY Roles
    <3>4. Len(input.wire) = a + p /\ p \in Nat /\ a \in Nat
      BY <2>1, <3>1, <3>3, PlainWritten
    <3>5. a + b + Len(prefix) = pos /\ b \in Nat
      BY <1>4, <2>1, Lengths
    <3>6. pos = Len(input.wire) /\ Len(prefix) = 0
      BY <3>1 DEF AtEnd
    <3>7. b = p
      <4> HIDE DEF a, b, p
      <4>1. a + b + 0 = a + p
        BY <3>4, <3>5, <3>6
      <4> QED BY <3>4, <3>5, <4>1
    <3>8. body = Payload(M)
      BY <1>4, <2>1, <3>7, BodyIsPayload
    <3>9. ~(p > MaxResponse)
      <4>1. b + need <= MaxResponse /\ need \in Nat /\ MaxResponse \in Nat
        BY <1>4, <2>1, Limits DEF ReaderInv, FramingInv, BodyBound, Types
      <4> HIDE DEF b, p
      <4> QED BY <3>4, <3>7, <4>1
    <3>10. Expected("response", M) = "ok"
      BY <2>1, <2>2, <3>9, ExpectedResponse
    <3> QED BY <3>2, <3>8, <3>10
  <2> QED BY <1>1, <2>2, <2>3, <2>4, VerdictOf
<1> QED BY <1>3, <1>4

LEMMA VerdictStep ==
    ASSUME ReaderInv, ReaderInv', ChunkInv, Verdict, [Next]_vars PROVE Verdict'
<1>1. CASE UNCHANGED vars
  BY <1>1 DEF vars, Verdict, ResponseIsExpected, RequestIsExpected, TruncationIsDetected, Returns,
              Complete, HeadFits
<1> QED BY <1>1, HeadVerdict, RequestVerdict, ParseVerdict, PlainVerdict, ChunkVerdict, EndVerdict
        DEF Next, Step, Returned

\* Where a reader is in its message, in every state.
LEMMA ReaderInvariant == Spec => [](ReaderInv /\ ChunkInv)
<1>1. Init => PlaceInv /\ ChunkInv
  <2> SUFFICES ASSUME Init PROVE PlaceInv /\ ChunkInv
    OBVIOUS
  <2>1. pos = 0 /\ pc = "head" /\ outcome = "none" /\ Len(prefix) = 0 /\ line = <<>> /\ Len(buf) = 0
    BY DEF Init
  <2>2. Buffered
    <3>1. \A j \in 1 .. Len(prefix) : FALSE
      BY <2>1
    <3> QED BY <2>1, <3>1 DEF Buffered
  <2>3. HeadEnds(buf) = {}
    BY <2>1 DEF HeadEnds
  <2>4. Headed /\ Parsed
    BY <2>1, <2>3 DEF Headed, Parsed, ResponseStates, ChunkStates
  <2> QED BY <2>1, <2>2, <2>4 DEF PlaceInv, ChunkInv, ChunkStates
<1>2. FramingInv /\ ExactInv /\ PlaceInv /\ [Next]_vars => PlaceInv'
  BY PlaceStep DEF ExactInv
<1>3. ReaderInv /\ ReaderInv' /\ ChunkInv /\ [Next]_vars => ChunkInv'
  BY ChunkStep
<1>4. ReaderInv <=> FramingInv /\ ExactInv /\ PlaceInv
  BY DEF ReaderInv
<1>5. Spec => []PlaceInv
  BY <1>1, <1>2, FramingInvariant, ExactInvariant, PTL DEF Spec
<1>6. Spec => []ReaderInv
  BY <1>4, <1>5, FramingInvariant, ExactInvariant, PTL
<1> QED BY <1>1, <1>3, <1>6, PTL DEF Spec

LEMMA Verdicts == Spec => []Verdict
<1>1. Init => Verdict
  BY DEF Init, Verdict, ResponseIsExpected, RequestIsExpected, TruncationIsDetected, Returns
<1>2. ReaderInv /\ ChunkInv /\ ReaderInv' /\ Verdict /\ [Next]_vars => Verdict'
  BY VerdictStep
<1> QED BY <1>1, <1>2, ReaderInvariant, PTL DEF Spec

\* ResponseIsExpected for every instance: read_http_response makes of a response
\* that has its length, is chunked or ends with the stream what a reader that
\* saw it whole would, however TCP cuts it and whatever comes behind it.
THEOREM ResponsesAreRead == Spec => []ResponseIsExpected
<1>1. Verdict => ResponseIsExpected
  BY DEF Verdict
<1> QED BY <1>1, Verdicts, PTL

\* RequestIsExpected for every instance: Request::from_stream and to_bytes send
\* on what the client sent, or refuse it for a reason its head or its length gives.
THEOREM RequestsAreRead == Spec => []RequestIsExpected
<1>1. Verdict => RequestIsExpected
  BY DEF Verdict
<1> QED BY <1>1, Verdicts, PTL

\* TruncationIsDetected for every instance: wherever the stream of a message
\* ends early, its reader does not return Ok.
THEOREM TruncationsAreDetected == Spec => []TruncationIsDetected
<1>1. Verdict => TruncationIsDetected
  BY DEF Verdict
<1> QED BY <1>1, Verdicts, PTL

=============================================================================
