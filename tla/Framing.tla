------------------------------ MODULE Framing ------------------------------
(***************************************************************************)
(* How an HTTP message is read from a TCP stream: Request::from_stream and *)
(* read_header_block (core/request.rs), read_http_response with its three  *)
(* kinds of body (core/response.rs), and what is sent on.                  *)
(*                                                                         *)
(* The peer decides what is on the wire; TCP decides how it is cut into    *)
(* reads.  A wire is a sequence of tokens: a start line, a header field, a *)
(* chunk size, a line end, a byte of data.  Lengths and limits count       *)
(* tokens.  The head ends with two line ends, which may arrive in separate *)
(* reads; data may look like anything, line ends included.                 *)
(***************************************************************************)
EXTENDS Integers, SequencesExt

CONSTANTS
    ReadSize,       \* size of the buffers handed to read, 4096 in the code
    MaxHeader,      \* Limits::max_header_bytes
    MaxBody,        \* Limits::max_body_bytes
    MaxResponse,    \* Limits::max_response_bytes
    MaxLine,        \* longest chunk metadata line, 8 * 1024 in the code
    ContentLength,  \* the value of each well-formed Content-Length field
    SizeOf,         \* the value of each well-formed chunk size
    Inputs          \* what peers send: see Wire, closes, and message below

Crlf == "crlf"
Semicolon == ";"
Text == STRING \ {Crlf}

\* Limits::validate, and that every length up to the limits can be written.
ASSUME LimitAssumption ==
    /\ {ReadSize, MaxHeader, MaxBody, MaxResponse, MaxLine} \subseteq Nat \ {0}
    /\ MaxLine > 1
    /\ DOMAIN ContentLength \subseteq Text /\ DOMAIN SizeOf \subseteq Text
    /\ \A t \in DOMAIN ContentLength : ContentLength[t] \in Nat
    /\ \A n \in 0 .. MaxResponse : \E t \in DOMAIN ContentLength : ContentLength[t] = n
    /\ \A t \in DOMAIN SizeOf : SizeOf[t] \in Nat

\* Tokens are strings, and a reader reads one of the two kinds of message.
ASSUME InputAssumption ==
    /\ Crlf \in STRING
    /\ \A x \in Inputs : x.role \in {"request", "response"} /\ x.wire \in Seq(STRING)

VARIABLES
    input,      \* the role of the reader, the wire and what was meant by it
    pos,        \* tokens of the wire the socket has handed out
    pc,         \* where the reader is
    buf,        \* `buf` of read_header_block
    prefix,     \* what is left of PrefixReader::prefix
    head,       \* raw_head
    body,
    need,       \* what read_exact or read_fixed_body still waits for
    line,       \* the chunk metadata line being read
    outcome,    \* what the reader returned
    forwarded,  \* what is sent on if it returned Ok
    disturbed   \* history: a read failed that would have had an answer

vars == <<input, pos, pc, buf, prefix, head, body, need, line, outcome, forwarded, disturbed>>

Init ==
    /\ input \in Inputs
    /\ pos = 0
    /\ pc = "head"
    /\ buf = <<>> /\ prefix = <<>> /\ head = <<>> /\ body = <<>> /\ line = <<>>
    /\ need = 0
    /\ outcome = "none"
    /\ forwarded = <<>>
    /\ disturbed = FALSE

-----------------------------------------------------------------------------
(* The stream *)

Smaller(m, n) == IF m < n THEN m ELSE n

Drop(s, n) == SubSeq(s, n + 1, Len(s))

\* What a read into a buffer of k tokens may return: all that fits of the
\* prefix, or a piece of the stream.
Segments_bug(k) ==
    {SubSeq(input.wire, pos + 1, pos + n) : n \in 1 .. Smaller(k, Len(input.wire) - pos)}

Segments(k) ==
    IF prefix # <<>>
    THEN {SubSeq(prefix, 1, Smaller(k, Len(prefix)))}
    ELSE {SubSeq(input.wire, pos + 1, pos + n) : n \in 1 .. Smaller(k, Len(input.wire) - pos)}

Consume(seg) ==
    IF prefix # <<>>
    THEN prefix' = Drop(prefix, Len(seg)) /\ UNCHANGED pos
    ELSE pos' = pos + Len(seg) /\ UNCHANGED prefix

AtEnd == prefix = <<>> /\ pos = Len(input.wire)

\* read_header_block: the limit is checked before a read.
HeaderRoom_bug == Len(buf) <= MaxHeader + ReadSize
HeaderRoom == Len(buf) <= MaxHeader

\* The reader waits for the stream.
ReadDue ==
    \/ pc = "head" /\ HeaderRoom
    \/ pc \in {"fixed", "data", "rest"} /\ need > 0
    \/ pc \in {"eof", "size", "last", "delim"}

Fail(e) ==
    /\ pc' = "done"
    /\ outcome' = e
    /\ UNCHANGED <<input, pos, buf, prefix, head, body, need, line, forwarded, disturbed>>

-----------------------------------------------------------------------------
(* The head *)

\* find_subslice: where a header terminator ends.
HeadEnds(s) == {i \in 2 .. Len(s) : s[i - 1] = Crlf /\ s[i] = Crlf}

HeaderTooLong ==
    /\ pc = "head" /\ ~HeaderRoom
    /\ Fail("parse")

ReadHeader ==
    /\ pc = "head" /\ HeaderRoom
    /\ \E seg \in Segments(ReadSize) :
          /\ buf' = buf \o seg
          /\ Consume(seg)
          /\ pc' = IF HeadEnds(buf \o seg) # {} THEN "parse" ELSE "head"
    /\ UNCHANGED <<input, head, body, need, line, outcome, forwarded, disturbed>>

RawHead  == SubSeq(buf, 1, Min(HeadEnds(buf)))
LeftOver == Drop(buf, Min(HeadEnds(buf)))

\* The tokens of s that are not in S.
Without(s, S) == FlattenSeq([i \in DOMAIN s |-> IF s[i] \in S THEN <<>> ELSE <<s[i]>>])

Fields(h) == Without(Tail(h), {Crlf})

\* Where the fields with a name are.
FieldsNamed(h, names) == {i \in 2 .. Len(h) : h[i] \in names}

\* The first field with the name.
header_field(h, names) == h[Min(FieldsNamed(h, names))]

LengthNames == DOMAIN ContentLength \cup {"length_bad"}
CodingNames == {"chunked", "other_coding"}

HasLength(h)   == FieldsNamed(h, LengthNames) # {}
LengthIsBad(h) == HasLength(h) /\ header_field(h, LengthNames) = "length_bad"
IsChunked(h)   == FieldsNamed(h, CodingNames) # {} /\ header_field(h, CodingNames) = "chunked"

\* content_length
LengthOf(h) == ContentLength[header_field(h, LengthNames)]

\* parse_header_fields
FieldsAreBad(h) == FieldsNamed(h, {"no_colon"}) # {}

\* parse_head: method and path; parse_status_code: a number.
RequestLineIsBad(h) == h[1] # "get"
StatusIsBad(h)      == h[1] \notin {"200", "204"}

-----------------------------------------------------------------------------
(* Requests *)

\* The body begins with what came with the head; saturating_sub gives the rest.
FirstPart_bug == <<>>
FirstPart == LeftOver
Remaining_bug(n, k) == n - k
Remaining(n, k) == IF n > k THEN n - k ELSE 0

\* parse_head, content_length and the limits.  What came with the head is the
\* beginning of the body, or all of it, or more than that.
ParseRequest ==
    LET h == RawHead
        n == IF HasLength(h) THEN LengthOf(h) ELSE 0
    IN
    /\ pc = "parse" /\ input.role = "request"
    /\ IF RequestLineIsBad(h) \/ FieldsAreBad(h) \/ LengthIsBad(h) THEN Fail("parse")
       ELSE IF n > MaxBody \/ Len(FirstPart) > MaxBody THEN Fail("too_large")
       ELSE /\ head' = h
            /\ body' = FirstPart
            /\ need' = Remaining(n, Len(FirstPart))
            /\ pc' = "rest"
            /\ UNCHANGED <<input, pos, buf, prefix, line, outcome, forwarded, disturbed>>

\* read_exact of the rest of the body.
ReadRest ==
    /\ pc = "rest" /\ need > 0
    /\ \E seg \in Segments(need) :
          /\ body' = body \o seg
          /\ need' = need - Len(seg)
          /\ Consume(seg)
    /\ UNCHANGED <<input, pc, buf, head, line, outcome, forwarded, disturbed>>

\* Request::to_bytes: the raw head and the body.
RequestDone ==
    /\ pc = "rest" /\ need = 0
    /\ pc' = "done"
    /\ outcome' = "ok"
    /\ forwarded' = head \o body
    /\ UNCHANGED <<input, pos, buf, prefix, head, body, need, line, disturbed>>

-----------------------------------------------------------------------------
(* Responses *)

\* parse_header_fields, parse_status_code and body_mode.
ParseResponse ==
    LET h == RawHead
        Start(where, k) == /\ head' = h
                           /\ prefix' = LeftOver
                           /\ pc' = where
                           /\ need' = k
                           /\ UNCHANGED <<input, pos, buf, body, line, outcome, forwarded,
                                          disturbed>>
    IN
    /\ pc = "parse" /\ input.role = "response"
    /\ IF FieldsAreBad(h) \/ StatusIsBad(h) THEN Fail("parse")
       ELSE IF h[1] = "204" THEN Start("fixed", 0)
       ELSE IF IsChunked(h) THEN Start("size", 0)
       ELSE IF LengthIsBad(h) THEN Fail("parse")
       ELSE IF ~HasLength(h) THEN Start("eof", 0)
       ELSE IF LengthOf(h) > MaxResponse THEN Fail("too_large")
       ELSE Start("fixed", LengthOf(h))

\* encode_forwarded_response: a body gets one Content-Length and no coding.
LengthField(n) == CHOOSE t \in DOMAIN ContentLength : ContentLength[t] = n

FramingNames == LengthNames \cup CodingNames

KeptFields_bug(h) == Fields(h)
KeptFields(h) == Without(Fields(h), FramingNames)

\* Lines, each with its line end.
Ended(lines) ==
    [i \in 1 .. 2 * Len(lines) |-> IF i % 2 = 1 THEN lines[(i + 1) \div 2] ELSE Crlf]

Encode(h, b) ==
    IF h[1] = "204" THEN h
    ELSE Ended(<<h[1]>> \o KeptFields(h) \o <<LengthField(Len(b))>>) \o <<Crlf>> \o b

ResponseDone(b) ==
    /\ pc' = "done"
    /\ outcome' = "ok"
    /\ body' = b
    /\ forwarded' = Encode(head, b)

\* read_fixed_body
ReadFixed ==
    /\ pc = "fixed"
    /\ IF need = 0
       THEN ResponseDone(body) /\ UNCHANGED <<pos, prefix, need>>
       ELSE \E seg \in Segments(Smaller(need, ReadSize)) :
               /\ body' = body \o seg
               /\ need' = need - Len(seg)
               /\ Consume(seg)
               /\ UNCHANGED <<pc, outcome, forwarded>>
    /\ UNCHANGED <<input, buf, head, line, disturbed>>

\* read_until_eof
ReadUntilEof ==
    /\ pc = "eof"
    /\ \E seg \in Segments(ReadSize) :
          /\ body' = body \o seg
          /\ Consume(seg)
          /\ IF Len(body \o seg) > MaxResponse
             THEN pc' = "done" /\ outcome' = "too_large"
             ELSE UNCHANGED <<pc, outcome>>
    /\ UNCHANGED <<input, buf, head, need, line, forwarded, disturbed>>

\* read_chunked_body makes of a size line: the size before an extension.
SizeIsBad(l) == \/ l = <<>>
                \/ l[1] \notin DOMAIN SizeOf
                \/ Len(l) > 1 /\ l[2] # Semicolon

\* read_line: one token.  The check of the length comes before the second half
\* of a line end.
LineTooLong(t) == IF t = Crlf THEN Len(line) >= MaxLine ELSE Len(line) + 1 > MaxLine

ReadLineToken ==
    /\ pc \in {"size", "last"}
    /\ \E seg \in Segments(1) :
          /\ Consume(seg)
          /\ line' = Append(line, seg[1])
          /\ CASE LineTooLong(seg[1]) -> pc' = "done" /\ outcome' = "parse"
               [] seg[1] = Crlf /\ ~LineTooLong(seg[1]) ->
                    pc' = (IF pc = "size" THEN "size_line" ELSE "last_line") /\ UNCHANGED outcome
               [] OTHER -> UNCHANGED <<pc, outcome>>
    /\ UNCHANGED <<input, buf, head, body, need, forwarded, disturbed>>

\* A size line is complete.
SizeLine ==
    LET l == Front(line) IN
    /\ pc = "size_line"
    /\ line' = <<>>
    /\ IF SizeIsBad(l) THEN pc' = "done" /\ outcome' = "parse" /\ UNCHANGED need
       ELSE IF SizeOf[l[1]] = 0 THEN pc' = "last" /\ UNCHANGED <<outcome, need>>
       ELSE IF Len(body) + SizeOf[l[1]] > MaxResponse
       THEN pc' = "done" /\ outcome' = "too_large" /\ UNCHANGED need
       ELSE pc' = "data" /\ need' = SizeOf[l[1]] /\ UNCHANGED outcome
    /\ UNCHANGED <<input, pos, buf, prefix, head, body, forwarded, disturbed>>

\* read_exact of a chunk.
ReadChunk ==
    /\ pc = "data"
    /\ \E seg \in Segments(need) :
          /\ body' = body \o seg
          /\ need' = need - Len(seg)
          /\ Consume(seg)
          /\ pc' = IF need = Len(seg) THEN "delim" ELSE "data"
    /\ UNCHANGED <<input, buf, head, line, outcome, forwarded, disturbed>>

\* read_exact_delimiter
ReadDelimiter ==
    /\ pc = "delim"
    /\ \E seg \in Segments(1) :
          /\ Consume(seg)
          /\ IF seg[1] = Crlf THEN pc' = "size" /\ UNCHANGED outcome
                              ELSE pc' = "done" /\ outcome' = "parse"
    /\ UNCHANGED <<input, buf, head, body, need, line, forwarded, disturbed>>

\* The line after the chunk of size zero; whatever it says, the body is over.
LastLine ==
    /\ pc = "last_line"
    /\ ResponseDone(body)
    /\ UNCHANGED <<input, pos, buf, prefix, head, need, line, disturbed>>

-----------------------------------------------------------------------------
(* The end of the stream, and reads that fail *)

\* read returns 0, which only read_until_eof takes for the end of the body.
EndedByEof_bug == {"eof", "fixed"}
EndedByEof == {"eof"}

EndOfStream ==
    /\ ReadDue /\ AtEnd /\ input.closes
    /\ IF pc \in EndedByEof
       THEN ResponseDone(body) /\ UNCHANGED <<input, pos, buf, prefix, head, need, line, disturbed>>
       ELSE Fail(IF pc = "head" THEN "empty" ELSE IF pc = "fixed" THEN "parse" ELSE "io")

\* read fails, by the read timeout or otherwise.  If the peer has sent all it
\* wants to and keeps the connection open, nothing else can happen.
ReadFails ==
    /\ ReadDue /\ prefix = <<>>
    /\ pc' = "done"
    /\ outcome' = "io"
    /\ disturbed' = (~AtEnd \/ input.closes)
    /\ UNCHANGED <<input, pos, buf, prefix, head, body, need, line, forwarded>>

Step ==
    \/ HeaderTooLong \/ ReadHeader
    \/ ParseRequest \/ ReadRest \/ RequestDone
    \/ ParseResponse \/ ReadFixed \/ ReadUntilEof
    \/ ReadLineToken \/ SizeLine \/ ReadChunk \/ ReadDelimiter \/ LastLine
    \/ EndOfStream \/ ReadFails

\* The worker goes on to the next message (outside this module).
Returned == pc = "done" /\ UNCHANGED vars

Next == Step \/ Returned

Spec == Init /\ [][Next]_vars

-----------------------------------------------------------------------------
(* The reference: what a message is, and what becomes of it                 *)
(*                                                                          *)
(* A message has a start line, fields and a body, given in parts: the       *)
(* chunks if it is chunked.  An input is a message as it is written on the  *)
(* wire, followed by more tokens or cut short, and closed or kept open.     *)

Payload(m) == FlattenSeq(m.parts)

WrittenHead(m) == Ended(<<m.start>> \o m.fields) \o <<Crlf>>

SizeToken(n) == CHOOSE t \in DOMAIN SizeOf : SizeOf[t] = n

Chunk(m, i) ==
    <<SizeToken(Len(m.parts[i]))>> \o m.extension \o <<Crlf>> \o m.parts[i] \o <<Crlf>>

WrittenBody(m) ==
    IF m.start = "204" THEN <<>>
    ELSE IF IsChunked(WrittenHead(m))
    THEN FlattenSeq([i \in DOMAIN m.parts |-> Chunk(m, i)]) \o <<SizeToken(0), Crlf, Crlf>>
    ELSE Payload(m)

Written(m) == WrittenHead(m) \o WrittenBody(m)

\* Only data has line ends, no chunk is empty and every size can be written.
IsMessage(m) ==
    /\ m.start \in Text /\ m.fields \in Seq(Text) /\ m.extension \in Seq(Text)
    /\ m.extension = <<>> \/ m.extension[1] = Semicolon
    /\ m.parts \in Seq(Seq(STRING) \ {<<>>})
    /\ \A n \in {0} \cup {Len(m.parts[i]) : i \in DOMAIN m.parts} :
          \E t \in DOMAIN SizeOf : SizeOf[t] = n

\* The wire and the message as it is written agree as far as both go.
ASSUME MessageAssumption ==
    \A x \in Inputs :
        LET w == Written(x.message) IN
        /\ IsMessage(x.message) /\ x.closes \in BOOLEAN
        /\ \A i \in 1 .. Smaller(Len(x.wire), Len(w)) : x.wire[i] = w[i]

\* Where the message ends can be told from its head, by the means its reader has.
Framed(role, m) ==
    LET h == WrittenHead(m)
        measured == HasLength(h) /\ (LengthIsBad(h) \/ LengthOf(h) = Len(Payload(m)))
    IN  IF role = "response" THEN m.start = "204" \/ IsChunked(h) \/ measured
        ELSE ~IsChunked(h) /\ (measured \/ (~HasLength(h) /\ m.parts = <<>>))

\* The outcome for a message seen as a whole.
Expected(role, m) ==
    LET h == WrittenHead(m)
        bad == IF role = "request" THEN m.start # "get" ELSE m.start \notin {"200", "204"}
        chunked == role = "response" /\ IsChunked(h)
        limit == IF role = "request" THEN MaxBody ELSE MaxResponse
    IN  CASE bad \/ FieldsAreBad(h) -> "parse"
          [] ~bad /\ ~FieldsAreBad(h) /\ m.start = "204" -> "ok"
          [] OTHER ->
               IF (~chunked /\ LengthIsBad(h))
                    \/ (chunked /\ m.parts # <<>> /\ Len(m.extension) + 1 >= MaxLine)
               THEN "parse"
               ELSE IF Len(Payload(m)) > limit THEN "too_large" ELSE "ok"

Complete  == Len(input.wire) >= Len(Written(input.message))
HeadFits  == Len(WrittenHead(input.message)) <= MaxHeader
Returns   == pc = "done" /\ ~disturbed

-----------------------------------------------------------------------------
(* Properties *)

\* The values every variable takes.
TypeOK ==
    /\ pos \in 0 .. Len(input.wire)
    /\ pc \in {"head", "parse", "rest", "fixed", "eof", "size", "size_line", "data", "delim",
               "last", "last_line", "done"}
    /\ need \in Nat
    /\ outcome \in {"none", "ok", "parse", "empty", "io", "too_large"}
    /\ (pc = "done") = (outcome # "none")
    /\ disturbed \in BOOLEAN

\* What becomes of a response does not depend on how TCP cuts it, on what
\* follows it, or on whether the backend then closes the connection: a response
\* that has its length or is chunked is never waited for beyond its end.
ResponseIsExpected ==
    LET m == input.message IN
    Returns /\ input.role = "response" /\ Complete /\ HeadFits
        /\ \/ Framed("response", m)
           \/ ~HasLength(WrittenHead(m)) /\ input.closes /\ input.wire = Written(m)
    => /\ outcome = Expected("response", m)
       /\ outcome = "ok" /\ m.start # "204" => body = Payload(m)

\* A request with nothing behind it is forwarded as it was sent, however it was
\* cut, unless it has to be refused.
RequestIsExpected ==
    LET m == input.message IN
    Returns /\ input.role = "request" /\ Framed("request", m) /\ HeadFits /\ input.wire = Written(m)
    => /\ outcome = Expected("request", m)
       /\ outcome = "ok" => forwarded = input.wire

\* A message that ends early is never taken for a complete one.
TruncationIsDetected ==
    Framed(input.role, input.message) /\ ~Complete => outcome # "ok"

\* Whoever reads the response sent to the client finds the fields of the
\* backend's in their order, and of the framing fields exactly one, which gives
\* the length of the body that follows.
ForwardedIsFramed ==
    outcome = "ok" /\ input.role = "response" /\ head[1] # "204" =>
        LET end == Min(HeadEnds(forwarded))
            h   == SubSeq(forwarded, 1, end)
        IN  /\ Drop(forwarded, end) = body
            /\ h[1] = head[1]
            /\ Fields(h) = Without(Fields(head), FramingNames) \o <<LengthField(Len(body))>>

\* A peer decides how much it sends, not how much is kept: every buffer ends at
\* most one read beyond its limit.  A head may be accepted and forwarded with that
\* excess, since the limit is checked before a read and not after it; an accepted
\* body is within its limit.
BuffersAreBounded ==
    /\ Len(buf) <= MaxHeader + ReadSize
    /\ Len(line) <= MaxLine + 1
    /\ Len(body) + need <= IF input.role = "request" THEN MaxBody ELSE MaxResponse + ReadSize
    /\ outcome = "ok" => /\ Len(head) <= MaxHeader + ReadSize
                         /\ Len(body) <= IF input.role = "request" THEN MaxBody ELSE MaxResponse
=============================================================================
