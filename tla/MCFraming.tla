----------------------------- MODULE MCFraming -----------------------------
(* An instance of Framing for TLC. *)
EXTENDS Framing

Lengths == ("length_0" :> 0) @@ ("length_1" :> 1) @@ ("length_2" :> 2) @@ ("length_3" :> 3)
Sizes   == ("0" :> 0) @@ ("1" :> 1) @@ ("2" :> 2) @@ ("3" :> 3)

\* Bodies of up to three tokens, one of which may be a line end.
Bodies == { <<>>, << <<"a">> >>, << <<Crlf>>, <<"a">> >>, << <<"a", "b">> >>,
            << <<Crlf, Crlf>>, <<"b">> >>, << <<"a", Crlf, "1">> >> }

Size(parts) == Len(FlattenSeq(parts))

\* The fields a body of n tokens goes with.
Heads(n) ==
    { <<LengthField(n)>>, <<"host", LengthField(n)>>, <<"host", "host", LengthField(n)>>,
      <<"host", "host", "host", LengthField(n)>>, <<LengthField(n), LengthField(0)>>,
      <<"chunked">>, <<LengthField(1), "chunked">>, <<"other_coding", LengthField(n)>>,
      <<"length_bad">>, <<"no_colon", LengthField(n)>>, <<>> }

Message(start, fields, parts, extension) ==
    [start |-> start, fields |-> fields, parts |-> parts, extension |-> extension]

Messages(starts) ==
    { Message(s, fields, parts, e) :
        <<s, fields, parts, e>> \in
            UNION { starts \X Heads(Size(p)) \X {p} \X {<<>>, <<";">>, <<";", "x">>} : p \in Bodies } }

\* As written, followed by more, or cut short by one or two tokens.
Wires(m) ==
    LET w == Written(m) IN
    {w, w \o <<"b", "b", "b">>, SubSeq(w, 1, Len(w) - 1), SubSeq(w, 1, Len(w) - 2)}

InputsOf(role, starts) ==
    UNION { { [role |-> role, message |-> m, wire |-> w, closes |-> c] :
                w \in Wires(m), c \in BOOLEAN } :
            m \in {x \in Messages(starts) : x.extension = <<>> \/ x.fields = <<"chunked">>} }

AllInputs == InputsOf("request", {"get", "bad"}) \cup InputsOf("response", {"200", "204", "bad"})
=============================================================================
