------------------------- MODULE MC_ReasoningReplay -------------------------
(***************************************************************************)
(* Instances of ReasoningReplay for TLC: messages with up to two reasoning *)
(* values in one or two blocks, among text, scratchpad, native reasoning   *)
(* and calls; providers of every contract that keep to their schema, and   *)
(* one that does not.                                                      *)
(***************************************************************************)
EXTENDS ReasoningReplay

Value(type, format, id, index, payload, signature) ==
  [type |-> type, format |-> format, id |-> id, index |-> index,
   payload |-> payload, signature |-> signature]

\* Well formed values of a format.
Proper(format) ==
  {Value("text", format, "i1", 0, "p", Absent), Value("text", format, Absent, 1, "p", "s"),
   Value("summary", format, Absent, Absent, "p", Absent),
   Value("encrypted", format, "i2", 1, "", Absent), Value("encrypted", format, "i1", Absent, "q", Absent)}

\* What a provider nobody knows may send: any member missing, an index too
\* wide, a format or a type to come.
Odd ==
  {Value("text", "future-v2", "null", IndexModulus, Absent, "s"),
   Value("text", Absent, Absent, IndexModulus + 1, "p", Absent),
   Value("summary", "google-gemini-v1", "null", Absent, Absent, Absent),
   Value("encrypted", "future-v2", "i1", 0, "q", Absent),
   Value("encrypted", "google-gemini-v1", Absent, IndexModulus - 1, Absent, Absent),
   Value("reasoning.future", "google-gemini-v1", "i1", 0, "p", Absent),
   Value("none", Absent, Absent, Absent, Absent, Absent)}

Upto2(S) == {<<>>} \cup {<<a>> : a \in S} \cup {<<a, b>> : a \in S, b \in S}

Details(values) == [kind |-> "details", content |-> values]
Block(kind, content) == [kind |-> kind, content |-> content]

\* A turn of one or of two details blocks among the others.
Arranged(values) ==
  {<<Block("reasoning", "r"), Details(values), Block("text", "a"), Block("call", "c")>>}
  \cup (IF Len(values) = 2
        THEN {<<Details(<<values[1]>>), Block("thinking", "t"), Block("text", "a"),
                Details(<<values[2]>>)>>}
        ELSE {<<Block("thinking", "t"), Block("reasoning", "r")>> \o
              (IF values = <<>> THEN <<>> ELSE <<Details(values)>>)})

Formats == {"google-gemini-v1", "azure-openai-responses-v1", "xai-responses-v1"}

mc_Messages ==
  UNION {Arranged(values) : values \in
    Upto2(Odd \cup Proper("google-gemini-v1"))
    \cup UNION {Upto2(Proper(f)) : f \in Formats \cup {"unknown"}}}

mc_Providers ==
  {[format |-> f, contract |-> ReplayContract(f), honest |-> TRUE] : f \in Formats \cup {"unknown"}}
  \cup {[format |-> "google-gemini-v1", contract |-> "always_required", honest |-> TRUE],
        [format |-> "google-gemini-v1", contract |-> "required_with_tools", honest |-> FALSE]}
=============================================================================
