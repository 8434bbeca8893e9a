--------------------------- MODULE ReasoningReplay ---------------------------
(***************************************************************************)
(* Provider-native reasoning between two requests (src/reasoning.rs and    *)
(* the assistant content of src/types.rs): what a provider emitted is kept *)
(* on the assistant message as raw values, lifted to typed items, audited, *)
(* and sent back with the next request, raw or written by the codec.       *)
(*                                                                         *)
(* A raw value is a record: its type, format, id, index, payload (text,    *)
(* summary or data, by type) and signature, each Absent where the object   *)
(* has no such member. The caller that builds the request is external.     *)
(***************************************************************************)
EXTENDS Naturals, Sequences, SequencesExt, FiniteSets, Subsequences

CONSTANTS
  Absent,         \* a member the object does not have
  Messages,       \* assistant messages, as sequences of blocks
  Providers,      \* [format, contract, honest] of the providers there are
  IndexModulus,   \* indices are kept in this many values (2^32 in the code)
  MaxRebuilds     \* how often a message is rebuilt from its items

ASSUME IndexAssumption == IndexModulus \in Nat \ {0}

Known == {"anthropic-claude-v1", "google-gemini-v1", "openai-responses-v1",
          "azure-openai-responses-v1", "xai-responses-v1"}

\* A raw value of the response, and a message that keeps some: as JSON has them,
\* with the unsigned integers that an index is read from.
IsValue(v) ==
  /\ v = [type |-> v.type, format |-> v.format, id |-> v.id, index |-> v.index,
          payload |-> v.payload, signature |-> v.signature]
  /\ v.index # Absent => v.index \in Nat

IsMessage(m) ==
  /\ m \in Seq(ToSet(m))
  /\ \A b \in ToSet(m) : b.kind = "details" =>
       b.content \in Seq(ToSet(b.content)) /\ \A v \in ToSet(b.content) : IsValue(v)

ASSUME MessagesAssumption == Absent \notin Nat \cup Known /\ \A m \in Messages : IsMessage(m)

VARIABLES
  provider,   \* who answered
  tools,      \* whether the next request carries tool calls or results
  emitted,    \* the reasoning values the provider emitted, in order
  message,    \* the assistant message that keeps them
  items,      \* the typed view
  audit,      \* the verdict of audit_replay on it
  body,       \* reasoning_details of the assistant message of the request
  stage,
  rebuilds

replayVars == <<provider, tools, emitted, message, items, audit, body, stage, rebuilds>>

\* Block: text, thinking, reasoning and call blocks have a content, details
\* blocks a sequence of raw values.
-----------------------------------------------------------------------------
(* AssistantContent: the details of a message, in source order. *)

OfKind(content, kind) == Kept(content, {b \in ToSet(content) : b.kind = kind})

Contents(blocks) == [i \in DOMAIN blocks |-> blocks[i].content]

ReasoningDetailsValues(content) == FlattenSeq(Contents(OfKind(content, "details")))
-----------------------------------------------------------------------------
(* ReasoningFormat. *)

\* Mutant: Azure's responses are taken for OpenAI's on the way out.
AsWireAzureless(format) ==
  IF format = "azure-openai-responses-v1" THEN "openai-responses-v1" ELSE format

AsWire(format) == format

FromWire(s) == IF s \in Known THEN s ELSE "unknown"

ReplayContract(format) ==
  IF format \in Known \ {"xai-responses-v1"} THEN "required_with_tools" ELSE "stateless"
-----------------------------------------------------------------------------
(* ReasoningItem. A typed item has a member for all but id, index and a    *)
(* text's signature.                                                       *)

OrEmpty(s) == IF s = Absent THEN "" ELSE s

Recognized(value) == value.type \in {"text", "summary", "encrypted"}

\* from_openrouter_value: the id null is no id, and the index loses its high bits.
FromValue(value) ==
  [type |-> value.type,
   format |-> IF value.format = Absent THEN "unknown" ELSE FromWire(value.format),
   id |-> IF value.id = "null" THEN Absent ELSE value.id,
   index |-> IF value.index = Absent THEN Absent ELSE value.index % IndexModulus,
   payload |-> OrEmpty(value.payload),
   signature |-> IF value.type = "text" THEN value.signature ELSE Absent]

\* Mutant: a signature is not written back.
ToValueUnsigned(item) == [item EXCEPT !.format = AsWire(item.format), !.signature = Absent]

ToValue(item) == [item EXCEPT !.format = AsWire(item.format)]

\* Mutant: only encrypted items are taken to be signed.
CarriesEncryptedPayload(item) == item.type = "encrypted"

CarriesSignedPayload(item) ==
  \/ item.type = "encrypted"
  \/ item.type = "text" /\ item.signature # Absent

KnownOf(raw) == Kept(raw, {value \in ToSet(raw) : Recognized(value)})

\* parse_response and as_items: unknown types are left out.
ParseResponse(raw) ==
  LET known == KnownOf(raw)
  IN  [i \in DOMAIN known |-> FromValue(known[i])]

FromItems(typed) == [i \in DOMAIN typed |-> ToValue(typed[i])]

\* audit_replay: the number of signed items, and whether there should be one.
AuditReplay(typed, contract, withTools) ==
  LET signed == Cardinality({i \in DOMAIN typed : CarriesSignedPayload(typed[i])})
  IN  [signed |-> signed,
       clean |-> \/ contract = "stateless"
                 \/ contract = "required_with_tools" /\ ~withTools
                 \/ signed > 0]

NotAudited == [signed |-> 0, clean |-> FALSE]
-----------------------------------------------------------------------------
(* External: a provider of the format. *)

\* What a provider sends if it keeps to the schema it is known for.
WellFormed(value) ==
  /\ Recognized(value)
  /\ value.format \in Known \cup {"unknown"}
  /\ value.id # "null"
  /\ value.index # Absent => value.index < IndexModulus
  /\ value.payload # Absent
  /\ value.signature # Absent => value.type = "text"

Signed(value) ==
  /\ value.payload # Absent
  /\ value.type = "encrypted" \/ value.signature # Absent

SignedOf(values) == Kept(values, {value \in ToSet(values) : Signed(value)})

MayEmit(p, values) ==
  p.honest => \A i \in DOMAIN values : WellFormed(values[i]) /\ values[i].format = p.format

\* A strict provider wants what it signed back, all of it and in order.
Accepts(p, withTools, sentBack) ==
  \/ p.contract = "stateless"
  \/ p.contract = "required_with_tools" /\ ~withTools
  \/ /\ SignedOf(sentBack) = SignedOf(emitted)
     /\ SignedOf(sentBack) # <<>>
-----------------------------------------------------------------------------
Answered(p, m) ==
  /\ MayEmit(p, ReasoningDetailsValues(m))
  /\ provider = p
  /\ message = m
  /\ emitted = ReasoningDetailsValues(m)

ReplayInit ==
  /\ \E p \in Providers, m \in Messages : Answered(p, m)
  /\ tools \in BOOLEAN
  /\ items = <<>>
  /\ audit = NotAudited
  /\ body = <<>>
  /\ stage = "answered"
  /\ rebuilds = 0

\* as_items, of everything the message keeps.
Lift ==
  /\ stage = "answered"
  /\ stage' = "lifted"
  /\ items' = ParseResponse(ReasoningDetailsValues(message))
  /\ UNCHANGED <<provider, tools, emitted, message, audit, body, rebuilds>>

\* from_items: the message keeps what the items say from here on.
Rebuild ==
  /\ stage = "lifted"
  /\ rebuilds < MaxRebuilds
  /\ stage' = "answered"
  /\ message' = Kept(message, {b \in ToSet(message) : b.kind # "details"})
                \o <<[kind |-> "details", content |-> FromItems(items)]>>
  /\ rebuilds' = rebuilds + 1
  /\ UNCHANGED <<provider, tools, emitted, items, audit, body>>

Audit ==
  /\ stage = "lifted"
  /\ stage' = "audited"
  /\ audit' = AuditReplay(items, provider.contract, tools)
  /\ UNCHANGED <<provider, tools, emitted, message, items, body, rebuilds>>

\* External: the caller builds the assistant message of the next request, with
\* the raw values or for the codec to write.
Assemble ==
  /\ stage = "audited"
  /\ \/ /\ stage' = "sent"
        /\ body' = ReasoningDetailsValues(message)
     \/ /\ stage' = "assembled"
        /\ body' \in {<<>>, ReasoningDetailsValues(message)}
  /\ UNCHANGED <<provider, tools, emitted, message, items, audit, rebuilds>>

\* write_assistant: without items the body is left as it is.
WriteAssistant ==
  /\ stage = "assembled"
  /\ stage' = "sent"
  /\ body' = IF items = <<>> THEN body ELSE FromItems(items)
  /\ UNCHANGED <<provider, tools, emitted, message, items, audit, rebuilds>>

\* The provider judges the request, and answers anew.
Answer ==
  /\ stage = "sent"
  /\ stage' = "answered"
  /\ \E m \in Messages :
       /\ MayEmit(provider, ReasoningDetailsValues(m))
       /\ message' = m
       /\ emitted' = ReasoningDetailsValues(m)
  /\ tools' \in BOOLEAN
  /\ items' = <<>>
  /\ audit' = NotAudited
  /\ body' = <<>>
  /\ rebuilds' = 0
  /\ UNCHANGED provider

ReplayNext == Lift \/ Rebuild \/ Audit \/ Assemble \/ WriteAssistant \/ Answer

ReplaySpec == ReplayInit /\ [][ReplayNext]_replayVars
-----------------------------------------------------------------------------
(* Safety. *)

\* What is lifted once is lifted again from whatever was made of it: neither
\* rebuilding a message nor writing a request changes what the items say
\* (from_openrouter_value against to_openrouter_value).
TypedRoundTripIsStable ==
  stage \in {"lifted", "audited", "assembled", "sent"} =>
    /\ items = ParseResponse(emitted)
    /\ stage = "sent" => ParseResponse(body) = items

\* Whatever the route and however often the message was rebuilt, the values of
\* known types go back in the order they came, each once, and those that are
\* well formed go back to the letter, index, id and signature included. (Values
\* of unknown types are not spoken of: the typed route drops them,
\* reasoning.rs:353-356.)
WellFormedSurvives ==
  stage = "sent" =>
    LET came == KnownOf(emitted)
        back == KnownOf(body)
    IN  /\ Len(back) = Len(came)
        /\ \A i \in DOMAIN came : WellFormed(came[i]) => back[i] = came[i]

\* The audit, which sees typed items only, foretells what a provider that keeps
\* to its schema says of the request, whichever route it took.
AuditForetells ==
  stage = "sent" /\ provider.honest => (audit.clean <=> Accepts(provider, tools, body))
-----------------------------------------------------------------------------
(* What the repository says and the code does not do. *)

\* "Round-tripped opaquely; the codec preserves the original Value as raw so a
\* future provider never silently loses fidelity" (reasoning.rs:60-62).
FutureSurvives ==
  stage = "sent" => \A i \in DOMAIN emitted :
    Recognized(emitted[i]) /\ emitted[i].format \notin Known \cup {"unknown", Absent} =>
      \E j \in DOMAIN body : body[j].format = emitted[i].format
=============================================================================
