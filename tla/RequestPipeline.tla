-------------------------- MODULE RequestPipeline --------------------------
(***************************************************************************)
(* What is done to the transcript before a request is sent                 *)
(* (src/run.rs: the loop over context_transform in                         *)
(* stream_assistant_response) by the transforms the crate ships:           *)
(*   "ids"   UniqueToolCallIds (src/history.rs)                            *)
(*   "cap"   ToolResultBudget  (src/tool_result_budget.rs)                 *)
(*   "trim"  TokenBudget       (src/budget.rs)                             *)
(* in whatever order the host registers them.                              *)
(*                                                                         *)
(* A transcript is a sequence of items: an assistant message is one item,  *)
(* followed by one for each of its calls.  An id is a number: a positive n *)
(* is the string "clark_agent_call_<n>", which the transform generates and *)
(* a provider may well have chosen itself; any other number is any other   *)
(* string.                                                                 *)
(***************************************************************************)
EXTENDS Integers, Sequences, FiniteSets, SequencesExt

CONSTANTS
  Transcripts, \* the transcripts a request is made from
  Pipelines,   \* the orders in which transforms are registered
  Uncapped,    \* a tool's usize::MAX
  ClipMarker,  \* size of ToolResultBudget's marker
  ClipFrame,   \* size of the marker with the separators around it
  Trigger,     \* max_tokens * trim_trigger
  MarkerSize,  \* size of TokenBudget's truncation marker
  MaxSuffix    \* bound: suffixes ever tried

Kind == {"user", "assistant", "call", "result"}
Form == {"full", "clipped", "marker"}

\* "cap" is what the registry says of the result's tool; "answers" is the
\* position of the call a result answers, zero for a result without one.
Item == [kind : Kind, id : Int, size : Nat, form : Form, cap : Nat, answers : Nat]

\* The calls that wait for a result when an item is reached: those of the message
\* it follows that no result before it answers.
Open(view, n) ==
  {c \in 1..(n - 1) :
     /\ view[c].kind = "call"
     /\ \A i \in c..(n - 1) : view[i].kind \in {"call", "result"}
     /\ \A q \in 1..(n - 1) : view[q].kind = "result" => view[q].answers # c}

\* Results follow in the order of their calls: each answers the first call of its
\* id that waits, and it answers one if there is any.
Paired(view) ==
  \A r \in DOMAIN view : view[r].kind = "result" =>
    LET fitting == {c \in Open(view, r) : view[c].id = view[r].id}
    IN  IF fitting = {} THEN view[r].answers = 0
        ELSE view[r].answers \in fitting /\ \A c \in fitting : view[r].answers <= c

ASSUME PipelineAssumption ==
  /\ Transcripts \subseteq Seq(Item)
  /\ \A transcript \in Transcripts : Paired(transcript)
  /\ Pipelines \subseteq Seq({"ids", "cap", "trim"})
  /\ {Uncapped, ClipMarker, ClipFrame, Trigger, MarkerSize, MaxSuffix} \subseteq Nat

VARIABLES
  input,    \* the transcript, which is never changed
  pipeline, \* the registered transforms
  items,    \* the provider's view of it
  todo,     \* transforms still to be run
  at,       \* the item a transform is at, zero between transforms
  before,   \* the view the transform was given
  used,     \* ids given out by "ids" so far
  reserved, \* ids it must not generate
  suffix,   \* the next suffix it tries
  waiting   \* for the current message's calls: original and wire id

given == <<input, pipeline>>
renaming == <<used, reserved, suffix, waiting>>
vars == <<given, items, todo, at, before, renaming>>

TypeOK ==
  /\ input \in Seq(Item) /\ pipeline \in Seq({"ids", "cap", "trim"})
  /\ items \in Seq(Item) /\ before \in Seq(Item)
  /\ Len(items) = Len(input)
  /\ todo \in Seq({"ids", "cap", "trim"})
  /\ at \in 0..(Len(items) + 1)
  /\ used \in SUBSET Int /\ reserved \in SUBSET Int
  /\ suffix \in 1..(MaxSuffix + 1)
  /\ waiting \in Seq([original : Int, wire : Int])
-----------------------------------------------------------------------------
(* Helpers. *)

\* The transform is at work on an item of this kind.
At(transform, kind) ==
  /\ todo # <<>> /\ Head(todo) = transform
  /\ at \in DOMAIN items /\ items[at].kind = kind

\* All ids in the transcript, of calls and of results.
Mentioned == {items[i].id : i \in {j \in DOMAIN items : items[j].kind \in {"call", "result"}}}

\* The current message's calls of an id that still wait for a result.
Waiting(id) == {w \in DOMAIN waiting : waiting[w].original = id}

FirstWaiting(id, w) == w \in Waiting(id) /\ \A v \in Waiting(id) : w <= v

\* A result belongs to the newest batch: it follows the last assistant message,
\* and that one has calls.
Fresh(i) ==
  \E a \in 1..(i - 1) :
    /\ items[a].kind = "assistant" /\ items[a + 1].kind = "call"
    /\ \A j \in (a + 1)..Len(items) : items[j].kind # "assistant"

\* The last two messages keep their content.
Spared(i) ==
  Cardinality({j \in (i + 1)..Len(items) : items[j].kind # "call"}) < 2

Total(view) == FoldLeft(LAMBDA sum, item : sum + item.size, 0, view)

\* ToolResultBudget's clip of one result: a head and a tail around the marker, as
\* much as the cap allows, or the marker alone, or the start of it.
Clip(item) ==
  [item EXCEPT !.form = "clipped",
               !.size = IF item.cap > ClipFrame \/ item.cap < ClipMarker
                        THEN item.cap ELSE ClipMarker]

MustClip(i) ==
  /\ items[i].kind = "result" /\ ~Fresh(i)
  /\ items[i].cap # Uncapped /\ items[i].size > items[i].cap
  /\ items[i].form # "clipped"

Mark(item) == [item EXCEPT !.form = "marker", !.size = MarkerSize]

EndTransform == todo' = Tail(todo) /\ at' = 0
-----------------------------------------------------------------------------
Init ==
  /\ input \in Transcripts /\ pipeline \in Pipelines
  /\ items = input /\ todo = pipeline
  /\ at = 0 /\ before = input
  /\ used = {} /\ reserved = {} /\ suffix = 1 /\ waiting = <<>>

\* Every transform is run, and handed what the one before it made.
Begin(transform) ==
  /\ todo # <<>> /\ Head(todo) = transform /\ at = 0
  /\ before' = items

(* "ids" *)

BeginIds ==
  /\ Begin("ids")
  /\ at' = 1
  /\ used' = {} /\ reserved' = Mentioned /\ suffix' = 1 /\ waiting' = <<>>
  /\ UNCHANGED <<given, items, todo>>

\* A message's calls are matched with the results right behind it only.
NextMessage ==
  /\ At("ids", "assistant") \/ At("ids", "user")
  /\ waiting' = <<>>
  /\ at' = at + 1
  /\ UNCHANGED <<given, items, todo, before, used, reserved, suffix>>

KeepCall ==
  /\ At("ids", "call") /\ items[at].id \notin used
  /\ used' = used \cup {items[at].id}
  /\ waiting' = Append(waiting, [original |-> items[at].id, wire |-> items[at].id])
  /\ at' = at + 1
  /\ UNCHANGED <<given, items, todo, before, reserved, suffix>>

\* Mutant: ids the transcript mentions are not reserved.
RenameCallUnreserved ==
  /\ At("ids", "call") /\ items[at].id \in used /\ suffix <= MaxSuffix
  /\ items' = [items EXCEPT ![at].id = suffix]
  /\ used' = used \cup {suffix} /\ reserved' = reserved \cup {suffix}
  /\ suffix' = suffix + 1
  /\ waiting' = Append(waiting, [original |-> items[at].id, wire |-> suffix])
  /\ at' = at + 1
  /\ UNCHANGED <<given, todo, before>>

\* The first suffix, from the next one on, whose id is not reserved.
RenameCall ==
  /\ At("ids", "call") /\ items[at].id \in used
  /\ \E wire \in suffix..MaxSuffix :
       /\ wire \notin reserved /\ \A n \in suffix..(wire - 1) : n \in reserved
       /\ items' = [items EXCEPT ![at].id = wire]
       /\ used' = used \cup {wire} /\ reserved' = reserved \cup {wire}
       /\ suffix' = wire + 1
       /\ waiting' = Append(waiting, [original |-> items[at].id, wire |-> wire])
  /\ at' = at + 1
  /\ UNCHANGED <<given, todo, before>>

\* Mutant: every result goes to the first call of its id.
MatchResultForGood ==
  /\ At("ids", "result")
  /\ \/ /\ Waiting(items[at].id) = {}
        /\ UNCHANGED items
     \/ \E w \in DOMAIN waiting :
          /\ FirstWaiting(items[at].id, w)
          /\ items' = [items EXCEPT ![at].id = waiting[w].wire]
  /\ at' = at + 1
  /\ UNCHANGED <<given, todo, before, renaming>>

\* A result takes the wire id of the first call of its id that still waits.
MatchResult ==
  /\ At("ids", "result")
  /\ \/ /\ Waiting(items[at].id) = {}
        /\ UNCHANGED <<items, waiting>>
     \/ \E w \in DOMAIN waiting :
          /\ FirstWaiting(items[at].id, w)
          /\ items' = [items EXCEPT ![at].id = waiting[w].wire]
          /\ waiting' = RemoveAt(waiting, w)
  /\ at' = at + 1
  /\ UNCHANGED <<given, todo, before, used, reserved, suffix>>

EndIds ==
  /\ todo # <<>> /\ Head(todo) = "ids" /\ at = Len(items) + 1
  /\ EndTransform
  /\ UNCHANGED <<given, items, before, renaming>>

(* "cap" *)

Cap ==
  /\ Begin("cap")
  /\ items' = [i \in DOMAIN items |-> IF MustClip(i) THEN Clip(items[i]) ELSE items[i]]
  /\ EndTransform
  /\ UNCHANGED <<given, renaming>>

(* "trim" *)

\* The view is within the budget.
NothingToTrim ==
  /\ Begin("trim") /\ Total(items) <= Trigger
  /\ EndTransform
  /\ UNCHANGED <<given, items, renaming>>

BeginTrim ==
  /\ Begin("trim") /\ Total(items) > Trigger
  /\ at' = 1
  /\ UNCHANGED <<given, items, todo, renaming>>

\* Mutant: the view is not measured again.
TrimToTheEnd ==
  /\ At("trim", "result") /\ ~Spared(at) /\ items[at].form # "marker"
  /\ items' = [items EXCEPT ![at] = Mark(items[at])]
  /\ at' = at + 1
  /\ UNCHANGED <<given, todo, before, renaming>>

Trim ==
  /\ At("trim", "result") /\ ~Spared(at) /\ items[at].form # "marker"
  /\ items' = [items EXCEPT ![at] = Mark(items[at])]
  /\ IF Total(items') <= Trigger THEN EndTransform ELSE at' = at + 1 /\ UNCHANGED todo
  /\ UNCHANGED <<given, before, renaming>>

TrimNothing ==
  /\ todo # <<>> /\ Head(todo) = "trim" /\ at \in DOMAIN items /\ ~Spared(at)
  /\ items[at].kind # "result" \/ items[at].form = "marker"
  /\ at' = at + 1
  /\ UNCHANGED <<given, items, todo, before, renaming>>

EndTrim ==
  /\ todo # <<>> /\ Head(todo) = "trim" /\ at # 0
  /\ at \in DOMAIN items => Spared(at)
  /\ EndTransform
  /\ UNCHANGED <<given, items, before, renaming>>

\* The request is sent.
Sent == todo = <<>>

Next ==
  \/ BeginIds \/ NextMessage \/ KeepCall \/ RenameCall \/ MatchResult \/ EndIds
  \/ Cap
  \/ NothingToTrim \/ BeginTrim \/ Trim \/ TrimNothing \/ EndTrim
  \/ Sent /\ UNCHANGED vars

Spec == Init /\ [][Next]_vars
-----------------------------------------------------------------------------
(* Safety. *)

Calls == {i \in DOMAIN items : items[i].kind = "call"}
Results == {i \in DOMAIN items : items[i].kind = "result"}

\* What "ids" has made stays so, whatever runs after it.
IdsDone == "ids" \in ToSet(pipeline) /\ "ids" \notin ToSet(todo)

\* No two calls of a request have the same id.
UniqueIds == IdsDone => \A i, j \in Calls : items[i].id = items[j].id => i = j

\* A result has the id of the call it answers, even if the transcript gave many
\* calls one id, and a result without a call is taken for no call's that waits.
ResultsMatch == IdsDone => Paired(items)

\* A result loses its content to the budget only while the view is still too
\* big, oldest first, and never one of the last two messages; and as long as
\* the view is too big, every older one does.
TrimmedAsNeeded ==
  (pipeline # <<>> /\ Last(pipeline) = "trim" /\ Sent) =>
    /\ \A i \in Results :
         items[i] # before[i] =>
           /\ ~Spared(i)
           /\ Total(SubSeq(items, 1, i - 1) \o SubSeq(before, i, Len(before))) > Trigger
    /\ Total(items) > Trigger => \A i \in Results : Spared(i) \/ items[i].form = "marker"
=============================================================================
