# clark-agent in TLA+

`clark-agent` (in `src/`) is the run loop of an LLM agent: it streams an
assistant message from a provider, executes the tool calls the message asks
for, feeds the results back, and repeats until there is nothing left to do.
This directory models that loop, checks the models with TLC and proves their
safety properties with TLAPS.

## The system

Line numbers below are those of `src/src/*.rs`.

| Component | State it keeps | Operations | Talks to |
|---|---|---|---|
| Agent loop (`run.rs` 91-407) | the live transcript, the run's own messages, pending injections, `has_more_tool_calls`, `last_batch_terminated`, the iteration number | `run`, `run_continue`, one turn of `inner_run` | calls streaming and the executor, drains steering and follow-up sources, emits events |
| Streaming and recovery (`run.rs` 489-930, `stream.rs`) | current output cap, reasoning effort, recovery note, the transcript while it is being recovered | send a request, fold its stream, retry, escalate the cap, recover from an overflow | provider (`StreamFn`), overflow hook, clock, events |
| Tool executor (`exec.rs`) | per call: prepared, running, executed, finalized, answered; a token that stops siblings | split by the limit, prepare, execute in parallel or one at a time, finalize, answer, count the vote | tools, before/after hooks, events |
| Tool gates (`run.rs` 746-766, 961-1107, `plugins/opening_gate.rs`) | none; the allowlist is computed anew for every request | poll the gates, drop the suppressed, compose in classes, repair a conflict, enforce on the answer | plugins, provider, executor |
| Partial updates (`exec.rs` 37-64, 969-1015) | per tool: a channel, its drain task, a bounded queue and its dispatcher | send, drain, dispatch, settle with a grace | tools, event sinks |
| Trajectory (`trajectory.rs`) | per recorder: a sequence number and an identity under separate locks | record an event, reset at the start of a run, child recorders | event sinks, concurrent runs |
| Request pipeline (`history.rs`, `tool_result_budget.rs`, `budget.rs`) | none beyond one request | make call ids unique, cap old results, trim to a budget | the loop, before a request |
| Steering (`plugin.rs` 517-600) | an unbounded channel | `steer`, drain | any task of the host |
| Thinking filter (`thinking_filter.rs`) | inside a block or not, a candidate tag, the text of the open block, the last one closed | feed a delta, take a finished thought, flush, reset | streaming |
| Events (`event.rs`, the emits of `run.rs` and `exec.rs`) | none; every emit is awaited | announce runs, turns, messages, tool calls | sinks and observers |
| Configuration and identity (`config.rs`, `types.rs` 424-546, registry of `tool.rs`) | a builder; a run's options, plugins, tools and identity | setters, `plugin`, `build`, `child_builder`, `spawn_child` | hosts and tools that spawn child runs |
| Tool arguments (`tool.rs` 480-1014) | none; the schema is computed anew | flatten a tagged `oneOf`, strip nulls, unquote scalars, parse | provider, executor |
| Reasoning replay (`reasoning.rs`, `types.rs` 165-356) | raw values on the assistant message | lift to typed items, rebuild, audit, write back | providers, builders of requests |
| Protocol policy, error types, message payloads | none that changes | trait defaults, texts, data | everything |

What is hard here:

* **Concurrency inside a batch.** Futures of a parallel batch complete in any
  order; a failed prerequisite cancels a child token; the caller may cancel the
  parent token; a tool that reports "aborted" is classified later, by reading
  both tokens.
* **Cancellation at any await.** Delays, hooks, streams and tools all race the
  caller's token, which is otherwise looked at once per turn.
* **Retries inside retries.** A ladder of attempts (errors, empty responses,
  a doubling output cap) runs inside a loop that rewrites the transcript after
  an overflow and starts the ladder over.
* **Two copies of the transcript.** What the model sees and what the caller gets
  back are updated by separate statements, and the first is rewritten by
  overflow recovery.
* **Tasks nobody waits for.** Partial updates pass two queues and two detached
  tasks; a tool may leave a task of its own behind that goes on sending.
* **Shared recorders.** Number and identity of a record are taken in separate
  steps with awaits between, and a run may be dropped at any of them.
* **Contradicting plugins.** Gates of several classes and priorities, polled
  again for every request of a turn, whose result is enforced much later.
* **Ordering and pairing of what listeners and providers see.** Every call needs
  exactly one result, every start an end, every turn its brackets, through retries,
  truncated messages, refusals and calls beyond the limit.
* **Tags cut anywhere.** A delta may end inside a tag, a refuted candidate may
  contain the beginning of another, a stream may end in either.
* **Inheritance over generations.** What a child gets of its parent is listed field by
  field in one function, and a host may change anything in between.
* **Two views of one value.** Schema and parser of a tool are derived separately; raw
  reasoning and typed items are kept side by side and judged by the second.

The list under `hazards` in `PROJECT.json` gives each at its line, with the
properties that watch it.

## The modules

| Module | Models | Composition |
|---|---|---|
| `BatchContract` | what the executor promises the loop about one batch | abstract specification |
| `ToolBatch` | one call of `execute_tool_batch` | implements `BatchContract` |
| `ToolBatch_proofs` | theorems about `ToolBatch` | extends it |
| `StreamContract` | what streaming promises the loop about one assistant message | abstract specification |
| `StreamRecovery` | one call of `stream_with_overflow_recovery` and all below it | implements `StreamContract` |
| `StreamRecovery_proofs` | theorems about `StreamRecovery` | extends it |
| `AgentLoop` | a run, with the message and the batch as atomic steps that give back what the two contracts allow | rests on the contracts |
| `EventContract` | the grammar of the events a listener of one run hears | abstract specification |
| `RunEvents` | a run with the attempts of its messages and the calls of its batches unfolded into events, and a listener | extends `AgentLoop`; implements it and `EventContract` |
| `AgentLoop_proofs` | theorems about `AgentLoop` and `RunEvents` | extends `RunEvents` |
| `ToolGates` | the gates of a run, from poll to the judgement of a call | gives `ToolBatch` its `allow` |
| `ToolGates_proofs` | theorems about `ToolGates` | extends it |
| `ToolUpdates` | the partial updates of one call, between `Invoke` and `EmitEnd` of `ToolBatch` | refines what `Settle` leaves out |
| `ToolUpdates_proofs` | theorems about `ToolUpdates` and `ToolArguments` | extends them |
| `Trajectory` | the recorders of a tree of runs | listens to the events of `AgentLoop` |
| `Trajectory_proofs` | theorems about `Trajectory` | extends it |
| `RequestPipeline` | the transforms one request's transcript goes through | stands before `Begin` of `StreamRecovery` |
| `RequestPipeline_proofs` | theorems about `RequestPipeline` | extends it |
| `ThinkingFilter` | the filter, character by character | stands in a listener of the stream |
| `ThinkingFilter_proofs` | theorems about `ThinkingFilter`, `ReasoningReplay` and `ChildRuns` | extends them |
| `Subsequences` | what a filter leaves of a sequence | used by the three |
| `ToolArguments` | the typed boundary of a tool | stands before a tool's `Invoke` in `ToolBatch` |
| `ReasoningReplay` | reasoning from one answer to the next request | between two requests of `AgentLoop` |
| `ChildRuns` | how runs are configured and spawn children | gives `AgentLoop` its `setup`, `Trajectory` its tree |
| `MC_*` | the instances TLC checks | extend the modules |

`ToolArguments`, `ReasoningReplay`, `ChildRuns` and `RunEvents` give their initial states,
next-state relation and specification a prefix (`ArgSpec`, `ReplaySpec`, `ChildSpec`,
`EvSpec`): each shares a module of proofs, and what it is proved with, with another
component.

In a module, the operators called "Mutant" are plausible slips in the code they
stand before (a dropped guard, a swapped order). They take part in no
specification. Each property of a passing run names one that breaks it, in
`PROJECT.json`, which shows that the property would notice.

### ToolBatch

The calls of a message are the positions `1..N`. `job` is the input: the calls
by name, the turn's allowlist, `max_tool_calls_per_turn` and the default mode.
The tool flags (`counts_toward_tool_call_limit` and so on) are sets of names.
A call goes through `status` "todo", "ready", "running", "returned", "executed",
"done", and is answered when it is in `results`; `origin` says where its result
comes from. The lists of the code are sets of positions: `remaining` to be taken by
the loop at hand, the `futures` of prepared calls, the `immediate` results of refused
ones, and what is `completed` and still to be announced. `pc` is the loop the
executor is in: "prepare", "drain", "emit", "skip" (behind a failed prerequisite)
or "excess" (beyond the limit). No step looks whether every call is answered; like
the code, each loop ends when its own list is empty.

| Code | Actions |
|---|---|
| `split_tool_calls_for_execution` | `Executable`, `OverLimit` (computed from `job`) |
| the loops over the calls to execute | `TakeNext`, `StartDrain` when a parallel batch has prepared them all |
| `prepare_call`, `run_one` | `Prepare` (announces the start), `Refuse` |
| first poll of the tool's future | `Invoke` |
| `tool.execute` comes back | `ToolReturns` |
| the drain of partial updates ends, the return value is classified | `Settle` |
| `finalize` and the drain loop of `execute_parallel` | `Finalize` |
| the merge of refused and executed calls, sorted | `Collect` |
| the sequential boundary | `Skip` |
| from the executable calls to those beyond the limit, and back to the loop | `TurnToExcess`, `Return` |
| `synthesize_unexecuted_tool_results` | `AnswerOverLimit` |
| `ToolExecutionEnd` and the result message | `EmitEnd` |
| `compute_batch_terminate` | `Voters`, `Terminate` |

All futures of a parallel batch are polled by one task, so a step runs from one
await to the next. In particular the drain loop cancels the batch in the very
poll in which the failing future completes: `Finalize` is one step.

Assumed of the environment: a tool reports an abort only after its own token is
set (what `Tool::execute` asks of implementations). Left out: the contents of
results, the texts of synthesized results, partial updates, and the case of an
empty batch, which the loop never sends.

### StreamRecovery

`pc` is where the call is: about to send ("attempt"), reading the stream, with a
truncated message, sleeping, inside the overflow hook, or ended in one of five
ways. `cap`, `effort` and `note` are what the next request carries; `size` and
`before` are estimates of the transcript in place and of the one handed to the
hook; `shown` is the set of assistant messages a listener holds that no event
has taken back; `signalled` says whether the token was already set when the
latest request was sent.

Merged outcomes: `FailTransient` stands for transient errors, rate limits and
messages with stop reason Error (all wait and try again), `FailPermanent` for
permanent errors and inconsistent tool history (both end the call). Retry
counters only choose the delay, which is abstracted to "some time"; no code path
gives up after a number of retries. Delays are never zero, so a `select!` under
a set token takes the token's branch.

Assumed of the environment: what the `StreamFn` contract (`stream.rs` 217-246)
says of cancellation, namely that a provider reports an abort only when
cancelled and that a stream opened under a set token only aborts or is dropped;
and that the overflow hook returns.

### AgentLoop

A transcript is a sequence of message kinds. `current` is `current.messages`,
`produced` is `new_messages`, `setup` is the context and the three plain-text
fallback settings. A turn is `BeginTurn` (injections, `TurnStart`), a `Stream`
step, a `Batch` step if the message has calls, and `EndTurn` (`TurnEnd`, drain of
steering). Overflow recovery inside a stream may replace `current` by anything
`Kept` allows: a tail that does not begin with a result, perhaps with a summary
before it, which is what `plugin.rs` 336-374 asks of the hook. Assumed: the
caller's context is one a provider accepts (`ContextAssumption`).

A run that is aborted or fails returns nothing but the error (`run.rs` 124, 212-214, 253, 345):
the transcript, the tail and what was pending are dropped with it (`Dropped`), steering that
was drained included. `SteeringConserved` claims nothing of it.

The outcome of a batch and of a stream is a free choice among what the contracts
allow; whether this turn's allowlist held terminal tools only is a free choice
too, since gates may be installed or not.

### RunEvents

`AgentLoop` takes a message and a batch in one step each. `RunEvents` keeps its variables
and unfolds the two:

| Code | Actions |
|---|---|
| a request, its stream, a failed attempt, a delay | `Request`, `ProviderSends`, `Retry`, `Wake` |
| a truncated message is given up | `Escalate` |
| the attempt that stands, or ends the run | `EvStreamCalls`, `EvStreamText`, `EvStreamFails` |
| `execute_sequential` | `SequentialPrepare`, `SequentialReturn` |
| `execute_parallel` | `ParallelPrepare`, `ParallelReturn` |
| results of the calls beyond the limit | `AnswerHeld` |
| the batch comes back, or fails | `EvBatchReturns`, `EvBatchFails` |
| the loop's own steps with what they emit | `EvRunPrompt`, `EvRunContinue`, `EvBeginTurn`, `AnnounceTurnEnd`, `EvEndTurn`, `EvEndRun`, `Silent` |
| `emit` is awaited | `Deliver` |

`ask` is where the current attempt is and `late` whether its request was sent under a set
token; `work` is the batch by what is left to do; `outcome` is what `TurnEnd` will carry.
`outbox` holds what was emitted and not heard: the loop takes no step until it is empty, the
caller may. `view` is where a listener stands in the grammar, `told` the messages it has
gathered from the user's side and from `TurnEnd`. `Events` maps `view` to `EventContract`.

A stream may deliver its answer whole, as a lone `Done` (`stream.rs` 217-219): any answer, with
calls or without, kept or truncated, may therefore end without a `MessageStart`, and so may a
failure. `EventContract` admits such an end right behind its request and nowhere else.

One chunk stands for any number of them. `RunIdentified`, `ContextTransformApplied` and
`ToolGateApplied` are left out: they report on what happened, bracket nothing and may come
anywhere before a request. Partial updates travel beside this stream and are `ToolUpdates`'. Which calls are refused or fail, and which attempts do, is a free
choice here; `ToolBatch` and `StreamRecovery` say when they may.

### ThinkingFilter

The variables are the fields of the struct; `delta` is what is left of the delta being
fed. `fed`, `shown` and `taken` are history of the stream. One step consumes one character, by
the four cases of `consume_outside` and `consume_inside`; takes, flushes and resets come between
deltas. `Classify` is the code's three-way verdict over canonical candidates. Letters
stand for both cases, a blank for any white space.

### ToolArguments

An argument type is a list of variants, each a list of properties with its allowed types; a tag is a
property of one value. `ParametersSchema` is `flatten_tagged_oneof_schema` on it: which
properties are merged, which are required, and which kinds the annotation names. A call
goes through `Strip`, `Coerce` and `Parse`, by the schema that was advertised. Values are kept
by what the pipeline tells apart: their JSON type and the scalar a string spells. serde is
modelled by what the derived types accept (`Parses`). `prepare_arguments` is its default, which
changes nothing. `IsToolType` says what an argument type is: its schema is an object, so
properties have different names; a tag is a string; and a property that may be null is not
required, since serde lets an `Option` be left out. A model sends anything; `Admits` is what a provider that enforces the
schema would let it send.

### ReasoningReplay

A raw value is a record of the members the code reads. `emitted` is what the provider sent,
`message` the blocks that keep it, `items` the typed view, `audit` the verdict on it,
`body` what goes back. A message may be rebuilt from its items (`from_items`) and lifted
again. The provider and the caller that assembles the request are external: the
request carries raw values, or what `write_assistant` makes of the items. `Accepts` is what a
provider of each contract wants back. Values of unknown types are dropped by the codec's route
(`reasoning.rs` 353-356); `WellFormedSurvives` speaks of known types only.

### ChildRuns

A host holds one `builder` at a time, begun for a root or by `child_builder` and
`spawn_child` on a built run, calls its methods in any order, and builds it into `runs`.
Options are grouped by what a child gets of them. `own` and `touched` record what the
host did itself, so that the rest can be compared with the parent. Setters of one group differ in
the option only; `Clamp` is the one that changes its value.

A generated id is a number; `minted` counts them. A host may attach an identity to any context
(`WithIdentity`): a new root, one derived from a run's, or a copy. It may put an id of its own or
another run's in its place (`SupplyRunId`, which is `with_run_id`), or name a conversation
(`NameConversation`). `origin` is history: which run an identity was derived from, whether
its id was generated for it, whether its conversation was named. `LineageIsTraceable` says what that leaves
to a reader of the records, who has the ids only: following parent ids (`Found`) meets the
ancestors (`Ancestor`) one after the other, and no other run unless an id on the way was
supplied. Deadlines travel as conversations do and are left out.

`SameShape` compares what a fallback comes to, not its flags: eager flags that are set without a tool
have no effect and are not inherited (`config.rs` 538, 575), so that a child that is given a tool later
starts without them.

### ToolGates

`setup` is the registry and the gates in order of registration, each with its
name, priority, class (`advisory`), whether it owns repairs, and, for the opening
gate, its list. A turn goes "poll", "request", "batch", "judged"; `answers` is what the
gates said, `allow` what came of it, `advertised` what the provider was shown. Any
number of requests may be made in a turn, as retries of `StreamRecovery` do:
each polls the gates again, with the same iteration. A gate other than the opening
gate answers anything. One call stands for a batch, since calls are judged
one by one. `Compose` is the whole of `compose_tool_gate_outcomes`: classes,
suppression, intersection, and the repair of an empty one by its owner.
`denial` is the iteration a gate sees when it is asked why it hid a tool.

### ToolUpdates

One call of a tool stands for all, since they share nothing but the listeners.
`holding` is who still has the sending end: the tool's future or a task it left behind.
An update goes from `channel` through the drain task (`draining`) to `queue`, of
`Capacity` places, and through the detached dispatcher (`showing`) to the
listeners (`shown`). `Settle` is the drain finishing by itself, `GiveUp` the grace
running out and the task being aborted; `End` emits the end of the call without waiting for
the dispatcher. `DropFuture` is a batch that is dropped by a fatal sibling: the
drain task then lives as long as somebody holds the channel. `overflowed` and
`cut` say which updates were lost, and how.

### Trajectory

A run records one event at a time, in steps between which others may come:
reset the number, forget the last identity and learn the new one (at the start of a
run), take a number, look up the identity, store. `seq` and `identity` belong to
the recorder, `draft` is the record being made. Runs form a tree (`Parent`): a child
runs inside a tool call of its parent. A run may be dropped at any await, with
all its descendants, and a recorder used again afterwards. `Sharing` is the set of
runs that start while another one still uses their recorder: empty if every child
gets a recorder of its own.

### RequestPipeline

A transcript is flat: an assistant message is one item, each of its calls another.
Ids are numbers, of which a positive n is the string `clark_agent_call_n` the
transform would generate. A size stands for a content; `form` says whether a content
has been clipped or replaced already. "ids" and "trim" run item by item as their loops
do, "cap" in one step, since no iteration of it reads what another wrote.
`answers` is the call a result answers, which the code does not know: it is there to
say what "the right call" means. `Paired` says of a transcript that each result answers the first
call of its id that waits, of the message it follows: the executor appends results in the order of their
calls (`exec.rs` 173-178), those beyond the limit excepted, see Divergences.

## The runs

| Run | Question | Bounds, and why they are enough |
|---|---|---|
| `tb_batch` | Is a batch correct, in every mode? | Three calls: a failed prerequisite, a sibling it stops and a third that is unaffected. Six kinds of tool, one for each flag; limits 0 (clamped to 1) and 2; a gate that hides ordinary tools; after-hooks that leave, turn around and condemn a result. |
| `al_run` | Is a run correct, whatever arrives when? | Three turns: one that asks for more, one in which steering or a nudge takes effect, one that ends. Two steering messages, so that one drain can take two. One follow-up. |
| `sr_call` | Is a streaming call correct, whatever fails? | Three-bit caps: none, zero, a power of two, one that is not, and the ceiling. Efforts on both sides of the reduced one. Transcript sizes up to three, so recovery can succeed more than once. |
| `tg_gates` | Are the gates composed and enforced as promised? | Two tools and a name the registry does not have; up to three gates, so that an owner, its rival and a bystander meet; two priorities; two turns, so that the opening gate falls silent; any number of requests in a turn. |
| `tu_updates` | Where can an update be lost, doubled or late? | Two places in the queue and five updates: one being shown, two queued, one in the channel and one dropped. |
| `tj_recorder` | Are records numbered, named and ordered? | A run with two concurrent children and a later run that uses the first one's recorder again; two records each, so that a run can be dropped with one stored and one half made. |
| `rp_request` | Does the provider get what the transforms promise? | Two or three batches of up to three calls; ids that clash within a batch, across batches and with generated ones; sizes around caps and budget; orphaned results; three orders of transforms. |
| `ev_run` | Does a listener hear a well-formed run, and all of it? | Two turns, of two calls at most, so that a batch can have one call refused, held back or skipped beside one that runs; answers streamed or delivered whole; one steering message and one follow-up; any number of attempts and recoveries of each message. |
| `tf_filter` | Does the filter hide tags and nothing else, wherever the deltas cut? | Two tags, one the beginning of the other; single characters, whole tags and a piece that closes a block and opens the next; five deltas: an opening tag in two, a thought, a closing tag in two. |
| `ta_arguments` | Do schema, repairs and parser agree? | Structs, enums of two variants that share a property or not, with every combination of five type sets and of requirements, and enums without a common tag; every argument object over three names and the values the pipeline tells apart. |
| `rs_replay` | Does reasoning come back as the provider wants it? | Two values in one or two blocks, well formed or with any member missing; four formats, the three contracts, a provider that does not keep to its schema; two rebuilds; indices of two bits. |
| `cf_child` | Does a child get what it should, and no more? | Three runs, so that there are grandchildren and siblings; four builder calls among a setting of each group, three tools of which two share a name, a plugin that opts in for two capabilities and two others, and the operations on identities; one id of the host's, so that two runs can share it. |

`sr_call`, `al_run` and `tb_batch` check safety, action properties, refinement
(`ImplementsContract`) and liveness on the same instance, `ev_run` likewise with
`FollowsGrammar`. Steps that do nothing
are allowed only after the end (`Ended`), so TLC's deadlock check is a check that
nothing gets stuck. The exception is `cf_child`, where the host is out of builder calls
and runs.

The properties that are proved and that no run lists were checked with TLC on the same
instances before they were proved.

### Fairness

The loop, the executor and the streaming call are straight-line code polled by a
runtime: a step of theirs that stays possible is taken (weak fairness of `Own`,
`Step`, `Return`, `Hook`). Nothing bounds how long a tool or a provider takes;
they are only assumed to finish once their token is set
(`WF(cancelled /\ Respond)`, `WF(Signalled /\ ToolReturns(p))`), which is what
the trait documentation asks. Nothing is assumed of the caller. In `ToolUpdates` the
executor and the drain task are polled and the timer of the grace fires; tools,
the tasks they leave behind and listeners may take for ever. In `RunEvents` the loop's own steps are
taken (`EvOwn`), listeners return (`Deliver`): the loop awaits them without a timeout, so a
run whose sink hangs does hang, and this is what `CancelEndsRun` assumes there;
streams and batches are only assumed to move once the token is set. The other modules
are checked for safety only.

## What is proved

For every value of the constants: any number of calls, any set of tools and
flags, any limit, any width of the cap, any configuration, any transcript.

| Module | Theorems |
|---|---|
| `ToolBatch_proofs` | types; one answer per call; source order; only admitted calls run; starts match ends; a run's abort is the caller's and a sibling's has a cause; exclusive sandbox; skips only behind a failure; unanimous termination; the limit is exact; a batch implements `BatchContract` |
| `StreamRecovery_proofs` | types; at most one request after cancellation; truncation is the last resort; note and effort agree; a call implements `StreamContract` |
| `AgentLoop_proofs` | types; turns are bracketed; a terminator is the last word; every request is well formed; no steering is lost or doubled while a run goes on or when it ends well; `RunEvents` implements `AgentLoop`, so terminators and requests are as they should be there too; its events follow `EventContract`; `AgentEnd` is announced exactly when the run is done, as the last event; what a listener was told by the end of a turn is the transcript |
| `ToolGates_proofs` | types; only advertised tools run; gates yield to priority alone and not silently; gates that name registered tools never empty the catalog; the order of registration does not matter |
| `ToolUpdates_proofs` | types, the queue's bound among them; order; the only two ways to lose an update; what can trail the end of a call. Of `ToolArguments`: the flattened schema admits what a variant accepts; a call runs exactly if it was meant for a variant |
| `Trajectory_proofs` | types; numbering, attribution and order of records, when runs that go at once have recorders of their own |
| `RequestPipeline_proofs` | types, so that no transform adds or removes an item; no two calls of a request have one id; every result keeps its call; the budget takes no more than it must |
| `ThinkingFilter_proofs` | types; a block is open exactly while its text is collected; text without a tag passes unchanged; a tag gets through only where a candidate cut it up; a thought is handed out whole, for any characters, tags and deltas. Of `ReasoningReplay`: the items stay what they were; what is well formed goes back to the letter; the audit foretells the provider. Of `ChildRuns`: a child runs as its parent; what plugins it gets, and that it gets nothing personal; following parent ids meets its ancestors, and no other run but through ids the host supplied |

The argument is the usual one, an inductive invariant per group of properties:

* `LifeInv` (ToolBatch) ties a call's status to its origin. Without it "only
  admitted calls run" is not inductive: nothing else says that a call whose tool
  has returned was once admitted.
* `AbortInv`: a tool's abort implies its token was set, and the sibling token is
  only set behind a *culprit*, a finished call that failed for good. Finished
  calls never change (`FinishedStays`), so the later reading of both tokens cannot
  blame the caller for a sibling or the reverse.
* `PlaceInv`: every call, those beyond the limit from their own loop on, is in exactly one
  of the executor's lists or is answered (`Held`), and what each loop has left behind (`Phase`). No guard says that a batch is
  complete when it returns; this does.
* `AnswerInv`: an executable call is answered only after all earlier ones, for
  different reasons in the two modes; the calls over the limit wait for all.
* `BoundaryInv`: behind a failed prerequisite of a sequential batch every call is
  untouched or skipped. It rests on `Facing`: which loop a sequential batch is in says whether a
  prerequisite has failed.
* The limit is a fact about the job alone, proved with the library's theorems on
  finite sets: the last call that spends a slot bounds how many do, the first
  that is turned away shows all slots are spent.
* `LateInv` and `LadderInv` (StreamRecovery): a request sent under a set token can
  only end the call; the cap is doubled only below the ceiling.
* `TurnsInv`, `TerminatorInv` and `RequestInv` (AgentLoop): what the event counters
  are at each `pc`; a terminator leaves nothing pending; the two copies of the
  transcript are paired up to the batch that is being executed, and what is
  pending is what makes the next request end well.
* `SentInv` (ToolGates): what was advertised is what the list composed for this very
  request admits. That the repair keeps a tool rests on the owner being a minimum of a finite set
  under the tie-breaking order, by well-founded induction.
* `OrderInv` (ToolUpdates): shown, showing, queue and channel, read one after the
  other, are a rising sequence below the next update. `TailInv` ties the position of
  the call's end to how full the queue was when it was emitted.
* `OwnInv` (Trajectory): an active run alone uses its recorder, whose number and
  identity are those of the run from the step that set them; `SeenInv` and `LogInv`
  lift this from the draft to the log.
* `IdsInv` (RequestPipeline): every id in the transcript is reserved before the
  first is given out, so a generated one is neither an earlier call's nor a later
  one's.
* `SteeringInv` (AgentLoop): while a run goes on, what was drained is what is in its tail and what is
  pending, and nothing is pending before the channel is first looked at. One lemma says how many
  steering messages two sequences in a row hold.
* `GrammarInv` (RunEvents): what is in the outbox can be heard one after the other from where the
  listener stands, and leads to where the loop thinks it is (`Matches`: `view` by `pc`, `ask` and
  `work`). The witness is the whole path of the listener (`Follows`), since one step of the loop
  may emit an event for each of any number of calls or messages; `EndsFollow` and
  `AnnouncedFollow` give the path of each such series. That `AgentEnd` is the last event follows.
* `ToldInv` (RunEvents) does the same for what the listener gathers: told and outbox together
  come to the transcript without its nudges, plus what a turn that has not ended will add.
* `OrderIsIrrelevant` (ToolGates) is a fact about `Compose` alone: reordering permutes the
  answers, an intersection does not notice, and the owner of a repair is the only minimum under
  an order that ends with the name.
* `TrimInv` (RequestPipeline): before the position nothing is left to take, behind it nothing
  is touched, and for each result that was emptied the view before it was too big (`Justified`).
  `Total` is a natural number for every view (`TotalIsNat`).
* `MatchInv` (RequestPipeline): while ids are given out, the calls that wait are those `waiting`
  lists, in the order of their positions (`Tracks`), so the first entry of an id is the first call of
  it. It rests on `IdsInv`, without which a new id could be an old one of another call.
* `PlainInv` (ThinkingFilter): until a tag has come by, nothing was hidden and what is waiting
  begins like one, so a candidate that completes is a tag at the end of what was fed, and
  tags that were fed stay (`TagAtEnd`, `TagsStay`). `BufferFollowsInside` is inductive as it stands.
* `CutInv` (ThinkingFilter): every "<" that was passed on is accounted for: it stood inside an
  earlier candidate, or a candidate that began with it was refused before it was a tag
  (`Settled`). A tag that begins at the second kind is impossible (`TagBehindRefusal`), which
  leaves the first. `WholeInv` says where in the stream an open thought stands.
* `SchemaInv` and `ArgsInv` (ToolArguments) say that each stage is made of the one before; the
  properties are then facts about `ParametersSchema`, `StripNulls` and `Coerced`, of which the
  hard one is that whichever variant a property was merged from, the repairs leave a value the
  meant variant reads.
* `ReplayInv` (ReasoningReplay): the message keeps what was emitted, or that as it was written
  once. Lifting is the same for both (`SameItems`), since writing an item back and lifting
  it again changes nothing (`LiftedAgain`); filters and flattening are taken apart block by block.
* `ShapeInv` (ChildRuns): every builder and every run is its parent's part
  and its own, and says so of the run it was spawned from, which comes earlier and never changes.
  `ParentOnlyStays` sums this up over all ancestors: there is a function `PassedDown`, by the least
  run for which there would be none.
* `LineageInv` (ChildRuns): an identity goes on from that of the run it derives from, whoever
  supplied its id, and a generated id is named nowhere before. A run therefore comes later than
  it is deep (`DeepIsLate`), and the walk up by ids and the one by history stay together step by
  step (`TracedOn`, `AllTraced`). That the two walks are functions at all is again shown by
  a least counterexample (`IteratesExist`).
* The refinements map each step to one contract step or a stutter, from the same
  invariants.

Assumptions are the named ASSUMEs of the modules (`BatchAssumption`,
`CapAssumption`, `ConfigAssumption`, `LoopAssumption`, `ContextAssumption`,
`CallsAssumption`, `GateAssumption`, `UpdateAssumption`, `RecorderAssumption`,
`PipelineAssumption`, `FilterAssumption`, `ToolTypeAssumption`, `IndexAssumption`,
`MessagesAssumption`, `HostAssumption`); TLC evaluates them in the runs. `MessagesAssumption` asks
that raw values are records of the six members, with a natural number for an index, as the
code reads one (`as_u64`), and that a missing member is told from a number and from a format's
name; `HostAssumption` that plugins registered one by one are plugins, that a limit of zero is
not "unset", and that no id a host makes up is one that is generated (UUIDs are taken to be unique). The two theorems about `ToolArguments` say what they say of types whose variants
agree on the properties they share (`Agreeing`); what happens to others is `AmbiguousIsUntouched`
below. The theorems of `Trajectory_proofs` also assume `Sharing = {}`; without it they are false (see
`SharedAreDistinguishable` below).

Some theorems state properties that no run lists: the types, `ExecutedInSourceOrder`,
`OnlyAdmittedRuns`, `StartsMatchEnds`, `AbortOnlyByCaller`, `ExclusiveRunsAlone` and
`LimitIsExact` of `ToolBatch`, `NoteAndEffortAgree` of `StreamRecovery`,
`TurnsAreBracketed` of `AgentLoop`, `CatalogIsKept` of `ToolGates`, `LossHasCause` and
`TailIsBounded` of `ToolUpdates`, `Numbered` of `Trajectory`, `BufferFollowsInside` of
`ThinkingFilter`. The proof says more of them than another run would.

The provers cannot instantiate an induction theorem. Where a proof needs one (that a recursive
function exists, that a filter distributes over concatenation), it takes the least number for which
the claim fails (`LeastNumber`, from the well-foundedness of <) and shows that there is none.
For the same reason the modules that are proved about filter with `Kept` of `Subsequences`, a
recursive function, where `SelectSeq` would need its definition inside the library.

Every safety property of a run is proved. Only model-checked: liveness (`CancelEndsBatch`,
`CancelEndsRun`, `CancelEndsCall`, `OnlyRetriesGoOn`, `ReturnsAreSettled`), since the prover has
no ENABLED to reason about fairness with.

## Divergences

Where a comment and the code disagree, the code is the reference. What the comment says is
kept as a definition at the end of the module; TLC refutes it when it is added to the
module's configuration.

| Definition | Module | The repository says | The code |
|---|---|---|---|
| `FailedPrerequisiteStopsSiblings` | `ToolBatch` | a tool's failure stops dependent siblings (`tool.rs` 312-313) | a prerequisite that is refused before it runs does not stop its parallel siblings |
| `SteerRefusedAfterEnd` | `AgentLoop` | `steer` returns `Err` after shutdown (`plugin.rs` 533-534) | steering is accepted after the run has ended |
| `ProjectionMatchesTranscript` | `StreamRecovery` | listeners correlate by `OutputTokensEscalation` (`run.rs` 499-501) | an attempt that failed otherwise leaves a `MessageEnd` no event takes back |
| `OpeningTurnIsNarrowed` | `ToolGates`, with `Setups <- mc_OpeningOnly` | the opening turn advertises its list, as far as it is registered (`opening_gate.rs` 7-9) | a list that holds no registered tool advertises all of them |
| `SharedAreDistinguishable` | `Trajectory`, with `mc_Pair`, `mc_PairParent`, `mc_Inherited`, `mc_Sharing` | records of runs that share a recorder stay distinguishable (`trajectory.rs` 249-251) | the child restarts the parent's numbering and takes over its name |
| `BlocksAreRemoved` | `ThinkingFilter` | thinking blocks are removed (`thinking_filter.rs` 213-215) | a tag whose "<" refutes another candidate is shown |
| `AmbiguousIsUntouched` | `ToolArguments` | ambiguous values keep their form (`tool.rs` 634-636) | the first variant's type decides for all that share the name |
| `FutureSurvives` | `ReasoningReplay` | values of a future format lose nothing (`reasoning.rs` 60-62) | their format becomes "unknown" |
| `SiblingsShareParent` | `ChildRuns` | `parent_run_id` is the spawning run's (`types.rs` 434) | each child of an anonymous run names a parent of its own, minted on the spot |
| `EveryMessageIsAnnounced` | `RunEvents` | every message that joins the transcript has a `MessageStart` (`event.rs` 61-64) | tool results, fallback results and nudges have none |

Others met on the way:

* of order: results beyond the limit come last, though the batch promises source order
  (`exec.rs` 68, 173); after-hooks of a parallel batch run in completion order
  (`exec.rs` 8-9); updates may trail the end of their call, and of the run;
* of pairs: a run that fails inside a turn emits neither `TurnEnd` nor `AgentEnd`
  (`event.rs` 21-22, 44); a stream that is a lone `Done`, or fails or ends before its start, emits
  an end alone (`event.rs` 22-23); starts of a parallel batch are all announced before the first
  tool is invoked, not immediately before each (`event.rs` 75-77); gates, transforms and the request are
  announced for every attempt, not once per turn (`event.rs` 114, 132, 168);
* of numbers: the escalation counter starts over after an overflow recovery of
  the same turn (`event.rs` 105); a gate asked for its reason sees the number of
  assistant messages instead of the iteration (`exec.rs` 818, `plugin.rs` 426-427);
  records the sink rejects leave gaps in the sequence, and no policy escalates
  them;
* of the pipeline: results are matched with calls of one id by position, so that a
  message with one id twice, cut by the limit, could have its results swapped
  (`history.rs` 86, `exec.rs` 173); `TokenBudget` spares the last two messages
  rather than the current turn;
* of errors: a run does go on after an overflow that was recovered from
  (`error.rs` 77-78).

## Not modelled, and the plan

Not modelled:

* the protocol policy (`protocol.rs`): stateless hooks with defaults that do nothing. What an
  implementation decides is an input of `AgentLoop`, `RunEvents` and `ToolBatch`.
* the constants of `tool_identity.rs`, the output of the schema generator for shapes other than
  objects and `oneOf`, error texts, usage figures and message payloads: data no control
  depends on.
* the other plugin traits of `plugin.rs`: they carry no state, and what they decide is an input.

Next, most useful first:

1. Step by step towards liveness: for each fair action, that it stays possible until taken
   and what it achieves, as action properties that can be proved.
2. The lemmas on filters, prefixes and sums in a module of their own, if further components need them.
3. Refinements between components that are only argued above: `ToolUpdates` under `Settle`,
   `ToolGates` under `allow`.
