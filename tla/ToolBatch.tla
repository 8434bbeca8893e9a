------------------------------ MODULE ToolBatch ------------------------------
(***************************************************************************)
(* One call of execute_tool_batch (src/exec.rs): the calls of one          *)
(* assistant message are split by the per-turn limit, prepared, executed   *)
(* concurrently or one at a time, passed through the after-hooks and       *)
(* answered.  Positions 1..N are the calls in the order the model wrote    *)
(* them; the tools, the hooks and the caller that cancels the run are the  *)
(* environment.                                                            *)
(*                                                                         *)
(* The futures of a parallel batch are polled by one task, so a step runs  *)
(* from one await to the next: a future that becomes ready is drained (and *)
(* may cancel the batch) in the very poll that completes it.               *)
(*                                                                         *)
(* The lists of the code are the sets of the calls they hold: each is      *)
(* taken from, or sorted, by the calls' positions.                         *)
(***************************************************************************)
EXTENDS Integers, Sequences, FiniteSets

CONSTANTS
  N,              \* number of calls in the batch
  Names,          \* names a call may carry
  Registered,     \* names the tool registry resolves
  LimitCounted,   \* counts_toward_tool_call_limit() = true
  ParallelSafe,   \* parallel_safe_per_turn() = true
  Voting,         \* counts_toward_termination_vote() = true
  AbortsSiblings, \* aborts_siblings_on_error() = true
  Exclusive,      \* requires_exclusive_sandbox() = true
  Jobs,           \* the batches to consider, with what they run under
  Unlimited,      \* "there is no per-turn limit"
  Unrestricted,   \* "no gate narrowed this turn"
  HookDecisions,  \* what the after-hooks, taken together, may decide
  Keep            \* "this field of the decision is None"

Pos == 1..N

\* A batch as the model wrote it, the turn's allowlist, max_tool_calls_per_turn
\* and default_execution_mode.
Job == [calls : [Pos -> Names],
        allow : (SUBSET Names) \cup {Unrestricted},
        limit : Nat \cup {Unlimited},
        mode  : {"parallel", "sequential"}]

Outcome == [error : BOOLEAN, term : BOOLEAN]

Decision == [result : Outcome \cup {Keep},
             mark   : BOOLEAN \cup {Keep},
             term   : BOOLEAN \cup {Keep}]

ASSUME BatchAssumption ==
  /\ N \in Nat \ {0}
  /\ Jobs \subseteq Job
  /\ HookDecisions \subseteq Decision

VARIABLES
  job,          \* the batch and what it runs under (never changes)
  status,       \* where each call is: see Status
  origin,       \* where its result comes from: see Origin
  out,          \* its result, meaningful from status "executed" on
  started,      \* calls whose ToolExecutionStart has been emitted
  remaining,    \* calls the loop at hand has still to take
  futures,      \* prepared calls: the futures, or the one that run_one executes
  immediate,    \* calls refused before execution, set aside
  completed,    \* finalized calls whose end has still to be announced
  results,      \* calls answered so far, in the order of their ToolExecutionEnd
  siblingAbort, \* batch_token has been cancelled by a failed call
  cancelled,    \* the run-wide signal
  pc            \* the loop the executor is in, then how the batch ended

lists == <<remaining, futures, immediate, completed>>

vars == <<job, status, origin, out, started, lists, results, siblingAbort, cancelled, pc>>

\* "prepare"  taking the next call of those to execute
\* "drain"    running what was prepared
\* "emit"     announcing what is completed
\* "skip"     answering what follows a failed prerequisite
\* "excess"   answering what is beyond the limit
Loops == {"prepare", "drain", "emit", "skip", "excess"}

Open == pc \in Loops

calls == job.calls
allow == job.allow
Limit == job.limit

\* "todo"      not looked at yet
\* "ready"     prepared, its tool not yet invoked
\* "running"   inside tool.execute
\* "returned"  tool.execute is over, its partial updates are being drained
\* "executed"  its outcome is known, the after-hooks have not run
\* "done"      finalized; answered once it is in results
Status == {"todo", "ready", "running", "returned", "executed", "done"}

\* "tool", "aborted", "fatal"  what tool.execute returned
\* "sibling"  an abort turned into a recoverable error result
\* "refused"  never executed: unknown, hidden, malformed or blocked
\* "skipped"  never executed: an earlier sibling failed (sequential)
\* "over"     never executed: beyond the per-turn limit
Origin == {"none", "tool", "aborted", "fatal", "sibling", "refused", "skipped", "over"}

TypeOK ==
  /\ job \in Jobs
  /\ status \in [Pos -> Status]
  /\ origin \in [Pos -> Origin]
  /\ out \in [Pos -> Outcome]
  /\ started \in SUBSET Pos
  /\ remaining \in SUBSET Pos
  /\ futures \in SUBSET Pos
  /\ immediate \in SUBSET Pos
  /\ completed \in SUBSET Pos
  /\ results \in Seq(Pos)
  /\ siblingAbort \in BOOLEAN
  /\ cancelled \in BOOLEAN
  /\ pc \in Loops \cup {"done", "aborted", "fatal"}
-----------------------------------------------------------------------------
(* The per-turn limit and the execution mode. *)

\* A name no tool is registered under never spends a slot.
CountsTowardLimit(name) ==
  name \in (Registered \cap LimitCounted) \ ParallelSafe

\* An unregistered name is counted in the vote: it must not end the run.
CountsTowardVote(name) ==
  name \in Registered => name \in Voting

MaxExecuted == IF Limit > 1 THEN Limit ELSE 1

CountedUpTo(p) == {q \in 1..p : CountsTowardLimit(calls[q])}

\* The calls that are executed; the others are answered without being run.
Executable ==
  {p \in Pos : \/ Limit = Unlimited
               \/ ~CountsTowardLimit(calls[p])
               \/ Cardinality(CountedUpTo(p)) <= MaxExecuted}

OverLimit == Pos \ Executable

AbortsOnError(p) == calls[p] \in Registered \cap AbortsSiblings

Sequential ==
  \/ job.mode = "sequential"
  \/ \E p \in Executable : calls[p] \in Registered \cap Exclusive
-----------------------------------------------------------------------------
(* Reading the state. *)

Answered == {results[i] : i \in DOMAIN results}

\* Refused calls whose after-hooks have not run.  A parallel batch finalizes
\* them all before it polls the first tool.
Refused == {p \in immediate : status[p] = "executed"}

IsFirst(p, S) == p \in S /\ \A q \in S : p <= q

\* batch_token is a child of the run's signal.
BatchCancelled == siblingAbort \/ cancelled

\* Mutant: the run's signal does not reach the tool.
SignalledBySibling == siblingAbort

\* What the tool itself sees: a sequential call is handed the run's signal.
Signalled == IF Sequential THEN cancelled ELSE BatchCancelled

\* A failed call that later siblings depend on.
FailedPrerequisite(p) ==
  status[p] = "done" /\ out[p].error /\ AbortsOnError(p)
-----------------------------------------------------------------------------
(* The after-hooks: the last override stands, then the marks put after it. *)

ApplyHooks(o, d) ==
  LET r == IF d.result = Keep THEN o ELSE d.result
  IN  [error |-> IF d.mark = Keep THEN r.error ELSE d.mark,
       term  |-> IF d.term = Keep THEN r.term ELSE d.term]

\* Every synthesized result is an error that does not vote to terminate.
Failure == [error |-> TRUE, term |-> FALSE]

\* Call p of those that remain is answered without its tool: straight through
\* the after-hooks, and announced before the next one is taken.
Synthesize(p, reason) ==
  /\ completed = {}
  /\ IsFirst(p, remaining)
  /\ remaining' = remaining \ {p}
  /\ completed' = {p}
  /\ status' = [status EXCEPT ![p] = "done"]
  /\ origin' = [origin EXCEPT ![p] = reason]
  /\ \E d \in HookDecisions : out' = [out EXCEPT ![p] = ApplyHooks(Failure, d)]
  /\ UNCHANGED <<job, started, futures, immediate, results, siblingAbort, cancelled, pc>>
-----------------------------------------------------------------------------
Init ==
  /\ job \in Jobs
  /\ status = [p \in Pos |-> "todo"]
  /\ origin = [p \in Pos |-> "none"]
  /\ out = [p \in Pos |-> Failure]
  /\ started = {}
  /\ remaining = Executable
  /\ futures = {}
  /\ immediate = {}
  /\ completed = {}
  /\ results = <<>>
  /\ siblingAbort = FALSE
  /\ cancelled \in BOOLEAN
  /\ pc = "prepare"

\* The caller cancels the run.
Cancel ==
  /\ Open
  /\ ~cancelled
  /\ cancelled' = TRUE
  /\ UNCHANGED <<job, status, origin, out, started, lists, results, siblingAbort, pc>>

\* Registered, and advertised this turn.
MayRun(p) ==
  /\ calls[p] \in Registered
  /\ allow # Unrestricted => calls[p] \in allow

\* Mutant: one dependent is skipped, the loop goes on with the others.
TakeNextPastBoundary(p) ==
  /\ pc \in {"prepare", "skip"}
  /\ completed = {}
  /\ IsFirst(p, remaining)
  /\ remaining' = remaining \ {p}
  /\ pc' = IF Sequential THEN "drain" ELSE pc

\* The next call is taken.  A sequential batch sees it through before it takes
\* another, a parallel one prepares them all first.
TakeNext(p) ==
  /\ pc = "prepare"
  /\ IsFirst(p, remaining)
  /\ remaining' = remaining \ {p}
  /\ pc' = IF Sequential THEN "drain" ELSE pc

\* Mutant: the allowlist narrows what is advertised, not what is run.
PrepareUngated(p) ==
  /\ TakeNext(p)
  /\ calls[p] \in Registered
  /\ status' = [status EXCEPT ![p] = "ready"]
  /\ started' = started \cup {p}
  /\ futures' = futures \cup {p}
  /\ UNCHANGED <<job, origin, out, immediate, completed, results, siblingAbort, cancelled>>

\* All checks pass: the start is announced, the tool runs later.
Prepare(p) ==
  /\ TakeNext(p)
  /\ MayRun(p)
  /\ status' = [status EXCEPT ![p] = "ready"]
  /\ started' = started \cup {p}
  /\ futures' = futures \cup {p}
  /\ UNCHANGED <<job, origin, out, immediate, completed, results, siblingAbort, cancelled>>

\* The registry, the allowlist, the argument parser, the validator or a
\* before-hook refuses the call; the last three may refuse any call.
Refuse(p) ==
  /\ TakeNext(p)
  /\ status' = [status EXCEPT ![p] = "executed"]
  /\ origin' = [origin EXCEPT ![p] = "refused"]
  /\ out' = [out EXCEPT ![p] = Failure]
  /\ immediate' = immediate \cup {p}
  /\ UNCHANGED <<job, started, futures, completed, results, siblingAbort, cancelled>>

\* A parallel batch has prepared its last call.
StartDrain ==
  /\ pc = "prepare"
  /\ ~Sequential
  /\ remaining = {}
  /\ pc' = "drain"
  /\ UNCHANGED <<job, status, origin, out, started, lists, results, siblingAbort, cancelled>>

\* The tool's future is polled for the first time.
Invoke(p) ==
  /\ pc = "drain"
  /\ p \in futures
  /\ status[p] = "ready"
  /\ Refused = {}
  /\ status' = [status EXCEPT ![p] = "running"]
  /\ UNCHANGED <<job, origin, out, started, lists, results, siblingAbort, cancelled, pc>>

\* tool.execute returns.  It reports an abort only when it saw its signal.
ToolReturns(p) ==
  /\ pc = "drain"
  /\ status[p] = "running"
  /\ status' = [status EXCEPT ![p] = "returned"]
  /\ \/ /\ origin' = [origin EXCEPT ![p] = "tool"]
        /\ \E o \in Outcome : out' = [out EXCEPT ![p] = o]
     \/ /\ Signalled
        /\ origin' = [origin EXCEPT ![p] = "aborted"]
        /\ UNCHANGED out
     \/ /\ origin' = [origin EXCEPT ![p] = "fatal"]
        /\ UNCHANGED out
  /\ UNCHANGED <<job, started, lists, results, siblingAbort, cancelled, pc>>

\* The drain of partial updates ends, by itself or by its time limit, and the
\* tool's return value is looked at: only now are the two signals read.
AbortIsRecoverable == ~Sequential /\ BatchCancelled /\ ~cancelled

Settle(p) ==
  /\ pc = "drain"
  /\ status[p] = "returned"
  /\ \/ /\ origin[p] = "tool"
        /\ status' = [status EXCEPT ![p] = "executed"]
        /\ UNCHANGED <<origin, out, pc>>
     \/ /\ origin[p] = "aborted"
        /\ AbortIsRecoverable
        /\ status' = [status EXCEPT ![p] = "executed"]
        /\ origin' = [origin EXCEPT ![p] = "sibling"]
        /\ out' = [out EXCEPT ![p] = Failure]
        /\ UNCHANGED pc
     \/ /\ origin[p] = "aborted"
        /\ ~AbortIsRecoverable
        /\ pc' = "aborted"
        /\ UNCHANGED <<status, origin, out>>
     \/ /\ origin[p] = "fatal"
        /\ pc' = "fatal"
        /\ UNCHANGED <<status, origin, out>>
  /\ UNCHANGED <<job, started, lists, results, siblingAbort, cancelled>>

\* Mutant: any failed call cancels the batch.
StopsSiblingsOnAnyError(p, o) == ~Sequential /\ o.error

\* The drain loop of a parallel batch cancels the batch when a call that was
\* really executed ends in error; a refused call is finalized before that loop
\* and cancels nothing.
StopsSiblings(p, o) ==
  /\ ~Sequential
  /\ p \in futures
  /\ o.error
  /\ AbortsOnError(p)
  /\ ~BatchCancelled

\* The after-hooks run.  A refused call of a parallel batch stays set aside.
Finalize(p) ==
  /\ pc = "drain"
  /\ status[p] = "executed"
  /\ Refused # {} => IsFirst(p, Refused)
  /\ status' = [status EXCEPT ![p] = "done"]
  /\ \E d \in HookDecisions :
       LET o == ApplyHooks(out[p], d)
       IN  /\ out' = [out EXCEPT ![p] = o]
           /\ siblingAbort' = (siblingAbort \/ StopsSiblings(p, o))
  /\ \/ /\ p \in futures \/ Sequential
        /\ futures' = futures \ {p}
        /\ immediate' = immediate \ {p}
        /\ completed' = completed \cup {p}
        /\ pc' = IF Sequential THEN "emit" ELSE pc
     \/ /\ p \in immediate /\ ~Sequential
        /\ UNCHANGED <<futures, immediate, completed, pc>>
  /\ UNCHANGED <<job, origin, started, remaining, results, cancelled>>

\* Mutant: the refused calls are not merged with the completed ones.
CollectWithoutRefused ==
  /\ pc = "drain"
  /\ ~Sequential
  /\ futures = {} /\ Refused = {}
  /\ immediate' = {}
  /\ pc' = "emit"
  /\ UNCHANGED <<job, status, origin, out, started, remaining, futures, completed, results,
                 siblingAbort, cancelled>>

\* The last future of a parallel batch is drained: what was refused joins what
\* was executed, to be announced in position order.
Collect ==
  /\ pc = "drain"
  /\ ~Sequential
  /\ futures = {} /\ Refused = {}
  /\ completed' = completed \cup immediate
  /\ immediate' = {}
  /\ pc' = "emit"
  /\ UNCHANGED <<job, status, origin, out, started, remaining, futures, results,
                 siblingAbort, cancelled>>

\* ToolExecutionEnd is emitted and the result message appended.  A sequential
\* batch then looks whether the rest depended on the call.
EmitEnd(p) ==
  /\ pc \in {"emit", "skip", "excess"}
  /\ IsFirst(p, completed)
  /\ completed' = completed \ {p}
  /\ results' = Append(results, p)
  /\ pc' = IF ~(Sequential /\ pc = "emit") THEN pc
           ELSE IF FailedPrerequisite(p) THEN "skip" ELSE "prepare"
  /\ UNCHANGED <<job, status, origin, out, started, remaining, futures, immediate,
                 siblingAbort, cancelled>>

\* Sequential only: what follows a failed prerequisite never starts.
Skip(p) == pc = "skip" /\ Synthesize(p, "skipped")

\* The calls to execute are dealt with: those beyond the limit come next.
TurnToExcess ==
  /\ pc \in {"emit", "skip"} \/ (pc = "prepare" /\ Sequential)
  /\ remaining = {} /\ completed = {}
  /\ remaining' = OverLimit
  /\ pc' = "excess"
  /\ UNCHANGED <<job, status, origin, out, started, futures, immediate, completed, results,
                 siblingAbort, cancelled>>

AnswerOverLimit(p) == pc = "excess" /\ Synthesize(p, "over")

Return ==
  /\ pc = "excess"
  /\ remaining = {} /\ completed = {}
  /\ pc' = "done"
  /\ UNCHANGED <<job, status, origin, out, started, lists, results, siblingAbort, cancelled>>

Step(p) ==
  \/ Prepare(p) \/ Refuse(p) \/ Invoke(p) \/ Settle(p) \/ Finalize(p)
  \/ Skip(p) \/ AnswerOverLimit(p) \/ EmitEnd(p)

\* From one loop of the executor to the next.
Turn == StartDrain \/ Collect \/ TurnToExcess \/ Return

\* Nothing follows the end of a batch; any other halt is a deadlock.
Ended == ~Open /\ UNCHANGED vars

Next ==
  \/ \E p \in Pos : Step(p) \/ ToolReturns(p)
  \/ Turn
  \/ Cancel
  \/ Ended
-----------------------------------------------------------------------------
(* The verdict handed to the loop. *)

Vote(p) == origin[p] # "skipped" /\ out[p].term

\* Mutant: skipped calls are left out of the tally.
VotersWithoutSkipped ==
  {p \in Executable : CountsTowardVote(calls[p]) /\ origin[p] # "skipped"}

Voters == {p \in Executable : CountsTowardVote(calls[p])}

Terminate ==
  /\ OverLimit = {}
  /\ Voters # {}
  /\ \A p \in Voters : Vote(p)
-----------------------------------------------------------------------------
(* The executor's own steps are taken by the task that polls the batch.     *)
(* Nothing bounds how long a tool runs, so a tool is only assumed to return *)
(* once it is signalled.                                                    *)
Fairness ==
  /\ \A p \in Pos : WF_vars(Step(p))
  /\ \A p \in Pos : WF_vars(Signalled /\ ToolReturns(p))
  /\ WF_vars(Turn)

Spec == Init /\ [][Next]_vars

FairSpec == Spec /\ Fairness
-----------------------------------------------------------------------------
(* Safety. *)

\* A batch that returns hands the loop exactly one result for every call of
\* the assistant message (a missing or doubled result makes the next provider
\* request invalid).  The code never counts: each call must come out of the
\* split by the limit, the refusals set aside, the futures, the merge of the
\* two and the lists behind a failed prerequisite, once and only once.
OneResultPerCall ==
  /\ \A i, j \in DOMAIN results : results[i] = results[j] => i = j
  /\ pc = "done" => Answered = Pos

\* Executed calls are answered in source order whatever order their tools
\* finish in, and the calls beyond the limit come after all of them.
ExecutedInSourceOrder ==
  \A i, j \in DOMAIN results :
    i < j => \/ results[i] < results[j]
             \/ results[i] \in Executable /\ results[j] \in OverLimit

\* A cancelled sibling never ends the run: the batch reports an abort only
\* if the caller cancelled the run.
AbortOnlyByCaller == pc = "aborted" => cancelled

\* "Aborted because a sibling errored" is only said when a call that was
\* executed did end in error, and its tool asks for siblings to be stopped.
SiblingAbortHasCause ==
  \A p \in Pos :
    origin[p] = "sibling" =>
      \E q \in Executable \ {p} :
        FailedPrerequisite(q) /\ origin[q] \in {"tool", "sibling"}

\* Only what the registry, this turn's allowlist and the per-turn limit admit
\* ever reaches tool.execute, and it was announced first.
OnlyAdmittedRuns ==
  \A p \in Pos :
    status[p] \in {"running", "returned"} \/ origin[p] \in {"tool", "sibling"} =>
      p \in started /\ MayRun(p) /\ p \in Executable

\* The answered calls whose start was announced are those that were executed.
StartsMatchEnds ==
  \A p \in Answered : p \in started <=> origin[p] \in {"tool", "sibling"}

\* The limit is spent on real work to the last slot: a call is turned away
\* only when MaxExecuted others that count were let through, and no more are.
LimitIsExact ==
  LET counted == {p \in Pos : CountsTowardLimit(calls[p])}
      admitted == counted \cap Executable
  IN  /\ Limit # Unlimited => Cardinality(admitted) <= MaxExecuted
      /\ OverLimit # {} => Cardinality(admitted) = MaxExecuted
      /\ OverLimit \subseteq counted

\* A batch that needs the exclusive sandbox has one call in progress at a time.
ExclusiveRunsAlone ==
  (\E p \in Executable : calls[p] \in Registered \cap Exclusive) =>
    \A p, q \in Pos :
      (status[p] \notin {"todo", "done"} /\ status[q] \notin {"todo", "done"}) => p = q

\* A call is skipped only behind a failed prerequisite, and then everything
\* after that prerequisite is skipped or still waiting to be.
SkipsFollowFailure ==
  \A p \in Pos :
    origin[p] = "skipped" =>
      \E q \in Executable :
        /\ q < p /\ FailedPrerequisite(q)
        /\ \A r \in Executable : r > q => origin[r] \in {"skipped", "none"}

\* A terminating verdict is unanimous over the calls as the model wrote them:
\* no call was turned away or skipped that would have had a vote.
TerminateIsUnanimous ==
  (pc = "done" /\ Terminate) =>
    /\ \E p \in Pos : CountsTowardVote(calls[p])
    /\ \A p \in Pos :
         CountsTowardVote(calls[p]) =>
           out[p].term /\ origin[p] \in {"tool", "sibling", "refused"}
-----------------------------------------------------------------------------
(* Liveness, under FairSpec. *)

Closed == ~Open

\* Cancelling the run ends the batch.
CancelEndsBatch == cancelled ~> Closed
-----------------------------------------------------------------------------
(* Refinement: what the loop sees of a batch.  A call is running from the    *)
(* poll that invokes its tool until its result is announced.                 *)

LifeOf(p) ==
  IF p \in Answered THEN "answered"
  ELSE IF \/ status[p] \in {"running", "returned"}
          \/ origin[p] \in {"tool", "sibling"}
       THEN "running"
       ELSE "waiting"

Contract == INSTANCE BatchContract WITH
  Calls     <- Pos,
  permitted <- {p \in Executable : MayRun(p)},
  life      <- [p \in Pos |-> LifeOf(p)],
  status    <- IF Open THEN "open" ELSE IF pc = "done" THEN "returned" ELSE pc,
  cancelled <- cancelled

\* Every execution of a batch is one the contract allows: one result per call,
\* tools invoked only when permitted, aborted only by the caller, fatal only
\* by a running tool, and nothing after the end.
ImplementsContract == Contract!Spec
-----------------------------------------------------------------------------
(* What the repository says and the code does not do. *)

\* "Whether a non-fatal failure of this tool in a batch should stop dependent
\* sibling work" (tool.rs:312-313): in a parallel batch too, and whether the
\* tool failed in its implementation or was refused.
FailedPrerequisiteStopsSiblings ==
  pc = "done" =>
    \A p \in Executable : FailedPrerequisite(p) => Sequential \/ BatchCancelled
=============================================================================
