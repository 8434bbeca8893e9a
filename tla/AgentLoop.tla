------------------------------ MODULE AgentLoop ------------------------------
(***************************************************************************)
(* One run of the agent loop (src/run.rs: run, run_continue, inner_run).   *)
(* Turns alternate a streamed assistant message with the batch of tool     *)
(* calls it asks for; steering messages arrive on a channel at any time,   *)
(* follow-up messages are asked for when the run would otherwise stop, and *)
(* the caller may cancel at any time.                                      *)
(*                                                                         *)
(* The two long calls of a turn are atomic here and give back what their   *)
(* contracts say they may: StreamContract for the assistant message,       *)
(* BatchContract for the batch.                                            *)
(***************************************************************************)
EXTENDS Integers, Sequences, SequencesExt

CONSTANTS
  Setups,      \* what a run may start from
  MaxTurns,    \* bound: turns of a run
  MaxSteer,    \* bound: steering messages ever sent
  MaxFollowUp  \* bound: follow-up messages ever queued

\* The messages of a transcript, by what the loop tells apart.
\*   "calls"            an assistant message with tool calls
\*   "text", "silent"   one without, with or without visible text
\*   "results"          the results of one batch
\*   "fallback"         the result made up from an assistant's plain text
\*   "nudge"            the system message that asks for a tool call
\*   "summary"          what an overflow recovery leaves of older messages
Assistant == {"calls", "text", "silent"}
Message == Assistant \cup {"user", "steer", "follow_up", "results", "fallback", "nudge", "summary"}

\* The transcript the caller passes in, and what the configuration says of
\* plain text that ends a turn: plain_text_terminal_fallback_tool is set,
\* _eager, _eager_nudge.
Setup == [context : Seq(Message), tool : BOOLEAN, eager : BOOLEAN, nudge : BOOLEAN]

\* What a provider accepts: every assistant message with calls is followed at
\* once by its results, and no results stand without their calls.
Paired(messages) ==
  \A i \in DOMAIN messages :
    /\ messages[i] = "calls" => i < Len(messages) /\ messages[i + 1] = "results"
    /\ messages[i] = "results" => i > 1 /\ messages[i - 1] = "calls"
    /\ messages[i] # "fallback"

ASSUME LoopAssumption ==
  /\ Setups \subseteq Setup
  /\ {MaxTurns, MaxSteer, MaxFollowUp} \subseteq Nat

ASSUME ContextAssumption == \A s \in Setups : Paired(s.context)

VARIABLES
  pc,             \* what the loop does next
  setup,          \* what the run started from (never changes)
  current,        \* current.messages: what the next request carries
  produced,       \* new_messages: what the caller gets back
  pending,        \* messages to inject before the next request
  hasMore,        \* has_more_tool_calls
  terminated,     \* last_batch_terminated
  iterations,     \* turns begun
  opened, closed, \* TurnStart and TurnEnd events emitted
  sent, drained,  \* steering messages sent, and taken from the channel
  followUps,      \* follow-up messages still queued at their source
  cancelled       \* the run-wide signal

run == <<setup, current, produced, pending, hasMore, terminated, iterations>>
events == <<opened, closed>>
env == <<sent, drained, followUps, cancelled>>
vars == <<pc, run, events, env>>

context == setup.context

Running == {"collect", "loop", "stream", "batch", "turn_end"}
Final == {"done", "rejected", "aborted", "failed"}

TypeOK ==
  /\ pc \in {"idle"} \cup Running \cup Final
  /\ setup \in Setups
  /\ current \in Seq(Message)
  /\ produced \in Seq(Message)
  /\ pending \in Seq({"steer", "follow_up"})
  /\ {hasMore, terminated, cancelled} \subseteq BOOLEAN
  /\ iterations \in 0..MaxTurns
  /\ {opened, closed, drained} \subseteq Nat
  /\ sent \in 0..MaxSteer
  /\ followUps \in 0..MaxFollowUp
-----------------------------------------------------------------------------
Times(n, message) == [i \in 1..n |-> message]

\* Every message enters both lists: the live transcript and the run's tail.
PushBoth(messages) ==
  /\ current' = current \o messages
  /\ produced' = produced \o messages

\* collect_steering empties the channel.
DrainSteering ==
  /\ pending' = Times(sent - drained, "steer")
  /\ drained' = sent

\* An overflow recovery hook rewrites current.messages while the assistant
\* message is streamed: it keeps a tail that does not begin with a result,
\* and may put a summary before it.
Kept(messages) ==
  LET starts == {i \in DOMAIN messages : messages[i] \notin {"results", "fallback", "summary"}}
      tails == {SubSeq(messages, i, Len(messages)) : i \in starts}
  IN  {messages} \cup tails \cup {<<"summary">> \o tail : tail \in tails}
-----------------------------------------------------------------------------
Init ==
  /\ pc = "idle"
  /\ setup \in Setups
  /\ current = context
  /\ produced = <<>>
  /\ pending = <<>>
  /\ hasMore = TRUE
  /\ terminated = FALSE
  /\ iterations = 0
  /\ opened = 0 /\ closed = 0
  /\ sent = 0 /\ drained = 0
  /\ followUps \in 0..MaxFollowUp
  /\ cancelled = FALSE

\* run: the prompt joins the context and is announced inside the first turn.
RunPrompt ==
  /\ pc = "idle"
  /\ pc' = "collect"
  /\ PushBoth(<<"user">>)
  /\ opened' = 1
  /\ UNCHANGED <<setup, pending, hasMore, terminated, iterations, closed, env>>

\* run_continue: the transcript must end with something to respond to.
MayContinue == context # <<>> /\ Last(context) \notin Assistant

RunContinue ==
  /\ pc = "idle"
  /\ MayContinue
  /\ pc' = "collect"
  /\ opened' = 1
  /\ UNCHANGED <<run, closed, env>>

RejectContinue ==
  /\ pc = "idle"
  /\ ~MayContinue
  /\ pc' = "rejected"
  /\ UNCHANGED <<run, events, env>>

\* Steering that was queued before the run began.
CollectInitial ==
  /\ pc = "collect"
  /\ pc' = "loop"
  /\ DrainSteering
  /\ UNCHANGED <<setup, current, produced, hasMore, terminated, iterations,
                 events, sent, followUps, cancelled>>

AnotherTurn == hasMore \/ pending # <<>>

\* Mutant: a cancelled turn is passed over instead of ending the run.
AbortAtTopContinues ==
  /\ pc = "loop"
  /\ AnotherTurn
  /\ cancelled
  /\ UNCHANGED vars

\* A run that ends in an error returns nothing but the error: the transcript,
\* the caller's tail and what was still to be injected are dropped with it.
Dropped == current' = <<>> /\ produced' = <<>> /\ pending' = <<>>

\* The signal is looked at once per turn, before anything else.
AbortAtTop ==
  /\ pc = "loop"
  /\ AnotherTurn
  /\ cancelled
  /\ pc' = "aborted"
  /\ Dropped
  /\ UNCHANGED <<setup, hasMore, terminated, iterations, events, env>>

\* The first turn was opened by run or run_continue.
BeginTurn ==
  /\ pc = "loop"
  /\ AnotherTurn
  /\ ~cancelled
  /\ iterations < MaxTurns
  /\ pc' = "stream"
  /\ iterations' = iterations + 1
  /\ opened' = IF iterations = 0 THEN opened ELSE opened + 1
  /\ PushBoth(pending)
  /\ pending' = <<>>
  /\ UNCHANGED <<setup, hasMore, terminated, closed, env>>

\* The assistant message asks for tools.
StreamCalls ==
  /\ pc = "stream"
  /\ \E kept \in Kept(current) : current' = kept \o <<"calls">>
  /\ produced' = produced \o <<"calls">>
  /\ hasMore' = FALSE
  /\ pc' = "batch"
  /\ UNCHANGED <<setup, pending, terminated, iterations, opened, closed, env>>

\* It does not: depending on the configuration and on whether this turn's
\* allowlist held terminal tools only, the loop asks again, takes the text for
\* the delivery, or lets the turn stand.
NudgeMode(narrowed) == setup.tool /\ setup.nudge /\ setup.eager /\ ~narrowed

TakesText(message, narrowed) ==
  /\ setup.tool
  /\ ~NudgeMode(narrowed)
  /\ setup.eager \/ narrowed
  /\ message = "text"

\* Mutant: the loop asks again without saying why.
StreamTextForgetsNudge ==
  /\ pc = "stream"
  /\ \E message \in {"text", "silent"}, kept \in Kept(current) :
       /\ current' = kept \o <<message>>
       /\ produced' = produced \o <<message>>
  /\ hasMore' = NudgeMode(FALSE)
  /\ pc' = "turn_end"
  /\ UNCHANGED <<setup, pending, terminated, iterations, opened, closed, env>>

StreamText ==
  /\ pc = "stream"
  /\ \E message \in {"text", "silent"}, narrowed \in BOOLEAN, kept \in Kept(current) :
       LET reply == IF NudgeMode(narrowed) THEN <<message, "nudge">>
                    ELSE IF TakesText(message, narrowed) THEN <<message, "fallback">>
                    ELSE <<message>>
       IN  /\ current' = kept \o reply
           /\ produced' = produced \o reply
           /\ hasMore' = NudgeMode(narrowed)
           /\ terminated' = (terminated \/ TakesText(message, narrowed))
  /\ pc' = "turn_end"
  /\ UNCHANGED <<setup, pending, iterations, opened, closed, env>>

\* An error no attempt recovers from, or the caller's cancellation.
StreamFails ==
  /\ pc = "stream"
  /\ \/ pc' = "failed"
     \/ cancelled /\ pc' = "aborted"
  /\ Dropped
  /\ UNCHANGED <<setup, hasMore, terminated, iterations, events, env>>

BatchReturns ==
  /\ pc = "batch"
  /\ \E terminate \in BOOLEAN : hasMore' = ~terminate /\ terminated' = terminate
  /\ PushBoth(<<"results">>)
  /\ pc' = "turn_end"
  /\ UNCHANGED <<setup, pending, iterations, events, env>>

BatchFails ==
  /\ pc = "batch"
  /\ \/ pc' = "failed"
     \/ cancelled /\ pc' = "aborted"
  /\ Dropped
  /\ UNCHANGED <<setup, hasMore, terminated, iterations, events, env>>

\* Mutant: steering is collected after a terminator as after any turn.
EndTurnAlwaysCollects ==
  /\ pc = "turn_end"
  /\ pc' = "loop"
  /\ closed' = closed + 1
  /\ DrainSteering
  /\ UNCHANGED <<setup, current, produced, hasMore, terminated, iterations,
                 opened, sent, followUps, cancelled>>

\* Mutant: after a terminator steering is collected and thrown away.
EndTurnDropsSteering ==
  /\ pc = "turn_end"
  /\ pc' = "loop"
  /\ closed' = closed + 1
  /\ pending' = IF terminated THEN <<>> ELSE Times(sent - drained, "steer")
  /\ drained' = sent
  /\ UNCHANGED <<setup, current, produced, hasMore, terminated, iterations,
                 opened, sent, followUps, cancelled>>

\* A unanimous terminator ends the run: steering is not even collected.
EndTurn ==
  /\ pc = "turn_end"
  /\ pc' = "loop"
  /\ closed' = closed + 1
  /\ IF terminated THEN pending' = <<>> /\ UNCHANGED drained ELSE DrainSteering
  /\ UNCHANGED <<setup, current, produced, hasMore, terminated, iterations,
                 opened, sent, followUps, cancelled>>

\* Nothing left to do: the follow-up sources get a last say.
AcceptFollowUp ==
  /\ pc = "loop"
  /\ ~AnotherTurn
  /\ ~terminated
  /\ \E n \in 1..followUps : /\ pending' = Times(n, "follow_up")
                             /\ followUps' = followUps - n
  /\ hasMore' = TRUE
  /\ terminated' = FALSE
  /\ UNCHANGED <<pc, setup, current, produced, iterations, events, sent, drained, cancelled>>

EndRun ==
  /\ pc = "loop"
  /\ ~AnotherTurn
  /\ pc' = "done"
  /\ UNCHANGED <<run, events, env>>

\* SteeringHandle::steer: the receiver lives as long as the caller's config,
\* so the send succeeds whatever the loop is doing, or has done.
Steer ==
  /\ sent < MaxSteer
  /\ sent' = sent + 1
  /\ UNCHANGED <<pc, run, events, drained, followUps, cancelled>>

Cancel ==
  /\ ~cancelled
  /\ pc \notin Final
  /\ cancelled' = TRUE
  /\ UNCHANGED <<pc, run, events, sent, drained, followUps>>

Ended == pc \in Final /\ UNCHANGED vars

Stream == StreamCalls \/ StreamText \/ StreamFails
Batch == BatchReturns \/ BatchFails
Own == \/ CollectInitial \/ AbortAtTop \/ BeginTurn \/ EndTurn
       \/ AcceptFollowUp \/ EndRun

Next ==
  \/ RunPrompt \/ RunContinue \/ RejectContinue
  \/ Own \/ Stream \/ Batch
  \/ Steer \/ Cancel
  \/ Ended
-----------------------------------------------------------------------------
(* The loop's own steps are taken as long as its task is polled.  A provider *)
(* and a batch may take for ever, but both end once the run is cancelled.    *)
Fairness ==
  /\ WF_vars(Own)
  /\ WF_vars(cancelled /\ Stream)
  /\ WF_vars(cancelled /\ Batch)

Spec == Init /\ [][Next]_vars

FairSpec == Spec /\ Fairness
-----------------------------------------------------------------------------
(* Safety. *)

\* Every request carries a transcript a provider accepts, and one that leaves
\* the model something to respond to: never its own last word.
RequestIsValid ==
  pc = "stream" => /\ Paired(current)
                   /\ current # <<>> /\ Last(current) \notin Assistant

\* TurnStart and TurnEnd alternate: the first TurnStart stands for the first
\* turn however long its setup takes, and a run that ends well closes them all.
TurnsAreBracketed ==
  LET inTurn == \/ pc \in {"stream", "batch", "turn_end"}
                \/ pc \in {"collect", "loop"} /\ iterations = 0
  IN  /\ pc \in Running => opened = closed + (IF inTurn THEN 1 ELSE 0)
      /\ pc = "done" => opened = closed /\ closed = iterations

Steered(messages) == Cardinality({i \in DOMAIN messages : messages[i] = "steer"})

\* As long as a run goes on, no steering message taken from the channel is lost
\* or doubled: it is in the run's tail or waits for the next turn. When the run
\* ends well all of it is in what the caller gets back, none is left waiting:
\* not by a terminator, nor by follow-ups that take the place of what is pending.
\* (A run that is aborted or fails takes what it drained with it.)
SteeringConserved ==
  /\ pc \notin {"aborted", "failed"} => Steered(produced) + Steered(pending) = drained
  /\ pc = "done" => Steered(produced) = drained

\* After a terminator the model is never prompted again, whatever steering
\* and follow-up sources hold.
TerminatorIsLast ==
  [][terminated => terminated' /\ iterations' = iterations /\ pending' = <<>>]_vars
-----------------------------------------------------------------------------
(* Liveness, under FairSpec. *)

\* Cancelling a run that has begun ends it.
CancelEndsRun == (cancelled /\ pc \in Running) ~> pc \in Final
-----------------------------------------------------------------------------
(* What the repository says and the code does not do. *)

\* "Returns Ok if the loop is still running, Err if it has already shut down"
\* (plugin.rs:533-534): no message is accepted once the run is over.
SteerRefusedAfterEnd == [][(pc \in Final) => sent' = sent]_vars
=============================================================================
