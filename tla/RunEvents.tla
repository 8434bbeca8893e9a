------------------------------ MODULE RunEvents ------------------------------
(***************************************************************************)
(* A whole run as its listener sees it: the agent loop (AgentLoop) with    *)
(* the attempts of its assistant messages (src/run.rs) and the calls of    *)
(* its batches (src/exec.rs) unfolded into the events they emit.           *)
(*                                                                         *)
(* Every emit is awaited: what a step emits stands in outbox and the       *)
(* loop goes on when the listener has heard it all. In the meantime the    *)
(* run may be steered or cancelled. Partial updates of tools travel beside *)
(* this stream and are ToolUpdates'.                                       *)
(***************************************************************************)
EXTENDS AgentLoop

CONSTANT MaxCalls   \* bound: calls of an assistant message

ASSUME CallsAssumption == MaxCalls \in Nat

VARIABLES
  ask,      \* where the current attempt for an assistant message is
  late,     \* its request was sent under a signal already set
  work,     \* the batch: its calls by what is left to do with them
  outcome,  \* what TurnEnd will say, and whether it has been said
  outbox,   \* events emitted and not yet heard
  view,     \* where the listener is
  told      \* the messages it has been told of

detail == <<ask, late, work, outcome>>
listener == <<view, told>>
all == <<vars, detail, outbox, listener>>
-----------------------------------------------------------------------------
(* Events. *)

Event(kind) == [kind |-> kind]
Prepared == Event("RequestPrepared")
Ending(message, calls) == [kind |-> "MessageEnd", message |-> message, calls |-> calls]
Starting(c) == [kind |-> "ExecutionStart", call |-> c]
EndOf(c) == [kind |-> "ExecutionEnd", call |-> c]
EndsOf(calls) == [i \in DOMAIN calls |-> EndOf(calls[i])]

\* A message of the user's side starts and ends at once.
Whole(message) == <<Event("MessageStart"), Ending(message, {})>>

Announced(messages) ==
  [i \in 1 .. 2 * Len(messages) |->
     IF i % 2 = 1 THEN Event("MessageStart") ELSE Ending(messages[i \div 2], {})]

\* What a listener at v makes of an event: where it is ...
Heard(v, e) ==
  LET after == [v EXCEPT !.last = e.kind]
  IN  CASE e.kind = "AgentStart" -> [after EXCEPT !.run = "open"]
        [] e.kind = "AgentEnd" -> [after EXCEPT !.run = "over"]
        [] e.kind = "TurnStart" ->
             [after EXCEPT !.turn = TRUE, !.asked = {}, !.executing = {}, !.answered = {}]
        [] e.kind = "TurnEnd" -> [after EXCEPT !.turn = FALSE]
        [] e.kind = "RequestPrepared" -> [after EXCEPT !.asked = {}]
        [] e.kind = "MessageStart" -> [after EXCEPT !.message = TRUE]
        [] e.kind = "MessageEnd" -> [after EXCEPT !.message = FALSE, !.asked = e.calls]
        [] e.kind = "ExecutionStart" -> [after EXCEPT !.executing = @ \cup {e.call}]
        [] e.kind = "ExecutionEnd" ->
             [after EXCEPT !.executing = @ \ {e.call}, !.answered = @ \cup {e.call}]
        [] OTHER -> after

\* ... and what the run has said: an assistant message stands once its turn ends.
Folded(messages, e) ==
  CASE e.kind = "MessageEnd" /\ e.message \notin Assistant \cup {"errored"} -> Append(messages, e.message)
    [] e.kind = "TurnEnd" -> messages \o <<e.message>> \o e.results
    [] OTHER -> messages

Quiet == outbox = <<>>

Emit(happened) == Quiet /\ outbox' = happened

\* emit: the sink, then the observers; the loop waits for them.
Deliver ==
  /\ ~Quiet
  /\ view' = Heard(view, Head(outbox))
  /\ told' = Folded(told, Head(outbox))
  /\ outbox' = Tail(outbox)
  /\ UNCHANGED <<vars, detail>>
-----------------------------------------------------------------------------
NoWork == [mode |-> "none", todo |-> <<>>, running |-> <<>>, started |-> FALSE,
           beyond |-> <<>>, held |-> <<>>]

NoOutcome == [message |-> "none", results |-> <<>>, announced |-> FALSE]

EvInit ==
  /\ Init
  /\ ask = "ready"
  /\ late = FALSE
  /\ work = NoWork
  /\ outcome = NoOutcome
  /\ outbox = <<>>
  /\ view = [run |-> "before", turn |-> FALSE, message |-> FALSE, asked |-> {},
             executing |-> {}, answered |-> {}, last |-> "none"]
  /\ told = <<>>

(* The loop. *)

EvRunPrompt ==
  /\ RunPrompt
  /\ Emit(<<Event("AgentStart"), Event("TurnStart")>> \o Whole("user"))
  /\ UNCHANGED <<detail, listener>>

EvRunContinue ==
  /\ RunContinue
  /\ Emit(<<Event("AgentStart"), Event("TurnStart")>>)
  /\ UNCHANGED <<detail, listener>>

\* Mutant: what was steered is not announced.
EvBeginTurnSilently ==
  /\ BeginTurn
  /\ Emit(IF iterations = 0 THEN <<>> ELSE <<Event("TurnStart")>>)
  /\ outcome' = NoOutcome
  /\ UNCHANGED <<ask, late, work, listener>>

EvBeginTurn ==
  /\ BeginTurn
  /\ Emit((IF iterations = 0 THEN <<>> ELSE <<Event("TurnStart")>>) \o Announced(pending))
  /\ outcome' = NoOutcome
  /\ UNCHANGED <<ask, late, work, listener>>

\* TurnEnd is heard before steering is collected: what a listener steers in
\* answer to it makes the next turn.
AnnounceTurnEnd ==
  /\ pc = "turn_end"
  /\ ~outcome.announced
  /\ Emit(<<[kind |-> "TurnEnd", message |-> outcome.message, results |-> outcome.results]>>)
  /\ outcome' = [outcome EXCEPT !.announced = TRUE]
  /\ UNCHANGED <<vars, ask, late, work, listener>>

EvEndTurn ==
  /\ EndTurn
  /\ outcome.announced
  /\ Emit(<<>>)
  /\ UNCHANGED <<detail, listener>>

EvEndRun ==
  /\ EndRun
  /\ Emit(<<Event("AgentEnd")>>)
  /\ UNCHANGED <<detail, listener>>

\* Mutant: a run announces its end however it ends.
SilentButForAborts ==
  /\ CollectInitial \/ AbortAtTop \/ AcceptFollowUp \/ RejectContinue
  /\ Emit(IF pc' = "aborted" THEN <<Event("AgentEnd")>> ELSE <<>>)
  /\ UNCHANGED <<detail, listener>>

\* Steps that emit nothing. A run that is aborted or refused says no more.
Silent ==
  /\ CollectInitial \/ AbortAtTop \/ AcceptFollowUp \/ RejectContinue
  /\ Emit(<<>>)
  /\ UNCHANGED <<detail, listener>>

EvOwn == EvBeginTurn \/ AnnounceTurnEnd \/ EvEndTurn \/ EvEndRun \/ Silent
-----------------------------------------------------------------------------
(* An assistant message: any number of attempts, the last of which stands.  *)

Streaming == ask \in {"requested", "open", "chunked"}

\* Mutant: a stream opened under a set signal delivers all the same.
MayDeliverAnyway == TRUE

\* A stream opened under a set signal only reports that.
MayDeliver == ~late

\* The calls a message may carry.
Asked == {1..n : n \in 1..MaxCalls}

Request ==
  /\ pc = "stream"
  /\ ask = "ready"
  /\ ask' = "requested"
  /\ late' = cancelled
  /\ Emit(<<Prepared>>)
  /\ UNCHANGED <<vars, work, outcome, listener>>

\* Bound: one chunk stands for any number.
ProviderSends ==
  /\ pc = "stream"
  /\ \/ ask = "requested" /\ ask' = "open" /\ Emit(<<Event("MessageStart")>>)
     \/ ask = "open" /\ ask' = "chunked" /\ Emit(<<Event("MessageUpdate")>>)
  /\ UNCHANGED <<vars, late, work, outcome, listener>>

\* The attempt failed in a way that is waited out, or that a smaller history
\* may mend. A stream may fail before it has sent anything, or after it has
\* sent calls.
Retry ==
  /\ pc = "stream"
  /\ Streaming /\ MayDeliver
  /\ \/ ask' = "delay"
     \/ ask' = "ready" /\ ~cancelled
  /\ \E calls \in Asked \cup {{}} : Emit(<<Ending("errored", calls)>>)
  /\ UNCHANGED <<vars, late, work, outcome, listener>>

Wake ==
  /\ pc = "stream"
  /\ ask = "delay"
  /\ ~cancelled
  /\ ask' = "ready"
  /\ Emit(<<>>)
  /\ UNCHANGED <<vars, late, work, outcome, listener>>

\* Mutant: a truncated message is run as far as it got.
EscalateRunning ==
  /\ pc = "stream"
  /\ Streaming /\ MayDeliver
  /\ ask' = "ready"
  /\ \E calls \in Asked : Emit(<<Ending("calls", calls), Event("Escalation"), EndOf(1)>>)
  /\ UNCHANGED <<vars, late, work, outcome, listener>>

\* A truncated message, calls and all, is given up for a higher cap. Like any
\* answer it may be delivered whole, by a stream that sends nothing else.
Escalate ==
  /\ pc = "stream"
  /\ Streaming /\ MayDeliver
  /\ ask' = "ready"
  /\ \E calls \in Asked \cup {{}} : Emit(<<Ending("calls", calls), Event("Escalation")>>)
  /\ UNCHANGED <<vars, late, work, outcome, listener>>

\* Some of the calls of a message, as it gives them.
InOrder == {s \in SeqOf(1..MaxCalls, MaxCalls) : \A i, j \in DOMAIN s : i < j => s[i] < s[j]}

\* The message asks for tools. The calls beyond the limit are held back.
EvStreamCalls ==
  /\ StreamCalls
  /\ Streaming /\ MayDeliver
  /\ ask' = "ready"
  /\ \E calls \in Asked, todo, held \in InOrder, mode \in {"sequential", "parallel"} :
       /\ ToSet(held) \subseteq calls
       /\ ToSet(todo) = calls \ ToSet(held)
       /\ Emit(<<Ending("calls", calls)>>)
       /\ work' = [NoWork EXCEPT !.mode = mode, !.todo = todo, !.held = held, !.beyond = held]
  /\ outcome' = [NoOutcome EXCEPT !.message = "calls"]
  /\ UNCHANGED <<late, listener>>

EvStreamText ==
  /\ StreamText
  /\ Streaming /\ MayDeliver
  /\ ask' = "ready"
  /\ LET message == produced'[Len(produced) + 1]
     IN  /\ Emit(<<Ending(message, {})>>)
         /\ outcome' = [NoOutcome EXCEPT !.message = message,
                          !.results = IF Last(produced') = "fallback" THEN <<"fallback">> ELSE <<>>]
  /\ UNCHANGED <<late, work, listener>>

\* A stream that was sent away ends in an error; a delay is cut short.
EvStreamFails ==
  /\ StreamFails
  /\ \/ Streaming /\ \E calls \in Asked \cup {{}} : Emit(<<Ending("errored", calls)>>)
     \/ ask = "delay" /\ cancelled /\ pc' = "aborted" /\ Emit(<<>>)
  /\ ask' = "ready"
  /\ UNCHANGED <<late, work, outcome, listener>>

EvStream ==
  \/ Request \/ ProviderSends \/ Retry \/ Wake \/ Escalate
  \/ EvStreamCalls \/ EvStreamText \/ EvStreamFails
-----------------------------------------------------------------------------
(* A batch. *)

InBatch(mode) == pc = "batch" /\ work.mode = mode

\* One call: a start if it is to be executed, an end if it is refused, whose
\* failure may skip the calls after it.
SequentialPrepare ==
  /\ InBatch("sequential")
  /\ work.running = <<>> /\ work.todo # <<>>
  /\ LET c == Head(work.todo)
     IN  \/ /\ Emit(<<Starting(c)>>)
            /\ work' = [work EXCEPT !.todo = Tail(@), !.running = <<c>>, !.started = TRUE]
         \/ /\ Emit(<<EndOf(c)>>)
            /\ work' = [work EXCEPT !.todo = Tail(@)]
         \/ /\ Emit(EndsOf(work.todo))
            /\ work' = [work EXCEPT !.todo = <<>>]
  /\ UNCHANGED <<vars, ask, late, outcome, listener>>

SequentialReturn ==
  /\ InBatch("sequential")
  /\ work.running # <<>>
  /\ \/ /\ Emit(EndsOf(work.running))
        /\ work' = [work EXCEPT !.running = <<>>]
     \/ /\ Emit(EndsOf(work.running \o work.todo))
        /\ work' = [work EXCEPT !.running = <<>>, !.todo = <<>>]
  /\ UNCHANGED <<vars, ask, late, outcome, listener>>

\* Starts are announced for the whole batch before anything runs.
ParallelPrepare ==
  /\ InBatch("parallel")
  /\ work.todo # <<>>
  /\ LET c == Head(work.todo)
         placed == [work EXCEPT !.todo = Tail(@), !.running = Append(@, c)]
     IN  \/ Emit(<<Starting(c)>>) /\ work' = [placed EXCEPT !.started = TRUE]
         \/ Emit(<<>>) /\ work' = placed
  /\ UNCHANGED <<vars, ask, late, outcome, listener>>

\* When all have returned or been refused, their ends are announced in order.
ParallelReturn ==
  /\ InBatch("parallel")
  /\ work.todo = <<>> /\ work.running # <<>>
  /\ Emit(EndsOf(work.running))
  /\ work' = [work EXCEPT !.running = <<>>]
  /\ UNCHANGED <<vars, ask, late, outcome, listener>>

Settled == work.todo = <<>> /\ work.running = <<>>

\* The calls held back are answered last.
AnswerHeld ==
  /\ pc = "batch"
  /\ Settled /\ work.held # <<>>
  /\ Emit(EndsOf(work.held))
  /\ work' = [work EXCEPT !.held = <<>>]
  /\ UNCHANGED <<vars, ask, late, outcome, listener>>

EvBatchReturns ==
  /\ Settled /\ work.held = <<>>
  /\ BatchReturns
  /\ work.beyond # <<>> => ~terminated'
  /\ Emit(<<>>)
  /\ work' = NoWork
  /\ outcome' = [outcome EXCEPT !.results = <<"results">>]
  /\ UNCHANGED <<ask, late, listener>>

\* A tool that runs ends the run, or is cancelled with it: no end is announced.
EvBatchFails ==
  /\ work.running # <<>> /\ work.started
  /\ work.mode = "parallel" => work.todo = <<>>
  /\ BatchFails
  /\ Emit(<<>>)
  /\ UNCHANGED <<detail, listener>>

EvBatch ==
  \/ SequentialPrepare \/ SequentialReturn \/ ParallelPrepare \/ ParallelReturn
  \/ AnswerHeld \/ EvBatchReturns \/ EvBatchFails
-----------------------------------------------------------------------------
\* Steering and cancellation do not wait for the listener.
FromOutside ==
  /\ Steer \/ Cancel
  /\ UNCHANGED <<detail, outbox, listener>>

EvEnded == Ended /\ Quiet /\ UNCHANGED all

EvNext ==
  \/ EvRunPrompt \/ EvRunContinue
  \/ EvOwn \/ EvStream \/ EvBatch
  \/ Deliver
  \/ FromOutside
  \/ EvEnded

\* Listeners take their time but return; the rest is the loop's fairness.
EvFairness ==
  /\ WF_all(Deliver)
  /\ WF_all(EvOwn)
  /\ WF_all(cancelled /\ EvStream)
  /\ WF_all(cancelled /\ EvBatch)

EvSpec == EvInit /\ [][EvNext]_all

EvFairSpec == EvSpec /\ EvFairness
-----------------------------------------------------------------------------
Events == INSTANCE EventContract WITH
  Calls <- 1..MaxCalls,
  run <- view.run, turn <- view.turn, message <- view.message, asked <- view.asked,
  executing <- view.executing, answered <- view.answered, last <- view.last

\* The events of a run follow the grammar of EventContract, through retries,
\* truncations, refusals, skipped and held calls: brackets close, calls are
\* started only as asked and answered once, and none of a message given up.
FollowsGrammar == Events!Spec

\* How many of the first n messages are not the loop's own nudges.
Rank(messages, n) == Cardinality({i \in 1..n : messages[i] # "nudge"})

\* What messages come to without the nudges, in the same order.
WithoutNudges(messages, rest) ==
  /\ Len(rest) = Rank(messages, Len(messages))
  /\ \A i \in DOMAIN messages :
       messages[i] # "nudge" => rest[Rank(messages, i)] = messages[i]

\* A listener that takes the messages of the user's side as they end, and the
\* rest from TurnEnd, holds between turns what the caller will get back, but
\* for the loop's own nudges: no attempt that was given up, nothing missing.
TurnEndsTellAll ==
  Quiet /\ ~view.turn /\ view.run # "before" /\ pc \notin {"aborted", "failed"} =>
    WithoutNudges(produced, told)

\* The listener knows of the end only from AgentEnd: it comes if the run ends
\* well, after everything else, and never for a run that was aborted or failed.
EndIsAnnounced ==
  /\ view.run = "over" => pc = "done" /\ Quiet
  /\ pc = "done" /\ Quiet => view.run = "over"
-----------------------------------------------------------------------------
(* What the repository says and the code does not do. *)

\* MessageStart: "A message has been added to the transcript (user, assistant,
\* or tool result)" (event.rs:61-62): what joins the transcript otherwise than
\* from a stream is announced as it does.
EveryMessageIsAnnounced ==
  [][(Len(produced') > Len(produced) /\ Last(produced') \notin Assistant) =>
       \E i \in DOMAIN outbox' : outbox'[i].kind = "MessageStart"]_all
=============================================================================
