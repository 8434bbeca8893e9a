----------------------------- MODULE ToolUpdates -----------------------------
(***************************************************************************)
(* Partial updates of one tool call (src/exec.rs: execute_prepared,        *)
(* spawn_tool_update_dispatcher, enqueue_tool_update_event).               *)
(*                                                                         *)
(* The tool sends updates on an unbounded channel.  A drain task moves them*)
(* to a bounded queue, dropping what does not fit, and a detached          *)
(* dispatcher shows them to the listeners at their own pace.  The executor *)
(* emits the start and the end of the call itself.  Calls share none of    *)
(* this, so one call stands for all.                                       *)
(***************************************************************************)
EXTENDS Integers, Sequences, SequencesExt

CONSTANTS
  Capacity,   \* TOOL_UPDATE_EVENT_QUEUE_CAPACITY
  MaxUpdates  \* bound: updates a call ever sends

ASSUME UpdateAssumption == Capacity \in Nat \ {0} /\ MaxUpdates \in Nat

Update == 1..MaxUpdates

\* What listeners are shown of a call: its start, its updates, its end.
Start == 0
Finish == MaxUpdates + 1
Event == {Start, Finish} \cup Update

VARIABLES
  pc,         \* where the executor is with the call
  holding,    \* who can still send: the tool, a task the tool left behind
  sent,       \* updates sent, 1..sent
  channel,    \* sent and not yet seen by the drain task
  draining,   \* the drain task: "alive", "finished" or "aborted"
  queue,      \* on their way to the dispatcher
  showing,    \* what the dispatcher is showing: at most one update
  shown,      \* what listeners have been shown, in order
  overflowed, \* updates dropped because the queue was full
  cut         \* updates lost with the drain task, or sent after it was gone

pipe == <<channel, draining, queue, showing>>
vars == <<pc, holding, sent, pipe, shown, overflowed, cut>>

TypeOK ==
  /\ pc \in {"ready", "running", "waiting", "settled", "ended", "dropped"}
  /\ holding \subseteq {"tool", "task"}
  /\ sent \in 0..MaxUpdates
  /\ channel \in Seq(Update) /\ queue \in Seq(Update) /\ showing \in Seq(Update)
  /\ draining \in {"alive", "finished", "aborted"}
  /\ Len(queue) <= Capacity /\ Len(showing) <= 1
  /\ shown \in Seq(Event)
  /\ overflowed \in SUBSET Update /\ cut \in SUBSET Update
-----------------------------------------------------------------------------
Init ==
  /\ pc = "ready"
  /\ holding = {}
  /\ sent = 0
  /\ channel = <<>> /\ draining = "alive" /\ queue = <<>> /\ showing = <<>>
  /\ shown = <<>>
  /\ overflowed = {} /\ cut = {}

\* The start is shown before the tool is invoked.
Invoke ==
  /\ pc = "ready"
  /\ pc' = "running"
  /\ shown' = Append(shown, Start)
  /\ holding' = {"tool"}
  /\ UNCHANGED <<sent, pipe, overflowed, cut>>

\* The tool may hand a copy of its sender to a task of its own.
LeaveTask ==
  /\ pc = "running"
  /\ holding' = holding \cup {"task"}
  /\ UNCHANGED <<pc, sent, pipe, shown, overflowed, cut>>

EndTask ==
  /\ "task" \in holding
  /\ holding' = holding \ {"task"}
  /\ UNCHANGED <<pc, sent, pipe, shown, overflowed, cut>>

\* Sending fails only when the receiver is gone with its task.
Send ==
  /\ holding # {}
  /\ sent < MaxUpdates
  /\ sent' = sent + 1
  /\ IF draining = "aborted"
     THEN cut' = cut \cup {sent + 1} /\ UNCHANGED channel
     ELSE channel' = Append(channel, sent + 1) /\ UNCHANGED cut
  /\ UNCHANGED <<pc, holding, draining, queue, showing, shown, overflowed>>

\* The drain task never waits: what does not fit is dropped.
Drain ==
  /\ draining = "alive" /\ channel # <<>>
  /\ channel' = Tail(channel)
  /\ IF Len(queue) < Capacity
     THEN queue' = Append(queue, Head(channel)) /\ UNCHANGED overflowed
     ELSE overflowed' = overflowed \cup {Head(channel)} /\ UNCHANGED queue
  /\ UNCHANGED <<pc, holding, sent, draining, showing, shown, cut>>

\* All senders are gone and the channel is empty.
FinishDrain ==
  /\ draining = "alive" /\ pc # "ready"
  /\ channel = <<>> /\ holding = {}
  /\ draining' = "finished"
  /\ UNCHANGED <<pc, holding, sent, channel, queue, showing, shown, overflowed, cut>>

\* Mutant: the latest update goes first.
DispatchLatest ==
  /\ showing = <<>> /\ queue # <<>>
  /\ showing' = <<Last(queue)>> /\ queue' = Front(queue)
  /\ UNCHANGED <<pc, holding, sent, channel, draining, shown, overflowed, cut>>

\* The dispatcher takes an update and shows it, the sink first; listeners
\* may take as long as they like.
Dispatch ==
  /\ showing = <<>> /\ queue # <<>>
  /\ showing' = <<Head(queue)>> /\ queue' = Tail(queue)
  /\ UNCHANGED <<pc, holding, sent, channel, draining, shown, overflowed, cut>>

Show ==
  /\ showing # <<>>
  /\ shown' = Append(shown, Head(showing)) /\ showing' = <<>>
  /\ UNCHANGED <<pc, holding, sent, channel, draining, queue, overflowed, cut>>

\* The tool returns and lets go of its sender.
ToolReturns ==
  /\ pc = "running"
  /\ pc' = "waiting"
  /\ holding' = holding \ {"tool"}
  /\ UNCHANGED <<sent, pipe, shown, overflowed, cut>>

\* Mutant: the executor waits for the drain task however long it takes.
GiveUpNever ==
  /\ pc = "waiting" /\ draining = "alive"
  /\ UNCHANGED vars

\* The executor waits for the drain task until it has finished, or for
\* TOOL_UPDATE_DRAIN_GRACE: then it aborts the task, and what is still in
\* the channel is lost.
Settle ==
  /\ pc = "waiting" /\ draining = "finished"
  /\ pc' = "settled"
  /\ UNCHANGED <<holding, sent, pipe, shown, overflowed, cut>>

GiveUp ==
  /\ pc = "waiting" /\ draining = "alive"
  /\ pc' = "settled"
  /\ draining' = "aborted"
  /\ cut' = cut \cup ToSet(channel)
  /\ channel' = <<>>
  /\ UNCHANGED <<holding, sent, queue, showing, shown, overflowed>>

\* After the hooks, and in a parallel batch after all other calls.
End ==
  /\ pc = "settled"
  /\ pc' = "ended"
  /\ shown' = Append(shown, Finish)
  /\ UNCHANGED <<holding, sent, pipe, overflowed, cut>>

\* Another call fails for good and the future of this one is dropped; its
\* drain task is not.
DropFuture ==
  /\ pc \in {"running", "waiting", "settled"}
  /\ pc' = "dropped"
  /\ holding' = holding \ {"tool"}
  /\ UNCHANGED <<sent, pipe, shown, overflowed, cut>>

Ended ==
  /\ pc \in {"ended", "dropped"} /\ holding = {}
  /\ queue = <<>> /\ showing = <<>> /\ draining # "alive"
  /\ UNCHANGED vars

Executor == Settle \/ GiveUp \/ End
Drainer == Drain \/ FinishDrain
Dispatcher == Dispatch \/ Show

Next ==
  \/ Invoke \/ LeaveTask \/ EndTask \/ Send \/ ToolReturns \/ DropFuture
  \/ Executor \/ Drainer \/ Dispatcher
  \/ Ended
-----------------------------------------------------------------------------
(* The executor and the drain task are polled, and the timer fires.  A tool *)
(* may take for ever, and so may the tasks it leaves behind and a listener  *)
(* that is shown an event.                                                  *)
Fairness == WF_vars(Executor) /\ WF_vars(Drainer)

Spec == Init /\ [][Next]_vars

FairSpec == Spec /\ Fairness
-----------------------------------------------------------------------------
(* Safety. *)

\* Listeners see updates in the order in which they were sent, after the
\* start of the call and none of them twice.
ShownInOrder ==
  /\ shown # <<>> => shown[1] = Start
  /\ \A i, j \in DOMAIN shown :
       i < j /\ {shown[i], shown[j]} \subseteq Update => shown[i] < shown[j]

\* An update is lost only to a full queue or to an executor that gave up; any
\* other was shown or is on its way.
LossHasCause ==
  /\ \A update \in 1..sent :
       \/ update \in ToSet(channel) \cup ToSet(queue) \cup ToSet(showing) \cup ToSet(shown)
       \/ update \in overflowed \cup cut
  /\ cut # {} => draining = "aborted"

\* Once the call has ended no more than a queue of updates can trail it,
\* whatever the tasks it left behind go on to send.
TailIsBounded ==
  pc = "ended" =>
    LET end == CHOOSE i \in DOMAIN shown : shown[i] = Finish
    IN  (Len(shown) - end) + Len(showing) + Len(queue) + Len(channel) <= Capacity + 1
-----------------------------------------------------------------------------
(* Liveness, under FairSpec. *)

\* A tool that has returned is settled, unless its batch is dropped, even if
\* a task of its own keeps the channel open.
ReturnsAreSettled == pc = "waiting" ~> pc # "waiting"
=============================================================================
