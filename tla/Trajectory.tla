----------------------------- MODULE Trajectory -----------------------------
(***************************************************************************)
(* Recording runs (src/trajectory.rs, TrajectoryRecorder): the steps of    *)
(* on_event and record, with every await a place where another run may go  *)
(* on.  A recorder keeps the next sequence number and the identity of the  *)
(* run it listens to; all recorders write to one sink.  Runs are spawned   *)
(* by the tools of other runs, several at a time in a parallel batch, and  *)
(* are dropped with the batch that spawned them.                           *)
(***************************************************************************)
EXTENDS Integers, Sequences, FiniteSets

CONSTANTS
  Runs,
  Parent,     \* Parent[run]: the run whose tool spawns it, or NoRun
  NoRun,
  Recorders,
  RecorderOf, \* the recorder registered with each run
  Identified, \* runs whose context carries an identity
  Sharing,    \* runs that start while another one uses their recorder
  MaxRecords  \* bound: records of one run

ASSUME RecorderAssumption ==
  /\ NoRun \notin Runs
  /\ Parent \in [Runs -> Runs \cup {NoRun}]
  /\ RecorderOf \in [Runs -> Recorders]
  /\ Identified \subseteq Runs /\ Sharing \subseteq Runs
  /\ MaxRecords \in Nat \ {0}

\* The recorder's steps for the events of a run, and "none" between events.
\* AgentStart is "zero", "forget"; RunIdentified is "learn" and then recorded;
\* to record is "stamp", "label", "store".
Steps == {"none", "zero", "forget", "learn", "stamp", "label", "store"}

Identity == Runs \cup {NoRun}
Draft == [run : Runs, nth : Nat, seq : Nat, label : Identity]

VARIABLES
  phase,    \* "idle", "running", "tool" (in a batch that spawns runs) or "over"
  step,     \* what the recorder does next with the run's current event
  made,     \* records made of the run, stored or not
  draft,    \* the record in the making
  seq,      \* per recorder: the next sequence number
  identity, \* per recorder: the run it takes events to come from
  log,      \* what the sink has stored
  rejected  \* what the sink has refused

runs == <<phase, step, made, draft>>
recorders == <<seq, identity>>
vars == <<runs, recorders, log, rejected>>

TypeOK ==
  /\ phase \in [Runs -> {"idle", "running", "tool", "over"}]
  /\ step \in [Runs -> Steps]
  /\ made \in [Runs -> 0..MaxRecords]
  /\ draft \in [Runs -> Draft]
  /\ seq \in [Recorders -> 0..MaxRecords]
  /\ identity \in [Recorders -> Identity]
  /\ log \in Seq(Draft)
  /\ rejected \in SUBSET Draft

Active(run) == phase[run] \in {"running", "tool"}

\* The identity a run goes by; run_id is empty for a run without one.
Name(run) == IF run \in Identified THEN run ELSE NoRun

Children(run) == {child \in Runs : Parent[child] = run}

\* The run is about to take this step of its recorder.
At(run, here) == phase[run] = "running" /\ step[run] = here

GoTo(run, there) == step' = [step EXCEPT ![run] = there]
-----------------------------------------------------------------------------
Init ==
  /\ phase = [run \in Runs |-> "idle"]
  /\ step = [run \in Runs |-> "none"]
  /\ made = [run \in Runs |-> 0]
  /\ draft = [run \in Runs |-> [run |-> run, nth |-> 0, seq |-> 0, label |-> NoRun]]
  /\ seq = [recorder \in Recorders |-> 0]
  /\ identity = [recorder \in Recorders |-> NoRun]
  /\ log = <<>> /\ rejected = {}

\* AgentStart, and RunIdentified behind it.
Start(run) ==
  /\ phase[run] = "idle"
  /\ Parent[run] # NoRun => phase[Parent[run]] = "tool"
  /\ \/ run \in Sharing
     \/ ~ \E other \in Runs : Active(other) /\ RecorderOf[other] = RecorderOf[run]
  /\ phase' = [phase EXCEPT ![run] = "running"]
  /\ GoTo(run, "zero")
  /\ UNCHANGED <<made, draft, recorders, log, rejected>>

Zero(run) ==
  /\ At(run, "zero")
  /\ seq' = [seq EXCEPT ![RecorderOf[run]] = 0]
  /\ GoTo(run, "forget")
  /\ UNCHANGED <<phase, made, draft, identity, log, rejected>>

\* Mutant: AgentStart leaves the identity alone.
ForgetNothing(run) ==
  /\ At(run, "forget")
  /\ GoTo(run, IF run \in Identified THEN "learn" ELSE "none")
  /\ UNCHANGED <<phase, made, draft, recorders, log, rejected>>

Forget(run) ==
  /\ At(run, "forget")
  /\ identity' = [identity EXCEPT ![RecorderOf[run]] = NoRun]
  /\ GoTo(run, IF run \in Identified THEN "learn" ELSE "none")
  /\ UNCHANGED <<phase, made, draft, seq, log, rejected>>

\* RunIdentified carries the identity of the run's own context.
Learn(run) ==
  /\ At(run, "learn")
  /\ identity' = [identity EXCEPT ![RecorderOf[run]] = run]
  /\ GoTo(run, "stamp")
  /\ UNCHANGED <<phase, made, draft, seq, log, rejected>>

\* fetch_add
Stamp(run) ==
  /\ At(run, "stamp") /\ made[run] < MaxRecords
  /\ draft' = [draft EXCEPT ![run] =
                [run |-> run, nth |-> made[run], seq |-> seq[RecorderOf[run]], label |-> NoRun]]
  /\ seq' = [seq EXCEPT ![RecorderOf[run]] = @ + 1]
  /\ made' = [made EXCEPT ![run] = @ + 1]
  /\ GoTo(run, "label")
  /\ UNCHANGED <<phase, identity, log, rejected>>

\* The identity is read behind the recorder's lock.
Label(run) ==
  /\ At(run, "label")
  /\ draft' = [draft EXCEPT ![run].label = identity[RecorderOf[run]]]
  /\ GoTo(run, "store")
  /\ UNCHANGED <<phase, made, recorders, log, rejected>>

\* Mutant: a record is skipped while the sink is busy with another one.
StoreUnlessBusy(run) ==
  /\ At(run, "store")
  /\ IF \E other \in Runs \ {run} : At(other, "store")
     THEN UNCHANGED log
     ELSE log' = Append(log, draft[run])
  /\ GoTo(run, "none")
  /\ UNCHANGED <<phase, made, draft, recorders, rejected>>

Store(run) ==
  /\ At(run, "store")
  /\ log' = Append(log, draft[run])
  /\ GoTo(run, "none")
  /\ UNCHANGED <<phase, made, draft, recorders, rejected>>

\* A rejected record is dropped and the run goes on.
Reject(run) ==
  /\ At(run, "store")
  /\ rejected' = rejected \cup {draft[run]}
  /\ GoTo(run, "none")
  /\ UNCHANGED <<phase, made, draft, recorders, log>>

\* The run's next event that is recorded.
NextEvent(run) ==
  /\ At(run, "none")
  /\ made[run] < MaxRecords
  /\ GoTo(run, "stamp")
  /\ UNCHANGED <<phase, made, draft, recorders, log, rejected>>

\* While a batch is executed the run itself has nothing to record.
EnterBatch(run) ==
  /\ At(run, "none")
  /\ phase' = [phase EXCEPT ![run] = "tool"]
  /\ UNCHANGED <<step, made, draft, recorders, log, rejected>>

LeaveBatch(run) ==
  /\ phase[run] = "tool"
  /\ \A child \in Children(run) : ~Active(child)
  /\ phase' = [phase EXCEPT ![run] = "running"]
  /\ UNCHANGED <<step, made, draft, recorders, log, rejected>>

\* The run returns, after AgentEnd or with an error.
Finish(run) ==
  /\ At(run, "none")
  /\ phase' = [phase EXCEPT ![run] = "over"]
  /\ UNCHANGED <<step, made, draft, recorders, log, rejected>>

\* The host drops the future of a run, or the batch that spawned it does,
\* wherever the run is; whatever the run has spawned goes with it.
Drop(family) ==
  /\ family # {} /\ \A run \in family : Active(run)
  /\ \A run \in family : \A child \in Children(run) : Active(child) => child \in family
  /\ phase' = [run \in Runs |-> IF run \in family THEN "over" ELSE phase[run]]
  /\ UNCHANGED <<step, made, draft, recorders, log, rejected>>

Ended ==
  /\ \A run \in Runs : ~Active(run)
  /\ UNCHANGED vars

Recorded(run) ==
  \/ Zero(run) \/ Forget(run) \/ Learn(run)
  \/ Stamp(run) \/ Label(run) \/ Store(run) \/ Reject(run)

Next ==
  \/ \E run \in Runs :
       \/ Start(run) \/ Recorded(run)
       \/ NextEvent(run) \/ EnterBatch(run) \/ LeaveBatch(run)
       \/ Finish(run)
  \/ \E family \in SUBSET Runs : Drop(family)
  \/ Ended

Spec == Init /\ [][Next]_vars
-----------------------------------------------------------------------------
(* What a consumer of the log relies on, when no run shares its recorder     *)
(* with one that is still going (Sharing = {}).  A recorder may be used again*)
(* after a run that ended, failed or was dropped in the middle of a record.  *)

\* Every record carries its place in its own run.
Numbered == \A i \in DOMAIN log : log[i].seq = log[i].nth

\* Every record carries the identity of the run it tells of, and a run without
\* an identity is never taken for another.
Attributed == \A i \in DOMAIN log : log[i].label = Name(log[i].run)

\* Before a record of a run come all its earlier ones that the sink took.
Ordered ==
  \A i \in DOMAIN log : \A n \in 0..(log[i].nth - 1) :
    \/ \E j \in 1..(i - 1) : log[j].run = log[i].run /\ log[j].nth = n
    \/ \E record \in rejected : record.run = log[i].run /\ record.nth = n
-----------------------------------------------------------------------------
(* What the comment of TrajectoryRecorder says of runs that share one. *)

\* "child runs that reuse the same recorder share the sequence space and stay
\* distinguishable by run_id/parent_run_id": no two records of runs that share
\* a recorder have the same number and the same identity.
SharedAreDistinguishable ==
  \A i, j \in DOMAIN log :
    i # j /\ RecorderOf[log[i].run] = RecorderOf[log[j].run] =>
      <<log[i].seq, log[i].label>> # <<log[j].seq, log[j].label>>
=============================================================================
