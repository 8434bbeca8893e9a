-------------------------- MODULE Trajectory_proofs --------------------------
(***************************************************************************)
(* Theorems about Trajectory: types, and, for any number of runs none of   *)
(* which shares a recorder with another that is still going, numbering,    *)
(* attribution and order of the records.                                   *)
(***************************************************************************)
EXTENDS Trajectory, TLAPS

-----------------------------------------------------------------------------
(* Types.  A recorder's number counts the records of one run, which is what *)
(* bounds it: between AgentStart's reset and the end of the run nobody else *)
(* uses the recorder.                                                       *)

Types ==
  /\ phase \in [Runs -> {"idle", "running", "tool", "over"}]
  /\ step \in [Runs -> Steps]
  /\ made \in [Runs -> 0..MaxRecords]
  /\ draft \in [Runs -> Draft]
  /\ seq \in [Recorders -> Nat]
  /\ identity \in [Recorders -> Identity]
  /\ log \in Seq(Draft)
  /\ rejected \in SUBSET Draft

\* The initial states satisfy the types.
LEMMA TypesInit == Init => Types
BY RecorderAssumption DEF Init, Types, Steps, Draft, Identity

\* Every step preserves the types.
LEMMA TypesNext == Types /\ [Next]_vars => Types'
<1> SUFFICES ASSUME Types, [Next]_vars PROVE Types'
  OBVIOUS
<1> USE RecorderAssumption DEF Types, recorders, GoTo
<1>1. ASSUME NEW run \in Runs, Start(run) PROVE Types'
  BY <1>1 DEF Start, Steps
<1>2. ASSUME NEW run \in Runs, Zero(run) PROVE Types'
  BY <1>2 DEF Zero, Steps
<1>3. ASSUME NEW run \in Runs, Forget(run) PROVE Types'
  <2>1. step' \in [Runs -> Steps]
    BY <1>3 DEF Forget, Steps
  <2> QED BY <2>1, <1>3 DEF Forget, Identity
<1>4. ASSUME NEW run \in Runs, Learn(run) PROVE Types'
  BY <1>4 DEF Learn, Steps, Identity
<1>5. ASSUME NEW run \in Runs, Stamp(run) PROVE Types'
  <2>1. seq[RecorderOf[run]] \in Nat /\ made[run] \in Nat /\ made[run] + 1 \in 0..MaxRecords
    BY <1>5 DEF Stamp
  <2>2. draft' \in [Runs -> Draft]
    <3>1. [run |-> run, nth |-> made[run], seq |-> seq[RecorderOf[run]], label |-> NoRun] \in Draft
      BY <2>1 DEF Draft, Identity
    <3>2. draft' = [draft EXCEPT ![run] =
              [run |-> run, nth |-> made[run], seq |-> seq[RecorderOf[run]], label |-> NoRun]]
      BY <1>5 DEF Stamp
    <3> HIDE DEF Draft
    <3> QED BY <3>1, <3>2
  <2>3. seq' \in [Recorders -> Nat]
    BY <2>1, <1>5 DEF Stamp
  <2>4. made' \in [Runs -> 0..MaxRecords]
    BY <2>1, <1>5 DEF Stamp
  <2> QED BY <2>2, <2>3, <2>4, <1>5 DEF Stamp, Steps
<1>6. ASSUME NEW run \in Runs, Label(run) PROVE Types'
  <2>1. draft' \in [Runs -> Draft]
    <3>1. draft[run] \in Draft /\ identity[RecorderOf[run]] \in Identity
      OBVIOUS
    <3>2. [draft[run] EXCEPT !.label = identity[RecorderOf[run]]] \in Draft
      BY <3>1 DEF Draft
    <3>3. draft' = [draft EXCEPT ![run] =
              [draft[run] EXCEPT !.label = identity[RecorderOf[run]]]]
      BY <1>6 DEF Label
    <3> QED BY <3>2, <3>3
  <2> QED BY <2>1, <1>6 DEF Label, Steps
<1>7. ASSUME NEW run \in Runs, Store(run) PROVE Types'
  <2>1. log' \in Seq(Draft)
    BY <1>7 DEF Store
  <2> QED BY <2>1, <1>7 DEF Store, Steps
<1>8. ASSUME NEW run \in Runs, Reject(run) PROVE Types'
  BY <1>8 DEF Reject, Steps
<1>9. ASSUME NEW run \in Runs, NextEvent(run) PROVE Types'
  BY <1>9 DEF NextEvent, Steps
<1>10. ASSUME NEW run \in Runs, EnterBatch(run) \/ LeaveBatch(run) \/ Finish(run) PROVE Types'
  BY <1>10 DEF EnterBatch, LeaveBatch, Finish
<1>11. ASSUME NEW family \in SUBSET Runs, Drop(family) PROVE Types'
  BY <1>11 DEF Drop
<1>12. CASE UNCHANGED vars
  BY <1>12 DEF vars, runs
<1> QED
  BY <1>1, <1>2, <1>3, <1>4, <1>5, <1>6, <1>7, <1>8, <1>9, <1>10, <1>11, <1>12
     DEF Next, Recorded, Ended

-----------------------------------------------------------------------------
(* One recorder, one run.                                                   *)

\* No two active runs have a recorder in common.
Alone ==
  \A run, other \in Runs :
    Active(run) /\ Active(other) /\ RecorderOf[run] = RecorderOf[other] => run = other

\* A recorder that an active run has reset counts that run's records and knows
\* its name.  What a record holds is right from the step that puts it there.
Own(run) ==
  /\ phase[run] = "idle" => made[run] = 0
  /\ phase[run] = "tool" => step[run] = "none"
  /\ draft[run].run = run
  /\ Active(run) /\ step[run] \in {"zero", "forget", "learn"} => made[run] = 0
  /\ Active(run) /\ step[run] # "zero" => seq[RecorderOf[run]] = made[run]
  /\ Active(run) /\ step[run] = "learn" => run \in Identified
  /\ Active(run) /\ step[run] \notin {"zero", "forget", "learn"} =>
       identity[RecorderOf[run]] = Name(run)
  /\ Active(run) /\ step[run] \in {"label", "store"} =>
       draft[run].nth = draft[run].seq /\ draft[run].nth = made[run] - 1
  /\ Active(run) /\ step[run] = "store" => draft[run].label = Name(run)

OwnInv == Alone /\ \A run \in Runs : Own(run)

\* The initial states satisfy OwnInv.
LEMMA OwnInit == Init => OwnInv
BY RecorderAssumption DEF Init, OwnInv, Alone, Own, Active

\* Every step preserves OwnInv.
LEMMA OwnNext ==
  ASSUME Sharing = {}, Types, OwnInv, [Next]_vars
  PROVE  OwnInv'
<1> USE RecorderAssumption DEF Types, recorders, GoTo, Active, Name, At, Alone, Own
<1>1. ASSUME NEW run \in Runs, Start(run) PROVE OwnInv'
  BY <1>1 DEF Start, OwnInv
<1>2. ASSUME NEW run \in Runs, Zero(run) PROVE OwnInv'
  BY <1>2 DEF Zero, OwnInv
<1>3. ASSUME NEW run \in Runs, Forget(run) PROVE OwnInv'
  BY <1>3 DEF Forget, OwnInv
<1>4. ASSUME NEW run \in Runs, Learn(run) PROVE OwnInv'
  BY <1>4 DEF Learn, OwnInv
<1>5. ASSUME NEW run \in Runs, Stamp(run) PROVE OwnInv'
  <2>1. /\ seq[RecorderOf[run]] = made[run] /\ made[run] \in Nat
        /\ identity[RecorderOf[run]] = Name(run)
    BY <1>5 DEF Stamp, OwnInv
  <2>2. draft'[run] =
          [run |-> run, nth |-> made[run], seq |-> made[run], label |-> NoRun]
    BY <2>1, <1>5 DEF Stamp
  <2>3. /\ phase' = phase /\ identity' = identity
        /\ step'[run] = "label"
        /\ made'[run] = made[run] + 1 /\ seq'[RecorderOf[run]] = made[run] + 1
    BY <2>1, <1>5 DEF Stamp
  <2>4. \A other \in Runs \ {run} :
          /\ draft'[other] = draft[other] /\ made'[other] = made[other]
          /\ step'[other] = step[other]
    BY <1>5 DEF Stamp
  <2>5. \A other \in Runs \ {run} :
          Active(other) => seq'[RecorderOf[other]] = seq[RecorderOf[other]]
    BY <1>5 DEF Stamp, OwnInv
  <2>6. Active(run) /\ phase[run] = "running"
    BY <1>5 DEF Stamp
  <2>7. Alone'
    BY <2>3 DEF OwnInv
  <2>8. ASSUME NEW one \in Runs, one # run PROVE Own(one)'
    BY <2>3, <2>4, <2>5, <2>8 DEF OwnInv
  <2>9. Own(run)'
    BY <2>1, <2>2, <2>3, <2>6 DEF OwnInv
  <2>10. \A one \in Runs : Own(one)'
    <3> HIDE DEF Alone, Own
    <3> QED BY <2>8, <2>9, Zenon
  <2> HIDE DEF Alone, Own
  <2> QED BY <2>7, <2>10, Zenon DEF OwnInv
<1>6. ASSUME NEW run \in Runs, Label(run) PROVE OwnInv'
  BY <1>6 DEF Label, OwnInv, Draft
<1>7. ASSUME NEW run \in Runs, Store(run) \/ Reject(run) PROVE OwnInv'
  BY <1>7 DEF Store, Reject, OwnInv
<1>8. ASSUME NEW run \in Runs, NextEvent(run) PROVE OwnInv'
  BY <1>8 DEF NextEvent, OwnInv
<1>9. ASSUME NEW run \in Runs, EnterBatch(run) PROVE OwnInv'
  BY <1>9 DEF EnterBatch, OwnInv
<1>10. ASSUME NEW run \in Runs, LeaveBatch(run) PROVE OwnInv'
  BY <1>10 DEF LeaveBatch, OwnInv
<1>13. ASSUME NEW run \in Runs, Finish(run) PROVE OwnInv'
  BY <1>13 DEF Finish, OwnInv
<1>11. ASSUME NEW family \in SUBSET Runs, Drop(family) PROVE OwnInv'
  BY <1>11 DEF Drop, OwnInv
<1>12. CASE UNCHANGED vars
  BY <1>12 DEF vars, runs, OwnInv
<1> QED
  BY <1>1, <1>2, <1>3, <1>4, <1>5, <1>6, <1>7, <1>8, <1>9, <1>10, <1>11, <1>12, <1>13
     DEF Next, Recorded, Ended

\* A number above MaxRecords would belong to no single run.
LEMMA NumbersBounded ==
  ASSUME Types, OwnInv, TypeOK, [Next]_vars
  PROVE  seq' \in [Recorders -> 0..MaxRecords]
<1> USE RecorderAssumption DEF TypeOK, recorders
<1>1. ASSUME NEW run \in Runs, Stamp(run) PROVE seq' \in [Recorders -> 0..MaxRecords]
  <2>1. seq[RecorderOf[run]] = made[run] /\ made[run] + 1 \in 0..MaxRecords
    BY <1>1 DEF Stamp, At, Active, OwnInv, Own
  <2> QED BY <2>1, <1>1 DEF Stamp
<1>2. ASSUME NEW run \in Runs, Zero(run) PROVE seq' \in [Recorders -> 0..MaxRecords]
  BY <1>2 DEF Zero
<1>3. ASSUME NEW run \in Runs, Start(run) \/ Forget(run) \/ Learn(run) \/ Label(run)
               \/ Store(run) \/ Reject(run) \/ NextEvent(run)
               \/ EnterBatch(run) \/ LeaveBatch(run) \/ Finish(run)
      PROVE  seq' = seq
  BY <1>3 DEF Start, Forget, Learn, Label, Store, Reject, NextEvent, EnterBatch,
              LeaveBatch, Finish
<1>4. ASSUME NEW family \in SUBSET Runs, Drop(family) PROVE seq' = seq
  BY <1>4 DEF Drop
<1>5. CASE UNCHANGED vars
  BY <1>5 DEF vars
<1> QED BY <1>1, <1>2, <1>3, <1>4, <1>5 DEF Next, Recorded, Ended

-----------------------------------------------------------------------------
(* The log.                                                                  *)

\* The sink took or refused the run's n-th record.
Seen(run, n) ==
  \/ \E j \in DOMAIN log : log[j].run = run /\ log[j].nth = n
  \/ \E record \in rejected : record.run = run /\ record.nth = n

\* Of an active run everything has been seen but the record in the making.
SeenInv ==
  \A run \in Runs : Active(run) =>
    \A n \in Nat :
      n < (IF step[run] \in {"label", "store"} THEN made[run] - 1 ELSE made[run]) =>
        Seen(run, n)

LogInv == Numbered /\ Attributed /\ Ordered /\ SeenInv

\* The initial states satisfy LogInv.
LEMMA LogInit == Init => LogInv
<1> SUFFICES ASSUME Init PROVE LogInv
  OBVIOUS
<1>1. DOMAIN log = {}
  BY DEF Init
<1>2. SeenInv
  BY DEF Init, SeenInv, Active
<1> QED BY <1>1, <1>2 DEF LogInv, Numbered, Attributed, Ordered

\* A record that was seen stays seen.
LEMMA SeenStays ==
  ASSUME Types, log' = log \/ \E record \in Draft : log' = Append(log, record),
         rejected \subseteq rejected', NEW run, NEW n, Seen(run, n)
  PROVE  Seen(run, n)'
<1>1. CASE log' = log
  BY <1>1 DEF Seen
<1>2. CASE \E record \in Draft : log' = Append(log, record)
  <2>1. \A j \in DOMAIN log : j \in DOMAIN log' /\ log'[j] = log[j]
    BY <1>2 DEF Types
  <2> QED BY <2>1 DEF Seen
<1> QED BY <1>1, <1>2

\* Every step preserves LogInv.
LEMMA LogNext ==
  ASSUME Sharing = {}, Types, OwnInv, LogInv, [Next]_vars
  PROVE  LogInv'
<1> USE RecorderAssumption DEF recorders, GoTo, At, Active
<1>1. ASSUME NEW run \in Runs, Store(run) PROVE LogInv'
  <2> DEFINE record == draft[run]  last == Len(log) + 1
  <2>1. /\ Active(run) /\ step[run] = "store" /\ log' = Append(log, record)
        /\ rejected' = rejected /\ phase' = phase /\ made' = made
        /\ step' = [step EXCEPT ![run] = "none"]
        /\ run \in DOMAIN step
    BY <1>1 DEF Store, Types
  <2>2. /\ record \in Draft /\ record.run = run /\ record.nth = record.seq
        /\ record.label = Name(run) /\ record.nth = made[run] - 1
    BY <2>1 DEF OwnInv, Own, Types
  <2>3. /\ DOMAIN log = 1..Len(log) /\ DOMAIN log' = 1..last
        /\ Len(log) \in Nat
        /\ \A i \in DOMAIN log : log'[i] = log[i]
        /\ log'[last] = record
    BY <2>1, <2>2 DEF Types
  <2> HIDE DEF record
  <2>4. Numbered'
    <3> SUFFICES ASSUME NEW i \in DOMAIN log' PROVE log'[i].seq = log'[i].nth
      BY DEF Numbered
    <3>1. CASE i \in DOMAIN log
      BY <3>1, <2>3 DEF LogInv, Numbered
    <3>2. CASE i = last
      BY <3>2, <2>2, <2>3
    <3> QED BY <3>1, <3>2, <2>3
  <2>5. Attributed'
    BY <2>2, <2>3 DEF LogInv, Attributed, Name
  <2>6. \A n \in 0..(record.nth - 1) : Seen(run, n)
    BY <2>1, <2>2 DEF LogInv, SeenInv, Draft
  <2>7. Ordered'
    <3> SUFFICES ASSUME NEW i \in DOMAIN log', NEW n \in 0..(log'[i].nth - 1)
                 PROVE  \/ \E j \in 1..(i - 1) : log'[j].run = log'[i].run /\ log'[j].nth = n
                        \/ \E r \in rejected : r.run = log'[i].run /\ r.nth = n
      BY <2>1 DEF Ordered
    <3>1. CASE i \in DOMAIN log
      <4>1. log'[i] = log[i] /\ \A j \in 1..(i - 1) : log'[j] = log[j]
        BY <3>1, <2>3
      <4> QED BY <4>1, <3>1 DEF LogInv, Ordered
    <3>2. CASE i = last
      <4>1. log'[i] = record /\ Seen(run, n)
        BY <3>2, <2>3, <2>6
      <4> QED BY <4>1, <3>2, <2>2, <2>3 DEF Seen
    <3> QED BY <3>1, <3>2, <2>3
  <2>8. SeenInv'
    <3> SUFFICES ASSUME NEW one \in Runs, Active(one), NEW n \in Nat,
                        n < (IF step'[one] \in {"label", "store"} THEN made[one] - 1 ELSE made[one])
                 PROVE  Seen(one, n)'
      BY <2>1 DEF SeenInv
    <3>1. CASE one = run /\ n = record.nth
      BY <3>1, <2>2, <2>3 DEF Seen
    <3>2. CASE one # run \/ n # record.nth
      <4>1. Seen(one, n)
        BY <3>2, <2>1, <2>2 DEF LogInv, SeenInv, Types
      <4> QED BY <4>1, <2>1, <2>2, SeenStays
    <3> QED BY <3>1, <3>2
  <2> QED BY <2>4, <2>5, <2>7, <2>8 DEF LogInv
<1>2. ASSUME NEW run \in Runs, Reject(run) PROVE LogInv'
  <2>1. /\ Active(run) /\ step[run] = "store" /\ log' = log
        /\ rejected' = rejected \cup {draft[run]} /\ phase' = phase /\ made' = made
        /\ step' = [step EXCEPT ![run] = "none"]
        /\ run \in DOMAIN step
    BY <1>2 DEF Reject, Types
  <2>2. draft[run].run = run /\ draft[run].nth = made[run] - 1
    BY <2>1 DEF OwnInv, Own
  <2>3. Numbered' /\ Attributed' /\ Ordered'
    BY <2>1 DEF LogInv, Numbered, Attributed, Ordered, Name
  <2>4. SeenInv'
    <3> SUFFICES ASSUME NEW one \in Runs, Active(one), NEW n \in Nat,
                        n < (IF step'[one] \in {"label", "store"} THEN made[one] - 1 ELSE made[one])
                 PROVE  Seen(one, n)'
      BY <2>1 DEF SeenInv
    <3>1. CASE one = run /\ n = draft[run].nth
      BY <3>1, <2>1, <2>2 DEF Seen
    <3>2. CASE one # run \/ n # draft[run].nth
      <4>1. Seen(one, n)
        BY <3>2, <2>1, <2>2 DEF LogInv, SeenInv, Types
      <4> QED BY <4>1, <2>1, SeenStays
    <3> QED BY <3>1, <3>2
  <2> QED BY <2>3, <2>4 DEF LogInv
<1>3. ASSUME log' = log, rejected' = rejected, SeenInv' PROVE LogInv'
  BY <1>3 DEF LogInv, Numbered, Attributed, Ordered, Name
<1>4. ASSUME log' = log, rejected' = rejected PROVE \A one, n : Seen(one, n) => Seen(one, n)'
  BY <1>4 DEF Seen
<1>5. ASSUME NEW run \in Runs, Start(run) PROVE LogInv'
  <2>1. SeenInv'
    BY <1>5, <1>4 DEF Start, SeenInv, LogInv, OwnInv, Own, Types
  <2> QED BY <2>1, <1>3, <1>5 DEF Start
<1>6. ASSUME NEW run \in Runs, Zero(run) \/ Forget(run) \/ Learn(run) PROVE LogInv'
  <2>1. SeenInv'
    BY <1>6, <1>4 DEF Zero, Forget, Learn, SeenInv, LogInv, Types
  <2> QED BY <2>1, <1>3, <1>6 DEF Zero, Forget, Learn
<1>7. ASSUME NEW run \in Runs, Stamp(run) PROVE LogInv'
  <2>1. SeenInv'
    BY <1>7, <1>4 DEF Stamp, SeenInv, LogInv, Types
  <2> QED BY <2>1, <1>3, <1>7 DEF Stamp
<1>8. ASSUME NEW run \in Runs, Label(run) PROVE LogInv'
  <2>1. SeenInv'
    BY <1>8, <1>4 DEF Label, SeenInv, LogInv, Types
  <2> QED BY <2>1, <1>3, <1>8 DEF Label
<1>9. ASSUME NEW run \in Runs, NextEvent(run) PROVE LogInv'
  <2>1. SeenInv'
    BY <1>9, <1>4 DEF NextEvent, SeenInv, LogInv, Types
  <2> QED BY <2>1, <1>3, <1>9 DEF NextEvent
<1>10. ASSUME NEW run \in Runs, EnterBatch(run) \/ LeaveBatch(run) \/ Finish(run) PROVE LogInv'
  <2>1. SeenInv'
    BY <1>10, <1>4 DEF EnterBatch, LeaveBatch, Finish, SeenInv, LogInv, Types
  <2> QED BY <2>1, <1>3, <1>10 DEF EnterBatch, LeaveBatch, Finish
<1>11. ASSUME NEW family \in SUBSET Runs, Drop(family) PROVE LogInv'
  <2>1. SeenInv'
    BY <1>11, <1>4 DEF Drop, SeenInv, LogInv, Types
  <2> QED BY <2>1, <1>3, <1>11 DEF Drop
<1>12. CASE UNCHANGED vars
  <2>1. SeenInv'
    BY <1>12, <1>4 DEF vars, runs, SeenInv, LogInv
  <2> QED BY <2>1, <1>3, <1>12 DEF vars
<1> QED
  BY <1>1, <1>2, <1>5, <1>6, <1>7, <1>8, <1>9, <1>10, <1>11, <1>12
     DEF Next, Recorded, Ended

-----------------------------------------------------------------------------
(* The theorems.  Each supposes what the comment in on_event asks for, that *)
(* runs which are going at the same time have recorders of their own.       *)

\* The three invariants hold together.
LEMMA Together ==
  ASSUME Sharing = {}
  PROVE  Spec => [](Types /\ OwnInv /\ LogInv)
<1>1. Init => Types /\ OwnInv /\ LogInv
  BY TypesInit, OwnInit, LogInit
<1>2. Types /\ OwnInv /\ LogInv /\ [Next]_vars => (Types /\ OwnInv /\ LogInv)'
  BY TypesNext, OwnNext, LogNext
<1> QED BY <1>1, <1>2, PTL DEF Spec

\* Types of all variables, the bound of the recorders' numbers included.
THEOREM TypeCorrect ==
  ASSUME Sharing = {}
  PROVE  Spec => []TypeOK
<1>1. Init => TypeOK
  BY TypesInit, RecorderAssumption DEF Types, TypeOK, Init
<1>2. TypeOK /\ Types /\ OwnInv /\ [Next]_vars => TypeOK'
  BY TypesNext, NumbersBounded DEF Types, TypeOK
<1> QED BY <1>1, <1>2, Together, PTL DEF Spec

\* record: the numbers of a run's records are 0, 1, 2, ... in the order in which
\* its events were emitted, however often the recorder was used before.
THEOREM RecordsAreNumbered ==
  ASSUME Sharing = {}
  PROVE  Spec => []Numbered
<1>1. LogInv => Numbered
  BY DEF LogInv
<1> QED BY <1>1, Together, PTL

\* on_event: every record carries the identity of its own run, and that of a run
\* without identity carries none.
THEOREM RecordsAreAttributed ==
  ASSUME Sharing = {}
  PROVE  Spec => []Attributed
<1>1. LogInv => Attributed
  BY DEF LogInv
<1> QED BY <1>1, Together, PTL

\* record: a consumer that sees a record has seen all earlier ones of its run but
\* those the sink refused.
THEOREM RecordsAreOrdered ==
  ASSUME Sharing = {}
  PROVE  Spec => []Ordered
<1>1. LogInv => Ordered
  BY DEF LogInv
<1> QED BY <1>1, Together, PTL
=============================================================================
