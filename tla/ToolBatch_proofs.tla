--------------------------- MODULE ToolBatch_proofs ---------------------------
(***************************************************************************)
(* Proofs about ToolBatch, for every batch, every set of tools and flags,  *)
(* every limit and allowlist and whatever the after-hooks decide.          *)
(***************************************************************************)
EXTENDS ToolBatch, FiniteSetTheorems, WellFoundedInduction, TLAPS

\* The batch and what it runs under are inputs: no step changes them.
LEMMA JobNext == [Next]_vars => job' = job
  BY DEF Next, vars, Step, Prepare, Refuse, Invoke, ToolReturns, Settle, Finalize, Skip,
         AnswerOverLimit, Synthesize, EmitEnd, Turn, StartDrain, Collect, TurnToExcess,
         Return, Cancel, Ended

\* What is computed from the job alone never changes either.
LEMMA StaticsNext ==
  ASSUME [Next]_vars
  PROVE  /\ Executable' = Executable
         /\ OverLimit' = OverLimit
         /\ Sequential' = Sequential
         /\ \A p : MayRun(p)' <=> MayRun(p)
         /\ \A p : AbortsOnError(p)' <=> AbortsOnError(p)
<1>1. /\ job' = job
      /\ calls' = calls
      /\ allow' = allow
      /\ Limit' = Limit
  BY JobNext DEF calls, allow, Limit
<1>2. \A p : CountedUpTo(p)' = CountedUpTo(p) /\ CountsTowardLimit(calls[p])' = CountsTowardLimit(calls[p])
  BY <1>1 DEF CountedUpTo, CountsTowardLimit
<1>3. MaxExecuted' = MaxExecuted
  BY <1>1 DEF MaxExecuted
<1>4. Executable' = Executable
  BY <1>1, <1>2, <1>3 DEF Executable
<1> QED
  BY <1>1, <1>4 DEF OverLimit, Sequential, MayRun, AbortsOnError

\* The after-hooks turn an outcome into an outcome.
LEMMA HooksKeepOutcome ==
  ASSUME NEW o \in Outcome, NEW d \in HookDecisions
  PROVE  ApplyHooks(o, d) \in Outcome
<1>1. d \in Decision
  BY BatchAssumption
<1> DEFINE r == IF d.result = Keep THEN o ELSE d.result
<1>2. r \in Outcome
  BY <1>1 DEF Decision
<1>3. d.mark \in BOOLEAN \cup {Keep} /\ d.term \in BOOLEAN \cup {Keep}
  BY <1>1 DEF Decision
<1>4. r.error \in BOOLEAN /\ r.term \in BOOLEAN
  BY <1>2 DEF Outcome
<1> HIDE DEF r
<1>5. [error |-> IF d.mark = Keep THEN r.error ELSE d.mark,
       term  |-> IF d.term = Keep THEN r.term ELSE d.term] \in Outcome
  BY <1>3, <1>4 DEF Outcome
<1> QED
  BY <1>5 DEF ApplyHooks, r
-----------------------------------------------------------------------------
(* Types. *)

\* The initial states are well typed.
LEMMA TypeInit == Init => TypeOK
<1> SUFFICES ASSUME Init PROVE TypeOK
  OBVIOUS
<1>1. Failure \in Outcome
  BY DEF Failure, Outcome
<1>2. results \in Seq(Pos)
  BY DEF Init
<1> QED
  BY <1>1, <1>2 DEF Init, TypeOK, Status, Origin, Loops, Executable

\* Every step keeps the types.
LEMMA TypeNext == TypeOK /\ [Next]_vars => TypeOK'
<1> SUFFICES ASSUME TypeOK, [Next]_vars PROVE TypeOK'
  OBVIOUS
<1> Failure \in Outcome
  BY DEF Failure, Outcome
<1> USE DEF TypeOK, Status, Origin, Loops
<1> USE DEF lists
<1>0. Executable \subseteq Pos /\ OverLimit \subseteq Pos
  BY DEF Executable, OverLimit
<1>1. ASSUME NEW p \in Pos, Prepare(p) PROVE TypeOK'
  BY <1>1 DEF Prepare, TakeNext
<1>2. ASSUME NEW p \in Pos, Refuse(p) PROVE TypeOK'
  BY <1>2 DEF Refuse, TakeNext
<1>3. ASSUME NEW p \in Pos, Invoke(p) PROVE TypeOK'
  BY <1>3 DEF Invoke
<1>4. ASSUME NEW p \in Pos, ToolReturns(p) PROVE TypeOK'
  BY <1>4 DEF ToolReturns
<1>5. ASSUME NEW p \in Pos, Settle(p) PROVE TypeOK'
  BY <1>5 DEF Settle
<1>6. ASSUME NEW p \in Pos, Finalize(p) PROVE TypeOK'
  <2>1. PICK d \in HookDecisions :
          /\ out' = [out EXCEPT ![p] = ApplyHooks(out[p], d)]
          /\ siblingAbort' = (siblingAbort \/ StopsSiblings(p, ApplyHooks(out[p], d)))
    BY <1>6 DEF Finalize
  <2>2. out' \in [Pos -> Outcome]
    BY <2>1, HooksKeepOutcome
  <2>3. siblingAbort' \in BOOLEAN
    BY <2>1
  <2>4. /\ futures' \in SUBSET Pos /\ immediate' \in SUBSET Pos /\ completed' \in SUBSET Pos
        /\ pc' \in {pc, "emit"}
    BY <1>6 DEF Finalize
  <2>5. /\ status' = [status EXCEPT ![p] = "done"]
        /\ UNCHANGED <<job, origin, started, remaining, results, cancelled>>
    BY <1>6 DEF Finalize
  <2> QED BY <2>2, <2>3, <2>4, <2>5
<1>7. ASSUME NEW p \in Pos, Skip(p) \/ AnswerOverLimit(p) PROVE TypeOK'
  <2>1. PICK reason \in {"skipped", "over"} : Synthesize(p, reason)
    BY <1>7 DEF Skip, AnswerOverLimit
  <2>2. PICK d \in HookDecisions : out' = [out EXCEPT ![p] = ApplyHooks(Failure, d)]
    BY <2>1 DEF Synthesize
  <2>3. out' \in [Pos -> Outcome]
    BY <2>2, HooksKeepOutcome
  <2> QED BY <2>1, <2>3 DEF Synthesize
<1>8. ASSUME NEW p \in Pos, EmitEnd(p) PROVE TypeOK'
  <2>1. pc' \in {pc, "skip", "prepare"} /\ completed' \in SUBSET Pos
    BY <1>8 DEF EmitEnd
  <2> QED BY <1>8, <2>1 DEF EmitEnd
<1>9. CASE Turn \/ Cancel
  BY <1>0, <1>9 DEF Turn, StartDrain, Collect, TurnToExcess, Return, Cancel
<1>10. CASE UNCHANGED vars
  BY <1>10 DEF vars
<1> QED
  BY <1>1, <1>2, <1>3, <1>4, <1>5, <1>6, <1>7, <1>8, <1>9, <1>10 DEF Next, Step, Ended

\* Every variable keeps its type.
THEOREM TypeCorrect == Spec => []TypeOK
  BY TypeInit, TypeNext, PTL DEF Spec
-----------------------------------------------------------------------------
(* The life of a call: what its status says of its origin, and what must    *)
(* have happened for it to get there.                                       *)

\* Invoked, or about to be.
Admitted(p) ==
  \/ status[p] \in {"ready", "running", "returned"}
  \/ origin[p] \in {"tool", "sibling"}

LifeInv ==
  \A p \in Pos :
    /\ p \in started <=> Admitted(p)
    /\ Admitted(p) => MayRun(p) /\ p \in Executable
    /\ status[p] \in {"todo", "ready", "running"} => origin[p] = "none"
    /\ status[p] = "returned" => origin[p] \in {"tool", "aborted", "fatal"}
    /\ status[p] = "executed" => origin[p] \in {"tool", "sibling", "refused"}
    /\ status[p] = "done" => origin[p] \in {"tool", "sibling", "refused", "skipped", "over"}
    /\ origin[p] \in {"skipped", "over"} => status[p] = "done"
    /\ origin[p] = "over" => p \in OverLimit
    /\ status[p] \notin {"todo", "done"} => p \in Executable
    /\ p \in Answered => status[p] = "done"

\* A result that is announced joins those that were.
LEMMA AnsweredGrows ==
  ASSUME TypeOK, NEW p \in Pos, results' = Append(results, p)
  PROVE  Answered' = Answered \cup {p}
  BY DEF TypeOK, Answered

\* Where each call is.  The executor moves the calls from one list to the next
\* and never looks back: that no call is lost or held twice on the way is what
\* the answers rest on.
Home == IF pc \in {"excess", "done"} THEN Pos ELSE Executable

Held ==
  \A p \in Pos :
    /\ p \in remaining <=> status[p] = "todo" /\ p \in Home
    /\ p \in futures <=> status[p] \notin {"todo", "done"} /\ origin[p] # "refused"
    /\ p \in immediate => status[p] \in {"executed", "done"} /\ origin[p] = "refused"
    /\ status[p] = "executed" /\ origin[p] = "refused" => p \in immediate
    /\ p \in completed \cup Answered => status[p] = "done" /\ p \notin immediate
    /\ ~(p \in completed /\ p \in Answered)
    /\ status[p] = "done" => p \in completed \cup Answered \cup immediate

\* What each loop has left behind.
Phase ==
  /\ \A p \in Pos : p \notin Home => status[p] = "todo"
  /\ pc \in {"emit", "skip", "excess", "done"} => futures = {} /\ immediate = {}
  /\ pc = "prepare" => completed = {} /\ (Sequential => futures = {} /\ immediate = {})
  /\ pc = "drain" /\ Sequential =>
       /\ completed = {}
       /\ immediate \subseteq Refused
       /\ \A p, q \in futures \cup immediate : p = q
  /\ pc \in {"drain", "emit"} /\ ~Sequential => remaining = {}
  /\ pc = "emit" /\ Sequential => \A p, q \in completed : p = q
  /\ pc = "skip" => Sequential
  /\ pc \in {"excess", "done"} => Executable \subseteq Answered
  /\ pc = "done" => remaining = {} /\ completed = {}

PlaceInv == Held /\ Phase

\* The call that is taken from those that remain has not been looked at.
LEMMA TakenIsNew ==
  ASSUME TypeOK, LifeInv, PlaceInv, NEW p \in Pos, p \in remaining
  PROVE  /\ status[p] = "todo" /\ origin[p] = "none" /\ p \in Home
         /\ p \notin futures /\ p \notin immediate /\ p \notin completed /\ p \notin Answered
  BY DEF LifeInv, PlaceInv, Held

\* A call that was looked at, when nothing is being executed or set aside.
LEMMA RestingIsDone ==
  ASSUME TypeOK, LifeInv, PlaceInv, NEW p \in Pos,
         status[p] # "todo", futures = {}, immediate = {}
  PROVE  status[p] = "done" /\ p \in completed \cup Answered
<1>1. p \notin futures /\ p \notin immediate
  OBVIOUS
<1>2. status[p] \in Status
  BY DEF TypeOK
<1>3. origin[p] # "refused" \/ status[p] \in {"executed", "done"}
  BY <1>2 DEF LifeInv, Status
<1> QED
  BY <1>1, <1>2, <1>3 DEF PlaceInv, Held, Status

\* The lists of one loop are those of the next, until the excess is taken on.
LEMMA HomeStays ==
  ASSUME [Next]_vars, pc' \notin {"excess", "done"}, pc \notin {"excess", "done"}
  PROVE  Home' = Home /\ Home = Executable
  BY StaticsNext DEF Home

\* Every step keeps the places, for the calls a loop takes up...
LEMMA PlaceTaken ==
  ASSUME TypeOK, LifeInv, PlaceInv, [Next]_vars, NEW p \in Pos,
         Prepare(p) \/ Refuse(p)
  PROVE  PlaceInv'
<1> USE DEF TypeOK
<1>1. pc = "prepare" /\ p \in remaining /\ pc' = IF Sequential THEN "drain" ELSE "prepare"
  BY DEF Prepare, Refuse, TakeNext, IsFirst
<1>2. /\ status[p] = "todo" /\ origin[p] = "none" /\ p \in Home
      /\ p \notin futures /\ p \notin immediate /\ p \notin completed /\ p \notin Answered
  BY <1>1, TakenIsNew
<1>3. Home' = Home /\ Home = Executable /\ Answered' = Answered
  BY <1>1, HomeStays DEF Prepare, Refuse, Answered
<1>4. /\ remaining' = remaining \ {p} /\ completed' = completed
      /\ completed = {} /\ (Sequential => futures = {} /\ immediate = {})
  BY <1>1 DEF Prepare, Refuse, TakeNext, PlaceInv, Phase
<1>5. CASE Prepare(p)
  <2>1. /\ status' = [status EXCEPT ![p] = "ready"] /\ origin' = origin
        /\ futures' = futures \cup {p} /\ immediate' = immediate
    BY <1>5 DEF Prepare
  <2>2. Held'
    BY <1>2, <1>3, <1>4, <2>1 DEF PlaceInv, Held
  <2>3. \A q \in Pos : q \notin Home' => status'[q] = "todo"
    BY <1>2, <1>3, <2>1 DEF PlaceInv, Phase
  <2>4. Sequential' => \A q, r \in futures' \cup immediate' : q = r
    BY <1>4, <2>1, StaticsNext
  <2>5. Sequential' => immediate' = {}
    BY <1>4, <2>1, StaticsNext
  <2> QED BY <1>1, <1>3, <1>4, <2>2, <2>3, <2>4, <2>5, StaticsNext DEF PlaceInv, Phase
<1>6. CASE Refuse(p)
  <2>1. /\ status' = [status EXCEPT ![p] = "executed"] /\ origin' = [origin EXCEPT ![p] = "refused"]
        /\ futures' = futures /\ immediate' = immediate \cup {p}
    BY <1>6 DEF Refuse
  <2>2. Held'
    BY <1>2, <1>3, <1>4, <2>1 DEF PlaceInv, Held
  <2>3. \A q \in Pos : q \notin Home' => status'[q] = "todo"
    BY <1>2, <1>3, <2>1 DEF PlaceInv, Phase
  <2>4. Sequential' => \A q, r \in futures' \cup immediate' : q = r
    BY <1>4, <2>1, StaticsNext
  <2>5. Sequential' => immediate' \subseteq Refused'
    BY <1>4, <2>1, StaticsNext DEF Refused
  <2> QED BY <1>1, <1>3, <1>4, <2>2, <2>3, <2>4, <2>5, StaticsNext DEF PlaceInv, Phase
<1> QED
  BY <1>5, <1>6

\* ... for those it executes...
LEMMA PlaceRun ==
  ASSUME TypeOK, LifeInv, PlaceInv, [Next]_vars, NEW p \in Pos,
         Invoke(p) \/ ToolReturns(p) \/ Settle(p)
  PROVE  PlaceInv'
<1> USE DEF TypeOK
<1>1. /\ pc = "drain" /\ pc' \in {"drain", "aborted", "fatal"}
      /\ UNCHANGED <<lists, results>>
      /\ \A q \in Pos \ {p} : status'[q] = status[q] /\ origin'[q] = origin[q]
      /\ status[p] \in {"ready", "running", "returned"}
      /\ status'[p] \in {"running", "returned", "executed"}
      /\ origin'[p] # "refused"
  BY DEF Invoke, ToolReturns, Settle, LifeInv
<1>2. UNCHANGED <<remaining, futures, immediate, completed>>
  BY <1>1 DEF lists
<1>3. Home' = Home /\ Home = Executable /\ Answered' = Answered
  BY <1>1, HomeStays DEF Answered
<1>4. p \in futures /\ p \notin immediate /\ p \in Home
  BY <1>1 DEF PlaceInv, Held, Phase, LifeInv
<1>5. Held'
  BY <1>1, <1>2, <1>3, <1>4 DEF PlaceInv, Held
<1>6. \A q \in Pos : q \notin Home' => status'[q] = "todo"
  BY <1>1, <1>3, <1>4 DEF PlaceInv, Phase
<1>7. Refused' = Refused
  BY <1>1, <1>2, <1>4 DEF Refused
<1> QED
  BY <1>1, <1>2, <1>3, <1>5, <1>6, <1>7, StaticsNext DEF PlaceInv, Phase

\* ... finalizes...
LEMMA PlaceFinalized ==
  ASSUME TypeOK, LifeInv, PlaceInv, [Next]_vars, NEW p \in Pos, Finalize(p)
  PROVE  PlaceInv'
<1> USE DEF TypeOK
<1>1. /\ pc = "drain" /\ status[p] = "executed"
      /\ status' = [status EXCEPT ![p] = "done"]
      /\ UNCHANGED <<origin, remaining, results>>
      /\ origin[p] \in {"tool", "sibling", "refused"}
  BY DEF Finalize, LifeInv
<1>2. pc' \in {"drain", "emit"}
  BY <1>1 DEF Finalize
<1>3. Home' = Home /\ Home = Executable /\ Answered' = Answered
  BY <1>1, <1>2, HomeStays DEF Answered
<1>4. p \in Home /\ p \notin Answered /\ p \notin completed /\ p \in futures \cup immediate
  BY <1>1 DEF PlaceInv, Held, Phase
<1>5. \A q \in Pos : q \notin Home' => status'[q] = "todo"
  BY <1>1, <1>3, <1>4 DEF PlaceInv, Phase
<1>6. CASE /\ futures' = futures \ {p} /\ immediate' = immediate \ {p}
           /\ completed' = completed \cup {p}
           /\ pc' = IF Sequential THEN "emit" ELSE pc
  <2>1. Held'
    BY <1>1, <1>3, <1>4, <1>6 DEF PlaceInv, Held
  <2>2. CASE Sequential
    <3>1. futures' = {} /\ immediate' = {} /\ completed' = {p} /\ pc' = "emit"
      BY <1>1, <1>4, <1>6, <2>2 DEF PlaceInv, Phase
    <3> QED BY <1>5, <2>1, <2>2, <3>1, StaticsNext DEF PlaceInv, Phase
  <2>3. CASE ~Sequential
    <3>1. pc' = "drain" /\ remaining' = {}
      BY <1>1, <1>6, <2>3 DEF PlaceInv, Phase
    <3> QED BY <1>5, <2>1, <2>3, <3>1, StaticsNext DEF PlaceInv, Phase
  <2> QED BY <2>2, <2>3
<1>7. CASE /\ p \in immediate /\ ~Sequential
           /\ UNCHANGED <<futures, immediate, completed, pc>>
  <2>1. Held'
    BY <1>1, <1>3, <1>4, <1>7 DEF PlaceInv, Held
  <2>2. pc' = "drain" /\ remaining' = {}
    BY <1>1, <1>7 DEF PlaceInv, Phase
  <2> QED BY <1>5, <1>7, <2>1, <2>2, StaticsNext DEF PlaceInv, Phase
<1> QED
  BY <1>6, <1>7 DEF Finalize

\* ... answers without a tool...
LEMMA PlaceSynthesized ==
  ASSUME TypeOK, LifeInv, PlaceInv, [Next]_vars, NEW p \in Pos,
         Skip(p) \/ AnswerOverLimit(p)
  PROVE  PlaceInv'
<1> USE DEF TypeOK
<1>1. /\ pc \in {"skip", "excess"} /\ pc' = pc /\ p \in remaining
      /\ remaining' = remaining \ {p} /\ completed = {} /\ completed' = {p}
      /\ UNCHANGED <<futures, immediate, results>>
      /\ status' = [status EXCEPT ![p] = "done"]
      /\ \A q \in Pos \ {p} : origin'[q] = origin[q]
      /\ origin'[p] # "refused"
  BY DEF Skip, AnswerOverLimit, Synthesize, IsFirst
<1>2. /\ status[p] = "todo" /\ p \in Home
      /\ p \notin futures /\ p \notin immediate /\ p \notin Answered
  BY <1>1, TakenIsNew
<1>3. Home' = Home /\ Answered' = Answered
  BY <1>1, StaticsNext DEF Answered, Home
<1>4. Held'
  BY <1>1, <1>2, <1>3 DEF PlaceInv, Held
<1>5. \A q \in Pos : q \notin Home' => status'[q] = "todo"
  BY <1>1, <1>2, <1>3 DEF PlaceInv, Phase
<1> QED
  BY <1>1, <1>3, <1>4, <1>5, StaticsNext DEF PlaceInv, Phase

\* ... and announces.
LEMMA PlaceEmitted ==
  ASSUME TypeOK, LifeInv, PlaceInv, [Next]_vars, NEW p \in Pos, EmitEnd(p)
  PROVE  PlaceInv'
<1> USE DEF TypeOK
<1>1. /\ pc \in {"emit", "skip", "excess"} /\ p \in completed
      /\ completed' = completed \ {p} /\ results' = Append(results, p)
      /\ UNCHANGED <<status, origin, remaining, futures, immediate>>
      /\ pc' = IF ~(Sequential /\ pc = "emit") THEN pc
               ELSE IF FailedPrerequisite(p) THEN "skip" ELSE "prepare"
  BY DEF EmitEnd, IsFirst
<1>2. Answered' = Answered \cup {p}
  BY <1>1, AnsweredGrows
<1>3. Home' = Home
  BY <1>1, StaticsNext DEF Home
<1>4. Held'
  BY <1>1, <1>2, <1>3 DEF PlaceInv, Held
<1>5. \A q \in Pos : q \notin Home' => status'[q] = "todo"
  BY <1>1, <1>3 DEF PlaceInv, Phase
<1>6. futures' = {} /\ immediate' = {}
  BY <1>1 DEF PlaceInv, Phase
<1>7. CASE Sequential /\ pc = "emit"
  <2>1. completed' = {} /\ pc' \in {"skip", "prepare"}
    BY <1>1, <1>7 DEF PlaceInv, Phase
  <2> QED BY <1>4, <1>5, <1>6, <1>7, <2>1, StaticsNext DEF PlaceInv, Phase
<1>8. CASE ~(Sequential /\ pc = "emit")
  <2>1. pc' = pc
    BY <1>1, <1>8
  <2>2. pc = "excess" => Executable \subseteq Answered'
    BY <1>2 DEF PlaceInv, Phase
  <2>3. pc = "emit" => remaining' = {}
    BY <1>1, <1>8 DEF PlaceInv, Phase
  <2>4. pc = "skip" => Sequential
    BY DEF PlaceInv, Phase
  <2> QED BY <1>1, <1>4, <1>5, <1>6, <1>8, <2>1, <2>2, <2>3, <2>4, StaticsNext DEF PlaceInv, Phase
<1> QED
  BY <1>7, <1>8

\* Between the loops no call is dropped.
LEMMA PlaceTurned ==
  ASSUME TypeOK, LifeInv, PlaceInv, [Next]_vars, Turn
  PROVE  PlaceInv'
<1> USE DEF TypeOK
<1>1. UNCHANGED <<status, origin, results>>
  BY DEF Turn, StartDrain, Collect, TurnToExcess, Return
<1>2. Answered' = Answered
  BY <1>1 DEF Answered
<1>3. CASE StartDrain
  <2>1. /\ pc = "prepare" /\ pc' = "drain" /\ ~Sequential /\ remaining = {}
        /\ UNCHANGED <<remaining, futures, immediate, completed>>
    BY <1>3 DEF StartDrain, lists
  <2>2. Home' = Home
    BY <2>1, HomeStays
  <2>3. Held'
    BY <1>1, <1>2, <2>1, <2>2 DEF PlaceInv, Held
  <2> QED BY <1>1, <2>1, <2>2, <2>3, StaticsNext DEF PlaceInv, Phase
<1>4. CASE Collect
  <2>1. /\ pc = "drain" /\ pc' = "emit" /\ ~Sequential /\ futures = {} /\ Refused = {}
        /\ completed' = completed \cup immediate /\ immediate' = {}
        /\ UNCHANGED <<remaining, futures>>
    BY <1>4 DEF Collect
  <2>2. Home' = Home
    BY <2>1, HomeStays
  <2>3. \A p \in immediate : p \in Pos /\ status[p] = "done" /\ p \notin Answered /\ p \notin completed
    BY <2>1 DEF PlaceInv, Held, Refused
  <2>4. Held'
    <3> SUFFICES ASSUME NEW p \in Pos
                 PROVE  /\ p \in remaining' <=> status'[p] = "todo" /\ p \in Home'
                        /\ p \in futures' <=> status'[p] \notin {"todo", "done"} /\ origin'[p] # "refused"
                        /\ p \in immediate' => status'[p] \in {"executed", "done"} /\ origin'[p] = "refused"
                        /\ status'[p] = "executed" /\ origin'[p] = "refused" => p \in immediate'
                        /\ p \in completed' \cup Answered' => status'[p] = "done" /\ p \notin immediate'
                        /\ ~(p \in completed' /\ p \in Answered')
                        /\ status'[p] = "done" => p \in completed' \cup Answered' \cup immediate'
      BY DEF Held
    <3>1. ~(status[p] = "executed" /\ origin[p] = "refused")
      BY <2>3 DEF PlaceInv, Held
    <3> QED BY <1>1, <1>2, <2>1, <2>2, <2>3, <3>1 DEF PlaceInv, Held
  <2> QED BY <1>1, <2>1, <2>2, <2>4, StaticsNext DEF PlaceInv, Phase
<1>5. CASE TurnToExcess
  <2>1. /\ pc \in {"emit", "skip"} \/ (pc = "prepare" /\ Sequential)
        /\ remaining = {} /\ completed = {} /\ remaining' = OverLimit /\ pc' = "excess"
        /\ UNCHANGED <<futures, immediate, completed>>
    BY <1>5 DEF TurnToExcess
  <2>2. Home = Executable /\ Home' = Pos /\ OverLimit = Pos \ Executable /\ Executable \subseteq Pos
    BY <2>1 DEF Home, OverLimit, Executable
  <2>3. futures = {} /\ immediate = {}
    BY <2>1 DEF PlaceInv, Phase
  <2>4. \A p \in Executable : p \in Pos /\ status[p] = "done" /\ p \in Answered
    <3> SUFFICES ASSUME NEW p \in Executable PROVE p \in Pos /\ status[p] = "done" /\ p \in Answered
      OBVIOUS
    <3>1. p \in Pos /\ status[p] # "todo"
      BY <2>1, <2>2 DEF PlaceInv, Held
    <3> QED BY <2>1, <2>3, <3>1, RestingIsDone
  <2>5. \A p \in OverLimit : status[p] = "todo"
    BY <2>2 DEF PlaceInv, Phase
  <2>6. Held'
    BY <1>1, <1>2, <2>1, <2>2, <2>3, <2>4, <2>5 DEF PlaceInv, Held
  <2> QED BY <1>1, <1>2, <2>1, <2>2, <2>3, <2>4, <2>6, StaticsNext DEF PlaceInv, Phase
<1>6. CASE Return
  <2>1. /\ pc = "excess" /\ pc' = "done" /\ remaining = {} /\ completed = {}
        /\ UNCHANGED <<remaining, futures, immediate, completed>>
    BY <1>6 DEF Return, lists
  <2>2. Home' = Home
    BY <2>1 DEF Home
  <2>3. Held'
    BY <1>1, <1>2, <2>1, <2>2 DEF PlaceInv, Held
  <2> QED BY <1>1, <1>2, <2>1, <2>2, <2>3, StaticsNext DEF PlaceInv, Phase
<1> QED
  BY <1>3, <1>4, <1>5, <1>6 DEF Turn

\* Every step keeps it.
LEMMA PlaceNext == TypeOK /\ LifeInv /\ PlaceInv /\ [Next]_vars => PlaceInv'
<1> SUFFICES ASSUME TypeOK, LifeInv, PlaceInv, [Next]_vars PROVE PlaceInv'
  OBVIOUS
<1>1. ASSUME UNCHANGED <<status, origin, lists, results, pc>> PROVE PlaceInv'
  <2>1. UNCHANGED <<status, origin, remaining, futures, immediate, completed, results, pc>>
    BY <1>1 DEF lists
  <2>2. Home' = Home /\ Answered' = Answered /\ Refused' = Refused
    BY <2>1, StaticsNext DEF Home, Answered, Refused
  <2>3. Held'
    BY <2>1, <2>2 DEF PlaceInv, Held
  <2> QED BY <2>1, <2>2, <2>3, StaticsNext DEF PlaceInv, Phase
<1>2. CASE Cancel \/ UNCHANGED vars
  BY <1>1, <1>2 DEF Cancel, vars
<1> QED
  BY <1>2, PlaceTaken, PlaceRun, PlaceFinalized, PlaceSynthesized, PlaceEmitted, PlaceTurned
  DEF Next, Step, Ended

\* Before the first step every call to execute remains.
LEMMA PlaceInit == Init => PlaceInv
<1> SUFFICES ASSUME Init PROVE PlaceInv
  OBVIOUS
<1>1. Answered = {} /\ Home = Executable /\ Executable \subseteq Pos
  BY DEF Init, Answered, Home, Executable
<1> QED
  BY <1>1 DEF Init, PlaceInv, Held, Phase

\* Every step keeps what the status of a call says of its origin.
LEMMA LifeNext == TypeOK /\ LifeInv /\ PlaceInv /\ [Next]_vars => LifeInv'
<1> SUFFICES ASSUME TypeOK, LifeInv, PlaceInv, [Next]_vars PROVE LifeInv'
  OBVIOUS
<1> USE StaticsNext DEF TypeOK, LifeInv, Admitted
<1>0. results' = results => Answered' = Answered
  BY DEF Answered
<1>1. ASSUME NEW p \in Pos, Prepare(p) PROVE LifeInv'
  <2>1. status[p] = "todo" /\ p \in Executable
    BY <1>1, TakenIsNew DEF Prepare, TakeNext, IsFirst, Home
  <2> QED BY <1>0, <1>1, <2>1 DEF Prepare
<1>2. ASSUME NEW p \in Pos, Refuse(p) PROVE LifeInv'
  <2>1. status[p] = "todo" /\ p \in Executable
    BY <1>2, TakenIsNew DEF Refuse, TakeNext, IsFirst, Home
  <2> QED BY <1>0, <1>2, <2>1 DEF Refuse
<1>3. ASSUME NEW p \in Pos, Invoke(p) PROVE LifeInv'
  BY <1>0, <1>3 DEF Invoke
<1>4. ASSUME NEW p \in Pos, ToolReturns(p) PROVE LifeInv'
  BY <1>0, <1>4 DEF ToolReturns
<1>5. ASSUME NEW p \in Pos, Settle(p) PROVE LifeInv'
  BY <1>0, <1>5 DEF Settle
<1>6. ASSUME NEW p \in Pos, Finalize(p) PROVE LifeInv'
  BY <1>0, <1>6 DEF Finalize
<1>7. ASSUME NEW p \in Pos, Skip(p) \/ AnswerOverLimit(p) PROVE LifeInv'
  <2>1. status[p] = "todo"
    BY <1>7, TakenIsNew DEF Skip, AnswerOverLimit, Synthesize, IsFirst
  <2>2. PICK reason \in {"skipped", "over"} :
          Synthesize(p, reason) /\ (reason = "over" => p \in OverLimit)
    <3>1. CASE Skip(p)
      BY <3>1 DEF Skip
    <3>2. CASE AnswerOverLimit(p)
      <4>1. p \notin Executable
        BY <2>1, <3>2 DEF AnswerOverLimit, PlaceInv, Phase
      <4> QED BY <3>2, <4>1 DEF AnswerOverLimit, OverLimit
    <3> QED BY <1>7, <3>1, <3>2
  <2> QED BY <1>0, <2>1, <2>2 DEF Synthesize
<1>8. ASSUME NEW p \in Pos, EmitEnd(p) PROVE LifeInv'
  <2>1. status[p] = "done" /\ Answered' = Answered \cup {p}
    BY <1>8, AnsweredGrows DEF EmitEnd, IsFirst, PlaceInv, Held
  <2> QED BY <1>8, <2>1 DEF EmitEnd
<1>9. CASE Turn \/ Cancel
  BY <1>0, <1>9 DEF Turn, StartDrain, Collect, TurnToExcess, Return, Cancel
<1>10. CASE UNCHANGED vars
  BY <1>0, <1>10 DEF vars
<1> QED
  BY <1>1, <1>2, <1>3, <1>4, <1>5, <1>6, <1>7, <1>8, <1>9, <1>10 DEF Next, Step, Ended

\* The initial states satisfy it.
LEMMA LifeInit == Init => LifeInv
<1> SUFFICES ASSUME Init PROVE LifeInv
  OBVIOUS
<1>1. Answered = {}
  BY DEF Init, Answered
<1> QED
  BY <1>1 DEF Init, LifeInv, Admitted

\* Both hold in every reachable state.
LEMMA Life == Spec => [](LifeInv /\ PlaceInv)
  BY LifeInit, LifeNext, PlaceInit, PlaceNext, TypeCorrect, PTL DEF Spec

\* Only what the registry, the allowlist and the limit admit is ever executed.
THEOREM OnlyAdmitted == Spec => []OnlyAdmittedRuns
<1>1. LifeInv => OnlyAdmittedRuns
  BY DEF LifeInv, OnlyAdmittedRuns, Admitted
<1> QED
  BY <1>1, Life, PTL

\* Starts and ends pair up for executed calls, and for no others.
THEOREM StartsAreEnded == Spec => []StartsMatchEnds
<1>1. TypeOK /\ LifeInv => StartsMatchEnds
  BY DEF TypeOK, LifeInv, StartsMatchEnds, Admitted, Answered
<1> QED
  BY <1>1, Life, TypeCorrect, PTL
-----------------------------------------------------------------------------
(* Who aborted.  A tool reports an abort only when its signal was set, and   *)
(* signals stay set, so the classification of the abort, made later, cannot  *)
(* be wrong about the caller; and batch_token is only ever cancelled behind  *)
(* a call whose failure is final.                                            *)

\* A call that ran, failed for good, and takes its siblings with it.
Culprit(q) ==
  /\ q \in Executable
  /\ FailedPrerequisite(q)
  /\ origin[q] \in {"tool", "sibling"}

AbortInv ==
  /\ pc = "aborted" => cancelled
  /\ \A p \in Pos : status[p] = "returned" /\ origin[p] = "aborted" => Signalled
  /\ siblingAbort => \E q \in Pos : Culprit(q)
  /\ \A p \in Pos : origin[p] = "sibling" => \E q \in Pos \ {p} : Culprit(q)

\* No step touches a finished call.
LEMMA FinishedStays ==
  ASSUME TypeOK, LifeInv, PlaceInv, [Next]_vars, NEW q \in Pos, status[q] = "done"
  PROVE  status'[q] = status[q] /\ out'[q] = out[q] /\ origin'[q] = origin[q]
<1> USE DEF TypeOK
<1>1. ASSUME NEW p \in Pos, Prepare(p) \/ Refuse(p)
      PROVE  status'[q] = status[q] /\ out'[q] = out[q] /\ origin'[q] = origin[q]
  BY <1>1, TakenIsNew DEF Prepare, Refuse, TakeNext, IsFirst
<1>2. ASSUME NEW p \in Pos, Invoke(p) \/ ToolReturns(p)
      PROVE  status'[q] = status[q] /\ out'[q] = out[q] /\ origin'[q] = origin[q]
  BY <1>2 DEF Invoke, ToolReturns
<1>3. ASSUME NEW p \in Pos, Settle(p)
      PROVE  status'[q] = status[q] /\ out'[q] = out[q] /\ origin'[q] = origin[q]
  BY <1>3 DEF Settle
<1>4. ASSUME NEW p \in Pos, Finalize(p)
      PROVE  status'[q] = status[q] /\ out'[q] = out[q] /\ origin'[q] = origin[q]
  BY <1>4 DEF Finalize
<1>5. ASSUME NEW p \in Pos, Skip(p) \/ AnswerOverLimit(p)
      PROVE  status'[q] = status[q] /\ out'[q] = out[q] /\ origin'[q] = origin[q]
  BY <1>5, TakenIsNew DEF Skip, AnswerOverLimit, Synthesize, IsFirst
<1>6. CASE (\E p \in Pos : EmitEnd(p)) \/ Turn \/ Cancel \/ UNCHANGED vars
  BY <1>6 DEF EmitEnd, Turn, StartDrain, Collect, TurnToExcess, Return, Cancel, vars
<1> QED
  BY <1>1, <1>2, <1>3, <1>4, <1>5, <1>6 DEF Next, Step, Ended

\* So a culprit remains one.
LEMMA CulpritStays ==
  ASSUME TypeOK, LifeInv, PlaceInv, [Next]_vars, NEW q \in Pos, Culprit(q)
  PROVE  Culprit(q)'
  BY FinishedStays, StaticsNext DEF Culprit, FailedPrerequisite

\* Every step keeps it.
LEMMA AbortNext == TypeOK /\ LifeInv /\ PlaceInv /\ AbortInv /\ [Next]_vars => AbortInv'
<1> SUFFICES ASSUME TypeOK, LifeInv, PlaceInv, AbortInv, [Next]_vars PROVE AbortInv'
  OBVIOUS
<1>0. \A q \in Pos : Culprit(q) => Culprit(q)'
  BY CulpritStays
<1> USE StaticsNext DEF TypeOK, AbortInv, Signalled, BatchCancelled
<1>1. ASSUME NEW p \in Pos, Prepare(p) \/ Refuse(p) \/ Invoke(p) PROVE AbortInv'
  <2>1. /\ UNCHANGED <<job, cancelled, siblingAbort>>
        /\ pc' \in {pc, "drain"}
    BY <1>1 DEF Prepare, Refuse, TakeNext, Invoke
  <2>2. \A q \in Pos : /\ status'[q] = "returned" => status[q] = "returned"
                       /\ origin'[q] \in {"aborted", "sibling"} => origin'[q] = origin[q]
    BY <1>1 DEF Prepare, Refuse, Invoke
  <2> QED BY <1>0, <2>1, <2>2
<1>2. ASSUME NEW p \in Pos, ToolReturns(p) PROVE AbortInv'
  BY <1>0, <1>2 DEF ToolReturns
<1>3. ASSUME NEW p \in Pos, Settle(p) PROVE AbortInv'
  <2>1. CASE AbortIsRecoverable /\ origin[p] = "aborted"
    <3>1. PICK q \in Pos : Culprit(q)
      BY <2>1 DEF AbortIsRecoverable
    <3>2. q # p
      BY <1>3, <3>1 DEF Settle, Culprit, FailedPrerequisite
    <3> QED BY <1>0, <1>3, <2>1, <3>1, <3>2 DEF Settle
  <2>2. CASE ~AbortIsRecoverable /\ origin[p] = "aborted"
    <3>1. cancelled
      BY <1>3, <2>2 DEF Settle, AbortIsRecoverable
    <3>2. pc' = "aborted" /\ UNCHANGED <<job, status, origin, out, started, results, siblingAbort, cancelled>>
      BY <1>3, <2>2 DEF Settle
    <3> QED BY <1>0, <3>1, <3>2
  <2>3. CASE origin[p] # "aborted"
    <3>1. /\ UNCHANGED <<job, origin, out, siblingAbort, cancelled>>
          /\ pc' \in {pc, "fatal"}
      BY <1>3, <2>3 DEF Settle
    <3>2. \A q \in Pos : status'[q] = "returned" => status[q] = "returned"
      BY <1>3, <2>3 DEF Settle
    <3> QED BY <1>0, <3>1, <3>2
  <2> QED BY <2>1, <2>2, <2>3
<1>4. ASSUME NEW p \in Pos, Finalize(p) PROVE AbortInv'
  <2>0. /\ UNCHANGED <<job, origin, cancelled>> /\ status' = [status EXCEPT ![p] = "done"]
        /\ pc' \in {pc, "emit"}
        /\ siblingAbort => siblingAbort'
    BY <1>4 DEF Finalize
  <2>1. CASE siblingAbort' = siblingAbort
    BY <1>0, <2>0, <2>1
  <2>2. CASE siblingAbort' # siblingAbort
    <3>1. p \in futures /\ AbortsOnError(p) /\ out'[p].error /\ status'[p] = "done"
      BY <1>4, <2>2 DEF Finalize, StopsSiblings
    <3>2. origin'[p] \in {"tool", "sibling"} /\ p \in Executable
      BY <1>4, <3>1 DEF Finalize, LifeInv, Admitted, PlaceInv, Held
    <3>3. Culprit(p)'
      BY <3>1, <3>2 DEF Culprit, FailedPrerequisite
    <3>4. siblingAbort'
      BY <1>4, <2>2 DEF Finalize
    <3> QED BY <1>0, <2>0, <3>3, <3>4
  <2> QED BY <2>1, <2>2
<1>5. ASSUME NEW p \in Pos, Skip(p) \/ AnswerOverLimit(p) PROVE AbortInv'
  BY <1>0, <1>5 DEF Skip, AnswerOverLimit, Synthesize
<1>6. ASSUME NEW p \in Pos, EmitEnd(p) PROVE AbortInv'
  BY <1>0, <1>6 DEF EmitEnd
<1>7. CASE Turn \/ Cancel
  BY <1>0, <1>7 DEF Turn, StartDrain, Collect, TurnToExcess, Return, Cancel
<1>8. CASE UNCHANGED vars
  BY <1>0, <1>8 DEF vars
<1> QED
  BY <1>1, <1>2, <1>3, <1>4, <1>5, <1>6, <1>7, <1>8 DEF Next, Step, Ended

\* It holds in every reachable state.
LEMMA Aborts == Spec => []AbortInv
<1>1. Init => AbortInv
  BY DEF Init, AbortInv
<1> QED
  BY <1>1, AbortNext, TypeCorrect, Life, PTL DEF Spec

\* A cancelled sibling never passes for a cancelled run.
THEOREM RunAbortsAreTheCallers == Spec => []AbortOnlyByCaller
<1>1. AbortInv => AbortOnlyByCaller
  BY DEF AbortInv, AbortOnlyByCaller
<1> QED
  BY <1>1, Aborts, PTL

\* A call is only told "a sibling errored" when one did.
THEOREM SiblingAbortsAreCaused == Spec => []SiblingAbortHasCause
<1>1. AbortInv => SiblingAbortHasCause
  BY DEF AbortInv, SiblingAbortHasCause, Culprit
<1> QED
  BY <1>1, Aborts, PTL
-----------------------------------------------------------------------------
(* Answers.  A call is answered once, and the executed ones in source order: *)
(* a sequential batch does not look at a call before the earlier ones are    *)
(* answered, a parallel batch answers none before all are finalized, and     *)
(* then always the first; the calls over the limit wait for all of them.     *)

\* The calls before p that are to be executed have been announced.
EarlierAnswered(p) == \A q \in Executable : q < p => q \in Answered

AnswerInv ==
  /\ \A i, j \in DOMAIN results : results[i] = results[j] => i = j
  /\ \A p \in Executable : p \in Answered => EarlierAnswered(p)
  /\ Sequential => \A p \in Executable : status[p] # "todo" => EarlierAnswered(p)
  /\ \A p \in OverLimit :
       status[p] # "todo" =>
         /\ Executable \subseteq Answered
         /\ \A q \in OverLimit : q < p => q \in Answered
  /\ ExecutedInSourceOrder

\* A step that announces nothing and begins nothing.
LEMMA AnswersFramed ==
  ASSUME TypeOK, AnswerInv, [Next]_vars, results' = results,
         \A p \in Pos : status'[p] # "todo" => status[p] # "todo"
  PROVE  AnswerInv'
<1>1. Answered' = Answered
  BY DEF Answered
<1>2. \A p : EarlierAnswered(p)' <=> EarlierAnswered(p)
  BY <1>1, StaticsNext DEF EarlierAnswered
<1>3. ExecutedInSourceOrder'
  BY StaticsNext DEF AnswerInv, ExecutedInSourceOrder
<1>4. Executable \subseteq Pos /\ OverLimit \subseteq Pos
  BY DEF Executable, OverLimit
<1> QED
  BY <1>1, <1>2, <1>3, <1>4, StaticsNext DEF AnswerInv

\* A step that begins call p, whose turn it is, and announces nothing.
LEMMA AnswersBegin ==
  ASSUME TypeOK, AnswerInv, [Next]_vars, results' = results, NEW p \in Pos,
         \A q \in Pos \ {p} : status'[q] = status[q],
         \/ /\ p \in Executable
            /\ Sequential => EarlierAnswered(p)
         \/ /\ p \in OverLimit
            /\ Executable \subseteq Answered
            /\ \A q \in OverLimit : q < p => q \in Answered
  PROVE  AnswerInv'
<1>1. Answered' = Answered
  BY DEF Answered
<1>2. \A q : EarlierAnswered(q)' <=> EarlierAnswered(q)
  BY <1>1, StaticsNext DEF EarlierAnswered
<1>3. ExecutedInSourceOrder'
  BY StaticsNext DEF AnswerInv, ExecutedInSourceOrder
<1>4. Executable \subseteq Pos /\ OverLimit = Pos \ Executable
  BY DEF Executable, OverLimit
<1> QED
  BY <1>1, <1>2, <1>3, <1>4, StaticsNext DEF AnswerInv

\* Whose turn it is to be taken up...
LEMMA TakenInTurn ==
  ASSUME TypeOK, LifeInv, PlaceInv, NEW p \in Pos, IsFirst(p, remaining),
         pc \in {"prepare", "skip"}, completed = {}
  PROVE  p \in Executable /\ (Sequential => EarlierAnswered(p))
<1>1. p \in Executable /\ Executable \subseteq Pos /\ Home = Executable
  BY DEF PlaceInv, Held, Home, IsFirst, Executable
<1>2. ASSUME Sequential, NEW q \in Executable, q < p PROVE q \in Answered
  <2>1. q \in Pos /\ q \notin remaining
    BY <1>1, <1>2, BatchAssumption DEF IsFirst, Pos
  <2>2. status[q] # "todo" /\ futures = {} /\ immediate = {}
    BY <1>1, <1>2, <2>1 DEF PlaceInv, Held, Phase
  <2> QED BY <2>1, <2>2, RestingIsDone
<1> QED
  BY <1>1, <1>2 DEF EarlierAnswered

\* ... beyond the limit...
LEMMA ExcessInTurn ==
  ASSUME TypeOK, LifeInv, PlaceInv, NEW p \in Pos, AnswerOverLimit(p)
  PROVE  /\ p \in OverLimit
         /\ Executable \subseteq Answered
         /\ \A q \in OverLimit : q < p => q \in Answered
<1>1. /\ pc = "excess" /\ IsFirst(p, remaining) /\ completed = {} /\ Home = Pos
      /\ Executable \subseteq Answered /\ futures = {} /\ immediate = {}
  BY DEF AnswerOverLimit, Synthesize, PlaceInv, Phase, Home
<1>2. p \in OverLimit
  BY <1>1, TakenIsNew DEF IsFirst, OverLimit
<1>3. ASSUME NEW q \in OverLimit, q < p PROVE q \in Answered
  <2>1. q \in Pos /\ q \notin remaining
    BY <1>1, <1>3, BatchAssumption DEF IsFirst, Pos, OverLimit
  <2>2. status[q] # "todo"
    BY <1>1, <2>1 DEF PlaceInv, Held
  <2> QED BY <1>1, <2>1, <2>2, RestingIsDone
<1> QED
  BY <1>1, <1>2, <1>3

\* ... and to be announced.
LEMMA EmittedInTurn ==
  ASSUME TypeOK, LifeInv, PlaceInv, NEW p \in Pos, EmitEnd(p)
  PROVE  /\ IsFirst(p, {q \in Pos : status[q] = "done"} \ Answered)
         /\ ~Sequential /\ p \in Executable => \A q \in Executable : status[q] = "done"
<1>1. /\ pc \in {"emit", "skip", "excess"} /\ IsFirst(p, completed)
      /\ futures = {} /\ immediate = {} /\ Executable \subseteq Pos
  BY DEF EmitEnd, PlaceInv, Phase, Executable
<1>2. \A q \in Pos : q \in completed <=> status[q] = "done" /\ q \notin Answered
  BY <1>1 DEF PlaceInv, Held
<1>3. ASSUME ~Sequential, p \in Executable, NEW q \in Executable PROVE status[q] = "done"
  <2>1. pc = "emit"
    <3>1. p \notin Answered
      BY <1>1, <1>2 DEF IsFirst
    <3> QED BY <1>1, <1>3, <3>1 DEF PlaceInv, Phase
  <2>2. remaining = {} /\ Home = Executable
    BY <1>3, <2>1 DEF PlaceInv, Phase, Home
  <2>3. q \in Pos /\ status[q] # "todo"
    BY <1>1, <1>3, <2>2 DEF PlaceInv, Held
  <2> QED BY <1>1, <2>3, RestingIsDone
<1> QED
  BY <1>1, <1>2, <1>3 DEF IsFirst, TypeOK

\* An announcement: p is finalized, and the first that is not yet announced.
LEMMA AnswersEmit ==
  ASSUME TypeOK, LifeInv, PlaceInv, AnswerInv, [Next]_vars, NEW p \in Pos, EmitEnd(p)
  PROVE  AnswerInv'
<1> DEFINE n == Len(results) + 1
<1>1. /\ results \in Seq(Pos) /\ results' = Append(results, p)
      /\ status' = status
  BY DEF EmitEnd, TypeOK
<1>2. Answered' = Answered \cup {p}
  BY <1>1, AnsweredGrows
<1>3. /\ status[p] = "done" /\ p \notin Answered
      /\ \A q \in Pos : status[q] = "done" /\ q \notin Answered => p <= q
  BY EmittedInTurn DEF IsFirst
<1>4. /\ DOMAIN results' = DOMAIN results \cup {n}
      /\ n \notin DOMAIN results
      /\ \A i \in DOMAIN results : results'[i] = results[i] /\ i < n /\ results[i] \in Answered /\ results[i] \in Pos
      /\ results'[n] = p
  BY <1>1 DEF Answered
<1>5. Pos \subseteq Int /\ Executable \subseteq Pos /\ OverLimit = Pos \ Executable
  BY BatchAssumption DEF Pos, Executable, OverLimit
<1> HIDE DEF n
<1>6. \A i, j \in DOMAIN results' : results'[i] = results'[j] => i = j
  BY <1>3, <1>4 DEF AnswerInv
<1>7. p \in Executable => EarlierAnswered(p)
  <2>1. CASE Sequential
    BY <2>1, <1>3 DEF AnswerInv
  <2>2. CASE ~Sequential
    <3>1. p \in Executable => \A q \in Executable : status[q] = "done"
      BY <2>2, EmittedInTurn
    <3> QED BY <3>1, <1>3, <1>5 DEF EarlierAnswered
  <2> QED BY <2>1, <2>2
<1>8. ASSUME NEW i \in DOMAIN results
      PROVE  \/ results[i] < p
             \/ results[i] \in Executable /\ p \in OverLimit
  <2> DEFINE q == results[i]
  <2>1. q \in Answered /\ q \in Pos /\ q # p /\ status[q] = "done"
    BY <1>3, <1>4 DEF LifeInv
  <2> HIDE DEF q
  <2>2. CASE q \in Executable /\ p \in Executable
    <3>1. EarlierAnswered(q)
      BY <2>1, <2>2 DEF AnswerInv
    <3>2. ~(p < q)
      BY <1>3, <2>2, <3>1 DEF EarlierAnswered
    <3>3. p \in Int /\ q \in Int /\ q # p
      BY <1>5, <2>1
    <3>4. q < p
      BY <3>2, <3>3
    <3> QED BY <3>4 DEF q
  <2>3. CASE q \in Executable /\ p \in OverLimit
    BY <2>3 DEF q
  <2>4. CASE q \in OverLimit /\ p \in Executable
    BY <1>3, <2>1, <2>4 DEF AnswerInv
  <2>5. CASE q \in OverLimit /\ p \in OverLimit
    <3>1. \A r \in OverLimit : r < q => r \in Answered
      BY <2>1, <2>5 DEF AnswerInv
    <3>2. ~(p < q)
      BY <1>3, <2>5, <3>1
    <3>3. p \in Int /\ q \in Int /\ q # p
      BY <1>5, <2>1
    <3>4. q < p
      BY <3>2, <3>3
    <3> QED BY <3>4 DEF q
  <2> QED BY <1>5, <2>1, <2>2, <2>3, <2>4, <2>5 DEF q
<1>9. ExecutedInSourceOrder'
  <2> SUFFICES ASSUME NEW i \in DOMAIN results', NEW j \in DOMAIN results', i < j
               PROVE  \/ results'[i] < results'[j]
                      \/ results'[i] \in Executable /\ results'[j] \in OverLimit
    BY StaticsNext DEF ExecutedInSourceOrder
  <2>1. CASE j = n
    <3>1. i \in DOMAIN results
      BY <1>4, <2>1, <1>1 DEF n
    <3> QED BY <1>4, <1>8, <2>1, <3>1
  <2>2. CASE j # n
    <3>1. i \in DOMAIN results /\ j \in DOMAIN results
      BY <1>4, <2>2, <1>1 DEF n
    <3> QED BY <1>4, <3>1 DEF AnswerInv, ExecutedInSourceOrder
  <2> QED BY <2>1, <2>2
<1>10. \A q \in Executable : q \in Answered' => EarlierAnswered(q)'
  BY <1>2, <1>7, StaticsNext DEF AnswerInv, EarlierAnswered
<1>11. Sequential' => \A q \in Executable' : status'[q] # "todo" => EarlierAnswered(q)'
  BY <1>1, <1>2, StaticsNext DEF AnswerInv, EarlierAnswered
<1>12. \A q \in OverLimit' :
         status'[q] # "todo" =>
           /\ Executable' \subseteq Answered'
           /\ \A r \in OverLimit' : r < q => r \in Answered'
  BY <1>1, <1>2, StaticsNext DEF AnswerInv
<1> QED
  BY <1>1, <1>6, <1>9, <1>10, <1>11, <1>12, StaticsNext DEF AnswerInv

\* Every step keeps it.
LEMMA AnswerNext == TypeOK /\ LifeInv /\ PlaceInv /\ AnswerInv /\ [Next]_vars => AnswerInv'
<1> SUFFICES ASSUME TypeOK, LifeInv, PlaceInv, AnswerInv, [Next]_vars PROVE AnswerInv'
  OBVIOUS
<1>1. ASSUME NEW p \in Pos, Prepare(p) \/ Refuse(p) PROVE AnswerInv'
  <2>1. pc = "prepare" /\ completed = {} /\ IsFirst(p, remaining)
    BY <1>1 DEF Prepare, Refuse, TakeNext, PlaceInv, Phase
  <2>2. results' = results /\ \A q \in Pos \ {p} : status'[q] = status[q]
    BY <1>1 DEF Prepare, Refuse, TypeOK
  <2> QED BY <2>1, <2>2, TakenInTurn, AnswersBegin
<1>2. ASSUME NEW p \in Pos, Skip(p) \/ AnswerOverLimit(p) PROVE AnswerInv'
  <2>1. \/ /\ p \in Executable
           /\ Sequential => EarlierAnswered(p)
        \/ /\ p \in OverLimit
           /\ Executable \subseteq Answered
           /\ \A q \in OverLimit : q < p => q \in Answered
    BY <1>2, TakenInTurn, ExcessInTurn DEF Skip, Synthesize
  <2>2. results' = results /\ \A q \in Pos \ {p} : status'[q] = status[q]
    BY <1>2 DEF Skip, AnswerOverLimit, Synthesize, TypeOK
  <2> QED BY <2>1, <2>2, AnswersBegin
<1>3. ASSUME NEW p \in Pos, Invoke(p) \/ ToolReturns(p) \/ Settle(p) \/ Finalize(p) PROVE AnswerInv'
  <2>1. results' = results
    BY <1>3 DEF Invoke, ToolReturns, Settle, Finalize
  <2>2. \A q \in Pos : status'[q] # "todo" => status[q] # "todo"
    BY <1>3 DEF Invoke, ToolReturns, Settle, Finalize, TypeOK
  <2> QED BY <2>1, <2>2, AnswersFramed
<1>4. ASSUME NEW p \in Pos, EmitEnd(p) PROVE AnswerInv'
  BY <1>4, AnswersEmit
<1>5. CASE Turn \/ Cancel \/ UNCHANGED vars
  <2>1. results' = results /\ status' = status
    BY <1>5 DEF Turn, StartDrain, Collect, TurnToExcess, Return, Cancel, vars
  <2> QED BY <2>1, AnswersFramed
<1> QED
  BY <1>1, <1>2, <1>3, <1>4, <1>5 DEF Next, Step, Ended

\* Nothing is answered yet in an initial state.
LEMMA AnswerInit == Init => AnswerInv
<1> SUFFICES ASSUME Init PROVE AnswerInv
  OBVIOUS
<1>1. DOMAIN results = {} /\ Answered = {}
  BY DEF Init, Answered
<1>2. Executable \subseteq Pos /\ OverLimit \subseteq Pos
  BY DEF Executable, OverLimit
<1> QED
  BY <1>1, <1>2 DEF Init, AnswerInv, ExecutedInSourceOrder

\* It holds in every reachable state.
LEMMA Answers == Spec => []AnswerInv
  BY AnswerInit, AnswerNext, TypeCorrect, Life, PTL DEF Spec

\* When the last loop is through, no call is left in any of the lists.
LEMMA NothingIsLeft ==
  ASSUME TypeOK, LifeInv, PlaceInv, pc \in {"excess", "done"}, remaining = {}, completed = {}
  PROVE  Answered = Pos
<1>1. futures = {} /\ immediate = {} /\ Home = Pos
  BY DEF PlaceInv, Phase, Home
<1>2. \A p \in Pos : status[p] # "todo"
  BY <1>1 DEF PlaceInv, Held
<1>3. Answered \subseteq Pos
  BY DEF TypeOK, Answered
<1> QED
  BY <1>1, <1>2, <1>3, RestingIsDone

\* A batch that returns has answered every call, and none twice: no call is lost
\* or doubled on its way through the executor's lists.
THEOREM EveryCallIsAnsweredOnce == Spec => []OneResultPerCall
<1>1. TypeOK /\ LifeInv /\ PlaceInv /\ AnswerInv => OneResultPerCall
  BY NothingIsLeft DEF AnswerInv, OneResultPerCall, PlaceInv, Phase
<1> QED
  BY <1>1, TypeCorrect, Life, Answers, PTL

\* Executed calls are answered in source order, whatever order they finish in.
THEOREM AnswersAreOrdered == Spec => []ExecutedInSourceOrder
<1>1. AnswerInv => ExecutedInSourceOrder
  BY DEF AnswerInv
<1> QED
  BY <1>1, Answers, PTL
-----------------------------------------------------------------------------
(* Sequential batches. *)

\* A call behind a failed prerequisite has not been looked at or is skipped,
\* and nothing else is skipped.
BoundaryInv ==
  /\ Sequential =>
       \A q, r \in Executable :
         q < r /\ FailedPrerequisite(q) => status[r] = "todo" \/ origin[r] = "skipped"
  /\ \A p \in Pos :
       origin[p] = "skipped" =>
         Sequential /\ \E q \in Executable : q < p /\ FailedPrerequisite(q)

\* What the loop a sequential batch is in says of failed prerequisites: none
\* before one is hit, it is the call being announced, and it is what is skipped
\* for.
Facing ==
  Sequential =>
    /\ pc \in {"prepare", "drain"} => \A p \in Executable : ~FailedPrerequisite(p)
    /\ pc = "emit" => \A p \in Executable : FailedPrerequisite(p) => p \in completed
    /\ pc = "skip" => \E p \in Executable : FailedPrerequisite(p)

\* Every step keeps it.
LEMMA FacingNext == TypeOK /\ LifeInv /\ PlaceInv /\ Facing /\ [Next]_vars => Facing'
<1> SUFFICES ASSUME TypeOK, LifeInv, PlaceInv, Facing, [Next]_vars PROVE Facing'
  OBVIOUS
<1>0. Executable \subseteq Pos
  BY DEF Executable
<1>1. ASSUME NEW p \in Pos, Prepare(p) \/ Refuse(p) \/ Invoke(p) \/ ToolReturns(p) \/ Settle(p)
      PROVE  Facing'
  <2>1. status[p] # "done" /\ status'[p] # "done"
        /\ \A q \in Pos \ {p} : status'[q] = status[q] /\ out'[q] = out[q]
    BY <1>1, TakenIsNew
    DEF Prepare, Refuse, TakeNext, IsFirst, Invoke, ToolReturns, Settle, TypeOK
  <2>2. \A q \in Executable : FailedPrerequisite(q)' <=> FailedPrerequisite(q)
    BY <1>0, <2>1, StaticsNext DEF FailedPrerequisite
  <2>3. pc \in {"prepare", "drain"} /\ pc' \in {"prepare", "drain", "aborted", "fatal"}
    BY <1>1 DEF Prepare, Refuse, TakeNext, Invoke, ToolReturns, Settle
  <2> QED BY <2>2, <2>3, StaticsNext DEF Facing
<1>2. ASSUME NEW p \in Pos, Finalize(p) PROVE Facing'
  <2> SUFFICES ASSUME Sequential PROVE Facing'
    BY StaticsNext DEF Facing
  <2>1. pc = "drain" /\ pc' = "emit" /\ p \in completed'
        /\ \A q \in Pos \ {p} : status'[q] = status[q] /\ out'[q] = out[q]
    BY <1>2 DEF Finalize, TypeOK
  <2>2. \A q \in Executable : FailedPrerequisite(q)' => q = p
    BY <1>0, <2>1, StaticsNext DEF Facing, FailedPrerequisite
  <2> QED BY <2>1, <2>2, StaticsNext DEF Facing
<1>3. ASSUME NEW p \in Pos, Skip(p) \/ AnswerOverLimit(p) PROVE Facing'
  <2>1. pc' = pc /\ pc \in {"skip", "excess"}
    BY <1>3 DEF Skip, AnswerOverLimit, Synthesize
  <2>2. \A q \in Executable : FailedPrerequisite(q) => FailedPrerequisite(q)'
    BY <1>0, FinishedStays, StaticsNext DEF FailedPrerequisite
  <2> QED BY <2>1, <2>2, StaticsNext DEF Facing
<1>4. ASSUME NEW p \in Pos, EmitEnd(p) PROVE Facing'
  <2>1. /\ status' = status /\ out' = out /\ p \in completed
        /\ pc \in {"emit", "skip", "excess"}
        /\ pc' = IF ~(Sequential /\ pc = "emit") THEN pc
                 ELSE IF FailedPrerequisite(p) THEN "skip" ELSE "prepare"
    BY <1>4 DEF EmitEnd, IsFirst
  <2>2. \A q : FailedPrerequisite(q)' <=> FailedPrerequisite(q)
    BY <2>1, StaticsNext DEF FailedPrerequisite
  <2>3. CASE Sequential /\ pc = "emit"
    <3>1. \A q \in Executable : FailedPrerequisite(q) => q = p
      BY <2>1, <2>3 DEF Facing, PlaceInv, Phase
    <3>2. p \in Executable
      <4>1. status[p] = "done" /\ Home = Executable
        BY <2>1, <2>3 DEF PlaceInv, Held, Home
      <4> QED BY <4>1 DEF PlaceInv, Phase
    <3>3. CASE FailedPrerequisite(p)
      <4>1. pc' = "skip"
        BY <2>1, <2>3, <3>3
      <4> QED BY <2>2, <3>2, <3>3, <4>1, StaticsNext DEF Facing
    <3>4. CASE ~FailedPrerequisite(p)
      <4>1. pc' = "prepare"
        BY <2>1, <2>3, <3>4
      <4> QED BY <2>2, <3>1, <3>4, <4>1, StaticsNext DEF Facing
    <3> QED BY <3>3, <3>4
  <2>4. CASE ~Sequential
    BY <2>4, StaticsNext DEF Facing
  <2>5. CASE pc # "emit"
    <3>1. pc' = pc /\ pc \in {"skip", "excess"}
      BY <2>1, <2>5
    <3> QED BY <2>2, <3>1, StaticsNext DEF Facing
  <2> QED BY <2>3, <2>4, <2>5
<1>5. CASE Turn
  BY <1>5, StaticsNext DEF Turn, StartDrain, Collect, TurnToExcess, Return, Facing
<1>6. CASE Cancel \/ UNCHANGED vars
  <2>1. UNCHANGED <<status, out, completed, pc>>
    BY <1>6 DEF Cancel, lists, vars
  <2>2. \A q : FailedPrerequisite(q)' <=> FailedPrerequisite(q)
    BY <2>1, StaticsNext DEF FailedPrerequisite
  <2> QED BY <2>1, <2>2, StaticsNext DEF Facing
<1> QED
  BY <1>1, <1>2, <1>3, <1>4, <1>5, <1>6 DEF Next, Step, Ended

\* A step that does not end a call in a failure, and begins or skips none.
LEMMA BoundaryFramed ==
  ASSUME TypeOK, BoundaryInv, [Next]_vars,
         \A p \in Pos : FailedPrerequisite(p)' <=> FailedPrerequisite(p),
         \A p \in Pos : /\ status[p] = "todo" => status'[p] = "todo"
                        /\ origin'[p] = "skipped" <=> origin[p] = "skipped"
  PROVE  BoundaryInv'
<1>1. Executable \subseteq Pos
  BY DEF Executable
<1> QED
  BY <1>1, StaticsNext DEF BoundaryInv

\* Every step keeps it.
LEMMA BoundaryNext ==
  TypeOK /\ LifeInv /\ PlaceInv /\ AnswerInv /\ Facing /\ BoundaryInv /\ [Next]_vars
    => BoundaryInv'
<1> SUFFICES ASSUME TypeOK, LifeInv, PlaceInv, AnswerInv, Facing, BoundaryInv, [Next]_vars
             PROVE  BoundaryInv'
  OBVIOUS
<1>0. Executable \subseteq Pos /\ Pos \subseteq Int
  BY BatchAssumption DEF Executable, Pos
<1>1. ASSUME NEW p \in Pos, Prepare(p) \/ Refuse(p) PROVE BoundaryInv'
  <2>1. /\ pc = "prepare" /\ status[p] = "todo" /\ status'[p] \in {"ready", "executed"}
        /\ \A q \in Pos : status'[q] = "done" <=> status[q] = "done"
        /\ \A q \in Pos : origin'[q] = "skipped" <=> origin[q] = "skipped"
        /\ \A q \in Pos \ {p} : out'[q] = out[q]
    BY <1>1, TakenIsNew DEF Prepare, Refuse, TakeNext, IsFirst, TypeOK, LifeInv
  <2>2. \A q \in Pos : FailedPrerequisite(q)' <=> FailedPrerequisite(q)
    BY <2>1, StaticsNext DEF FailedPrerequisite
  <2>3. Sequential => \A q \in Executable : ~FailedPrerequisite(q)
    BY <2>1 DEF Facing
  <2>4. Sequential => \A q \in Executable : ~FailedPrerequisite(q)'
    BY <1>0, <2>2, <2>3
  <2>5. \A q \in Pos : origin'[q] # "skipped"
    <3>1. \A q \in Pos : origin[q] # "skipped"
      BY <1>0, <1>1, <2>3 DEF BoundaryInv
    <3> QED BY <2>1, <3>1
  <2>6. Sequential' = Sequential /\ Executable' = Executable
    BY StaticsNext
  <2> QED BY <2>4, <2>5, <2>6 DEF BoundaryInv
<1>2. ASSUME NEW p \in Pos, Skip(p) PROVE BoundaryInv'
  <2>1. /\ Sequential /\ p \in Executable /\ status[p] = "todo" /\ EarlierAnswered(p)
        /\ status' = [status EXCEPT ![p] = "done"] /\ origin' = [origin EXCEPT ![p] = "skipped"]
    <3>1. /\ pc = "skip" /\ completed = {} /\ IsFirst(p, remaining) /\ p \in remaining
          /\ status' = [status EXCEPT ![p] = "done"] /\ origin' = [origin EXCEPT ![p] = "skipped"]
      BY <1>2 DEF Skip, Synthesize, IsFirst
    <3>2. Sequential
      BY <3>1 DEF PlaceInv, Phase
    <3> QED BY <3>1, <3>2, TakenIsNew, TakenInTurn
  <2>2. PICK q \in Executable : FailedPrerequisite(q)
    BY <1>2, <2>1 DEF Skip, Facing
  <2>3. q < p
    <3>1. q # p /\ status[q] = "done"
      BY <2>1, <2>2 DEF FailedPrerequisite
    <3>2. ~(p < q)
      <4>1. SUFFICES ASSUME p < q PROVE FALSE
        OBVIOUS
      <4>2. EarlierAnswered(q)
        BY <2>1, <3>1 DEF AnswerInv
      <4>3. p \in Answered
        BY <2>1, <4>1, <4>2 DEF EarlierAnswered
      <4> QED BY <2>1, <4>3 DEF LifeInv
    <3>3. p \in Int /\ q \in Int
      BY <1>0
    <3> QED BY <3>1, <3>2, <3>3
  <2>4. \A r \in Pos \ {p} : FailedPrerequisite(r)' <=> FailedPrerequisite(r)
    BY <1>2, StaticsNext DEF Skip, Synthesize, FailedPrerequisite, TypeOK
  <2>5. ASSUME NEW r \in Executable, NEW t \in Executable, r < t, FailedPrerequisite(r)'
        PROVE  status'[t] = "todo" \/ origin'[t] = "skipped"
    <3>1. CASE t = p
      BY <2>1, <3>1 DEF TypeOK
    <3>2. CASE t # p /\ r # p
      BY <1>0, <2>1, <2>4, <2>5, <3>2 DEF TypeOK, BoundaryInv
    <3>3. CASE t # p /\ r = p
      <4>1. q < t
        <5>1. q \in Int /\ p \in Int /\ t \in Int
          BY <1>0
        <5> QED BY <2>3, <2>5, <3>3, <5>1
      <4>2. status[t] = "todo" \/ origin[t] = "skipped"
        BY <2>1, <2>2, <4>1 DEF BoundaryInv
      <4> QED BY <2>1, <3>3, <4>2, <1>0 DEF TypeOK
    <3> QED BY <3>1, <3>2, <3>3
  <2>6. FailedPrerequisite(q)'
    <3>1. q \in Pos \ {p}
      BY <1>0, <2>1, <2>2 DEF FailedPrerequisite
    <3> QED BY <2>2, <2>4, <3>1
  <2>7. ASSUME NEW r \in Pos, origin'[r] = "skipped"
        PROVE  \E t \in Executable : t < r /\ FailedPrerequisite(t)'
    <3>1. CASE r = p
      BY <2>3, <2>6, <3>1
    <3>2. CASE r # p
      <4>1. origin[r] = "skipped"
        BY <2>1, <2>7, <3>2 DEF TypeOK
      <4>2. PICK t \in Executable : t < r /\ FailedPrerequisite(t)
        BY <4>1 DEF BoundaryInv
      <4>3. t \in Pos \ {p}
        BY <1>0, <2>1, <4>2 DEF FailedPrerequisite
      <4> QED BY <2>4, <4>2, <4>3
    <3> QED BY <3>1, <3>2
  <2> QED BY <2>1, <2>5, <2>7, StaticsNext DEF BoundaryInv
<1>3. ASSUME NEW p \in Pos, Finalize(p) PROVE BoundaryInv'
  <2>1. /\ status[p] = "executed" /\ status' = [status EXCEPT ![p] = "done"] /\ origin' = origin
        /\ \A q \in Pos \ {p} : FailedPrerequisite(q)' <=> FailedPrerequisite(q)
    BY <1>3, StaticsNext DEF Finalize, FailedPrerequisite, TypeOK
  <2>2. p \in Executable
    BY <2>1 DEF LifeInv
  <2>3. ASSUME Sequential, NEW r \in Executable, p < r PROVE status[r] = "todo"
    <3>1. SUFFICES ASSUME status[r] # "todo" PROVE FALSE
      OBVIOUS
    <3>2. p \in Answered
      BY <2>2, <2>3, <3>1 DEF AnswerInv, EarlierAnswered
    <3> QED BY <2>1, <3>2 DEF LifeInv
  <2>4. ASSUME Sequential, NEW q \in Executable, NEW r \in Executable, q < r, FailedPrerequisite(q)'
        PROVE  status'[r] = "todo" \/ origin'[r] = "skipped"
    <3>1. status[r] = "todo" \/ origin[r] = "skipped"
      <4>1. CASE q = p
        BY <2>3, <2>4, <4>1
      <4>2. CASE q # p
        BY <1>0, <2>1, <2>4, <4>2 DEF BoundaryInv
      <4> QED BY <4>1, <4>2
    <3> QED BY <1>0, <2>1, <3>1 DEF TypeOK
  <2>5. ASSUME NEW r \in Pos, origin'[r] = "skipped"
        PROVE  Sequential /\ \E t \in Executable : t < r /\ FailedPrerequisite(t)'
    <3>1. Sequential
      BY <2>1, <2>5 DEF BoundaryInv
    <3>2. PICK t \in Executable : t < r /\ FailedPrerequisite(t)
      BY <2>1, <2>5 DEF BoundaryInv
    <3>3. t \in Pos \ {p}
      BY <1>0, <2>1, <3>2 DEF FailedPrerequisite
    <3> QED BY <2>1, <3>1, <3>2, <3>3
  <2> QED BY <2>4, <2>5, StaticsNext DEF BoundaryInv
<1>4. ASSUME NEW p \in Pos, AnswerOverLimit(p) PROVE BoundaryInv'
  <2>1. /\ p \notin Executable /\ status[p] = "todo"
        /\ status' = [status EXCEPT ![p] = "done"] /\ origin' = [origin EXCEPT ![p] = "over"]
        /\ \A q \in Pos \ {p} : FailedPrerequisite(q)' <=> FailedPrerequisite(q)
    BY <1>4, StaticsNext, ExcessInTurn, TakenIsNew DEF AnswerOverLimit, IsFirst, OverLimit, Synthesize, FailedPrerequisite, TypeOK
  <2>2. \A q \in Executable : /\ q \in Pos \ {p}
                              /\ status'[q] = status[q] /\ origin'[q] = origin[q]
    BY <1>0, <2>1 DEF TypeOK
  <2>3. \A r \in Pos : origin'[r] = "skipped" => origin[r] = "skipped"
    BY <2>1 DEF TypeOK
  <2> QED BY <2>1, <2>2, <2>3, StaticsNext DEF BoundaryInv
<1>5. ASSUME NEW p \in Pos, Invoke(p) \/ ToolReturns(p) \/ Settle(p) PROVE BoundaryInv'
  <2>1. /\ status[p] \notin {"todo", "done"} /\ status'[p] # "done"
        /\ \A q \in Pos \ {p} : status'[q] = status[q] /\ out'[q] = out[q]
        /\ \A q \in Pos : origin'[q] = "skipped" <=> origin[q] = "skipped"
    BY <1>5 DEF Invoke, ToolReturns, Settle, TypeOK, LifeInv
  <2>2. \A q \in Pos : FailedPrerequisite(q)' <=> FailedPrerequisite(q)
    BY <2>1, StaticsNext DEF FailedPrerequisite
  <2> QED BY <2>1, <2>2, BoundaryFramed
<1>6. CASE (\E p \in Pos : EmitEnd(p)) \/ Turn \/ Cancel \/ UNCHANGED vars
  <2>1. UNCHANGED <<status, out, origin>>
    BY <1>6 DEF EmitEnd, Turn, StartDrain, Collect, TurnToExcess, Return, Cancel, vars
  <2> QED BY <2>1, BoundaryFramed, StaticsNext DEF FailedPrerequisite
<1> QED
  BY <1>1, <1>2, <1>3, <1>4, <1>5, <1>6 DEF Next, Step, Ended

\* It holds in every reachable state.
LEMMA Boundaries == Spec => [](Facing /\ BoundaryInv)
<1>1. Init => Facing /\ BoundaryInv
  BY DEF Init, Facing, BoundaryInv, Executable, FailedPrerequisite
<1> QED
  BY <1>1, FacingNext, BoundaryNext, TypeCorrect, Life, Answers, PTL DEF Spec

\* Calls are skipped behind a failed prerequisite, and then all of them.
THEOREM OnlyDependentsAreSkipped == Spec => []SkipsFollowFailure
<1>1. TypeOK /\ LifeInv /\ BoundaryInv => SkipsFollowFailure
  BY DEF TypeOK, LifeInv, BoundaryInv, SkipsFollowFailure, Executable
<1> QED
  BY <1>1, TypeCorrect, Life, Boundaries, PTL

\* Two calls are never inside the exclusive sandbox at once.
THEOREM TheSandboxIsExclusive == Spec => []ExclusiveRunsAlone
<1>1. ASSUME TypeOK, LifeInv, AnswerInv PROVE ExclusiveRunsAlone
  <2> SUFFICES ASSUME Sequential, NEW p \in Pos, NEW q \in Pos,
                      status[p] \notin {"todo", "done"}, status[q] \notin {"todo", "done"}
               PROVE  p = q
    BY DEF ExclusiveRunsAlone, Sequential
  <2>1. /\ p \in Executable /\ q \in Executable
        /\ p \notin Answered /\ q \notin Answered
    BY <1>1 DEF LifeInv
  <2>2. ~(p < q) /\ ~(q < p)
    BY <1>1, <2>1 DEF AnswerInv, EarlierAnswered
  <2>3. p \in Int /\ q \in Int
    BY BatchAssumption DEF Pos
  <2> QED BY <2>2, <2>3
<1> QED
  BY <1>1, TypeCorrect, Life, Answers, PTL

\* A terminating verdict is unanimous over the calls as the model wrote them.
THEOREM TerminationIsUnanimous == Spec => []TerminateIsUnanimous
<1>1. ASSUME TypeOK, LifeInv, PlaceInv PROVE TerminateIsUnanimous
  <2> SUFFICES ASSUME pc = "done", Terminate PROVE TerminateIsUnanimous
    BY DEF TerminateIsUnanimous
  <2>1. Executable = Pos
    BY DEF Terminate, OverLimit, Executable
  <2>2. \A p \in Pos : origin[p] \in {"tool", "sibling", "refused", "skipped"}
    <3>1. Answered = Pos
      BY <1>1, NothingIsLeft DEF PlaceInv, Phase
    <3> QED BY <1>1, <2>1, <3>1 DEF LifeInv, OverLimit
  <2> QED BY <2>1, <2>2 DEF Terminate, Voters, Vote, TerminateIsUnanimous
<1> QED
  BY <1>1, TypeCorrect, Life, PTL
-----------------------------------------------------------------------------
(* The limit: a fact about the job alone.                                    *)

\* Every non-empty set of numbers has a least element.
LEMMA Least ==
  ASSUME NEW S \in SUBSET Nat, S # {}
  PROVE  \E m \in S : \A k \in S : m <= k
<1>1. PICK m \in S : \A k \in S : <<k, m>> \notin OpToRel(<, Nat)
  BY NatLessThanWellFounded, WFMin
<1>2. \A k \in S : ~(k < m)
  BY <1>1 DEF OpToRel
<1> QED
  BY <1>2

\* With a limit there is a least number of calls that may run.
LEMMA SomeMayRun ==
  ASSUME TypeOK, Limit # Unlimited
  PROVE  MaxExecuted \in Nat
<1>1. job \in Job
  BY BatchAssumption DEF TypeOK
<1>2. Limit \in Nat
  BY <1>1 DEF Job, Limit
<1> QED
  BY <1>2 DEF MaxExecuted

Counted == {p \in Pos : CountsTowardLimit(calls[p])}
Slots == Counted \cap Executable

\* What the cardinalities below range over.
LEMMA CountedIsFinite ==
  /\ Pos \subseteq Nat
  /\ IsFiniteSet(Pos) /\ IsFiniteSet(Slots)
  /\ \A p \in Pos : IsFiniteSet(CountedUpTo(p))
<1>1. Pos \subseteq Nat
  BY BatchAssumption DEF Pos
<1>2. IsFiniteSet(Pos)
  BY BatchAssumption, FS_Interval DEF Pos
<1>3. Slots \subseteq Pos
  BY DEF Slots, Counted
<1>4. \A p \in Pos : CountedUpTo(p) \subseteq Pos
  BY BatchAssumption DEF CountedUpTo, Pos
<1> QED
  BY <1>1, <1>2, <1>3, <1>4, FS_Subset

\* The last call that spends a slot, if any does.
LEMMA LastSlot ==
  ASSUME Slots # {}
  PROVE  \E m \in Slots : \A p \in Slots : p <= m
<1> DEFINE Bounds == {k \in Nat : \A p \in Slots : p <= k}
<1>1. Slots \subseteq Nat \ {0} /\ \A p \in Slots : p <= N
  BY BatchAssumption DEF Slots, Counted, Pos
<1>2. N \in Bounds
  BY <1>1, BatchAssumption
<1>3. PICK m \in Bounds : \A k \in Bounds : m <= k
  BY <1>2, Least
<1>4. m \in Slots
  <2> SUFFICES ASSUME m \notin Slots PROVE FALSE
    OBVIOUS
  <2>1. m # 0
    <3>1. PICK p \in Slots : p \in Nat \ {0}
      BY <1>1
    <3>2. p <= m
      BY <1>3, <3>1
    <3> QED BY <1>3, <3>1, <3>2
  <2>2. \A p \in Slots : p <= m - 1
    BY <1>1, <1>3
  <2>3. m - 1 \in Bounds
    BY <1>3, <2>1, <2>2
  <2> QED BY <1>3, <2>3
<1> QED
  BY <1>3, <1>4

\* No more calls spend a slot than there are.
LEMMA LimitIsKept ==
  ASSUME TypeOK, Limit # Unlimited
  PROVE  Cardinality(Slots) <= MaxExecuted
<1>1. MaxExecuted \in Nat
  BY SomeMayRun
<1>2. CASE Slots = {}
  BY <1>1, <1>2, FS_EmptySet
<1>3. CASE Slots # {}
  <2>1. PICK m \in Slots : \A p \in Slots : p <= m
    BY <1>3, LastSlot
  <2>2. m \in Pos /\ Cardinality(CountedUpTo(m)) <= MaxExecuted
    BY <2>1 DEF Slots, Counted, Executable
  <2>3. Slots \subseteq CountedUpTo(m)
    BY <2>1, CountedIsFinite DEF Slots, Counted, CountedUpTo, Pos
  <2>4. Cardinality(Slots) <= Cardinality(CountedUpTo(m))
    BY <2>2, <2>3, CountedIsFinite, FS_Subset
  <2>5. Cardinality(Slots) \in Nat /\ Cardinality(CountedUpTo(m)) \in Nat
    BY <2>2, CountedIsFinite, FS_CardinalityType
  <2> QED BY <1>1, <2>2, <2>4, <2>5
<1> QED
  BY <1>2, <1>3

\* A call is turned away only behind as many as there are slots.
LEMMA LimitIsSpent ==
  ASSUME TypeOK, OverLimit # {}
  PROVE  Cardinality(Slots) >= MaxExecuted
<1>1. PICK q \in OverLimit : \A p \in OverLimit : q <= p
  BY CountedIsFinite, Least DEF OverLimit
<1>2. /\ q \in Pos /\ q \notin Executable
      /\ CountsTowardLimit(calls[q]) /\ ~(Cardinality(CountedUpTo(q)) <= MaxExecuted)
      /\ Limit # Unlimited
  BY <1>1 DEF OverLimit, Executable
<1>3. MaxExecuted \in Nat
  BY <1>2, SomeMayRun
<1>4. q \in CountedUpTo(q)
  BY <1>2, CountedIsFinite DEF CountedUpTo, Pos
<1>5. CountedUpTo(q) \ {q} \subseteq Slots
  <2> SUFFICES ASSUME NEW p \in CountedUpTo(q), p # q PROVE p \in Slots
    OBVIOUS
  <2>1. p \in Pos /\ p < q /\ CountsTowardLimit(calls[p])
    BY <1>2, BatchAssumption DEF CountedUpTo, Pos
  <2>2. p \notin OverLimit
    BY <1>1, <1>2, <2>1, CountedIsFinite
  <2> QED BY <2>1, <2>2 DEF OverLimit, Slots, Counted
<1>6. Cardinality(CountedUpTo(q) \ {q}) = Cardinality(CountedUpTo(q)) - 1
  BY <1>2, <1>4, CountedIsFinite, FS_RemoveElement
<1>7. Cardinality(CountedUpTo(q) \ {q}) <= Cardinality(Slots)
  BY <1>5, CountedIsFinite, FS_Subset
<1>8. Cardinality(CountedUpTo(q)) \in Nat /\ Cardinality(Slots) \in Nat
  BY <1>2, CountedIsFinite, FS_CardinalityType
<1> QED
  BY <1>2, <1>3, <1>6, <1>7, <1>8

\* The limit is spent to the last slot, on calls that count, and never exceeded.
THEOREM TheLimitIsExact == Spec => []LimitIsExact
<1>1. ASSUME TypeOK PROVE LimitIsExact
  <2>1. OverLimit # {} => Limit # Unlimited
    BY DEF OverLimit, Executable
  <2>2. OverLimit # {} => Cardinality(Slots) = MaxExecuted
    <3> SUFFICES ASSUME OverLimit # {} PROVE Cardinality(Slots) = MaxExecuted
      OBVIOUS
    <3>1. Cardinality(Slots) <= MaxExecuted /\ Cardinality(Slots) >= MaxExecuted
      BY <1>1, <2>1, LimitIsKept, LimitIsSpent
    <3>2. Cardinality(Slots) \in Nat
      BY CountedIsFinite, FS_CardinalityType
    <3>3. MaxExecuted \in Nat
      BY <1>1, <2>1, SomeMayRun
    <3> QED BY <3>1, <3>2, <3>3
  <2>3. OverLimit \subseteq Counted
    BY DEF OverLimit, Executable, Counted
  <2> QED BY <1>1, <2>2, <2>3, LimitIsKept DEF LimitIsExact, Slots, Counted
<1> QED
  BY <1>1, TypeCorrect, PTL
-----------------------------------------------------------------------------
(* Refinement: what the loop sees of a step is a step of BatchContract.      *)

\* A batch begins as the contract does.
LEMMA ContractInit == Init => Contract!Init
<1> SUFFICES ASSUME Init PROVE Contract!Init
  OBVIOUS
<1>1. Answered = {}
  BY DEF Init, Answered
<1>2. \A p \in Pos : LifeOf(p) = "waiting"
  BY <1>1 DEF Init, LifeOf
<1>3. [p \in Pos |-> LifeOf(p)] = [p \in Pos |-> "waiting"]
  BY <1>2
<1>4. {p \in Executable : MayRun(p)} \in SUBSET Pos
  BY DEF Executable
<1>5. (IF Open THEN "open" ELSE IF pc = "done" THEN "returned" ELSE pc) = "open"
      /\ cancelled \in BOOLEAN
  BY DEF Init, Open, Loops
<1> QED
  BY <1>3, <1>4, <1>5 DEF Contract!Init

\* A step that changes neither the life of a call nor the end of the batch.
LEMMA Stutters ==
  ASSUME [Next]_vars, cancelled' = cancelled, (Open /\ Open') \/ pc' = pc, \A p \in Pos : LifeOf(p)' = LifeOf(p)
  PROVE  UNCHANGED Contract!vars
<1>1. [p \in Pos |-> LifeOf(p)]' = [p \in Pos |-> LifeOf(p)]
  OBVIOUS
<1>2. {p \in Executable : MayRun(p)}' = {p \in Executable : MayRun(p)}
  BY StaticsNext
<1>3. (IF Open THEN "open" ELSE IF pc = "done" THEN "returned" ELSE pc)'
        = (IF Open THEN "open" ELSE IF pc = "done" THEN "returned" ELSE pc)
  BY DEF Open
<1> QED
  BY <1>1, <1>2, <1>3 DEF Contract!vars

\* A step that ends the batch, or cancels the run, and leaves every call alone.
LEMMA LivesStay ==
  ASSUME [Next]_vars, UNCHANGED <<status, origin, results>>
  PROVE  /\ [p \in Pos |-> LifeOf(p)]' = [p \in Pos |-> LifeOf(p)]
         /\ {p \in Executable : MayRun(p)}' = {p \in Executable : MayRun(p)}
<1>1. Answered' = Answered
  BY DEF Answered
<1>2. \A p \in Pos : LifeOf(p)' = LifeOf(p)
  BY <1>1 DEF LifeOf
<1> QED
  BY <1>2, StaticsNext

\* Every step is a step of the contract or leaves its variables alone.
LEMMA ContractNext ==
  TypeOK /\ LifeInv /\ PlaceInv /\ AbortInv /\ AbortInv' /\ [Next]_vars
    => [Contract!Next]_(Contract!vars)
<1> SUFFICES ASSUME TypeOK, LifeInv, PlaceInv, AbortInv, AbortInv', [Next]_vars
             PROVE  [Contract!Next]_(Contract!vars)
  OBVIOUS
<1>0. /\ results' = results => Answered' = Answered
      /\ {p \in Executable : MayRun(p)}' = {p \in Executable : MayRun(p)}
  BY StaticsNext DEF Answered
<1>1. ASSUME NEW p \in Pos, Prepare(p) \/ Refuse(p) PROVE UNCHANGED Contract!vars
  <2>1. status[p] = "todo" /\ p \notin Answered /\ ~Admitted(p)
    BY <1>1, TakenIsNew DEF Prepare, Refuse, TakeNext, IsFirst, LifeInv, Admitted
  <2>2. \A q \in Pos : LifeOf(q)' = LifeOf(q)
    BY <1>0, <1>1, <2>1 DEF Prepare, Refuse, TypeOK, LifeOf, Admitted
  <2> QED BY <1>1, <2>2, Stutters DEF Prepare, Refuse, TakeNext, Open, Loops
<1>2. ASSUME NEW p \in Pos, Invoke(p) PROVE Contract!Next
  <2>1. p \in Executable /\ MayRun(p) /\ LifeOf(p) = "waiting" /\ p \notin Answered
    BY <1>2 DEF Invoke, LifeInv, Admitted, LifeOf
  <2>2. [q \in Pos |-> LifeOf(q)]' = [[q \in Pos |-> LifeOf(q)] EXCEPT ![p] = "running"]
    BY <1>0, <1>2, <2>1 DEF Invoke, TypeOK, LifeOf
  <2>3. Contract!Invoke(p)
    BY <1>0, <1>2, <2>1, <2>2 DEF Invoke, Contract!Invoke, Open, Loops
  <2> QED BY <2>3 DEF Contract!Next
<1>3. ASSUME NEW p \in Pos, ToolReturns(p) PROVE UNCHANGED Contract!vars
  <2>1. \A q \in Pos : LifeOf(q)' = LifeOf(q)
    BY <1>0, <1>3 DEF ToolReturns, TypeOK, LifeOf
  <2> QED BY <1>3, <2>1, Stutters DEF ToolReturns
<1>4. ASSUME NEW p \in Pos, Settle(p) PROVE [Contract!Next]_(Contract!vars)
  <2>1. LifeOf(p) = "running"
    BY <1>4 DEF Settle, LifeInv, LifeOf
  <2>2. CASE status'[p] = "executed"
    <3>1. \A q \in Pos : LifeOf(q)' = LifeOf(q)
      BY <1>0, <1>4, <2>1, <2>2 DEF Settle, TypeOK, LifeOf
    <3>2. UNCHANGED <<pc, cancelled>>
      BY <1>4, <2>2 DEF Settle, TypeOK
    <3> QED BY <3>1, <3>2, Stutters
  <2>3. CASE status'[p] # "executed"
    <3>1. UNCHANGED <<status, origin, results, cancelled>> /\ pc = "drain" /\ pc' \in {"aborted", "fatal"}
      BY <1>4, <2>3 DEF Settle, TypeOK
    <3>2. pc' = "aborted" => cancelled
      BY <3>1 DEF AbortInv
    <3>3. Contract!Abort \/ Contract!Fatal
      BY <2>1, <3>1, <3>2, LivesStay DEF Contract!Abort, Contract!Fatal, Open, Loops
    <3> QED BY <3>3 DEF Contract!Next
  <2> QED BY <2>2, <2>3
<1>5. ASSUME NEW p \in Pos, Finalize(p) PROVE UNCHANGED Contract!vars
  <2>1. \A q \in Pos : LifeOf(q)' = LifeOf(q)
    BY <1>0, <1>5 DEF Finalize, TypeOK, LifeOf
  <2>2. cancelled' = cancelled /\ pc = "drain" /\ pc' \in {"drain", "emit"}
    BY <1>5 DEF Finalize
  <2> QED BY <2>1, <2>2, Stutters DEF Open, Loops
<1>6. ASSUME NEW p \in Pos, Skip(p) \/ AnswerOverLimit(p) PROVE UNCHANGED Contract!vars
  <2>1. status[p] = "todo" /\ origin[p] = "none"
    BY <1>6, TakenIsNew DEF Skip, AnswerOverLimit, Synthesize, IsFirst
  <2>2. PICK reason \in {"skipped", "over"} : Synthesize(p, reason)
    BY <1>6 DEF Skip, AnswerOverLimit
  <2>3. \A q \in Pos : LifeOf(q)' = LifeOf(q)
    BY <1>0, <2>1, <2>2 DEF Synthesize, TypeOK, LifeOf
  <2> QED BY <2>2, <2>3, Stutters DEF Synthesize
<1>7. ASSUME NEW p \in Pos, EmitEnd(p) PROVE Contract!Next
  <2>1. p \notin Answered /\ Answered' = Answered \cup {p}
    BY <1>7, AnsweredGrows, EmittedInTurn DEF EmitEnd, IsFirst
  <2>2. LifeOf(p) # "answered"
    BY <2>1 DEF LifeOf
  <2>3. [q \in Pos |-> LifeOf(q)]' = [[q \in Pos |-> LifeOf(q)] EXCEPT ![p] = "answered"]
    BY <1>7, <2>1 DEF EmitEnd, LifeOf
  <2>4. Contract!Answer(p)
    <3>1. pc \in {"emit", "skip", "excess"} /\ pc' \in {"emit", "skip", "excess", "prepare"}
      BY <1>7 DEF EmitEnd
    <3>2. cancelled' = cancelled /\ Open /\ Open'
      BY <1>7, <3>1 DEF EmitEnd, Open, Loops
    <3> QED BY <1>0, <2>2, <2>3, <3>2 DEF Contract!Answer
  <2> QED BY <2>4 DEF Contract!Next
<1>8. CASE Return
  <2>1. \A p \in Pos : LifeOf(p) = "answered"
    BY <1>8, NothingIsLeft DEF Return, LifeOf
  <2>2. Contract!Return
    BY <1>8, <2>1, LivesStay DEF Return, Contract!Return, Open, Loops
  <2> QED BY <2>2 DEF Contract!Next
<1>11. CASE StartDrain \/ Collect \/ TurnToExcess
  <2>1. UNCHANGED <<status, origin, results, cancelled>> /\ Open /\ Open'
    BY <1>11 DEF StartDrain, Collect, TurnToExcess, Open, Loops
  <2>2. \A p \in Pos : LifeOf(p)' = LifeOf(p)
    BY <1>0, <2>1 DEF LifeOf
  <2> QED BY <2>1, <2>2, Stutters
<1>9. CASE Cancel
  <2>1. Contract!Cancel
    BY <1>9, LivesStay DEF Cancel, Contract!Cancel, Open
  <2> QED BY <2>1 DEF Contract!Next
<1>10. CASE UNCHANGED vars
  <2>1. UNCHANGED <<status, origin, results, pc, cancelled>>
    BY <1>10 DEF vars
  <2> QED BY <2>1, LivesStay DEF Contract!vars, Open
<1> QED
  BY <1>1, <1>2, <1>3, <1>4, <1>5, <1>6, <1>7, <1>8, <1>9, <1>10, <1>11 DEF Next, Step, Turn, Ended

\* A batch keeps the promise the loop relies on: one answer per call, tools
\* invoked only where permitted, an abort only for the caller's cancellation, a
\* fatal end only out of a running tool, and nothing after the end.
THEOREM BatchImplementsContract == Spec => ImplementsContract
  BY ContractInit, ContractNext, TypeCorrect, Life, Aborts, PTL
  DEF Spec, ImplementsContract, Contract!Spec
=============================================================================
