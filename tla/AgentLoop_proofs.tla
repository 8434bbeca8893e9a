--------------------------- MODULE AgentLoop_proofs ---------------------------
(***************************************************************************)
(* Proofs about AgentLoop, for every context a provider accepts, every     *)
(* fallback setting and any number of turns, steering and follow-ups, and  *)
(* about RunEvents, which implements it for any number of calls.           *)
(***************************************************************************)
EXTENDS RunEvents, FiniteSetTheorems, TLAPS

\* What overflow recovery leaves of a transcript: all of it, or a tail that
\* begins with a message of its own, with or without a summary before it.
LEMMA KeptShapes ==
  ASSUME NEW m \in Seq(Message), NEW k \in Kept(m), k # m
  PROVE  \E i \in DOMAIN m :
           /\ m[i] \notin {"results", "fallback", "summary"}
           /\ k = SubSeq(m, i, Len(m)) \/ k = <<"summary">> \o SubSeq(m, i, Len(m))
<1> DEFINE starts == {i \in DOMAIN m : m[i] \notin {"results", "fallback", "summary"}}
           tails == {SubSeq(m, i, Len(m)) : i \in starts}
<1>1. k \in tails \/ \E tail \in tails : k = <<"summary">> \o tail
  BY DEF Kept
<1>2. CASE k \in tails
  BY <1>2
<1>3. CASE \E tail \in tails : k = <<"summary">> \o tail
  BY <1>3
<1> QED
  BY <1>1, <1>2, <1>3

\* A tail of a sequence, element by element.
LEMMA TailElements ==
  ASSUME NEW m \in Seq(Message), NEW i \in DOMAIN m
  PROVE  /\ SubSeq(m, i, Len(m)) \in Seq(Message)
         /\ Len(SubSeq(m, i, Len(m))) = Len(m) - i + 1
         /\ \A j \in 1..(Len(m) - i + 1) : SubSeq(m, i, Len(m))[j] = m[i + j - 1]
<1>1. i \in 1..Len(m)
  OBVIOUS
<1>2. \A j \in i..Len(m) : m[j] \in Message
  BY <1>1
<1>3. SubSeq(m, i, Len(m)) \in Seq(Message)
  BY <1>1, <1>2
<1> QED
  BY <1>1, <1>3

\* What overflow recovery leaves of a transcript is a transcript.
LEMMA KeptIsTranscript ==
  ASSUME NEW m \in Seq(Message), NEW k \in Kept(m)
  PROVE  k \in Seq(Message)
<1>1. <<"summary">> \in Seq(Message)
  BY DEF Message
<1>2. CASE k = m
  BY <1>2
<1>3. CASE k # m
  <2>1. PICK i \in DOMAIN m :
          k = SubSeq(m, i, Len(m)) \/ k = <<"summary">> \o SubSeq(m, i, Len(m))
    BY <1>3, KeptShapes
  <2>2. SubSeq(m, i, Len(m)) \in Seq(Message)
    BY TailElements
  <2>3. \A s \in Seq(Message) : <<"summary">> \o s \in Seq(Message)
    BY <1>1
  <2> QED BY <2>1, <2>2, <2>3
<1> QED
  BY <1>2, <1>3

\* Transcripts append to a transcript.
LEMMA AppendIsTranscript ==
  \A s, t \in Seq(Message) : s \o t \in Seq(Message)
  OBVIOUS

\* A number of equal messages.
LEMMA TimesIsTranscript ==
  ASSUME NEW n \in Nat, NEW message, NEW S, message \in S
  PROVE  Times(n, message) \in Seq(S)
  BY DEF Times
-----------------------------------------------------------------------------
(* Types. *)

\* The types, and that no more is drained than was sent.
TypeInv == TypeOK /\ drained <= sent

\* The initial states are well typed.
LEMMA TypeInit == Init => TypeInv
<1> SUFFICES ASSUME Init PROVE TypeInv
  OBVIOUS
<1>1. context \in Seq(Message)
  BY LoopAssumption DEF Init, context, Setup
<1>2. pc \in {"idle"} \cup Running \cup Final /\ setup \in Setups
  BY DEF Init
<1>3. current \in Seq(Message) /\ produced \in Seq(Message)
  BY <1>1 DEF Init
<1>4. pending \in Seq({"steer", "follow_up"})
  BY DEF Init
<1>5. {hasMore, terminated, cancelled} \subseteq BOOLEAN
  BY DEF Init
<1>6. /\ iterations \in 0..MaxTurns
      /\ {opened, closed, drained} \subseteq Nat
      /\ sent \in 0..MaxSteer
      /\ followUps \in 0..MaxFollowUp
      /\ drained <= sent
  BY LoopAssumption DEF Init
<1> QED
  BY <1>2, <1>3, <1>4, <1>5, <1>6 DEF TypeInv, TypeOK

\* Every step keeps the types.
LEMMA TypeNext == TypeInv /\ [Next]_vars => TypeInv'
<1> SUFFICES ASSUME TypeInv, [Next]_vars PROVE TypeInv'
  OBVIOUS
<1> USE DEF TypeInv, TypeOK, Running, Final, run, events, env
<1>0. /\ sent - drained \in Nat
      /\ Times(sent - drained, "steer") \in Seq({"steer", "follow_up"})
  <2>1. sent - drained \in Nat
    BY LoopAssumption
  <2> QED BY <2>1, TimesIsTranscript
<1>1. CASE RunPrompt
  BY <1>1 DEF RunPrompt, PushBoth, Message
<1>2. CASE RunContinue \/ RejectContinue
  BY <1>2 DEF RunContinue, RejectContinue
<1>3. CASE CollectInitial
  BY <1>0, <1>3 DEF CollectInitial, DrainSteering
<1>d. Dropped => /\ current' \in Seq(Message) /\ produced' \in Seq(Message)
                 /\ pending' \in Seq({"steer", "follow_up"})
  BY DEF Dropped
<1>4. CASE AbortAtTop \/ EndRun
  BY <1>4, <1>d DEF AbortAtTop, EndRun
<1>5. CASE BeginTurn
  <2>1. pending \in Seq(Message)
    BY DEF Message
  <2>2. iterations' \in 0..MaxTurns
    BY <1>5, LoopAssumption DEF BeginTurn
  <2> QED BY <1>5, <2>1, <2>2 DEF BeginTurn, PushBoth
<1>6. CASE EndTurn
  <2>1. pending' \in Seq({"steer", "follow_up"})
    <3>1. pending' = <<>> \/ pending' = Times(sent - drained, "steer")
      BY <1>6, Zenon DEF EndTurn, DrainSteering
    <3>2. <<>> \in Seq({"steer", "follow_up"})
      OBVIOUS
    <3> QED BY <3>1, <3>2, <1>0, Zenon
  <2>2. drained' \in Nat /\ drained' <= sent /\ closed' \in Nat
    BY SMTT(30), <1>6, LoopAssumption DEF EndTurn, DrainSteering
  <2> QED BY <1>6, <2>1, <2>2 DEF EndTurn
<1>7. CASE AcceptFollowUp
  <2>1. PICK n \in 1..followUps : pending' = Times(n, "follow_up") /\ followUps' = followUps - n
    BY <1>7 DEF AcceptFollowUp
  <2>a. n \in Nat /\ "follow_up" \in {"steer", "follow_up"}
    BY LoopAssumption
  <2>2. pending' \in Seq({"steer", "follow_up"})
    <3>1. Times(n, "follow_up") \in Seq({"steer", "follow_up"})
      BY <2>a, TimesIsTranscript
    <3> QED BY <3>1, <2>1
  <2>3. followUps' \in 0..MaxFollowUp
    BY <2>1, LoopAssumption
  <2> QED BY <1>7, <2>2, <2>3 DEF AcceptFollowUp
<1>8. CASE StreamCalls
  <2>1. PICK kept \in Kept(current) : current' = kept \o <<"calls">>
    BY <1>8 DEF StreamCalls
  <2>2. kept \in Seq(Message)
    BY KeptIsTranscript
  <2>3. <<"calls">> \in Seq(Message)
    BY DEF Message, Assistant
  <2>4. current' \in Seq(Message) /\ produced' \in Seq(Message)
    <3>1. produced' = produced \o <<"calls">>
      BY <1>8 DEF StreamCalls
    <3>2. produced \in Seq(Message)
      OBVIOUS
    <3> QED BY <3>1, <3>2, <2>1, <2>2, <2>3, AppendIsTranscript
  <2> QED BY <1>8, <2>4 DEF StreamCalls
<1>9. CASE StreamText
  <2>1. PICK message \in {"text", "silent"}, narrowed \in BOOLEAN, kept \in Kept(current) :
          LET reply == IF NudgeMode(narrowed) THEN <<message, "nudge">>
                       ELSE IF TakesText(message, narrowed) THEN <<message, "fallback">>
                       ELSE <<message>>
          IN  /\ current' = kept \o reply
              /\ produced' = produced \o reply
              /\ hasMore' = NudgeMode(narrowed)
              /\ terminated' = (terminated \/ TakesText(message, narrowed))
    BY <1>9 DEF StreamText
  <2>2. /\ <<message, "nudge">> \in Seq(Message)
        /\ <<message, "fallback">> \in Seq(Message)
        /\ <<message>> \in Seq(Message)
    BY DEF Message, Assistant
  <2>3. kept \in Seq(Message)
    BY KeptIsTranscript
  <2>4. current' \in Seq(Message) /\ produced' \in Seq(Message)
    BY <2>1, <2>2, <2>3
  <2>5. hasMore' \in BOOLEAN /\ terminated' \in BOOLEAN
    BY <2>1 DEF NudgeMode, TakesText
  <2> QED BY <1>9, <2>4, <2>5 DEF StreamText
<1>10. CASE StreamFails
  BY <1>10, <1>d DEF StreamFails
<1>11. CASE BatchReturns
  BY <1>11 DEF BatchReturns, PushBoth, Message
<1>12. CASE BatchFails
  BY <1>12, <1>d DEF BatchFails
<1>13. CASE Steer \/ Cancel
  <2>1. sent' \in 0..MaxSteer /\ drained' = drained /\ drained <= sent'
    BY <1>13, LoopAssumption DEF Steer, Cancel
  <2>2. cancelled' \in BOOLEAN /\ followUps' = followUps
    BY <1>13 DEF Steer, Cancel
  <2> QED BY <1>13, <2>1, <2>2 DEF Steer, Cancel
<1>14. CASE UNCHANGED vars
  BY <1>14 DEF vars
<1> QED
  BY <1>1, <1>2, <1>3, <1>4, <1>5, <1>6, <1>7, <1>8, <1>9, <1>10, <1>11, <1>12, <1>13, <1>14
  DEF Next, Own, Stream, Batch, Ended

\* The types hold in every reachable state.
LEMMA Types == Spec => []TypeInv
  BY TypeInit, TypeNext, PTL DEF Spec

\* Every variable keeps its type.
THEOREM TypeCorrect == Spec => []TypeOK
<1>1. TypeInv => TypeOK
  BY DEF TypeInv
<1> QED
  BY <1>1, Types, PTL
-----------------------------------------------------------------------------
(* Turns and their events. *)

\* How many turns have been begun, opened and closed at each place of the
\* loop.  Only the first turn may be opened before it is begun, and it is
\* begun before the loop can find nothing to do.
TurnsInv ==
  /\ pc = "idle" => opened = 0 /\ iterations = 0
  /\ pc = "collect" => opened = 1 /\ iterations = 0
  /\ pc = "loop" => opened = IF iterations = 0 THEN 1 ELSE iterations
  /\ pc \in {"idle", "collect", "loop"} =>
       /\ closed = iterations
       /\ iterations = 0 => hasMore
  /\ pc \in {"stream", "batch", "turn_end"} =>
       /\ opened = iterations
       /\ closed = iterations - 1
       /\ iterations > 0
  /\ pc = "done" => opened = closed /\ closed = iterations

\* The counts agree at first.
LEMMA TurnsInit == Init => TurnsInv
  BY DEF Init, TurnsInv

\* Every step keeps the counts.
LEMMA TurnsNext == TypeInv /\ TurnsInv /\ [Next]_vars => TurnsInv'
<1> SUFFICES ASSUME TypeInv, TurnsInv, [Next]_vars PROVE TurnsInv'
  OBVIOUS
<1> USE DEF TurnsInv, run, events, env
<1>t. {iterations, opened, closed} \subseteq Int
  BY LoopAssumption DEF TypeInv, TypeOK
<1>1. CASE RunPrompt \/ RunContinue \/ RejectContinue
  BY <1>1, <1>t DEF RunPrompt, PushBoth, RunContinue, RejectContinue
<1>2. CASE CollectInitial
  BY <1>2, <1>t DEF CollectInitial
<1>3. CASE AbortAtTop \/ EndRun
  BY <1>3, <1>t DEF AbortAtTop, EndRun, AnotherTurn
<1>4. CASE BeginTurn
  <2>1. /\ pc = "loop" /\ pc' = "stream"
        /\ iterations' = iterations + 1
        /\ opened' = IF iterations = 0 THEN opened ELSE opened + 1
        /\ closed' = closed
    BY <1>4 DEF BeginTurn
  <2>2. iterations \in Nat
    BY LoopAssumption DEF TypeInv, TypeOK
  <2>3. opened' = iterations'
    BY <2>1, <2>2, <1>t
  <2>4. closed' = iterations' - 1 /\ iterations' > 0
    BY <2>1, <2>2, <1>t
  <2> QED BY <2>1, <2>3, <2>4
<1>5. CASE EndTurn
  BY <1>5, <1>t DEF EndTurn
<1>6. CASE AcceptFollowUp
  BY <1>6, <1>t DEF AcceptFollowUp
<1>7. CASE StreamCalls \/ StreamText \/ StreamFails
  BY <1>7, <1>t DEF StreamCalls, StreamText, StreamFails
<1>8. CASE BatchReturns \/ BatchFails
  BY <1>8, <1>t DEF BatchReturns, BatchFails
<1>9. CASE Steer \/ Cancel
  BY <1>9, <1>t DEF Steer, Cancel
<1>10. CASE UNCHANGED vars
  BY <1>10, <1>t DEF vars
<1> QED
  BY <1>1, <1>2, <1>3, <1>4, <1>5, <1>6, <1>7, <1>8, <1>9, <1>10
  DEF Next, Own, Stream, Batch, Ended

\* TurnStart and TurnEnd alternate, and a run that ends well closes every turn.
THEOREM TurnEventsAlternate == Spec => []TurnsAreBracketed
<1>1. TypeInv /\ TurnsInv => TurnsAreBracketed
  BY LoopAssumption DEF TypeInv, TypeOK, TurnsInv, TurnsAreBracketed, Running
<1> QED
  BY <1>1, Types, TurnsInit, TurnsNext, PTL DEF Spec
-----------------------------------------------------------------------------
(* Terminators. *)

\* Nothing waits while a turn is under way, and a run that was terminated has
\* nothing left to do.
TerminatorInv ==
  /\ pc \in {"stream", "batch", "turn_end"} => pending = <<>>
  /\ terminated => /\ ~hasMore
                   /\ pending = <<>>
                   /\ pc \in {"turn_end", "loop"} \cup Final

\* No run begins terminated.
LEMMA TerminatorInit == Init => TerminatorInv
  BY DEF Init, TerminatorInv

\* Every step leaves a terminated run with nothing to do.
LEMMA TerminatorNext == TypeInv /\ TerminatorInv /\ [Next]_vars => TerminatorInv'
<1> SUFFICES ASSUME TypeInv, TerminatorInv, [Next]_vars PROVE TerminatorInv'
  OBVIOUS
<1> USE DEF TerminatorInv, Final, run, events, env
<1>t. {hasMore, terminated} \subseteq BOOLEAN
  BY DEF TypeInv, TypeOK
<1>1. CASE RunPrompt \/ RunContinue \/ RejectContinue
  BY <1>1 DEF RunPrompt, PushBoth, RunContinue, RejectContinue
<1>2. CASE CollectInitial
  BY <1>2 DEF CollectInitial
<1>3. CASE AbortAtTop \/ EndRun
  BY <1>3 DEF AbortAtTop, EndRun, Dropped
<1>4. CASE BeginTurn
  BY <1>4 DEF BeginTurn, AnotherTurn
<1>5. CASE EndTurn
  BY <1>5 DEF EndTurn
<1>6. CASE AcceptFollowUp
  BY <1>6 DEF AcceptFollowUp
<1>7. CASE StreamCalls \/ StreamFails
  BY <1>7 DEF StreamCalls, StreamFails, Dropped
<1>8. CASE StreamText
  <2>1. PICK message \in {"text", "silent"}, narrowed \in BOOLEAN :
          /\ hasMore' = NudgeMode(narrowed)
          /\ terminated' = (terminated \/ TakesText(message, narrowed))
    BY <1>8 DEF StreamText
  <2>2. terminated' => ~hasMore'
    BY <1>8, <2>1 DEF StreamText, TakesText
  <2> QED BY <1>8, <2>2 DEF StreamText
<1>9. CASE BatchReturns \/ BatchFails
  BY <1>9, <1>t DEF BatchReturns, BatchFails, Dropped
<1>10. CASE Steer \/ Cancel
  BY <1>10 DEF Steer, Cancel
<1>11. CASE UNCHANGED vars
  BY <1>11 DEF vars
<1> QED
  BY <1>1, <1>2, <1>3, <1>4, <1>5, <1>6, <1>7, <1>8, <1>9, <1>10, <1>11
  DEF Next, Own, Stream, Batch, Ended

\* A terminated run has nothing to do in every reachable state.
LEMMA Terminators == Spec => []TerminatorInv
  BY Types, TerminatorInit, TerminatorNext, PTL DEF Spec

\* After a terminator no turn begins and no message waits for one.
THEOREM NoTurnAfterATerminator == Spec => TerminatorIsLast
<1>1. TypeInv /\ TerminatorInv /\ TerminatorInv' /\ [Next]_vars =>
        [terminated => terminated' /\ iterations' = iterations /\ pending' = <<>>]_vars
  <2> SUFFICES ASSUME TypeInv, TerminatorInv, TerminatorInv', Next, terminated
               PROVE  terminated' /\ iterations' = iterations
    BY DEF TerminatorInv
  <2> USE DEF TerminatorInv, Final, run, events, env
  <2>1. CASE RunPrompt \/ RunContinue \/ RejectContinue
    BY <2>1 DEF RunPrompt, RunContinue, RejectContinue
  <2>2. CASE Own
    BY <2>2 DEF Own, CollectInitial, AbortAtTop, BeginTurn, AnotherTurn, EndTurn,
                AcceptFollowUp, EndRun
  <2>3. CASE Stream \/ Batch
    BY <2>3 DEF Stream, StreamCalls, StreamText, StreamFails, Batch, BatchReturns, BatchFails
  <2>4. CASE Steer \/ Cancel
    BY <2>4 DEF Steer, Cancel
  <2>5. CASE Ended
    BY <2>5 DEF Ended, vars
  <2> QED
    BY <2>1, <2>2, <2>3, <2>4, <2>5 DEF Next
<1> QED
  BY <1>1, Types, Terminators, PTL DEF Spec, TerminatorIsLast
-----------------------------------------------------------------------------
(* Requests. *)

\* The model has something to respond to.
Unanswered(messages) == messages # <<>> /\ Last(messages) \notin Assistant

\* A transcript that ends with calls and is paired but for them.
Awaiting(messages) ==
  /\ messages # <<>> /\ Last(messages) = "calls"
  /\ \A i \in DOMAIN messages :
       /\ messages[i] = "calls" => i = Len(messages) \/ messages[i + 1] = "results"
       /\ messages[i] = "results" => i > 1 /\ messages[i - 1] = "calls"
       /\ messages[i] # "fallback"

\* Messages that neither ask for results nor are results.
Plain == Message \ {"calls", "results", "fallback"}

\* Plain messages leave a paired transcript paired.
LEMMA PairedPlain ==
  ASSUME NEW s \in Seq(Message), Paired(s), NEW t \in Seq(Plain)
  PROVE  Paired(s \o t)
<1> DEFINE u == s \o t
<1>1. /\ t \in Seq(Message)
      /\ Len(u) = Len(s) + Len(t)
      /\ \A i \in DOMAIN u : u[i] = IF i <= Len(s) THEN s[i] ELSE t[i - Len(s)]
      /\ DOMAIN u = 1..Len(u)
  BY DEF Plain
<1>2. SUFFICES ASSUME NEW i \in 1..Len(u)
               PROVE  /\ u[i] = "calls" => i < Len(u) /\ u[i + 1] = "results"
                      /\ u[i] = "results" => i > 1 /\ u[i - 1] = "calls"
                      /\ u[i] # "fallback"
  BY <1>1 DEF Paired
<1>3. CASE i <= Len(s)
  <2>1. i \in DOMAIN s /\ u[i] = s[i]
    BY <1>1, <1>3
  <2>2. i < Len(s) => u[i + 1] = s[i + 1]
    BY <1>1, <1>3
  <2>3. i > 1 => u[i - 1] = s[i - 1]
    BY <1>1, <1>3
  <2> HIDE DEF u
  <2> QED BY <1>1, <2>1, <2>2, <2>3 DEF Paired
<1>4. CASE i > Len(s)
  <2>1. u[i] = t[i - Len(s)] /\ i - Len(s) \in DOMAIN t
    BY <1>1, <1>4
  <2>2. t[i - Len(s)] \in Plain
    BY <2>1
  <2> QED BY <2>1, <2>2 DEF Plain
<1> QED
  BY <1>3, <1>4

\* Calls leave it awaiting their results.
LEMMA PairedCalls ==
  ASSUME NEW s \in Seq(Message), Paired(s)
  PROVE  Awaiting(s \o <<"calls">>)
<1> DEFINE u == s \o <<"calls">>
<1>1. /\ u # <<>> /\ Len(u) = Len(s) + 1 /\ u[Len(u)] = "calls"
      /\ \A i \in 1..Len(s) : u[i] = s[i]
  OBVIOUS
<1>2. \A i \in DOMAIN u :
        /\ u[i] = "calls" => i = Len(u) \/ u[i + 1] = "results"
        /\ u[i] = "results" => i > 1 /\ u[i - 1] = "calls"
        /\ u[i] # "fallback"
  <2> SUFFICES ASSUME NEW i \in 1..Len(u)
               PROVE  /\ u[i] = "calls" => i = Len(u) \/ u[i + 1] = "results"
                      /\ u[i] = "results" => i > 1 /\ u[i - 1] = "calls"
                      /\ u[i] # "fallback"
    OBVIOUS
  <2>1. CASE i = Len(u)
    BY <2>1, <1>1
  <2>2. CASE i <= Len(s)
    <3>1. i \in DOMAIN s /\ u[i] = s[i]
      BY <1>1, <2>2
    <3>2. i < Len(s) => u[i + 1] = s[i + 1]
      BY <1>1, <2>2
    <3>3. i > 1 => u[i - 1] = s[i - 1]
      BY <1>1, <2>2
    <3> HIDE DEF u
    <3> QED BY <1>1, <3>1, <3>2, <3>3 DEF Paired
  <2> QED BY <2>1, <2>2, <1>1
<1>3. Last(u) = "calls"
  BY <1>1 DEF Last
<1> HIDE DEF u
<1>4. Awaiting(u)
  BY <1>1, <1>2, <1>3 DEF Awaiting
<1> QED
  BY <1>4 DEF u

\* The results pair it again.
LEMMA AwaitingResults ==
  ASSUME NEW s \in Seq(Message), Awaiting(s)
  PROVE  Paired(s \o <<"results">>)
<1> DEFINE u == s \o <<"results">>
<1>1. /\ Len(u) = Len(s) + 1 /\ u[Len(u)] = "results"
      /\ \A i \in 1..Len(s) : u[i] = s[i]
      /\ Len(s) >= 1 /\ s[Len(s)] = "calls"
  BY DEF Awaiting, Last
<1>2. \A i \in DOMAIN u :
        /\ u[i] = "calls" => i < Len(u) /\ u[i + 1] = "results"
        /\ u[i] = "results" => i > 1 /\ u[i - 1] = "calls"
        /\ u[i] # "fallback"
  <2> SUFFICES ASSUME NEW i \in 1..Len(u)
               PROVE  /\ u[i] = "calls" => i < Len(u) /\ u[i + 1] = "results"
                      /\ u[i] = "results" => i > 1 /\ u[i - 1] = "calls"
                      /\ u[i] # "fallback"
    OBVIOUS
  <2>1. CASE i = Len(u)
    <3>1. u[i - 1] = "calls"
      BY <2>1, <1>1
    <3> QED BY <2>1, <3>1, <1>1
  <2>2. CASE i <= Len(s)
    <3>1. i \in DOMAIN s /\ u[i] = s[i]
      BY <1>1, <2>2
    <3>2. u[i + 1] = IF i < Len(s) THEN s[i + 1] ELSE "results"
      BY <1>1, <2>2
    <3>3. i > 1 => u[i - 1] = s[i - 1]
      BY <1>1, <2>2
    <3> HIDE DEF u
    <3> QED BY <1>1, <2>2, <3>1, <3>2, <3>3 DEF Awaiting
  <2> QED BY <2>1, <2>2, <1>1
<1> HIDE DEF u
<1>3. Paired(u)
  BY <1>2 DEF Paired
<1> QED
  BY <1>3 DEF u

\* A tail that does not begin with results is paired.
LEMMA PairedTail ==
  ASSUME NEW m \in Seq(Message), Paired(m), NEW i \in DOMAIN m, m[i] # "results"
  PROVE  Paired(SubSeq(m, i, Len(m)))
<1> DEFINE u == SubSeq(m, i, Len(m))
<1>1. /\ Len(u) = Len(m) - i + 1
      /\ \A j \in 1..(Len(m) - i + 1) : u[j] = m[i + j - 1]
      /\ DOMAIN u = 1..Len(u)
  <2>1. u \in Seq(Message)
    BY TailElements
  <2> QED BY <2>1, TailElements
<1>2. i \in 1..Len(m)
  OBVIOUS
<1> HIDE DEF u
<1>3. SUFFICES ASSUME NEW j \in 1..Len(u)
               PROVE  /\ u[j] = "calls" => j < Len(u) /\ u[j + 1] = "results"
                      /\ u[j] = "results" => j > 1 /\ u[j - 1] = "calls"
                      /\ u[j] # "fallback"
  BY <1>1 DEF Paired, u
<1>4. i + j - 1 \in DOMAIN m /\ u[j] = m[i + j - 1]
  BY <1>1, <1>2
<1>5. /\ m[i + j - 1] = "calls" => i + j - 1 < Len(m) /\ m[(i + j - 1) + 1] = "results"
      /\ m[i + j - 1] = "results" => i + j - 1 > 1 /\ m[(i + j - 1) - 1] = "calls"
      /\ m[i + j - 1] # "fallback"
  BY <1>4 DEF Paired
<1>6. ASSUME u[j] = "calls" PROVE j < Len(u) /\ u[j + 1] = "results"
  <2>1. j < Len(u)
    BY <1>1, <1>2, <1>4, <1>5, <1>6
  <2>2. u[j + 1] = m[(i + j - 1) + 1]
    BY <1>1, <1>2, <2>1
  <2> QED BY <1>4, <1>5, <1>6, <2>1, <2>2
<1>7. ASSUME u[j] = "results" PROVE j > 1 /\ u[j - 1] = "calls"
  <2>1. j # 1
    <3>1. j = 1 => i + j - 1 = i
      BY <1>2
    <3> QED BY <3>1, <1>4, <1>7
  <2>2. u[j - 1] = m[(i + j - 1) - 1]
    BY <1>1, <1>2, <2>1
  <2> QED BY <1>4, <1>5, <1>7, <2>1, <2>2
<1> QED
  BY <1>4, <1>5, <1>6, <1>7

\* A summary before a paired transcript leaves it paired.
LEMMA PairedSummary ==
  ASSUME NEW s \in Seq(Message), Paired(s)
  PROVE  Paired(<<"summary">> \o s)
<1> DEFINE u == <<"summary">> \o s
<1>1. /\ Len(u) = Len(s) + 1
      /\ u[1] = "summary"
      /\ \A j \in 1..Len(s) : u[j + 1] = s[j]
      /\ DOMAIN u = 1..Len(u)
  BY DEF Message
<1> HIDE DEF u
<1>2. SUFFICES ASSUME NEW j \in 1..Len(u)
               PROVE  /\ u[j] = "calls" => j < Len(u) /\ u[j + 1] = "results"
                      /\ u[j] = "results" => j > 1 /\ u[j - 1] = "calls"
                      /\ u[j] # "fallback"
  BY <1>1 DEF Paired, u
<1>3. CASE j = 1
  BY <1>1, <1>3
<1>4. CASE j > 1
  <2>1. j - 1 \in DOMAIN s /\ u[j] = s[j - 1]
    BY <1>1, <1>4
  <2>2. j < Len(u) => u[j + 1] = s[j]
    BY <1>1, <1>4
  <2>3. j > 2 => u[j - 1] = s[j - 2]
    BY <1>1, <1>4
  <2>4. u[j] = "calls" => j < Len(u) /\ u[j + 1] = "results"
    BY <1>1, <1>4, <2>1, <2>2 DEF Paired
  <2>5. ASSUME u[j] = "results" PROVE j > 1 /\ u[j - 1] = "calls"
    <3>1. j - 1 > 1 /\ s[(j - 1) - 1] = "calls"
      BY <2>1, <2>5 DEF Paired
    <3>2. (j - 1) - 1 = j - 2
      OBVIOUS
    <3> QED BY <1>4, <2>3, <3>1, <3>2
  <2> QED BY <2>1, <2>4, <2>5 DEF Paired
<1> QED
  BY <1>3, <1>4

\* Overflow recovery never separates calls from their results.
LEMMA KeptIsPaired ==
  ASSUME NEW m \in Seq(Message), Paired(m), NEW k \in Kept(m)
  PROVE  Paired(k)
<1>1. CASE k = m
  BY <1>1
<1>2. CASE k # m
  <2>1. PICK i \in DOMAIN m :
          /\ m[i] \notin {"results", "fallback", "summary"}
          /\ k = SubSeq(m, i, Len(m)) \/ k = <<"summary">> \o SubSeq(m, i, Len(m))
    BY <1>2, KeptShapes
  <2>2. SubSeq(m, i, Len(m)) \in Seq(Message)
    BY TailElements
  <2>3. Paired(SubSeq(m, i, Len(m)))
    BY <2>1, PairedTail
  <2>4. Paired(<<"summary">> \o SubSeq(m, i, Len(m)))
    BY <2>2, <2>3, PairedSummary
  <2> QED BY <2>1, <2>3, <2>4
<1> QED
  BY <1>1, <1>2

\* Where the loop is, what the transcript lacks: nothing, or the results of
\* its last calls; and whether the model has something to respond to.
RequestInv ==
  /\ pc \in {"idle", "collect", "loop", "stream", "turn_end"} /\ ~terminated => Paired(current)
  /\ pc = "idle" => current = context
  /\ pc = "batch" => Awaiting(current)
  /\ pc \in {"collect", "stream"} => Unanswered(current)
  /\ pc \in {"loop", "turn_end"} /\ hasMore /\ pending = <<>> => Unanswered(current)

\* A run starts from a transcript the caller may pass in.
LEMMA RequestInit == Init => RequestInv
  BY ContextAssumption DEF Init, RequestInv, context

\* Every step keeps the transcript in the shape its place in the loop needs.
LEMMA RequestNext ==
  TypeInv /\ TypeInv' /\ TerminatorInv /\ TerminatorInv' /\ RequestInv /\ [Next]_vars => RequestInv'
<1> SUFFICES ASSUME TypeInv, TypeInv', TerminatorInv, TerminatorInv', RequestInv, [Next]_vars
             PROVE  RequestInv'
  OBVIOUS
<1> USE DEF RequestInv, run, events, env
<1>t. /\ current \in Seq(Message)
      /\ pending \in Seq({"steer", "follow_up"})
      /\ pending \in Seq(Plain)
  <2>1. {"steer", "follow_up"} \subseteq Plain
    BY DEF Plain, Message, Assistant
  <2>2. current \in Seq(Message) /\ pending \in Seq({"steer", "follow_up"})
    BY DEF TypeInv, TypeOK
  <2>3. pending \in Seq(Plain)
    BY <2>1, <2>2
  <2> QED BY <2>2, <2>3
<1>e. /\ pc \in {"stream", "batch", "turn_end"} => pending = <<>> /\ (pc # "turn_end" => ~terminated)
      /\ terminated => ~hasMore /\ pending = <<>>
  BY DEF TerminatorInv, Final
<1>1. CASE RunPrompt
  <2>1. Paired(current) /\ current' = current \o <<"user">> /\ pc' = "collect"
    BY <1>1, <1>e DEF RunPrompt, PushBoth, TerminatorInv, Final
  <2>2. <<"user">> \in Seq(Plain)
    BY DEF Plain, Message, Assistant
  <2>3. Paired(current')
    BY <2>1, <2>2, <1>t, PairedPlain
  <2>4. Unanswered(current')
    BY <2>1, <1>t DEF Unanswered, Last, Assistant
  <2> QED BY <2>1, <2>3, <2>4
<1>2. CASE RunContinue
  <2>1. Paired(current) /\ current' = current /\ pc' = "collect"
    BY <1>2 DEF RunContinue, TerminatorInv, Final
  <2>2. Unanswered(current)
    BY <1>2 DEF RunContinue, MayContinue, Unanswered
  <2> QED BY <2>1, <2>2
<1>3. CASE RejectContinue \/ AbortAtTop \/ EndRun
  BY <1>3 DEF RejectContinue, AbortAtTop, EndRun
<1>4. CASE CollectInitial
  <2>1. Unanswered(current) /\ current' = current /\ pc' = "loop" /\ pc = "collect" /\ terminated' = terminated
    BY <1>4 DEF CollectInitial
  <2> QED BY <2>1 DEF Unanswered
<1>5. CASE BeginTurn
  <2>1. /\ current' = current \o pending /\ pc = "loop" /\ pc' = "stream"
        /\ hasMore \/ pending # <<>>
        /\ ~terminated
    BY <1>5, <1>e DEF BeginTurn, PushBoth, AnotherTurn
  <2>2. Paired(current')
    BY <2>1, <1>t, PairedPlain
  <2>3. Unanswered(current')
    <3>1. CASE pending = <<>>
      <4>1. Unanswered(current) /\ current' = current
        BY <2>1, <3>1, <1>t
      <4> QED BY <4>1 DEF Unanswered
    <3>2. CASE pending # <<>>
      <4>1. Last(current') = Last(pending) /\ current' # <<>>
        BY <2>1, <3>2, <1>t DEF Last
      <4>2. Last(pending) \in {"steer", "follow_up"}
        BY <3>2, <1>t DEF Last
      <4> QED BY <4>1, <4>2 DEF Unanswered, Assistant
    <3> QED BY <3>1, <3>2
  <2> QED BY <2>1, <2>2, <2>3
<1>6. CASE EndTurn
  <2>1. current' = current /\ pc = "turn_end" /\ pc' = "loop" /\ hasMore' = hasMore /\ terminated' = terminated
    BY <1>6 DEF EndTurn
  <2> QED BY <2>1, <1>e DEF Unanswered, Paired
<1>7. CASE AcceptFollowUp
  <2>1. PICK n \in 1..followUps : pending' = Times(n, "follow_up")
    BY <1>7 DEF AcceptFollowUp
  <2>2. pending' # <<>>
    BY <2>1 DEF Times
  <2>3. current' = current /\ pc = "loop" /\ pc' = "loop" /\ ~terminated
    BY <1>7 DEF AcceptFollowUp
  <2> QED BY <2>2, <2>3 DEF Paired
<1>8. CASE StreamCalls
  <2>1. PICK kept \in Kept(current) : current' = kept \o <<"calls">>
    BY <1>8 DEF StreamCalls
  <2>2. Paired(kept) /\ kept \in Seq(Message)
    BY <1>8, <1>e, <1>t, KeptIsPaired, KeptIsTranscript DEF StreamCalls
  <2>3. Awaiting(current')
    BY <2>1, <2>2, PairedCalls
  <2> QED BY <1>8, <2>3 DEF StreamCalls
<1>9. CASE StreamText
  <2>1. PICK message \in {"text", "silent"}, narrowed \in BOOLEAN, kept \in Kept(current) :
          LET reply == IF NudgeMode(narrowed) THEN <<message, "nudge">>
                       ELSE IF TakesText(message, narrowed) THEN <<message, "fallback">>
                       ELSE <<message>>
          IN  /\ current' = kept \o reply
              /\ hasMore' = NudgeMode(narrowed)
              /\ terminated' = (terminated \/ TakesText(message, narrowed))
    BY <1>9 DEF StreamText
  <2>2. Paired(kept) /\ kept \in Seq(Message)
    BY <1>9, <1>e, <1>t, KeptIsPaired, KeptIsTranscript DEF StreamText
  <2>3. <<message>> \in Seq(Plain) /\ <<message, "nudge">> \in Seq(Plain)
    BY DEF Plain, Message, Assistant
  <2>4. CASE NudgeMode(narrowed)
    <3>1. current' = kept \o <<message, "nudge">>
      BY <2>1, <2>4
    <3>2. Paired(current')
      BY <3>1, <2>2, <2>3, PairedPlain
    <3>3. Unanswered(current')
      BY <3>1, <2>2 DEF Unanswered, Last, Assistant
    <3> QED BY <1>9, <3>2, <3>3 DEF StreamText
  <2>5. CASE ~NudgeMode(narrowed) /\ TakesText(message, narrowed)
    <3>1. terminated' /\ ~hasMore'
      BY <2>1, <2>5
    <3> QED BY <1>9, <3>1 DEF StreamText
  <2>6. CASE ~NudgeMode(narrowed) /\ ~TakesText(message, narrowed)
    <3>1. current' = kept \o <<message>> /\ ~hasMore'
      BY <2>1, <2>6
    <3>2. Paired(current')
      BY <3>1, <2>2, <2>3, PairedPlain
    <3> QED BY <1>9, <3>1, <3>2 DEF StreamText
  <2> QED BY <2>4, <2>5, <2>6
<1>10. CASE StreamFails \/ BatchFails
  BY <1>10 DEF StreamFails, BatchFails
<1>11. CASE BatchReturns
  <2>1. current' = current \o <<"results">> /\ Awaiting(current) /\ pc' = "turn_end"
    BY <1>11 DEF BatchReturns, PushBoth
  <2>2. Paired(current')
    BY <2>1, <1>t, AwaitingResults
  <2>3. Unanswered(current')
    BY <2>1, <1>t DEF Unanswered, Last, Assistant
  <2> QED BY <2>1, <2>2, <2>3
<1>12. CASE Steer \/ Cancel \/ UNCHANGED vars
  <2>1. /\ pc' = pc /\ current' = current /\ setup' = setup
        /\ hasMore' = hasMore /\ pending' = pending /\ terminated' = terminated
    BY <1>12 DEF Steer, Cancel, vars
  <2>2. /\ Paired(current') = Paired(current)
        /\ Awaiting(current') = Awaiting(current)
        /\ Unanswered(current') = Unanswered(current)
        /\ context' = context
    BY <2>1 DEF context
  <2> QED BY <2>1, <2>2
<1> QED
  BY <1>1, <1>2, <1>3, <1>4, <1>5, <1>6, <1>7, <1>8, <1>9, <1>10, <1>11, <1>12
  DEF Next, Own, Stream, Batch, Ended

\* Every request carries a transcript a provider accepts, and one the model
\* has something to respond to.
THEOREM RequestsAreValid == Spec => []RequestIsValid
<1>1. TerminatorInv /\ RequestInv => RequestIsValid
  BY DEF TerminatorInv, RequestInv, RequestIsValid, Unanswered, Final
<1> QED
  BY <1>1, Types, Terminators, RequestInit, RequestNext, PTL DEF Spec
-----------------------------------------------------------------------------
(* Steering. *)

\* How many messages of a transcript are steering.
LEMMA SteeredCounts ==
  ASSUME NEW s \in Seq(Message)
  PROVE  /\ IsFiniteSet({i \in DOMAIN s : s[i] = "steer"})
         /\ Steered(s) \in Nat
         /\ (\A i \in DOMAIN s : s[i] # "steer") => Steered(s) = 0
         /\ (\A i \in DOMAIN s : s[i] = "steer") => Steered(s) = Len(s)
<1> DEFINE S == {i \in DOMAIN s : s[i] = "steer"}
<1>1. DOMAIN s = 1 .. Len(s) /\ Len(s) \in Nat
  OBVIOUS
<1>2. IsFiniteSet(1 .. Len(s)) /\ Cardinality(1 .. Len(s)) = Len(s)
  BY <1>1, FS_Interval
<1>3. IsFiniteSet(S)
  BY <1>1, <1>2, FS_Subset
<1>4. Cardinality(S) \in Nat
  BY <1>3, FS_CardinalityType
<1>5. ASSUME \A i \in DOMAIN s : s[i] # "steer" PROVE Cardinality(S) = 0
  <2>1. S = {}
    BY <1>5
  <2> QED BY <2>1, FS_EmptySet
<1>6. ASSUME \A i \in DOMAIN s : s[i] = "steer" PROVE Cardinality(S) = Len(s)
  <2>1. S = 1 .. Len(s)
    BY <1>1, <1>6
  <2> QED BY <1>2, <2>1
<1> QED BY <1>3, <1>4, <1>5, <1>6 DEF Steered

\* Transcripts put together hold the steering of both.
LEMMA SteeredAdds ==
  ASSUME NEW s \in Seq(Message), NEW t \in Seq(Message)
  PROVE  Steered(s \o t) = Steered(s) + Steered(t)
<1> DEFINE n == Len(s)
           k == Len(t)
           S == {i \in DOMAIN s : s[i] = "steer"}
           T == {i \in DOMAIN t : t[i] = "steer"}
           U == {n + i : i \in T}
           both == s \o t
<1>1. /\ n \in Nat /\ k \in Nat /\ DOMAIN s = 1 .. n /\ DOMAIN t = 1 .. k
      /\ both \in Seq(Message) /\ DOMAIN both = 1 .. (n + k)
      /\ \A i \in 1 .. (n + k) : both[i] = IF i <= n THEN s[i] ELSE t[i - n]
  OBVIOUS
<1> HIDE DEF both, n, k
<1>2. {i \in DOMAIN both : both[i] = "steer"} = S \cup U
  <2>1. \A i \in 1 .. n : i \in 1 .. (n + k) /\ both[i] = s[i]
    BY <1>1
  <2>2. \A i \in 1 .. k : n + i \in 1 .. (n + k) /\ both[n + i] = t[i]
    BY <1>1
  <2>3. \A i \in 1 .. (n + k) : i \in 1 .. n \/ (i - n \in 1 .. k /\ n + (i - n) = i)
    BY <1>1
  <2>4. S \cup U \subseteq {i \in DOMAIN both : both[i] = "steer"}
    BY <1>1, <2>1, <2>2
  <2>5. ASSUME NEW i \in DOMAIN both, both[i] = "steer", i \notin S
        PROVE  i \in U
    <3>1. i \notin 1 .. n
      BY <1>1, <2>1, <2>5
    <3>2. PICK j : j = i - n
      OBVIOUS
    <3>3. j \in 1 .. k /\ n + j = i
      BY <1>1, <2>3, <2>5, <3>1, <3>2
    <3>4. j \in T
      BY <1>1, <2>2, <2>5, <3>3
    <3> QED BY <3>3, <3>4
  <2> QED BY <2>4, <2>5
<1>3. IsFiniteSet(S) /\ IsFiniteSet(T)
  BY SteeredCounts
<1>4. IsFiniteSet(U) /\ Cardinality(U) = Cardinality(T)
  <2> DEFINE f == [i \in T |-> n + i]
  <2>1. f \in [T -> U] /\ \A i \in T : f[i] = n + i
    OBVIOUS
  <2>2. \A i, j \in T : f[i] = f[j] => i = j
    BY <1>1
  <2>3. \A u \in U : \E i \in T : f[i] = u
    OBVIOUS
  <2> HIDE DEF f, T, U
  <2>4. f \in Bijection(T, U)
    BY <2>1, <2>2, <2>3 DEF Bijection, Injection, Surjection, IsInjective
  <2> QED BY <1>3, <2>4, FS_Bijection DEF ExistsBijection
<1>5. S \cap U = {}
  BY <1>1
<1> HIDE DEF S, T, U
<1>6. Cardinality(S \cup U) = Cardinality(S) + Cardinality(U) - Cardinality(S \cap U)
  BY <1>3, <1>4, FS_Union
<1>7. Cardinality(S \cap U) = 0
  BY <1>5, FS_EmptySet
<1>8. Cardinality(S) \in Nat /\ Cardinality(U) \in Nat
  BY <1>3, <1>4, FS_CardinalityType
<1>9. Cardinality(S \cup U) = Cardinality(S) + Cardinality(T)
  BY <1>4, <1>6, <1>7, <1>8
<1> QED BY <1>2, <1>9 DEF Steered, S, T, both

\* Nothing waits before the loop first looks at the channel, and nothing that
\* was taken from it is lost while the run goes on or ends well.
SteeringInv ==
  /\ pc \in {"idle", "collect"} => pending = <<>>
  /\ SteeringConserved

\* Nothing is steered before the run.
LEMMA SteeringInit == Init => SteeringInv
<1> SUFFICES ASSUME Init PROVE SteeringInv
  OBVIOUS
<1>1. <<>> \in Seq(Message) /\ DOMAIN <<>> = {}
  OBVIOUS
<1>2. Steered(<<>>) = 0
  BY <1>1, SteeredCounts
<1> QED BY <1>2 DEF Init, SteeringInv, SteeringConserved

\* No step loses or doubles a steering message.
LEMMA SteeringNext == TypeInv /\ TerminatorInv /\ SteeringInv /\ [Next]_vars => SteeringInv'
<1> SUFFICES ASSUME TypeInv, TerminatorInv, SteeringInv, [Next]_vars PROVE SteeringInv'
  OBVIOUS
<1> USE DEF SteeringInv, SteeringConserved, run, events, env
<1>t. /\ produced \in Seq(Message) /\ pending \in Seq(Message) /\ sent \in Nat /\ drained \in Nat /\ drained <= sent
  <2>1. pending \in Seq(Message)
    BY DEF TypeInv, TypeOK, Message
  <2> QED BY <2>1, LoopAssumption DEF TypeInv, TypeOK
<1>0. Steered(<<>>) = 0
  <2>1. <<>> \in Seq(Message) /\ DOMAIN <<>> = {}
    OBVIOUS
  <2> QED BY <2>1, SteeredCounts
<1>s. Steered(produced) \in Nat /\ Steered(pending) \in Nat
  BY <1>t, SteeredCounts
<1>c. \* What the channel held is steering.
      Steered(Times(sent - drained, "steer")) = sent - drained
  <2>1. sent - drained \in Nat
    BY <1>t
  <2>2. Times(sent - drained, "steer") \in Seq(Message)
    BY <2>1, TimesIsTranscript DEF Message
  <2>3. /\ DOMAIN Times(sent - drained, "steer") = 1 .. (sent - drained)
        /\ \A i \in 1 .. (sent - drained) : Times(sent - drained, "steer")[i] = "steer"
        /\ Len(Times(sent - drained, "steer")) = sent - drained
    BY <2>1 DEF Times
  <2> QED BY <2>2, <2>3, SteeredCounts
<1>m. \* What the loop adds of its own is not.
      ASSUME NEW s \in Seq(Message \ {"steer"})
      PROVE  Steered(produced \o s) = Steered(produced)
  <2>1. s \in Seq(Message) /\ \A i \in DOMAIN s : s[i] # "steer"
    OBVIOUS
  <2>2. Steered(s) = 0
    BY <2>1, SteeredCounts
  <2> QED BY <1>s, <1>t, <2>1, <2>2, SteeredAdds
<1>1. CASE RunPrompt
  <2>1. <<"user">> \in Seq(Message \ {"steer"})
    BY DEF Message
  <2>2. Steered(produced') = Steered(produced)
    BY <1>1, <1>m, <2>1 DEF RunPrompt, PushBoth
  <2> QED BY <1>1, <2>2 DEF RunPrompt
<1>2. CASE RunContinue \/ RejectContinue \/ Steer \/ Cancel
  BY <1>2 DEF RunContinue, RejectContinue, Steer, Cancel
<1>3. CASE CollectInitial
  <2>1. /\ Steered(pending') = sent - drained /\ drained' = sent /\ produced' = produced
        /\ pending = <<>> /\ pc = "collect" /\ pc' = "loop"
    BY <1>3, <1>c DEF CollectInitial, DrainSteering
  <2>2. Steered(pending) = 0
    BY <1>0, <2>1
  <2> QED BY SMTT(30), <1>s, <1>t, <2>1, <2>2
<1>4. CASE BeginTurn
  <2>1. produced' = produced \o pending /\ pending' = <<>> /\ drained' = drained /\ pc = "loop" /\ pc' = "stream"
    BY <1>4 DEF BeginTurn, PushBoth
  <2>2. Steered(produced') = Steered(produced) + Steered(pending)
    BY <1>t, <2>1, SteeredAdds
  <2> QED BY <1>0, <1>s, <1>t, <2>1, <2>2
<1>5. CASE EndTurn
  <2>1. pending = <<>> /\ produced' = produced /\ pc = "turn_end" /\ pc' = "loop"
    BY <1>5 DEF EndTurn, TerminatorInv
  <2>2. Steered(pending) = 0
    BY <1>0, <2>1
  <2>3. CASE terminated
    BY <1>0, <1>5, <2>1, <2>2, <2>3 DEF EndTurn
  <2>4. CASE ~terminated
    <3>1. Steered(pending') = sent - drained /\ drained' = sent
      BY <1>5, <1>c, <2>4 DEF EndTurn, DrainSteering
    <3> QED BY SMTT(30), <1>s, <1>t, <2>1, <2>2, <3>1
  <2> QED BY <2>3, <2>4
<1>6. CASE AcceptFollowUp
  <2>1. /\ pending = <<>> /\ produced' = produced /\ drained' = drained
        /\ pc = "loop" /\ pc' = "loop"
    BY <1>6 DEF AcceptFollowUp, AnotherTurn
  <2>2. PICK n \in 1..followUps : pending' = Times(n, "follow_up")
    BY <1>6 DEF AcceptFollowUp
  <2>3. n \in Nat
    BY LoopAssumption DEF TypeInv, TypeOK
  <2>4. pending' \in Seq(Message) /\ \A i \in DOMAIN pending' : pending'[i] # "steer"
    <3>1. Times(n, "follow_up") \in Seq(Message)
      BY <2>3, TimesIsTranscript DEF Message
    <3>2. \A i \in DOMAIN Times(n, "follow_up") : Times(n, "follow_up")[i] = "follow_up"
      BY DEF Times
    <3> QED BY <2>2, <3>1, <3>2
  <2>5. Steered(pending') = 0
    BY <2>4, SteeredCounts
  <2>6. Steered(pending) = 0
    BY <1>0, <2>1
  <2> QED BY <2>1, <2>5, <2>6
<1>7. CASE StreamCalls
  <2>1. <<"calls">> \in Seq(Message \ {"steer"})
    BY DEF Message, Assistant
  <2>2. Steered(produced') = Steered(produced)
    BY <1>7, <1>m, <2>1 DEF StreamCalls
  <2> QED BY <1>7, <2>2 DEF StreamCalls
<1>8. CASE StreamText
  <2>1. PICK m \in {"text", "silent"}, narrowed \in BOOLEAN :
          produced' = produced \o (IF NudgeMode(narrowed) THEN <<m, "nudge">>
                                   ELSE IF TakesText(m, narrowed) THEN <<m, "fallback">>
                                   ELSE <<m>>)
    BY <1>8 DEF StreamText
  <2>2. /\ <<m, "nudge">> \in Seq(Message \ {"steer"})
        /\ <<m, "fallback">> \in Seq(Message \ {"steer"})
        /\ <<m>> \in Seq(Message \ {"steer"})
    BY DEF Message, Assistant
  <2>3. Steered(produced') = Steered(produced)
    BY <1>m, <2>1, <2>2
  <2> QED BY <1>8, <2>3 DEF StreamText
<1>9. CASE AbortAtTop \/ StreamFails \/ BatchFails
  <2>1. pc' \in {"aborted", "failed"}
    BY <1>9 DEF AbortAtTop, StreamFails, BatchFails
  <2> QED BY <2>1
<1>e. CASE EndRun
  <2>1. /\ pc = "loop" /\ pc' = "done" /\ pending = <<>>
        /\ produced' = produced /\ pending' = pending /\ drained' = drained
    BY <1>e DEF EndRun, AnotherTurn
  <2> QED BY <1>0, <1>s, <1>t, <2>1
<1>10. CASE BatchReturns
  <2>1. <<"results">> \in Seq(Message \ {"steer"})
    BY DEF Message
  <2>2. Steered(produced') = Steered(produced)
    BY <1>10, <1>m, <2>1 DEF BatchReturns, PushBoth
  <2> QED BY <1>10, <2>2 DEF BatchReturns
<1>11. CASE UNCHANGED vars
  BY <1>11 DEF vars
<1> QED
  BY <1>1, <1>2, <1>3, <1>4, <1>5, <1>6, <1>7, <1>8, <1>9, <1>e, <1>10, <1>11
  DEF Next, Own, Stream, Batch, Ended

\* While a run goes on no steering message taken from the channel is lost or
\* doubled, and a run that ends well hands all of them back.
THEOREM SteeringIsConserved == Spec => []SteeringConserved
<1>1. SteeringInv => SteeringConserved
  BY DEF SteeringInv
<1> QED
  BY <1>1, Types, Terminators, SteeringInit, SteeringNext, PTL DEF Spec
-----------------------------------------------------------------------------
(* The run with its events. *)

\* Every step of a run with its events is a step of the loop, or one it does
\* not see.
LEMMA EvStep == [EvNext]_all => [Next]_vars
<1> SUFFICES ASSUME [EvNext]_all PROVE [Next]_vars
  OBVIOUS
<1>1. CASE EvRunPrompt \/ EvRunContinue
  BY <1>1 DEF EvRunPrompt, EvRunContinue, Next
<1>2. CASE EvOwn
  <2>1. CASE AnnounceTurnEnd
    BY <2>1 DEF AnnounceTurnEnd
  <2>2. CASE EvBeginTurn \/ EvEndTurn \/ EvEndRun \/ Silent
    BY <2>2 DEF EvBeginTurn, EvEndTurn, EvEndRun, Silent, Next, Own
  <2> QED
    BY <1>2, <2>1, <2>2 DEF EvOwn
<1>3. CASE EvStream
  <2>1. CASE Request \/ ProviderSends \/ Retry \/ Wake \/ Escalate
    BY <2>1 DEF Request, ProviderSends, Retry, Wake, Escalate
  <2>2. CASE EvStreamCalls \/ EvStreamText \/ EvStreamFails
    BY <2>2 DEF EvStreamCalls, EvStreamText, EvStreamFails, Next, Stream
  <2> QED
    BY <1>3, <2>1, <2>2 DEF EvStream
<1>4. CASE EvBatch
  <2>1. CASE SequentialPrepare \/ SequentialReturn \/ ParallelPrepare \/ ParallelReturn \/ AnswerHeld
    BY <2>1 DEF SequentialPrepare, SequentialReturn, ParallelPrepare, ParallelReturn, AnswerHeld
  <2>2. CASE EvBatchReturns \/ EvBatchFails
    BY <2>2 DEF EvBatchReturns, EvBatchFails, Next, Batch
  <2> QED
    BY <1>4, <2>1, <2>2 DEF EvBatch
<1>5. CASE Deliver
  BY <1>5 DEF Deliver
<1>6. CASE FromOutside
  BY <1>6 DEF FromOutside, Next
<1>7. CASE EvEnded \/ UNCHANGED all
  BY <1>7 DEF EvEnded, all
<1> QED
  BY <1>1, <1>2, <1>3, <1>4, <1>5, <1>6, <1>7 DEF EvNext

\* A run whose attempts, calls and listener are looked at is a run of the
\* loop: retries, escalations and the order of a batch's calls are steps the
\* loop does not see (run.rs, exec.rs). What holds of AgentLoop holds of it.
THEOREM EventsRefineTheLoop == EvSpec => Spec
<1>1. EvInit => Init
  BY DEF EvInit
<1> QED
  BY <1>1, EvStep, PTL DEF EvSpec, Spec

\* Requests are valid in a run with retries and listeners too.
THEOREM EventfulRequestsAreValid == EvSpec => []RequestIsValid
  BY EventsRefineTheLoop, RequestsAreValid

\* Nothing follows a terminator, however the messages and events of its turn
\* were come by.
THEOREM NothingFollowsATerminator == EvSpec => TerminatorIsLast
  BY EventsRefineTheLoop, NoTurnAfterATerminator
-----------------------------------------------------------------------------
(* Hearing events, one after the other.                                     *)

Call == 1..MaxCalls

Kinds == {"none", "AgentStart", "AgentEnd", "TurnStart", "TurnEnd", "RequestPrepared", "MessageStart",
          "MessageUpdate", "MessageEnd", "Escalation", "ExecutionStart", "ExecutionEnd"}

\* Where a listener may be.
Where == [run : {"before", "open", "over"}, turn : BOOLEAN, message : BOOLEAN,
          asked : SUBSET Call, executing : SUBSET Call, answered : SUBSET Call, last : Kinds]

\* What the grammar lets a listener at v hear: the guards of EventContract.
Legal(v, e) ==
  \/ e.kind = "AgentStart" /\ v.run = "before"
  \/ e.kind = "AgentEnd" /\ v.run = "open" /\ ~v.turn
  \/ e.kind = "TurnStart" /\ v.run = "open" /\ ~v.turn
  \/ e.kind = "TurnEnd" /\ v.turn /\ ~v.message /\ v.executing = {} /\ v.answered = v.asked
  \/ /\ e.kind \in {"RequestPrepared", "MessageStart"}
     /\ v.turn /\ ~v.message /\ v.executing = {} /\ v.answered = {}
  \/ e.kind = "MessageUpdate" /\ v.message
  \/ /\ e.kind = "MessageEnd" /\ e.calls \in SUBSET Call
     /\ v.turn /\ (v.message \/ v.last = "RequestPrepared")
  \/ e.kind = "Escalation" /\ v.turn /\ v.last = "MessageEnd"
  \/ /\ e.kind = "ExecutionStart" /\ e.call \in v.asked \ (v.executing \cup v.answered)
     /\ v.turn /\ ~v.message
  \/ e.kind = "ExecutionEnd" /\ e.call \in v.asked \ v.answered /\ v.turn /\ ~v.message

\* Hearing what the grammar allows leads somewhere.
LEMMA HeardIsSomewhere ==
  ASSUME NEW v \in Where, NEW e, Legal(v, e)
  PROVE  Heard(v, e) \in Where
<1>1. e.kind \in Kinds
  BY DEF Legal, Kinds
<1>2. e.kind = "MessageEnd" => e.calls \in SUBSET Call
  BY DEF Legal
<1>3. e.kind \in {"ExecutionStart", "ExecutionEnd"} => e.call \in Call
  BY DEF Legal, Where
<1>4. [v EXCEPT !.last = e.kind] \in Where
  BY <1>1 DEF Where
<1> QED BY ZenonT(40), <1>2, <1>3, <1>4 DEF Where, Heard

\* ... by a step of the grammar.
LEMMA LegalIsInTheGrammar ==
  ASSUME view \in Where, NEW e, Legal(view, e), view' = Heard(view, e)
  PROVE  Events!Next
<1> USE DEF Where, Heard
<1>1. CASE e.kind = "AgentStart"
  BY <1>1 DEF Legal, Events!Next, Events!AgentStart
<1>2. CASE e.kind = "AgentEnd"
  BY <1>2 DEF Legal, Events!Next, Events!AgentEnd
<1>3. CASE e.kind = "TurnStart"
  BY <1>3 DEF Legal, Events!Next, Events!TurnStart
<1>4. CASE e.kind = "TurnEnd"
  BY <1>4 DEF Legal, Events!Next, Events!TurnEnd
<1>5. CASE e.kind = "RequestPrepared"
  BY <1>5 DEF Legal, Events!Next, Events!RequestPrepared
<1>6. CASE e.kind = "MessageStart"
  BY <1>6 DEF Legal, Events!Next, Events!MessageStart
<1>7. CASE e.kind = "MessageUpdate"
  BY <1>7 DEF Legal, Events!Next, Events!MessageUpdate
<1>8. CASE e.kind = "MessageEnd"
  <2>1. e.calls \in SUBSET Call /\ Events!MessageEnd(e.calls)
    BY <1>8 DEF Legal, Events!MessageEnd
  <2> QED BY <2>1 DEF Events!Next, Call
<1>9. CASE e.kind = "Escalation"
  BY <1>9 DEF Legal, Events!Next, Events!Escalation
<1>10. CASE e.kind = "ExecutionStart"
  <2>1. e.call \in Call /\ Events!ExecutionStart(e.call)
    BY <1>10 DEF Legal, Events!ExecutionStart
  <2> QED BY <2>1 DEF Events!Next, Call
<1>11. CASE e.kind = "ExecutionEnd"
  <2>1. e.call \in Call /\ Events!ExecutionEnd(e.call)
    BY <1>11 DEF Legal, Events!ExecutionEnd
  <2> QED BY <2>1 DEF Events!Next, Call
<1> QED BY <1>1, <1>2, <1>3, <1>4, <1>5, <1>6, <1>7, <1>8, <1>9, <1>10, <1>11 DEF Legal

\* A listener at v that hears s, all of it legal, is at w.
Leads(path, v, s, w) ==
  /\ path \in [0 .. Len(s) -> Where]
  /\ path[0] = v /\ path[Len(s)] = w
  /\ \A i \in 1 .. Len(s) : Legal(path[i - 1], s[i]) /\ path[i] = Heard(path[i - 1], s[i])

IsSaid(s) == \E S : s \in Seq(S)

Follows(v, s, w) == IsSaid(s) /\ \E path : Leads(path, v, s, w)

\* Both ends of what is heard are places a listener may be.
LEMMA FollowsIsSomewhere ==
  ASSUME NEW v, NEW s, NEW w, Follows(v, s, w)
  PROVE  v \in Where /\ w \in Where
<1>1. PICK path : Leads(path, v, s, w)
  BY DEF Follows
<1>2. Len(s) \in Nat
  BY DEF Follows, IsSaid
<1> QED BY <1>1, <1>2 DEF Leads

\* A listener that hears nothing stays where it is ...
LEMMA NothingFollows ==
  ASSUME NEW v \in Where
  PROVE  Follows(v, <<>>, v)
<1> DEFINE path == [i \in 0 .. 0 |-> v]
<1>1. <<>> \in Seq({}) /\ Len(<<>>) = 0
  OBVIOUS
<1>2. Leads(path, v, <<>>, v)
  BY <1>1 DEF Leads
<1> QED BY <1>1, <1>2 DEF Follows, IsSaid

\* ... and nowhere else.
LEMMA NothingLeadsNowhere ==
  ASSUME NEW v, NEW w, Follows(v, <<>>, w)
  PROVE  v = w
<1>1. PICK path : Leads(path, v, <<>>, w)
  BY DEF Follows
<1>2. Len(<<>>) = 0
  OBVIOUS
<1> QED BY <1>1, <1>2 DEF Leads

\* One legal event.
LEMMA OneFollows ==
  ASSUME NEW v \in Where, NEW e, Legal(v, e)
  PROVE  Follows(v, <<e>>, Heard(v, e))
<1> DEFINE path == [i \in 0 .. 1 |-> IF i = 0 THEN v ELSE Heard(v, e)]
           s == <<e>>
<1>1. s \in Seq({e}) /\ Len(s) = 1 /\ s[1] = e
  OBVIOUS
<1>2. Heard(v, e) \in Where
  BY HeardIsSomewhere
<1>3. Leads(path, v, s, Heard(v, e))
  <2> HIDE DEF s
  <2> QED BY <1>1, <1>2 DEF Leads
<1>4. IsSaid(s)
  <2> HIDE DEF s
  <2> QED BY <1>1 DEF IsSaid
<1> QED BY <1>3, <1>4 DEF Follows

\* One stretch of legal events after another.
LEMMA BothFollow ==
  ASSUME NEW v, NEW s, NEW u, NEW t, NEW w, Follows(v, s, u), Follows(u, t, w)
  PROVE  Follows(v, s \o t, w)
<1>1. PICK p : Leads(p, v, s, u)
  BY DEF Follows
<1>2. PICK q : Leads(q, u, t, w)
  BY DEF Follows
<1>3. PICK S : s \in Seq(S)
  BY DEF Follows, IsSaid
<1>4. PICK T : t \in Seq(T)
  BY DEF Follows, IsSaid
<1>5. s \in Seq(S \cup T) /\ t \in Seq(S \cup T)
  BY <1>3, <1>4
<1> DEFINE m == Len(s)
           n == Len(t)
           path == [i \in 0 .. (m + n) |-> IF i <= m THEN p[i] ELSE q[i - m]]
<1>6. /\ m \in Nat /\ n \in Nat
      /\ s \o t \in Seq(S \cup T) /\ Len(s \o t) = m + n
      /\ \A i \in 1 .. (m + n) : (s \o t)[i] = IF i <= m THEN s[i] ELSE t[i - m]
  BY <1>5
<1>7. /\ p \in [0 .. m -> Where] /\ p[0] = v /\ p[m] = u
      /\ \A i \in 1 .. m : Legal(p[i - 1], s[i]) /\ p[i] = Heard(p[i - 1], s[i])
  BY <1>1 DEF Leads
<1>8. /\ q \in [0 .. n -> Where] /\ q[0] = u /\ q[n] = w
      /\ \A i \in 1 .. n : Legal(q[i - 1], t[i]) /\ q[i] = Heard(q[i - 1], t[i])
  BY <1>2 DEF Leads
<1> HIDE DEF m, n
<1>9. path \in [0 .. (m + n) -> Where]
  BY <1>6, <1>7, <1>8
<1>10. path[0] = v /\ path[m + n] = w
  <2>1. 0 \in 0 .. (m + n) /\ m + n \in 0 .. (m + n) /\ 0 <= m
    BY <1>6
  <2>2. path[0] = p[0]
    BY <2>1
  <2>3. CASE n = 0
    <3>1. m + n = m /\ u = w
      BY <1>6, <1>8, <2>3
    <3>2. path[m + n] = p[m]
      BY <2>1, <3>1
    <3> QED BY <1>7, <2>2, <3>1, <3>2
  <2>4. CASE n # 0
    <3>1. ~(m + n <= m) /\ (m + n) - m = n
      BY <1>6, <2>4
    <3>2. path[m + n] = q[n]
      BY <2>1, <3>1
    <3> QED BY <1>7, <1>8, <2>2, <3>2
  <2> QED BY <2>3, <2>4
<1>11. ASSUME NEW i \in 1 .. (m + n)
       PROVE  Legal(path[i - 1], (s \o t)[i]) /\ path[i] = Heard(path[i - 1], (s \o t)[i])
  <2>1. CASE i <= m
    <3>1. i \in 1 .. m /\ path[i - 1] = p[i - 1] /\ path[i] = p[i] /\ (s \o t)[i] = s[i]
      BY <1>6, <2>1
    <3> QED BY <1>7, <3>1
  <2>2. CASE i > m
    <3>1. i - m \in 1 .. n /\ ~(i <= m) /\ i \in 0 .. (m + n)
      BY <1>6, <2>2
    <3>3. path[i] = q[i - m] /\ (s \o t)[i] = t[i - m]
      BY <1>6, <3>1
    <3>2. path[i - 1] = q[i - m - 1]
      <4>1. i - 1 \in 0 .. (m + n) /\ i - m - 1 = (i - 1) - m
        BY <1>6
      <4>2. CASE i - 1 <= m
        <5>1. i - 1 = m /\ i - m - 1 = 0
          BY <1>6, <2>2, <4>2
        <5>2. path[i - 1] = p[m]
          BY <4>1, <4>2, <5>1
        <5> QED BY <1>7, <1>8, <5>1, <5>2
      <4>3. CASE ~(i - 1 <= m)
        BY <4>1, <4>3
      <4> QED BY <4>2, <4>3
    <3> QED BY <1>8, <3>1, <3>2, <3>3
  <2> QED BY <1>6, <2>1, <2>2
<1>12. Leads(path, v, s \o t, w)
  BY <1>6, <1>9, <1>10, <1>11 DEF Leads
<1> QED BY <1>6, <1>12 DEF Follows, IsSaid

\* The first of a stretch of legal events is legal, and leads to the rest.
LEMMA TheRestFollows ==
  ASSUME NEW v, NEW s, NEW w, Follows(v, s, w), s # <<>>
  PROVE  Legal(v, Head(s)) /\ Follows(Heard(v, Head(s)), Tail(s), w)
<1>1. PICK p : Leads(p, v, s, w)
  BY DEF Follows
<1>2. PICK S : s \in Seq(S)
  BY DEF Follows, IsSaid
<1> DEFINE n == Len(s)
           q == [i \in 0 .. (n - 1) |-> p[i + 1]]
<1>3. /\ n \in Nat \ {0} /\ Head(s) = s[1]
      /\ Tail(s) \in Seq(S) /\ Len(Tail(s)) = n - 1
      /\ \A i \in 1 .. (n - 1) : Tail(s)[i] = s[i + 1]
  BY <1>2
<1>4. /\ p \in [0 .. n -> Where] /\ p[0] = v /\ p[n] = w
      /\ \A i \in 1 .. n : Legal(p[i - 1], s[i]) /\ p[i] = Heard(p[i - 1], s[i])
  BY <1>1 DEF Leads
<1> HIDE DEF n
<1>5. q \in [0 .. (n - 1) -> Where] /\ q[0] = p[1] /\ q[n - 1] = w
  BY <1>3, <1>4
<1>6. Legal(v, Head(s)) /\ p[1] = Heard(v, Head(s))
  BY <1>3, <1>4
<1>7. ASSUME NEW i \in 1 .. (n - 1)
      PROVE  Legal(q[i - 1], Tail(s)[i]) /\ q[i] = Heard(q[i - 1], Tail(s)[i])
  <2>1. q[i - 1] = p[i] /\ q[i] = p[i + 1] /\ Tail(s)[i] = s[i + 1] /\ i + 1 \in 1 .. n /\ (i + 1) - 1 = i
    BY <1>3
  <2> QED BY <1>4, <2>1
<1>8. Leads(q, Heard(v, Head(s)), Tail(s), w)
  BY <1>3, <1>5, <1>6, <1>7 DEF Leads
<1> QED BY <1>3, <1>6, <1>8 DEF Follows, IsSaid

\* Places that agree in every part are the same.
LEMMA SamePlace ==
  ASSUME NEW a \in Where, NEW b \in Where,
         a.run = b.run, a.turn = b.turn, a.message = b.message, a.asked = b.asked,
         a.executing = b.executing, a.answered = b.answered, a.last = b.last
  PROVE  a = b
BY DEF Where

\* A table of n events is a sequence of them.
LEMMA TableIsSaid ==
  ASSUME NEW n \in Nat, NEW s, s = [i \in 1 .. n |-> s[i]]
  PROVE  IsSaid(s) /\ Len(s) = n
<1> DEFINE S == {s[i] : i \in 1 .. n}
<1>1. s \in [1 .. n -> S]
  <2> DEFINE t == [i \in 1 .. n |-> s[i]]
  <2>1. t \in [1 .. n -> S]
    OBVIOUS
  <2> QED BY <2>1
<1>2. s \in Seq(S)
  BY <1>1
<1> HIDE DEF S
<1> QED BY <1>1, <1>2 DEF IsSaid

\* The ends of calls asked for and not yet answered may be heard in any order.
Answering(v, calls, i) ==
  LET heard == {calls[k] : k \in 1 .. i}
  IN  [v EXCEPT !.executing = @ \ heard, !.answered = @ \cup heard,
                !.last = IF i = 0 THEN @ ELSE "ExecutionEnd"]

\* The ends of calls of the message that are not answered yet can be heard one after the other.
LEMMA EndsFollow ==
  ASSUME NEW v \in Where, NEW calls \in Seq(Call),
         IsInjective(calls), ToSet(calls) \subseteq v.asked \ v.answered, v.turn, ~v.message
  PROVE  Follows(v, EndsOf(calls), Answering(v, calls, Len(calls)))
<1> DEFINE s == EndsOf(calls)
           n == Len(calls)
           path == [i \in 0 .. n |-> Answering(v, calls, i)]
<1>1. /\ n \in Nat /\ DOMAIN calls = 1 .. n
      /\ \A i \in 1 .. n : calls[i] \in Call /\ calls[i] \in v.asked \ v.answered
      /\ \A i, j \in 1 .. n : calls[i] = calls[j] => i = j
  BY DEF ToSet, IsInjective
<1>2. IsSaid(s) /\ Len(s) = n /\ \A i \in 1 .. n : s[i] = EndOf(calls[i])
  <2>1. s = [i \in 1 .. n |-> s[i]]
    BY <1>1 DEF EndsOf
  <2>2. \A i \in 1 .. n : s[i] = EndOf(calls[i])
    BY <1>1 DEF EndsOf
  <2> QED BY <1>1, <2>1, <2>2, TableIsSaid
<1> HIDE DEF n, s
<1>3. ASSUME NEW i \in 0 .. n
      PROVE  Answering(v, calls, i) \in Where
  <2>1. {calls[k] : k \in 1 .. i} \subseteq Call
    BY <1>1
  <2> QED BY <2>1 DEF Answering, Where, Kinds
<1>4. path[0] = v
  <2>1. {calls[k] : k \in 1 .. 0} = {}
    OBVIOUS
  <2>2. path[0] = Answering(v, calls, 0)
    BY <1>1
  <2> QED BY ZenonT(40), <2>1, <2>2 DEF Answering, Where
<1>5. ASSUME NEW i \in 1 .. n
      PROVE  Legal(path[i - 1], s[i]) /\ path[i] = Heard(path[i - 1], s[i])
  <2> DEFINE H == {calls[k] : k \in 1 .. (i - 1)}
             J == {calls[k] : k \in 1 .. i}
             c == calls[i]
  <2>1. s[i] = EndOf(c) /\ path[i - 1] = Answering(v, calls, i - 1) /\ path[i] = Answering(v, calls, i)
    BY <1>1, <1>2
  <2>2. J = H \cup {c} /\ c \notin H
    BY <1>1
  <2>3. c \in v.asked \ v.answered
    BY <1>1
  <2>6. ~(i = 0)
    BY <1>1
  <2>4. /\ path[i - 1] = [v EXCEPT !.executing = @ \ H, !.answered = @ \cup H,
                                   !.last = IF i - 1 = 0 THEN @ ELSE "ExecutionEnd"]
        /\ path[i] = [v EXCEPT !.executing = @ \ J, !.answered = @ \cup J, !.last = "ExecutionEnd"]
    BY <2>1, <2>6 DEF Answering
  <2> HIDE DEF H, J, c, path
  <2>5. s[i].kind = "ExecutionEnd" /\ s[i].call = c
    BY <2>1 DEF EndOf
  <2>7. Legal(path[i - 1], s[i])
    BY <2>2, <2>3, <2>4, <2>5 DEF Legal, Where
  <2>8. Heard(path[i - 1], s[i]) = [path[i - 1] EXCEPT !.last = "ExecutionEnd", !.executing = @ \ {c},
                                                       !.answered = @ \cup {c}]
    BY <2>4, <2>5 DEF Heard, Where
  <2>9. (v.executing \ H) \ {c} = v.executing \ J /\ (v.answered \cup H) \cup {c} = v.answered \cup J
    BY <2>2
  <2>10. path[i] = Heard(path[i - 1], s[i])
    <3>1. path[i] \in Where /\ path[i - 1] \in Where
      BY <1>1, <1>3, <2>1
    <3>2. Heard(path[i - 1], s[i]) \in Where
      BY <2>7, <3>1, HeardIsSomewhere
    <3> DEFINE u == path[i - 1]
    <3>3. /\ u.run = v.run /\ u.turn = v.turn /\ u.message = v.message /\ u.asked = v.asked
          /\ u.executing = v.executing \ H /\ u.answered = v.answered \cup H
      BY <2>4 DEF Where
    <3>4. /\ path[i].run = v.run /\ path[i].turn = v.turn /\ path[i].message = v.message
          /\ path[i].asked = v.asked /\ path[i].last = "ExecutionEnd"
          /\ path[i].executing = v.executing \ J /\ path[i].answered = v.answered \cup J
      BY <2>4 DEF Where
    <3> DEFINE w == Heard(path[i - 1], s[i])
    <3>5. /\ w.run = u.run /\ w.turn = u.turn /\ w.message = u.message
          /\ w.asked = u.asked /\ w.last = "ExecutionEnd"
          /\ w.executing = u.executing \ {c} /\ w.answered = u.answered \cup {c}
      BY <2>8, <3>1 DEF Where
    <3> HIDE DEF u, w
    <3>6. /\ path[i].run = w.run /\ path[i].turn = w.turn /\ path[i].message = w.message
          /\ path[i].asked = w.asked /\ path[i].last = w.last
          /\ path[i].executing = w.executing /\ path[i].answered = w.answered
      BY <2>9, <3>3, <3>4, <3>5
    <3>7. path[i] = w
      BY <3>1, <3>2, <3>6, SamePlace DEF w
    <3> QED BY <3>7 DEF w
  <2> QED BY <2>7, <2>10
<1>6. path \in [0 .. n -> Where] /\ path[n] = Answering(v, calls, n)
  BY <1>1, <1>3
<1>7. Leads(path, v, s, Answering(v, calls, n))
  BY <1>2, <1>4, <1>5, <1>6 DEF Leads
<1> QED BY <1>2, <1>7 DEF Follows, n, s

\* Messages may be announced one after the other before anything is asked for.
Announcing(v, i) ==
  IF i = 0 THEN v
  ELSE [v EXCEPT !.message = (i % 2 = 1), !.asked = IF i = 1 THEN @ ELSE {},
                 !.last = IF i % 2 = 1 THEN "MessageStart" ELSE "MessageEnd"]

\* So can the start and end of each of several injected messages.
LEMMA AnnouncedFollow ==
  ASSUME NEW v \in Where, NEW S, NEW messages \in Seq(S),
         v.turn, ~v.message, v.executing = {}, v.answered = {}
  PROVE  Follows(v, Announced(messages), Announcing(v, 2 * Len(messages)))
<1> DEFINE s == Announced(messages)
           n == 2 * Len(messages)
           path == [i \in 0 .. n |-> Announcing(v, i)]
<1>1. n \in Nat
  OBVIOUS
<1>2. /\ IsSaid(s) /\ Len(s) = n
      /\ \A i \in 1 .. n : /\ i % 2 = 1 => s[i].kind = "MessageStart"
                           /\ i % 2 # 1 => s[i].kind = "MessageEnd" /\ s[i].calls = {}
  <2>1. s = [i \in 1 .. n |-> IF i % 2 = 1 THEN Event("MessageStart") ELSE Ending(messages[i \div 2], {})]
    BY DEF Announced
  <2> HIDE DEF s, n
  <2>2. \A i \in 1 .. n : s[i] = IF i % 2 = 1 THEN Event("MessageStart") ELSE Ending(messages[i \div 2], {})
    BY <2>1
  <2>5. s = [i \in 1 .. n |-> s[i]]
    BY <2>1
  <2>3. IsSaid(s) /\ Len(s) = n
    BY <1>1, <2>5, TableIsSaid
  <2>4. ASSUME NEW i \in 1 .. n
        PROVE  /\ i % 2 = 1 => s[i].kind = "MessageStart"
               /\ i % 2 # 1 => s[i].kind = "MessageEnd" /\ s[i].calls = {}
    <3>1. i % 2 = 1 => s[i] = Event("MessageStart")
      BY <2>2
    <3>2. i % 2 # 1 => s[i] = Ending(messages[i \div 2], {})
      BY <2>2
    <3> QED BY <3>1, <3>2 DEF Event, Ending
  <2> QED BY <2>3, <2>4
<1> HIDE DEF n, s
<1>3. ASSUME NEW i \in 0 .. n
      PROVE  Announcing(v, i) \in Where
  BY DEF Announcing, Where, Kinds
<1>4. path[0] = v
  BY <1>1 DEF Announcing
<1>5. ASSUME NEW i \in 1 .. n
      PROVE  Legal(path[i - 1], s[i]) /\ path[i] = Heard(path[i - 1], s[i])
  <2>1. path[i - 1] = Announcing(v, i - 1) /\ path[i] = Announcing(v, i)
    BY <1>1
  <2>2. i # 0 /\ i \in Int
    BY <1>1
  <2> HIDE DEF path
  <2>3. CASE i % 2 = 1
    <3>1. s[i].kind = "MessageStart"
      BY <1>2, <2>3
    <3>2. path[i] = [v EXCEPT !.message = TRUE, !.asked = IF i = 1 THEN @ ELSE {}, !.last = "MessageStart"]
      BY <2>1, <2>2, <2>3 DEF Announcing
    <3>3. path[i - 1] = IF i = 1 THEN v ELSE [v EXCEPT !.message = FALSE, !.asked = {}, !.last = "MessageEnd"]
      <4>1. (i - 1) % 2 # 1 /\ i - 1 # 1 /\ (i - 1 = 0 <=> i = 1)
        BY <2>2, <2>3
      <4>2. Announcing(v, i - 1) = IF i - 1 = 0 THEN v
                                   ELSE [v EXCEPT !.message = FALSE, !.asked = {}, !.last = "MessageEnd"]
        BY <4>1 DEF Announcing
      <4> QED BY <2>1, <4>1, <4>2
    <3>4. Heard(path[i - 1], s[i]) = [path[i - 1] EXCEPT !.last = "MessageStart", !.message = TRUE]
      BY <3>1 DEF Heard
    <3>5. Legal(path[i - 1], s[i])
      BY <3>1, <3>3 DEF Legal, Where
    <3>6. path[i] \in Where /\ path[i - 1] \in Where
      BY <1>1, <1>3, <2>1
    <3>7. Heard(path[i - 1], s[i]) \in Where
      BY <3>5, <3>6, HeardIsSomewhere
    <3> DEFINE u == path[i - 1]
               w == Heard(path[i - 1], s[i])
    <3>8. /\ u.run = v.run /\ u.turn = v.turn /\ u.asked = IF i = 1 THEN v.asked ELSE {}
          /\ u.executing = v.executing /\ u.answered = v.answered
      <4>1. CASE i = 1
        BY <3>3, <4>1
      <4>2. CASE i # 1
        <5>1. u = [v EXCEPT !.message = FALSE, !.asked = {}, !.last = "MessageEnd"]
          BY <3>3, <4>2
        <5> QED BY <4>2, <5>1 DEF Where
      <4> QED BY <4>1, <4>2
    <3>9. /\ w.run = u.run /\ w.turn = u.turn /\ w.message = TRUE /\ w.asked = u.asked
          /\ w.executing = u.executing /\ w.answered = u.answered /\ w.last = "MessageStart"
      BY <3>4, <3>6 DEF Where
    <3>10. /\ path[i].run = v.run /\ path[i].turn = v.turn /\ path[i].message = TRUE
           /\ path[i].asked = IF i = 1 THEN v.asked ELSE {}
           /\ path[i].executing = v.executing /\ path[i].answered = v.answered
           /\ path[i].last = "MessageStart"
      BY <3>2 DEF Where
    <3> HIDE DEF u, w
    <3>11. path[i] = w
      BY ZenonT(40), <3>6, <3>7, <3>8, <3>9, <3>10, SamePlace DEF w
    <3> QED BY <3>5, <3>11 DEF w
  <2>4. CASE i % 2 # 1
    <3>1. s[i].kind = "MessageEnd" /\ s[i].calls = {}
      BY <1>2, <2>4
    <3>4. (i - 1) % 2 = 1 /\ i # 1
      BY <2>2, <2>4
    <3>2. path[i] = [v EXCEPT !.message = FALSE, !.asked = {}, !.last = "MessageEnd"]
      BY <2>1, <2>2, <2>4, <3>4 DEF Announcing
    <3>3. path[i - 1] = [v EXCEPT !.message = TRUE, !.asked = IF i - 1 = 1 THEN @ ELSE {},
                                  !.last = "MessageStart"]
      <4>1. i - 1 # 0
        BY <2>2, <3>4
      <4> QED BY <2>1, <3>4, <4>1 DEF Announcing
    <3>5. Heard(path[i - 1], s[i]) = [path[i - 1] EXCEPT !.last = "MessageEnd", !.message = FALSE, !.asked = {}]
      BY <3>1 DEF Heard
    <3>6. Legal(path[i - 1], s[i])
      BY <3>1, <3>3 DEF Legal, Where
    <3>7. path[i] \in Where /\ path[i - 1] \in Where
      BY <1>1, <1>3, <2>1
    <3>8. Heard(path[i - 1], s[i]) \in Where
      BY <3>6, <3>7, HeardIsSomewhere
    <3> DEFINE u == path[i - 1]
               w == Heard(path[i - 1], s[i])
    <3>9. /\ u.run = v.run /\ u.turn = v.turn
          /\ u.executing = v.executing /\ u.answered = v.answered
      BY <3>3 DEF Where
    <3>10. /\ w.run = u.run /\ w.turn = u.turn /\ w.message = FALSE /\ w.asked = {}
           /\ w.executing = u.executing /\ w.answered = u.answered /\ w.last = "MessageEnd"
      BY <3>5, <3>7 DEF Where
    <3>11. /\ path[i].run = v.run /\ path[i].turn = v.turn /\ path[i].message = FALSE
           /\ path[i].asked = {} /\ path[i].last = "MessageEnd"
           /\ path[i].executing = v.executing /\ path[i].answered = v.answered
      BY <3>2 DEF Where
    <3> HIDE DEF u, w
    <3>12. path[i] = w
      BY ZenonT(40), <3>7, <3>8, <3>9, <3>10, <3>11, SamePlace DEF w
    <3> QED BY <3>6, <3>12 DEF w
  <2> QED BY <2>3, <2>4
<1>6. path \in [0 .. n -> Where] /\ path[n] = Announcing(v, n)
  BY <1>1, <1>3
<1>7. Leads(path, v, s, Announcing(v, n))
  BY <1>2, <1>4, <1>5, <1>6 DEF Leads
<1> QED BY <1>2, <1>7 DEF Follows, n, s

\* What a listener makes of a legal event, part by part.
LEMMA HeardParts ==
  ASSUME NEW v \in Where, NEW e, Legal(v, e)
  PROVE  /\ Heard(v, e) \in Where
         /\ Heard(v, e).run = IF e.kind = "AgentStart" THEN "open"
                              ELSE IF e.kind = "AgentEnd" THEN "over" ELSE v.run
         /\ Heard(v, e).turn = ((v.turn /\ e.kind # "TurnEnd") \/ e.kind = "TurnStart")
         /\ Heard(v, e).message = ((v.message /\ e.kind # "MessageEnd") \/ e.kind = "MessageStart")
         /\ Heard(v, e).asked = IF e.kind \in {"TurnStart", "RequestPrepared"} THEN {}
                                ELSE IF e.kind = "MessageEnd" THEN e.calls ELSE v.asked
         /\ Heard(v, e).executing = IF e.kind = "TurnStart" THEN {}
                                    ELSE IF e.kind = "ExecutionStart" THEN v.executing \cup {e.call}
                                    ELSE IF e.kind = "ExecutionEnd" THEN v.executing \ {e.call}
                                    ELSE v.executing
         /\ Heard(v, e).answered = IF e.kind = "TurnStart" THEN {}
                                   ELSE IF e.kind = "ExecutionEnd" THEN v.answered \cup {e.call}
                                   ELSE v.answered
         /\ Heard(v, e).last = e.kind
<1>1. Heard(v, e) \in Where
  BY HeardIsSomewhere
<1>2. e.kind \in Kinds \ {"none"}
  BY DEF Legal, Kinds
<1> DEFINE after == [v EXCEPT !.last = e.kind]
<1>3. /\ after \in [run : {"before", "open", "over"}, turn : BOOLEAN, message : BOOLEAN,
                    asked : SUBSET Call, executing : SUBSET Call, answered : SUBSET Call, last : Kinds]
      /\ after.run = v.run /\ after.turn = v.turn /\ after.message = v.message /\ after.asked = v.asked
      /\ after.executing = v.executing /\ after.answered = v.answered /\ after.last = e.kind
  BY <1>2 DEF Where
<1>4. /\ v.turn \in BOOLEAN /\ v.message \in BOOLEAN
  BY DEF Where
<1> HIDE DEF after
<1>5. Heard(v, e) =
        CASE e.kind = "AgentStart" -> [after EXCEPT !.run = "open"]
          [] e.kind = "AgentEnd" -> [after EXCEPT !.run = "over"]
          [] e.kind = "TurnStart" ->
               [after EXCEPT !.turn = TRUE, !.asked = {}, !.executing = {}, !.answered = {}]
          [] e.kind = "TurnEnd" -> [after EXCEPT !.turn = FALSE]
          [] e.kind = "RequestPrepared" -> [after EXCEPT !.asked = {}]
          [] e.kind = "MessageStart" -> [after EXCEPT !.message = TRUE]
          [] e.kind = "MessageEnd" -> [after EXCEPT !.message = FALSE, !.asked = e.calls]
          [] e.kind = "ExecutionStart" -> [after EXCEPT !.executing = @ \cup {e.call}]
          [] e.kind = "ExecutionEnd" ->
               [after EXCEPT !.executing = @ \ {e.call}, !.answered = @ \cup {e.call}]
          [] OTHER -> after
  BY DEF Heard, after
<1>6. CASE e.kind \in {"AgentStart", "AgentEnd"}
  BY <1>1, <1>3, <1>4, <1>5, <1>6
<1>7. CASE e.kind \in {"TurnStart", "TurnEnd"}
  BY <1>1, <1>3, <1>4, <1>5, <1>7
<1>8. CASE e.kind \in {"RequestPrepared", "MessageStart", "MessageEnd"}
  BY <1>1, <1>3, <1>4, <1>5, <1>8
<1>9. CASE e.kind \in {"ExecutionStart", "ExecutionEnd"}
  BY <1>1, <1>3, <1>4, <1>5, <1>9
<1>10. CASE e.kind \in {"MessageUpdate", "Escalation"}
  BY <1>1, <1>3, <1>4, <1>5, <1>10
<1> QED BY <1>2, <1>6, <1>7, <1>8, <1>9, <1>10 DEF Kinds

\* Where messages that are announced leave a listener.
LEMMA AnnouncedLeads ==
  ASSUME NEW v \in Where, NEW S, NEW messages \in Seq(S),
         v.turn, ~v.message, v.executing = {}, v.answered = {}
  PROVE  \E w \in Where : /\ Follows(v, Announced(messages), w)
                          /\ w.run = v.run /\ w.turn /\ ~w.message
                          /\ w.executing = {} /\ w.answered = {}
<1> DEFINE n == 2 * Len(messages)
           w == Announcing(v, n)
<1>1. Follows(v, Announced(messages), w)
  BY AnnouncedFollow
<1>2. n \in Nat /\ n % 2 # 1
  OBVIOUS
<1>3. w \in Where
  BY <1>1, FollowsIsSomewhere
<1> HIDE DEF n
<1>4. w = v \/ w = [v EXCEPT !.message = FALSE, !.asked = IF n = 1 THEN @ ELSE {}, !.last = "MessageEnd"]
  BY <1>2 DEF Announcing
<1> HIDE DEF w
<1>5. w.run = v.run /\ w.turn /\ ~w.message /\ w.executing = {} /\ w.answered = {}
  BY <1>4 DEF Where
<1> QED BY <1>1, <1>3, <1>5 DEF n

\* Where the ends of calls leave a listener.
LEMMA EndsLead ==
  ASSUME NEW v \in Where, NEW calls \in Seq(Call),
         IsInjective(calls), ToSet(calls) \subseteq v.asked \ v.answered, v.turn, ~v.message
  PROVE  \E w \in Where : /\ Follows(v, EndsOf(calls), w)
                          /\ w.run = v.run /\ w.turn /\ ~w.message /\ w.asked = v.asked
                          /\ w.executing = v.executing \ ToSet(calls)
                          /\ w.answered = v.answered \cup ToSet(calls)
<1> DEFINE w == Answering(v, calls, Len(calls))
           heard == {calls[k] : k \in 1 .. Len(calls)}
<1>1. Follows(v, EndsOf(calls), w)
  BY EndsFollow
<1>2. w \in Where
  BY <1>1, FollowsIsSomewhere
<1>3. heard = ToSet(calls)
  BY DEF ToSet
<1>4. w = [v EXCEPT !.executing = @ \ heard, !.answered = @ \cup heard,
                    !.last = IF Len(calls) = 0 THEN @ ELSE "ExecutionEnd"]
  BY DEF Answering
<1> HIDE DEF w, heard
<1>5. /\ w.run = v.run /\ w.turn /\ ~w.message /\ w.asked = v.asked
      /\ w.executing = v.executing \ heard /\ w.answered = v.answered \cup heard
  BY <1>4 DEF Where
<1> QED BY <1>1, <1>2, <1>3, <1>5
-----------------------------------------------------------------------------
(* Calls in a row. *)

\* The calls after the first.
LEMMA TailOfCalls ==
  ASSUME NEW s \in Seq(Call), IsInjective(s), s # <<>>
  PROVE  /\ Tail(s) \in Seq(Call) /\ IsInjective(Tail(s))
         /\ Head(s) \in ToSet(s) /\ Head(s) \in Call
         /\ ToSet(Tail(s)) = ToSet(s) \ {Head(s)}
<1>1. /\ Tail(s) \in Seq(Call) /\ Len(Tail(s)) = Len(s) - 1 /\ Len(s) \in Nat \ {0}
      /\ DOMAIN s = 1 .. Len(s) /\ DOMAIN Tail(s) = 1 .. (Len(s) - 1)
      /\ \A i \in 1 .. (Len(s) - 1) : Tail(s)[i] = s[i + 1]
      /\ Head(s) = s[1]
  OBVIOUS
<1>2. \A i, j \in 1 .. Len(s) : s[i] = s[j] => i = j
  BY <1>1 DEF IsInjective
<1>3. IsInjective(Tail(s))
  BY <1>1, <1>2 DEF IsInjective
<1>4. ToSet(Tail(s)) \subseteq ToSet(s) \ {Head(s)}
  BY <1>1, <1>2 DEF ToSet
<1>5. ASSUME NEW c \in ToSet(s) \ {Head(s)}
      PROVE  c \in ToSet(Tail(s))
  <2>1. PICK i \in 1 .. Len(s) : c = s[i]
    BY <1>1 DEF ToSet
  <2>2. i - 1 \in 1 .. (Len(s) - 1) /\ (i - 1) + 1 = i
    BY <1>1, <2>1
  <2>3. Tail(s)[i - 1] = c
    BY <1>1, <2>1, <2>2
  <2> QED BY <1>1, <2>2, <2>3 DEF ToSet
<1>6. Head(s) \in ToSet(s)
  BY <1>1 DEF ToSet
<1>7. Head(s) \in Call
  OBVIOUS
<1> QED BY <1>1, <1>3, <1>4, <1>5, <1>6, <1>7

\* One more call after the others.
LEMMA OneMoreCall ==
  ASSUME NEW s \in Seq(Call), IsInjective(s), NEW c \in Call, c \notin ToSet(s)
  PROVE  /\ Append(s, c) \in Seq(Call) /\ IsInjective(Append(s, c))
         /\ ToSet(Append(s, c)) = ToSet(s) \cup {c}
<1>1. /\ Append(s, c) \in Seq(Call) /\ Len(s) \in Nat
      /\ DOMAIN s = 1 .. Len(s) /\ DOMAIN Append(s, c) = 1 .. (Len(s) + 1)
      /\ \A i \in 1 .. (Len(s) + 1) : Append(s, c)[i] = IF i = Len(s) + 1 THEN c ELSE s[i]
  OBVIOUS
<1>2. \A i \in 1 .. (Len(s) + 1) : i \in 1 .. Len(s) \/ i = Len(s) + 1
  BY <1>1
<1>3. \A i, j \in 1 .. Len(s) : s[i] = s[j] => i = j
  BY <1>1 DEF IsInjective
<1>4. \A i \in 1 .. Len(s) : s[i] # c
  BY <1>1 DEF ToSet
<1>5. \A i \in 1 .. Len(s) : Append(s, c)[i] = s[i]
  BY <1>1
<1>6. Append(s, c)[Len(s) + 1] = c
  BY <1>1
<1>7. IsInjective(Append(s, c))
  BY <1>1, <1>2, <1>3, <1>4, <1>5, <1>6 DEF IsInjective
<1>8. ToSet(Append(s, c)) = ToSet(s) \cup {c}
  BY <1>1, <1>2, <1>5, <1>6 DEF ToSet
<1> QED BY <1>1, <1>7, <1>8

\* One row of calls after another.
LEMMA CallsInARow ==
  ASSUME NEW s \in Seq(Call), IsInjective(s), NEW t \in Seq(Call), IsInjective(t),
         ToSet(s) \cap ToSet(t) = {}
  PROVE  /\ s \o t \in Seq(Call) /\ IsInjective(s \o t)
         /\ ToSet(s \o t) = ToSet(s) \cup ToSet(t)
<1> DEFINE m == Len(s)
           n == Len(t)
<1>1. /\ s \o t \in Seq(Call) /\ m \in Nat /\ n \in Nat
      /\ DOMAIN s = 1 .. m /\ DOMAIN t = 1 .. n /\ DOMAIN (s \o t) = 1 .. (m + n)
      /\ \A i \in 1 .. (m + n) : (s \o t)[i] = IF i <= m THEN s[i] ELSE t[i - m]
  OBVIOUS
<1>2. \A i, j \in 1 .. m : s[i] = s[j] => i = j
  BY <1>1 DEF IsInjective
<1>3. \A i, j \in 1 .. n : t[i] = t[j] => i = j
  BY <1>1 DEF IsInjective
<1>4. \A i \in 1 .. m, j \in 1 .. n : s[i] # t[j]
  BY <1>1 DEF ToSet
<1> HIDE DEF m, n
<1>5. \A i \in 1 .. (m + n) : \/ i \in 1 .. m /\ (s \o t)[i] = s[i]
                              \/ i - m \in 1 .. n /\ (s \o t)[i] = t[i - m]
  BY <1>1
<1>6. \A i \in 1 .. m : (s \o t)[i] = s[i] /\ i \in 1 .. (m + n)
  BY <1>1
<1>7. \A i \in 1 .. n : (s \o t)[m + i] = t[i] /\ m + i \in 1 .. (m + n)
  BY <1>1
<1>8. \A i, j \in 1 .. (m + n) : (s \o t)[i] = (s \o t)[j] => i = j
  <2> SUFFICES ASSUME NEW i \in 1 .. (m + n), NEW j \in 1 .. (m + n), (s \o t)[i] = (s \o t)[j]
               PROVE  i = j
    OBVIOUS
  <2>1. CASE i \in 1 .. m /\ j \in 1 .. m
    BY <1>2, <1>6, <2>1
  <2>2. CASE i - m \in 1 .. n /\ j - m \in 1 .. n
    BY <1>1, <1>3, <1>5, <2>2
  <2>3. CASE i \in 1 .. m /\ j - m \in 1 .. n
    BY <1>1, <1>4, <1>5, <2>3
  <2>4. CASE i - m \in 1 .. n /\ j \in 1 .. m
    BY <1>1, <1>4, <1>5, <2>4
  <2> QED BY <1>5, <2>1, <2>2, <2>3, <2>4
<1>9. IsInjective(s \o t)
  BY <1>1, <1>8 DEF IsInjective
<1>10. ToSet(s \o t) \subseteq ToSet(s) \cup ToSet(t)
  BY <1>1, <1>5 DEF ToSet
<1>11. ToSet(s) \cup ToSet(t) \subseteq ToSet(s \o t)
  <2>1. \A i \in 1 .. m : s[i] \in ToSet(s \o t)
    BY <1>1, <1>6 DEF ToSet
  <2>2. \A i \in 1 .. n : t[i] \in ToSet(s \o t)
    BY <1>1, <1>7 DEF ToSet
  <2> QED BY <1>1, <2>1, <2>2 DEF ToSet
<1> QED BY <1>1, <1>9, <1>10, <1>11
-----------------------------------------------------------------------------
(* Where the loop is and where its listener will be. *)

Batched == [mode : {"none", "sequential", "parallel"}, todo : Seq(Call), running : Seq(Call),
            started : BOOLEAN, beyond : Seq(Call), held : Seq(Call)]

Said == [message : Message \cup {"none"}, results : Seq({"results", "fallback"}), announced : BOOLEAN]

\* A call of the batch stands in one place once.
Placed(b) ==
  /\ IsInjective(b.todo) /\ IsInjective(b.running) /\ IsInjective(b.held)
  /\ ToSet(b.todo) \cap ToSet(b.running) = {}
  /\ ToSet(b.todo) \cap ToSet(b.held) = {}
  /\ ToSet(b.running) \cap ToSet(b.held) = {}

Waiting(b) == ToSet(b.todo) \cup ToSet(b.running) \cup ToSet(b.held)

DetailInv ==
  /\ ask \in {"ready", "requested", "open", "chunked", "delay"}
  /\ pc # "stream" => ask = "ready"
  /\ work \in Batched
  /\ pc = "batch" => Placed(work)
  /\ outcome \in Said
  /\ pc \in {"stream", "batch"} => ~outcome.announced

InTurn == \/ pc \in {"collect", "loop"} /\ iterations = 0
          \/ pc \in {"stream", "batch"}
          \/ pc = "turn_end" /\ ~outcome.announced

\* What a listener who has heard all that was emitted knows of the loop.
Matches(w) ==
  /\ w.run = "over" <=> pc = "done"
  /\ pc \in Running => w.run = "open"
  /\ pc \in {"idle", "rejected"} => w.run = "before"
  /\ pc \notin {"aborted", "failed"} =>
       /\ w.turn <=> InTurn
       /\ w.message <=> pc = "stream" /\ ask \in {"open", "chunked"}
  /\ pc \in {"aborted", "failed"} => (w.turn <=> opened # closed)
  /\ pc \in {"idle", "collect", "loop", "stream"} => w.executing = {} /\ (~w.turn \/ w.answered = {})
  /\ pc = "stream" /\ ask = "requested" => w.last = "RequestPrepared"
  /\ pc = "batch" => /\ Waiting(work) = w.asked \ w.answered
                     /\ w.answered \subseteq w.asked
                     /\ w.executing \subseteq ToSet(work.running)
  /\ pc = "turn_end" => w.executing = {} /\ w.answered = w.asked

\* What is emitted and not yet heard is legal, and leads there.
GrammarInv == \E w : Follows(view, outbox, w) /\ Matches(w)

\* Calls in the order of their message are listed once each.
LEMMA InOrderOnce ==
  ASSUME NEW s \in InOrder
  PROVE  s \in Seq(Call) /\ IsInjective(s)
<1>1. s \in Seq(Call) /\ \A i, j \in DOMAIN s : i < j => s[i] < s[j]
  BY CallsAssumption DEF InOrder, SeqOf, Call
<1>2. DOMAIN s = 1 .. Len(s) /\ Len(s) \in Nat /\ \A i \in DOMAIN s : s[i] \in Nat
  BY <1>1, CallsAssumption DEF Call
<1>3. \A i, j \in DOMAIN s : s[i] = s[j] => i = j
  BY <1>1, <1>2
<1> QED BY <1>1, <1>3 DEF IsInjective

\* There is no batch at first.
LEMMA DetailInit == EvInit => DetailInv
<1> SUFFICES ASSUME EvInit PROVE DetailInv
  OBVIOUS
<1>1. work \in Batched
  BY DEF EvInit, NoWork, Batched
<1>2. outcome \in Said
  BY DEF EvInit, NoOutcome, Said
<1> QED BY <1>1, <1>2 DEF EvInit, Init, DetailInv

\* Every step keeps each call of a batch in one place.
LEMMA DetailNext == TypeInv /\ DetailInv /\ [EvNext]_all => DetailInv'
<1> SUFFICES ASSUME TypeInv, DetailInv, [EvNext]_all PROVE DetailInv'
  OBVIOUS
<1> USE DEF DetailInv
<1>n. NoWork \in Batched /\ NoOutcome \in Said /\ ~NoOutcome.announced
  BY DEF NoWork, NoOutcome, Batched, Said
<1>w. /\ work.todo \in Seq(Call) /\ work.running \in Seq(Call) /\ work.held \in Seq(Call)
      /\ work.started \in BOOLEAN /\ work.beyond \in Seq(Call)
      /\ work.mode \in {"none", "sequential", "parallel"}
  BY DEF Batched
<1>e. <<>> \in Seq(Call) /\ IsInjective(<<>>) /\ ToSet(<<>>) = {}
  BY DEF IsInjective, ToSet
<1>1. CASE EvRunPrompt \/ EvRunContinue \/ EvEndTurn \/ EvEndRun \/ Silent
  BY <1>1 DEF EvRunPrompt, EvRunContinue, EvEndTurn, EvEndRun, Silent, RunPrompt, RunContinue, EndTurn, EndRun,
              CollectInitial, AbortAtTop, AcceptFollowUp, RejectContinue, detail
<1>2. CASE EvBeginTurn
  BY <1>2, <1>n DEF EvBeginTurn, BeginTurn
<1>3. CASE AnnounceTurnEnd
  <2>1. outcome' \in Said
    BY <1>3 DEF AnnounceTurnEnd, Said
  <2> QED BY <1>3, <2>1 DEF AnnounceTurnEnd, vars
<1>4. CASE Request \/ ProviderSends \/ Retry \/ Wake \/ Escalate
  BY <1>4 DEF Request, ProviderSends, Retry, Wake, Escalate, vars
<1>5. CASE EvStreamCalls
  <2>1. PICK calls \in Asked, todo \in InOrder, held \in InOrder, mode \in {"sequential", "parallel"} :
          /\ ToSet(held) \subseteq calls
          /\ ToSet(todo) = calls \ ToSet(held)
          /\ work' = [NoWork EXCEPT !.mode = mode, !.todo = todo, !.held = held, !.beyond = held]
    BY <1>5 DEF EvStreamCalls
  <2>2. todo \in Seq(Call) /\ IsInjective(todo) /\ held \in Seq(Call) /\ IsInjective(held)
    BY InOrderOnce
  <2>3. work' = [mode |-> mode, todo |-> todo, running |-> <<>>, started |-> FALSE,
                 beyond |-> held, held |-> held]
    BY <2>1 DEF NoWork
  <2>6. work' \in Batched
    BY <1>e, <2>2, <2>3 DEF Batched
  <2>7. work'.todo = todo /\ work'.running = <<>> /\ work'.held = held
    BY <2>3
  <2>4. work' \in Batched /\ Placed(work')
    BY <1>e, <2>1, <2>2, <2>6, <2>7 DEF Placed
  <2>5. outcome' \in Said /\ ~outcome'.announced
    <3>1. outcome' = [message |-> "calls", results |-> <<>>, announced |-> FALSE]
      BY <1>5 DEF EvStreamCalls, NoOutcome
    <3> QED BY <3>1 DEF Said, Message, Assistant
  <2> QED BY <1>5, <2>4, <2>5 DEF EvStreamCalls, StreamCalls
<1>6. CASE EvStreamText
  <2>1. PICK reply : produced' = produced \o reply /\ reply \in Seq(Message) /\ Len(reply) > 0
    <3>1. PICK m \in {"text", "silent"}, narrowed \in BOOLEAN :
             produced' = produced \o (IF NudgeMode(narrowed) THEN <<m, "nudge">>
                                      ELSE IF TakesText(m, narrowed) THEN <<m, "fallback">>
                                      ELSE <<m>>)
      BY <1>6 DEF EvStreamText, StreamText
    <3>2. /\ <<m, "nudge">> \in Seq(Message) /\ Len(<<m, "nudge">>) = 2
          /\ <<m, "fallback">> \in Seq(Message) /\ Len(<<m, "fallback">>) = 2
          /\ <<m>> \in Seq(Message) /\ Len(<<m>>) = 1
      BY DEF Message, Assistant
    <3> DEFINE reply == IF NudgeMode(narrowed) THEN <<m, "nudge">>
                        ELSE IF TakesText(m, narrowed) THEN <<m, "fallback">>
                        ELSE <<m>>
    <3>3. reply \in Seq(Message) /\ Len(reply) > 0
      BY <3>2
    <3>4. produced' = produced \o reply
      BY <3>1
    <3> HIDE DEF reply
    <3> QED BY <3>3, <3>4
  <2>2. produced'[Len(produced) + 1] \in Message
    BY <2>1 DEF TypeInv, TypeOK
  <2>3. outcome' \in Said
    <3>1. outcome' = [message |-> produced'[Len(produced) + 1],
                      results |-> IF Last(produced') = "fallback" THEN <<"fallback">> ELSE <<>>,
                      announced |-> FALSE]
      BY <1>6 DEF EvStreamText, NoOutcome
    <3>2. (IF Last(produced') = "fallback" THEN <<"fallback">> ELSE <<>>) \in Seq({"results", "fallback"})
      <4>1. <<"fallback">> \in Seq({"results", "fallback"}) /\ <<>> \in Seq({"results", "fallback"})
        OBVIOUS
      <4> QED BY <4>1
    <3> QED BY <2>2, <3>1, <3>2 DEF Said
  <2> QED BY <1>6, <2>3 DEF EvStreamText, StreamText
<1>7. CASE EvStreamFails
  BY <1>7 DEF EvStreamFails, StreamFails
<1>8. CASE SequentialPrepare
  <2>0. /\ pc = "batch" /\ pc' = pc /\ ask' = ask /\ outcome' = outcome /\ work.todo # <<>>
        /\ work.running = <<>>
    BY <1>8 DEF SequentialPrepare, InBatch, vars
  <2>1. /\ Tail(work.todo) \in Seq(Call) /\ IsInjective(Tail(work.todo))
        /\ Head(work.todo) \in ToSet(work.todo) /\ Head(work.todo) \in Call
        /\ ToSet(Tail(work.todo)) = ToSet(work.todo) \ {Head(work.todo)}
    BY <1>w, <2>0, TailOfCalls DEF Placed
  <2> DEFINE one == <<Head(work.todo)>>
  <2>2. one \in Seq(Call) /\ IsInjective(one) /\ ToSet(one) = {Head(work.todo)}
    BY <2>1 DEF IsInjective, ToSet
  <2> HIDE DEF one
  <2>3. \/ work' = [work EXCEPT !.todo = Tail(@), !.running = one, !.started = TRUE]
        \/ work' = [work EXCEPT !.todo = Tail(@)]
        \/ work' = [work EXCEPT !.todo = <<>>]
    BY <1>8 DEF SequentialPrepare, one
  <2>4. work' \in Batched
    BY <1>e, <2>1, <2>2, <2>3 DEF Batched
  <2>5. /\ work'.todo \in {Tail(work.todo), <<>>} /\ work'.held = work.held
        /\ work'.running = work.running \/ (work'.running = one /\ work'.todo = Tail(work.todo))
    BY <2>3 DEF Batched
  <2>6. Placed(work')
    BY <1>e, <2>0, <2>1, <2>2, <2>5 DEF Placed
  <2> QED BY <2>0, <2>4, <2>6
<1>9. CASE SequentialReturn \/ ParallelReturn \/ AnswerHeld
  <2>0. pc = "batch" /\ pc' = pc /\ ask' = ask /\ outcome' = outcome
    BY <1>9 DEF SequentialReturn, ParallelReturn, AnswerHeld, InBatch, vars
  <2>1. \/ work' = [work EXCEPT !.running = <<>>]
        \/ work' = [work EXCEPT !.running = <<>>, !.todo = <<>>]
        \/ work' = [work EXCEPT !.held = <<>>]
    BY <1>9 DEF SequentialReturn, ParallelReturn, AnswerHeld
  <2>2. work' \in Batched
    BY <1>e, <2>1 DEF Batched
  <2>3. /\ work'.todo \in {work.todo, <<>>} /\ work'.running \in {work.running, <<>>}
        /\ work'.held \in {work.held, <<>>}
    BY <2>1 DEF Batched
  <2>4. Placed(work')
    BY <1>e, <2>0, <2>3 DEF Placed
  <2> QED BY <2>0, <2>2, <2>4
<1>10. CASE ParallelPrepare
  <2>0. pc = "batch" /\ pc' = pc /\ ask' = ask /\ outcome' = outcome /\ work.todo # <<>>
    BY <1>10 DEF ParallelPrepare, InBatch, vars
  <2>1. /\ Tail(work.todo) \in Seq(Call) /\ IsInjective(Tail(work.todo))
        /\ Head(work.todo) \in ToSet(work.todo) /\ Head(work.todo) \in Call
        /\ ToSet(Tail(work.todo)) = ToSet(work.todo) \ {Head(work.todo)}
    BY <1>w, <2>0, TailOfCalls DEF Placed
  <2> DEFINE more == Append(work.running, Head(work.todo))
  <2>2. /\ more \in Seq(Call) /\ IsInjective(more)
        /\ ToSet(more) = ToSet(work.running) \cup {Head(work.todo)}
    BY <1>w, <2>0, <2>1, OneMoreCall DEF Placed
  <2> HIDE DEF more
  <2>3. \/ work' = [work EXCEPT !.todo = Tail(@), !.running = more]
        \/ work' = [work EXCEPT !.todo = Tail(@), !.running = more, !.started = TRUE]
    BY <1>10 DEF ParallelPrepare, more
  <2>4. work' \in Batched
    BY <2>1, <2>2, <2>3 DEF Batched
  <2>5. work'.todo = Tail(work.todo) /\ work'.running = more /\ work'.held = work.held
    BY <2>3 DEF Batched
  <2>6. Placed(work')
    BY <2>0, <2>1, <2>2, <2>5 DEF Placed
  <2> QED BY <2>0, <2>4, <2>6
<1>11. CASE EvBatchReturns
  <2>1. outcome' \in Said
    <3>1. outcome' = [outcome EXCEPT !.results = <<"results">>]
      BY <1>11 DEF EvBatchReturns
    <3>2. <<"results">> \in Seq({"results", "fallback"})
      OBVIOUS
    <3> QED BY <3>1, <3>2 DEF Said
  <2> QED BY <1>11, <1>n, <2>1 DEF EvBatchReturns, BatchReturns
<1>12. CASE EvBatchFails
  BY <1>12 DEF EvBatchFails, BatchFails, detail
<1>13. CASE Deliver \/ FromOutside
  BY <1>13 DEF Deliver, FromOutside, Steer, Cancel, detail, vars
<1>14. CASE UNCHANGED all
  BY <1>14 DEF all, detail, vars
<1> QED
  BY <1>1, <1>2, <1>3, <1>4, <1>5, <1>6, <1>7, <1>8, <1>9, <1>10, <1>11, <1>12, <1>13, <1>14
  DEF EvNext, EvOwn, EvStream, EvBatch, EvEnded

\* A listener has heard nothing at first, and knows what there is.
LEMMA GrammarInit == EvInit => GrammarInv
<1> SUFFICES ASSUME EvInit PROVE GrammarInv
  OBVIOUS
<1>1. view \in Where
  BY DEF EvInit, Where, Kinds
<1>2. Matches(view)
  BY DEF EvInit, Init, Matches, InTurn, Running
<1>3. Follows(view, outbox, view)
  BY <1>1, NothingFollows DEF EvInit
<1> QED BY <1>2, <1>3 DEF GrammarInv

\* The loop goes on when all has been heard.
LEMMA AllHeard ==
  ASSUME GrammarInv, Quiet
  PROVE  view \in Where /\ Matches(view)
<1>1. PICK w : Follows(view, outbox, w) /\ Matches(w)
  BY DEF GrammarInv
<1>2. view \in Where
  BY <1>1, FollowsIsSomewhere
<1> QED BY <1>1, <1>2, NothingLeadsNowhere DEF Quiet

\* One event.
LEMMA OneMore ==
  ASSUME view' = view, NEW e, outbox' = <<e>>, view \in Where, Legal(view, e),
         NEW w, w = Heard(view, e), Matches(w)'
  PROVE  GrammarInv'
<1>1. Follows(view, <<e>>, w)
  BY OneFollows
<1> QED BY <1>1 DEF GrammarInv

\* None.
LEMMA NoneMore ==
  ASSUME view' = view, outbox' = <<>>, view \in Where, Matches(view)'
  PROVE  GrammarInv'
<1>1. Follows(view, <<>>, view)
  BY NothingFollows
<1> QED BY <1>1 DEF GrammarInv

\* Two events, one after the other.
LEMMA TwoAreOneEach ==
  ASSUME NEW a, NEW b
  PROVE  <<a, b>> = <<a>> \o <<b>>
<1> DEFINE s == <<a>>
           t == <<b>>
           z == <<a, b>>
<1>1. /\ s \in Seq({a, b}) /\ Len(s) = 1 /\ s[1] = a
      /\ t \in Seq({a, b}) /\ Len(t) = 1 /\ t[1] = b
      /\ z \in Seq({a, b}) /\ Len(z) = 2 /\ z[1] = a /\ z[2] = b
  OBVIOUS
<1> HIDE DEF s, t, z
<1>c. \A p, q \in Seq({a, b}) :
        /\ p \o q \in Seq({a, b}) /\ Len(p \o q) = Len(p) + Len(q)
        /\ \A i \in 1 .. (Len(p) + Len(q)) : (p \o q)[i] = IF i <= Len(p) THEN p[i] ELSE q[i - Len(p)]
  OBVIOUS
<1>2. s \o t \in Seq({a, b}) /\ Len(s \o t) = 2 /\ (s \o t)[1] = a /\ (s \o t)[2] = b
  BY <1>1, <1>c
<1>3. z = s \o t
  BY <1>1, <1>2
<1> QED BY <1>3 DEF s, t, z

\* The beginning of the run.
LEMMA GrammarRuns ==
  ASSUME TypeInv, TurnsInv, DetailInv, GrammarInv, EvRunPrompt \/ EvRunContinue
  PROVE  GrammarInv'
<1>1. /\ pc = "idle" /\ pc' = "collect" /\ view' = view /\ Quiet
      /\ iterations' = iterations /\ iterations = 0 /\ ask' = ask
  BY DEF EvRunPrompt, EvRunContinue, RunPrompt, RunContinue, run, detail, listener, TurnsInv, Emit
<1>2. /\ view \in Where /\ Matches(view)
  BY <1>1, AllHeard
<1>3. view.run = "before" /\ ~view.turn /\ ~view.message
  BY <1>1, <1>2 DEF Matches, InTurn
<1> DEFINE a == Event("AgentStart")
           b == Event("TurnStart")
           c == Event("MessageStart")
           d == Ending("user", {})
<1>4. a.kind = "AgentStart" /\ b.kind = "TurnStart" /\ c.kind = "MessageStart" /\ d.kind = "MessageEnd" /\ d.calls = {}
  BY DEF Event, Ending
<1>5. \/ outbox' = <<a, b>>
      \/ outbox' = <<a, b>> \o <<c, d>>
  BY DEF EvRunPrompt, EvRunContinue, Emit, Whole
<1> HIDE DEF a, b, c, d
<1>6. <<a, b>> = <<a>> \o <<b>> /\ <<c, d>> = <<c>> \o <<d>>
  BY TwoAreOneEach
<1>u. PICK u : u = Heard(view, a)
  OBVIOUS
<1>7. /\ u \in Where /\ Follows(view, <<a>>, u)
      /\ u.run = "open" /\ ~u.turn /\ ~u.message
  <2>1. Legal(view, a)
    BY <1>3, <1>4 DEF Legal
  <2> QED BY <1>u, <1>2, <1>3, <1>4, <2>1, HeardParts, OneFollows
<1>w. PICK v : v = Heard(u, b)
  OBVIOUS
<1>8. /\ v \in Where /\ Follows(u, <<b>>, v)
      /\ v.run = "open" /\ v.turn /\ ~v.message /\ v.executing = {} /\ v.answered = {}
  <2>1. Legal(u, b)
    BY <1>7, <1>4 DEF Legal
  <2>2. v \in Where /\ Follows(u, <<b>>, v)
    BY <1>w, <1>7, <2>1, OneFollows, HeardIsSomewhere
  <2>3. v.run = "open" /\ v.turn /\ ~v.message /\ v.executing = {} /\ v.answered = {}
    <3>1. b.kind = "TurnStart"
      BY <1>4
    <3>2. u \in Where /\ Legal(u, b)
      BY <1>7, <2>1
    <3>3. PICK h : h = Heard(u, b)
      OBVIOUS
    <3>4. /\ h.run = u.run
          /\ h.turn = ((u.turn /\ b.kind # "TurnEnd") \/ b.kind = "TurnStart")
          /\ h.message = ((u.message /\ b.kind # "MessageEnd") \/ b.kind = "MessageStart")
      <4>1. b.kind # "AgentStart" /\ b.kind # "AgentEnd"
        BY <3>1
      <4> QED BY <3>2, <3>3, <4>1, HeardParts
    <3>5. h.turn /\ ~h.message
      BY <1>7, <3>1, <3>4
    <3>6. h.executing = {} /\ h.answered = {}
      BY <3>1, <3>2, <3>3, HeardParts
    <3> QED BY <1>w, <1>7, <3>3, <3>4, <3>5, <3>6
  <2> QED BY <2>2, <2>3
<1>9. Follows(view, <<a, b>>, v)
  BY <1>6, <1>7, <1>8, BothFollow
<1>10. CASE outbox' = <<a, b>>
  <2>1. Matches(v)'
    BY <1>1, <1>8 DEF Matches, InTurn, Running, DetailInv
  <2> QED BY <1>1, <1>9, <1>10, <2>1 DEF GrammarInv
<1>11. CASE outbox' = <<a, b>> \o <<c, d>>
  <2>x. PICK x : x = Heard(v, c)
    OBVIOUS
  <2>1. /\ x \in Where /\ Follows(v, <<c>>, x)
        /\ x.run = "open" /\ x.turn /\ x.message /\ x.executing = {} /\ x.answered = {}
    <3>1. Legal(v, c)
      BY <1>8, <1>4 DEF Legal
    <3> QED BY <2>x, <1>4, <1>8, <3>1, HeardParts, OneFollows
  <2>w. PICK w : w = Heard(x, d)
    OBVIOUS
  <2>2. /\ w \in Where /\ Follows(x, <<d>>, w)
        /\ w.run = "open" /\ w.turn /\ ~w.message /\ w.executing = {} /\ w.answered = {}
    <3>1. Legal(x, d)
      BY <2>1, <1>4 DEF Legal
    <3> QED BY ZenonT(40), <2>w, <1>4, <2>1, <3>1, HeardParts, OneFollows
  <2>3. Follows(view, outbox', w)
    BY <1>6, <1>9, <1>11, <2>1, <2>2, BothFollow
  <2>4. Matches(w)'
    BY <1>1, <2>2 DEF Matches, InTurn, Running, DetailInv
  <2> QED BY <1>1, <2>3, <2>4 DEF GrammarInv
<1> QED BY <1>5, <1>10, <1>11

\* The loop's own steps.
LEMMA GrammarOwn ==
  ASSUME TypeInv, TurnsInv, DetailInv, GrammarInv, EvOwn
  PROVE  GrammarInv'
<1>q. Quiet /\ view' = view
  BY DEF EvOwn, EvBeginTurn, AnnounceTurnEnd, EvEndTurn, EvEndRun, Silent, Emit, listener
<1>v. view \in Where /\ Matches(view)
  BY <1>q, AllHeard
<1>1. CASE EvBeginTurn
  <2>1. /\ pc = "loop" /\ pc' = "stream" /\ ask = "ready" /\ ask' = "ready"
        /\ outbox' = (IF iterations = 0 THEN <<>> ELSE <<Event("TurnStart")>>) \o Announced(pending)
    BY <1>1 DEF EvBeginTurn, BeginTurn, Emit, DetailInv
  <2>2. view.run = "open" /\ ~view.message /\ view.executing = {} /\ (~view.turn \/ view.answered = {})
    BY <1>v, <2>1 DEF Matches, Running
  <2>3. view.turn <=> iterations = 0
    BY <1>v, <2>1 DEF Matches, InTurn
  <2>4. \E u \in Where : /\ Follows(view, IF iterations = 0 THEN <<>> ELSE <<Event("TurnStart")>>, u)
                         /\ u.run = "open" /\ u.turn /\ ~u.message /\ u.executing = {} /\ u.answered = {}
    <3>1. CASE iterations = 0
      BY <1>v, <2>2, <2>3, <3>1, NothingFollows
    <3>2. CASE iterations # 0
      <4> DEFINE e == Event("TurnStart")
      <4>1. e.kind = "TurnStart"
        BY DEF Event
      <4> HIDE DEF e
      <4>2. Legal(view, e)
        BY <2>2, <2>3, <3>2, <4>1 DEF Legal
      <4>3. Follows(view, <<e>>, Heard(view, e))
        BY <1>v, <4>2, OneFollows
      <4>4. /\ Heard(view, e) \in Where /\ Heard(view, e).run = "open" /\ Heard(view, e).turn
            /\ ~Heard(view, e).message /\ Heard(view, e).executing = {} /\ Heard(view, e).answered = {}
        BY <1>v, <2>2, <4>1, <4>2, HeardParts
      <4> QED BY <3>2, <4>3, <4>4 DEF e
    <3> QED BY <3>1, <3>2
  <2>5. PICK u \in Where : /\ Follows(view, IF iterations = 0 THEN <<>> ELSE <<Event("TurnStart")>>, u)
                           /\ u.run = "open" /\ u.turn /\ ~u.message /\ u.executing = {} /\ u.answered = {}
    BY <2>4
  <2>6. pending \in Seq({"steer", "follow_up"})
    BY DEF TypeInv, TypeOK
  <2>7. PICK w \in Where : /\ Follows(u, Announced(pending), w)
                           /\ w.run = u.run /\ w.turn /\ ~w.message /\ w.executing = {} /\ w.answered = {}
    BY <2>5, <2>6, AnnouncedLeads
  <2>8. Follows(view, outbox', w)
    BY <2>1, <2>5, <2>7, BothFollow
  <2>9. Matches(w)'
    BY <2>1, <2>5, <2>7 DEF Matches, InTurn, Running
  <2> QED BY <1>q, <2>8, <2>9 DEF GrammarInv
<1>2. CASE AnnounceTurnEnd
  <2>e. PICK e : e = [kind |-> "TurnEnd", message |-> outcome.message, results |-> outcome.results]
    OBVIOUS
  <2>1. /\ pc = "turn_end" /\ pc' = pc /\ ~outcome.announced /\ outcome' = [outcome EXCEPT !.announced = TRUE]
        /\ outbox' = <<e>> /\ iterations' = iterations /\ ask' = ask
    BY <1>2, <2>e DEF AnnounceTurnEnd, Emit, vars, run
  <2>2. e.kind = "TurnEnd"
    BY <2>e
  <2>3. outcome'.announced
    BY <2>1 DEF DetailInv, Said
  <2>4. /\ view.turn /\ ~view.message /\ view.run = "open" /\ view.executing = {} /\ view.answered = view.asked
    BY <1>v, <2>1 DEF Matches, InTurn, Running
  <2>5. Legal(view, e)
    BY <2>2, <2>4 DEF Legal
  <2>w. PICK w : w = Heard(view, e)
    OBVIOUS
  <2>6. /\ w.run = "open" /\ ~w.turn /\ ~w.message /\ w.executing = {} /\ w.answered = w.asked
    BY <2>w, <1>v, <2>2, <2>4, <2>5, HeardParts
  <2>7. Matches(w)'
    BY <2>1, <2>3, <2>6 DEF Matches, InTurn, Running
  <2> QED BY <2>w, <1>q, <1>v, <2>1, <2>5, <2>7, OneMore
<1>3. CASE EvEndTurn
  <2>1. /\ pc = "turn_end" /\ pc' = "loop" /\ outcome.announced /\ outbox' = <<>>
        /\ iterations' = iterations /\ iterations # 0 /\ ask' = ask
    BY <1>3 DEF EvEndTurn, EndTurn, Emit, detail, TurnsInv
  <2>2. Matches(view)'
    BY <1>q, <1>v, <2>1 DEF Matches, InTurn, Running
  <2> QED BY <1>q, <1>v, <2>1, <2>2, NoneMore
<1>4. CASE EvEndRun
  <2> DEFINE e == Event("AgentEnd")
  <2>1. /\ pc = "loop" /\ pc' = "done" /\ iterations' = iterations /\ iterations # 0 /\ ask' = ask
        /\ outbox' = <<e>>
    BY <1>4 DEF EvEndRun, EndRun, Emit, detail, TurnsInv, AnotherTurn, run
  <2>2. e.kind = "AgentEnd"
    BY DEF Event
  <2> HIDE DEF e
  <2>3. view.run = "open" /\ ~view.turn /\ ~view.message
    BY <1>v, <2>1 DEF Matches, InTurn, Running
  <2>4. Legal(view, e)
    BY <2>2, <2>3 DEF Legal
  <2>w. PICK w : w = Heard(view, e)
    OBVIOUS
  <2>5. w.run = "over" /\ ~w.turn /\ ~w.message
    BY <2>w, <1>v, <2>2, <2>3, <2>4, HeardParts
  <2>6. Matches(w)'
    BY <2>1, <2>5 DEF Matches, InTurn, Running
  <2> QED BY <2>w, <1>q, <1>v, <2>1, <2>4, <2>6, OneMore
<1>5. CASE Silent
  <2>1. /\ outbox' = <<>> /\ iterations' = iterations /\ ask' = ask /\ outcome' = outcome
        /\ opened' = opened /\ closed' = closed
        /\ \/ pc = "collect" /\ pc' = "loop"
           \/ pc = "loop" /\ pc' \in {"loop", "aborted"}
           \/ pc = "idle" /\ pc' = "rejected"
    BY <1>5 DEF Silent, CollectInitial, AbortAtTop, AcceptFollowUp, RejectContinue, Emit, detail, run, events
  <2>3. pc = "loop" => (opened # closed <=> iterations = 0)
    BY LoopAssumption DEF TurnsInv, TypeInv, TypeOK
  <2>2. Matches(view)'
    BY <1>q, <1>v, <2>1, <2>3 DEF Matches, InTurn, Running, DetailInv
  <2> QED BY <1>q, <1>v, <2>1, <2>2, NoneMore
<1> QED BY <1>1, <1>2, <1>3, <1>4, <1>5 DEF EvOwn

\* What the loop hears and says of an assistant message.
LEMMA GrammarStream ==
  ASSUME TypeInv, TurnsInv, DetailInv, GrammarInv, EvStream
  PROVE  GrammarInv'
<1>q. Quiet /\ view' = view /\ pc = "stream"
  BY DEF EvStream, Request, ProviderSends, Retry, Wake, Escalate, EvStreamCalls, EvStreamText, EvStreamFails,
         StreamCalls, StreamText, StreamFails, Emit, listener
<1>v. view \in Where /\ Matches(view)
  BY <1>q, AllHeard
<1>o. /\ view.run = "open" /\ view.turn /\ view.executing = {} /\ view.answered = {}
      /\ view.message <=> ask \in {"open", "chunked"}
      /\ ask = "requested" => view.last = "RequestPrepared"
      /\ ~outcome.announced
  BY <1>q, <1>v DEF Matches, InTurn, Running, DetailInv
\* Where one event leads from here.
<1>p. ASSUME NEW e, Legal(view, e), e.kind \in {"RequestPrepared", "MessageStart", "MessageUpdate", "MessageEnd"}
      PROVE  LET w == Heard(view, e)
             IN  /\ w \in Where /\ Follows(view, <<e>>, w)
                 /\ w.run = "open" /\ w.turn /\ w.executing = {} /\ w.answered = {} /\ w.last = e.kind
                 /\ w.message <=> (view.message /\ e.kind # "MessageEnd") \/ e.kind = "MessageStart"
                 /\ e.kind = "MessageEnd" => w.asked = e.calls
  BY <1>o, <1>p, <1>v, HeardParts, OneFollows
<1>1. CASE Request
  <2>1. ask = "ready" /\ ask' = "requested" /\ outbox' = <<Prepared>> /\ pc' = pc /\ iterations' = iterations
    BY <1>1 DEF Request, Emit, vars, run
  <2>2. Prepared.kind = "RequestPrepared"
    BY DEF Prepared, Event
  <2>3. Legal(view, Prepared)
    BY <1>o, <2>1, <2>2 DEF Legal
  <2>w. PICK w : w = Heard(view, Prepared)
    OBVIOUS
  <2>4. /\ w.run = "open" /\ w.turn /\ w.executing = {} /\ w.answered = {}
        /\ w.last = "RequestPrepared" /\ ~w.message
    BY <2>w, <1>o, <1>p, <2>1, <2>2, <2>3
  <2>5. Matches(w)'
    BY <1>q, <2>1, <2>4 DEF Matches, InTurn, Running
  <2> QED BY <2>w, <1>q, <1>v, <2>1, <2>3, <2>5, OneMore
<1>2. CASE ProviderSends
  <2>1. PICK kind \in {"MessageStart", "MessageUpdate"} :
          /\ kind = "MessageStart" => ask = "requested" /\ ask' = "open"
          /\ kind = "MessageUpdate" => ask = "open" /\ ask' = "chunked"
          /\ outbox' = <<Event(kind)>>
    BY <1>2 DEF ProviderSends, Emit
  <2>2. pc' = pc /\ iterations' = iterations
    BY <1>2 DEF ProviderSends, vars, run
  <2> DEFINE e == Event(kind)
  <2>3. e.kind = kind /\ outbox' = <<e>>
    BY <2>1 DEF Event
  <2> HIDE DEF e
  <2>4. Legal(view, e)
    BY <1>o, <2>1, <2>3 DEF Legal
  <2>w. PICK w : w = Heard(view, e)
    OBVIOUS
  <2>5. w.run = "open" /\ w.turn /\ w.executing = {} /\ w.answered = {} /\ w.message
    BY <2>w, <1>o, <1>p, <2>1, <2>3, <2>4
  <2>6. Matches(w)'
    BY <1>q, <2>1, <2>2, <2>5 DEF Matches, InTurn, Running
  <2> QED BY <2>w, <1>q, <1>v, <2>3, <2>4, <2>6, OneMore
<1>s. Asked \cup {{}} \subseteq SUBSET Call
  BY CallsAssumption DEF Asked, Call
<1>3. CASE Retry
  <2>c. PICK calls \in Asked \cup {{}} : outbox' = <<Ending("errored", calls)>>
    BY <1>3 DEF Retry, Emit
  <2> DEFINE e == Ending("errored", calls)
  <2>1. /\ ask \in {"requested", "open", "chunked"} /\ ask' \in {"delay", "ready"} /\ outbox' = <<e>>
        /\ pc' = pc /\ iterations' = iterations
    BY <1>3, <2>c DEF Retry, Streaming, vars, run
  <2>2. e.kind = "MessageEnd" /\ e.calls \in SUBSET Call
    BY <1>s DEF Ending
  <2> HIDE DEF e
  <2>3. Legal(view, e)
    BY <1>o, <2>1, <2>2 DEF Legal
  <2>w. PICK w : w = Heard(view, e)
    OBVIOUS
  <2>4. w.run = "open" /\ w.turn /\ w.executing = {} /\ w.answered = {} /\ ~w.message
    BY <2>w, <1>o, <1>p, <2>1, <2>2, <2>3
  <2>5. Matches(w)'
    BY <1>q, <2>1, <2>4 DEF Matches, InTurn, Running
  <2> QED BY <2>w, <1>q, <1>v, <2>1, <2>3, <2>5, OneMore
<1>4. CASE Wake
  <2>1. ask = "delay" /\ ask' = "ready" /\ outbox' = <<>> /\ pc' = pc /\ iterations' = iterations
    BY <1>4 DEF Wake, Emit, vars, run
  <2>2. Matches(view)'
    BY <1>o, <1>q, <2>1 DEF Matches, InTurn, Running
  <2> QED BY <1>q, <1>v, <2>1, <2>2, NoneMore
<1>5. CASE Escalate
  <2>1. PICK calls \in Asked \cup {{}} : outbox' = <<Ending("calls", calls), Event("Escalation")>>
    BY <1>5 DEF Escalate, Emit
  <2>2. ask \in {"requested", "open", "chunked"} /\ ask' = "ready" /\ pc' = pc /\ iterations' = iterations
    BY <1>5 DEF Escalate, Streaming, vars, run
  <2>3. calls \in SUBSET Call
    BY <1>s
  <2> DEFINE e == Ending("calls", calls)
             f == Event("Escalation")
  <2>4. e.kind = "MessageEnd" /\ e.calls = calls /\ f.kind = "Escalation" /\ outbox' = <<e>> \o <<f>>
    BY <2>1 DEF Ending, Event
  <2> HIDE DEF e, f
  <2>5. Legal(view, e)
    BY <1>o, <2>2, <2>3, <2>4 DEF Legal
  <2> DEFINE u == Heard(view, e)
  <2>6. /\ u \in Where /\ Follows(view, <<e>>, u)
        /\ u.run = "open" /\ u.turn /\ u.executing = {} /\ u.answered = {} /\ ~u.message /\ u.last = "MessageEnd"
    BY <1>o, <1>p, <2>4, <2>5
  <2> HIDE DEF u
  <2>7. Legal(u, f)
    BY <2>4, <2>6 DEF Legal
  <2>w. PICK w : w = Heard(u, f)
    OBVIOUS
  <2>8. /\ Follows(u, <<f>>, w)
        /\ w.run = "open" /\ w.turn /\ w.executing = {} /\ w.answered = {} /\ ~w.message
    BY <2>w, <2>4, <2>6, <2>7, HeardParts, OneFollows
  <2>9. Follows(view, outbox', w)
    BY <2>4, <2>6, <2>8, BothFollow
  <2>10. Matches(w)'
    BY <1>q, <2>2, <2>8 DEF Matches, InTurn, Running
  <2> QED BY <1>q, <2>9, <2>10 DEF GrammarInv
<1>6. CASE EvStreamCalls
  <2>1. PICK calls \in Asked, todo \in InOrder, held \in InOrder, mode \in {"sequential", "parallel"} :
          /\ ToSet(held) \subseteq calls
          /\ ToSet(todo) = calls \ ToSet(held)
          /\ outbox' = <<Ending("calls", calls)>>
          /\ work' = [NoWork EXCEPT !.mode = mode, !.todo = todo, !.held = held, !.beyond = held]
    BY <1>6 DEF EvStreamCalls, Emit
  <2>2. ask \in {"requested", "open", "chunked"} /\ ask' = "ready" /\ pc' = "batch"
    BY <1>6 DEF EvStreamCalls, StreamCalls, Streaming
  <2>3. calls \in SUBSET Call
    BY <1>s
  <2>4. work'.todo = todo /\ work'.running = <<>> /\ work'.held = held
    BY <2>1 DEF NoWork
  <2>5. Waiting(work') = calls
    <3>1. ToSet(<<>>) = {}
      BY DEF ToSet
    <3> QED BY <2>1, <2>4, <3>1 DEF Waiting
  <2> DEFINE e == Ending("calls", calls)
  <2>6. e.kind = "MessageEnd" /\ e.calls = calls /\ outbox' = <<e>>
    BY <2>1 DEF Ending
  <2> HIDE DEF e
  <2>7. Legal(view, e)
    BY <1>o, <2>2, <2>3, <2>6 DEF Legal
  <2>w. PICK w : w = Heard(view, e)
    OBVIOUS
  <2>8. w.run = "open" /\ w.turn /\ w.executing = {} /\ w.answered = {} /\ ~w.message /\ w.asked = calls
    BY <2>w, <1>p, <2>6, <2>7
  <2>9. Matches(w)'
    BY <2>2, <2>5, <2>8 DEF Matches, InTurn, Running
  <2> QED BY <2>w, <1>q, <1>v, <2>6, <2>7, <2>9, OneMore
<1>7. CASE EvStreamText
  <2>1. PICK m : outbox' = <<Ending(m, {})>>
    BY <1>7 DEF EvStreamText, Emit
  <2>2. /\ ask \in {"requested", "open", "chunked"} /\ ask' = "ready"
        /\ pc' = "turn_end" /\ iterations' = iterations
    BY <1>7 DEF EvStreamText, StreamText, Streaming
  <2>3. ~outcome'.announced
    BY <1>7 DEF EvStreamText, NoOutcome
  <2> DEFINE e == Ending(m, {})
  <2>4. e.kind = "MessageEnd" /\ e.calls = {} /\ outbox' = <<e>>
    BY <2>1 DEF Ending
  <2> HIDE DEF e
  <2>5. Legal(view, e)
    BY <1>o, <2>2, <2>4 DEF Legal
  <2>w. PICK w : w = Heard(view, e)
    OBVIOUS
  <2>6. w.run = "open" /\ w.turn /\ w.executing = {} /\ w.answered = {} /\ ~w.message /\ w.asked = {}
    BY <2>w, <1>p, <2>4, <2>5
  <2>7. Matches(w)'
    BY <2>2, <2>3, <2>6 DEF Matches, InTurn, Running
  <2> QED BY <2>w, <1>q, <1>v, <2>4, <2>5, <2>7, OneMore
<1>8. CASE EvStreamFails
  <2>1. pc' \in {"failed", "aborted"} /\ opened' = opened /\ closed' = closed /\ opened # closed
    BY <1>8, <1>q, LoopAssumption DEF EvStreamFails, StreamFails, events, TurnsInv, TypeInv, TypeOK
  <2>2. CASE outbox' = <<>>
    <3>1. Matches(view)'
      BY <1>q, <1>o, <2>1 DEF Matches, Running
    <3> QED BY <1>q, <1>v, <2>2, <3>1, NoneMore
  <2>3. CASE Streaming /\ \E calls \in Asked \cup {{}} : outbox' = <<Ending("errored", calls)>>
    <3>c. PICK calls \in Asked \cup {{}} : outbox' = <<Ending("errored", calls)>>
      BY <2>3
    <3> DEFINE e == Ending("errored", calls)
    <3>1. e.kind = "MessageEnd" /\ e.calls \in SUBSET Call /\ outbox' = <<e>>
      BY <1>s, <3>c DEF Ending
    <3> HIDE DEF e
    <3>2. Legal(view, e)
      BY <1>o, <2>3, <3>1 DEF Legal, Streaming
    <3>w. PICK w : w = Heard(view, e)
      OBVIOUS
    <3>3. w.run = "open" /\ w.turn
      BY <3>w, <1>p, <3>1, <3>2
    <3>4. Matches(w)'
      BY <2>1, <3>3 DEF Matches, Running
    <3> QED BY <3>w, <1>q, <1>v, <3>1, <3>2, <3>4, OneMore
  <2> QED BY <1>8, <2>2, <2>3 DEF EvStreamFails, Emit
<1> QED BY <1>1, <1>2, <1>3, <1>4, <1>5, <1>6, <1>7, <1>8 DEF EvStream

\* The ends of some of the calls that wait are announced.
LEMMA EndsAreSaid ==
  ASSUME DetailInv, view \in Where, Matches(view), pc = "batch", view' = view, pc' = pc, ask' = ask,
         outcome' = outcome,
         NEW calls \in Seq(Call), IsInjective(calls), ToSet(calls) \subseteq Waiting(work), outbox' = EndsOf(calls),
         Waiting(work)' = Waiting(work) \ ToSet(calls),
         ToSet(work.running) \ ToSet(calls) \subseteq ToSet(work.running)'
  PROVE  GrammarInv'
<1>1. /\ view.run = "open" /\ view.turn /\ ~view.message
      /\ Waiting(work) = view.asked \ view.answered /\ view.answered \subseteq view.asked
      /\ view.executing \subseteq ToSet(work.running)
  BY DEF Matches, InTurn, Running
<1>2. PICK w \in Where : /\ Follows(view, EndsOf(calls), w)
                         /\ w.run = view.run /\ w.turn /\ ~w.message /\ w.asked = view.asked
                         /\ w.executing = view.executing \ ToSet(calls)
                         /\ w.answered = view.answered \cup ToSet(calls)
  BY <1>1, EndsLead
<1>3. ToSet(calls) \subseteq view.asked
  BY <1>1
<1>4. Matches(w)'
  BY <1>1, <1>2, <1>3 DEF Matches, InTurn, Running
<1> QED BY <1>2, <1>4 DEF GrammarInv

\* The start of a call that waits is announced.
LEMMA StartIsSaid ==
  ASSUME DetailInv, view \in Where, Matches(view), pc = "batch", view' = view, pc' = pc, ask' = ask,
         outcome' = outcome,
         NEW c, c \in Waiting(work) \ ToSet(work.running), outbox' = <<Starting(c)>>,
         Waiting(work)' = Waiting(work),
         ToSet(work.running)' = ToSet(work.running) \cup {c}
  PROVE  GrammarInv'
<1>1. /\ view.run = "open" /\ view.turn /\ ~view.message
      /\ Waiting(work) = view.asked \ view.answered /\ view.answered \subseteq view.asked
      /\ view.executing \subseteq ToSet(work.running)
  BY DEF Matches, InTurn, Running
<1>2. PICK e : e = Starting(c)
  OBVIOUS
<1>3. e.kind = "ExecutionStart" /\ e.call = c
  BY <1>2 DEF Starting
<1>4. Legal(view, e)
  BY <1>1, <1>3 DEF Legal
<1>5. PICK w : w = Heard(view, e)
  OBVIOUS
<1>6. /\ w.run = "open" /\ w.turn /\ ~w.message /\ w.asked = view.asked /\ w.answered = view.answered
      /\ w.executing = view.executing \cup {c}
  BY <1>1, <1>3, <1>4, <1>5, HeardParts
<1>7. Matches(w)'
  BY <1>1, <1>6 DEF Matches, InTurn, Running
<1> QED BY <1>2, <1>4, <1>5, <1>7, OneMore

\* What the loop says of a batch.
LEMMA GrammarBatch ==
  ASSUME TypeInv, TurnsInv, DetailInv, GrammarInv, EvBatch
  PROVE  GrammarInv'
<1>q. Quiet /\ view' = view /\ pc = "batch"
  BY DEF EvBatch, SequentialPrepare, SequentialReturn, ParallelPrepare, ParallelReturn, AnswerHeld,
         EvBatchReturns, EvBatchFails, BatchReturns, BatchFails, InBatch, Emit, listener
<1>v. view \in Where /\ Matches(view)
  BY <1>q, AllHeard
<1>w. /\ work \in Batched /\ Placed(work)
      /\ work.todo \in Seq(Call) /\ work.running \in Seq(Call) /\ work.held \in Seq(Call)
      /\ IsInjective(work.todo) /\ IsInjective(work.running) /\ IsInjective(work.held)
  BY <1>q DEF DetailInv, Batched, Placed
<1>e. ToSet(<<>>) = {}
  BY DEF ToSet
<1>1. CASE SequentialPrepare
  <2>1. /\ pc' = pc /\ ask' = ask /\ outcome' = outcome /\ work.todo # <<>> /\ work.running = <<>>
    BY <1>1 DEF SequentialPrepare, vars
  <2>2. PICK c : c = Head(work.todo)
    OBVIOUS
  <2>3. c \in ToSet(work.todo) /\ c \in Call /\ ToSet(Tail(work.todo)) = ToSet(work.todo) \ {c}
    BY <1>w, <2>1, <2>2, TailOfCalls
  <2>4. c \notin ToSet(work.held)
    BY <1>w, <2>3 DEF Placed
  <2>5. CASE /\ outbox' = <<Starting(c)>>
             /\ work' = [work EXCEPT !.todo = Tail(@), !.running = <<c>>, !.started = TRUE]
    <3>1. work'.todo = Tail(work.todo) /\ work'.running = <<c>> /\ work'.held = work.held
      BY <1>w, <2>5 DEF Batched
    <3>2. ToSet(<<c>>) = {c}
      BY DEF ToSet
    <3>3. ToSet(work'.running) = ToSet(work.running) \cup {c}
      BY <1>e, <2>1, <3>1, <3>2
    <3>4. Waiting(work') = Waiting(work)
      BY <1>e, <2>1, <2>3, <3>1, <3>2 DEF Waiting
    <3>5. c \in Waiting(work) \ ToSet(work.running)
      BY <1>e, <2>1, <2>3 DEF Waiting
    <3> QED BY <1>q, <1>v, <2>1, <2>5, <3>3, <3>4, <3>5, StartIsSaid
  <2>6. CASE /\ outbox' = <<EndOf(c)>>
             /\ work' = [work EXCEPT !.todo = Tail(@)]
    <3>1. work'.todo = Tail(work.todo) /\ work'.running = work.running /\ work'.held = work.held
      BY <1>w, <2>6 DEF Batched
    <3>2. PICK calls : calls = <<c>>
      OBVIOUS
    <3>3. /\ calls \in Seq(Call) /\ IsInjective(calls) /\ ToSet(calls) = {c}
          /\ EndsOf(calls) = <<EndOf(c)>>
      BY <2>3, <3>2 DEF IsInjective, ToSet, EndsOf
    <3>4. Waiting(work') = Waiting(work) \ {c}
      BY <1>e, <2>1, <2>3, <2>4, <3>1 DEF Waiting
    <3>5. {c} \subseteq Waiting(work)
      BY <2>3 DEF Waiting
    <3> QED BY <1>q, <1>v, <2>1, <2>6, <3>1, <3>3, <3>4, <3>5, EndsAreSaid
  <2>7. CASE /\ outbox' = EndsOf(work.todo)
             /\ work' = [work EXCEPT !.todo = <<>>]
    <3>1. work'.todo = <<>> /\ work'.running = work.running /\ work'.held = work.held
      BY <1>w, <2>7 DEF Batched
    <3>2. Waiting(work') = Waiting(work) \ ToSet(work.todo)
      BY <1>e, <1>w, <3>1 DEF Waiting, Placed
    <3>3. ToSet(work.todo) \subseteq Waiting(work)
      BY DEF Waiting
    <3>4. PICK calls : calls = work.todo
      OBVIOUS
    <3> QED BY <1>q, <1>v, <1>w, <2>1, <2>7, <3>1, <3>2, <3>3, <3>4, EndsAreSaid
  <2> QED BY <1>1, <2>2, <2>5, <2>6, <2>7 DEF SequentialPrepare, Emit
<1>2. CASE SequentialReturn
  <2>1. pc' = pc /\ ask' = ask /\ outcome' = outcome
    BY <1>2 DEF SequentialReturn, vars
  <2>2. CASE /\ outbox' = EndsOf(work.running)
             /\ work' = [work EXCEPT !.running = <<>>]
    <3>1. work'.todo = work.todo /\ work'.running = <<>> /\ work'.held = work.held
      BY <1>w, <2>2 DEF Batched
    <3>2. Waiting(work') = Waiting(work) \ ToSet(work.running)
      BY <1>e, <1>w, <3>1 DEF Waiting, Placed
    <3>3. ToSet(work.running) \subseteq Waiting(work)
      BY DEF Waiting
    <3>4. PICK calls : calls = work.running
      OBVIOUS
    <3> QED BY <1>q, <1>v, <1>w, <2>1, <2>2, <3>1, <3>2, <3>3, <3>4, EndsAreSaid
  <2>3. CASE /\ outbox' = EndsOf(work.running \o work.todo)
             /\ work' = [work EXCEPT !.running = <<>>, !.todo = <<>>]
    <3>1. work'.todo = <<>> /\ work'.running = <<>> /\ work'.held = work.held
      BY <1>w, <2>3 DEF Batched
    <3>4. PICK calls : calls = work.running \o work.todo
      OBVIOUS
    <3>5. ToSet(work.running) \cap ToSet(work.todo) = {}
      BY <1>w DEF Placed
    <3>6. calls \in Seq(Call) /\ IsInjective(calls) /\ ToSet(calls) = ToSet(work.running) \cup ToSet(work.todo)
      BY <1>w, <3>4, <3>5, CallsInARow
    <3>2. Waiting(work') = Waiting(work) \ ToSet(calls)
      BY <1>e, <1>w, <3>1, <3>6 DEF Waiting, Placed
    <3>3. ToSet(calls) \subseteq Waiting(work)
      BY <3>6 DEF Waiting
    <3>7. ToSet(work.running) \ ToSet(calls) = {}
      BY <3>6
    <3> QED BY <1>q, <1>v, <1>w, <2>1, <2>3, <3>2, <3>3, <3>4, <3>6, <3>7, EndsAreSaid
  <2> QED BY <1>2, <2>2, <2>3 DEF SequentialReturn, Emit
<1>3. CASE ParallelPrepare
  <2>1. pc' = pc /\ ask' = ask /\ outcome' = outcome /\ work.todo # <<>>
    BY <1>3 DEF ParallelPrepare, vars
  <2>2. PICK c : c = Head(work.todo)
    OBVIOUS
  <2>3. c \in ToSet(work.todo) /\ c \in Call /\ ToSet(Tail(work.todo)) = ToSet(work.todo) \ {c}
    BY <1>w, <2>1, <2>2, TailOfCalls
  <2>4. c \notin ToSet(work.running)
    BY <1>w, <2>3 DEF Placed
  <2>5. /\ work'.todo = Tail(work.todo) /\ work'.running = Append(work.running, c) /\ work'.held = work.held
    BY <1>3, <1>w, <2>2 DEF ParallelPrepare, Batched
  <2>6. ToSet(Append(work.running, c)) = ToSet(work.running) \cup {c}
    BY <1>w, <2>3, <2>4, OneMoreCall
  <2>7. Waiting(work') = Waiting(work)
    BY <2>3, <2>5, <2>6 DEF Waiting
  <2>8. c \in Waiting(work) \ ToSet(work.running)
    BY <2>3, <2>4 DEF Waiting
  <2>9. CASE outbox' = <<Starting(c)>>
    BY <1>q, <1>v, <2>1, <2>5, <2>6, <2>7, <2>8, <2>9, StartIsSaid
  <2>10. CASE outbox' = <<>>
    <3>1. ToSet(work.running) \subseteq ToSet(work'.running)
      BY <2>5, <2>6
    <3>2. Matches(view)'
      BY <1>q, <1>v, <2>1, <2>7, <3>1 DEF Matches, InTurn, Running
    <3> QED BY <1>q, <1>v, <2>10, <3>2, NoneMore
  <2> QED BY <1>3, <2>2, <2>9, <2>10 DEF ParallelPrepare, Emit
<1>4. CASE ParallelReturn
  <2>1. /\ pc' = pc /\ ask' = ask /\ outcome' = outcome
        /\ outbox' = EndsOf(work.running) /\ work' = [work EXCEPT !.running = <<>>]
    BY <1>4 DEF ParallelReturn, vars, Emit
  <2>2. work'.todo = work.todo /\ work'.running = <<>> /\ work'.held = work.held
    BY <1>w, <2>1 DEF Batched
  <2>3. Waiting(work') = Waiting(work) \ ToSet(work.running)
    BY <1>e, <1>w, <2>2 DEF Waiting, Placed
  <2>4. ToSet(work.running) \subseteq Waiting(work)
    BY DEF Waiting
  <2>5. PICK calls : calls = work.running
    OBVIOUS
  <2> QED BY <1>q, <1>v, <1>w, <2>1, <2>2, <2>3, <2>4, <2>5, EndsAreSaid
<1>5. CASE AnswerHeld
  <2>1. /\ pc' = pc /\ ask' = ask /\ outcome' = outcome
        /\ outbox' = EndsOf(work.held) /\ work' = [work EXCEPT !.held = <<>>]
    BY <1>5 DEF AnswerHeld, vars, Emit
  <2>2. work'.todo = work.todo /\ work'.running = work.running /\ work'.held = <<>>
    BY <1>w, <2>1 DEF Batched
  <2>3. Waiting(work') = Waiting(work) \ ToSet(work.held)
    BY <1>e, <1>w, <2>2 DEF Waiting, Placed
  <2>4. ToSet(work.held) \subseteq Waiting(work)
    BY DEF Waiting
  <2>5. PICK calls : calls = work.held
    OBVIOUS
  <2> QED BY <1>q, <1>v, <1>w, <2>1, <2>2, <2>3, <2>4, <2>5, EndsAreSaid
<1>6. CASE EvBatchReturns
  <2>1. /\ work.todo = <<>> /\ work.running = <<>> /\ work.held = <<>> /\ pc' = "turn_end" /\ ask' = ask
        /\ outbox' = <<>> /\ outcome' = [outcome EXCEPT !.results = <<"results">>]
    BY <1>6 DEF EvBatchReturns, BatchReturns, Settled, Emit
  <2>2. ~outcome'.announced
    BY <1>q, <2>1 DEF DetailInv, Said
  <2>3. Waiting(work) = {}
    BY <1>e, <2>1 DEF Waiting
  <2>4. view.executing = {} /\ view.answered = view.asked /\ view.turn /\ view.run = "open" /\ ~view.message
    BY <1>e, <1>q, <1>v, <2>1, <2>3 DEF Matches, InTurn, Running
  <2>5. Matches(view)'
    BY <1>q, <2>1, <2>2, <2>4 DEF Matches, InTurn, Running
  <2> QED BY <1>q, <1>v, <2>1, <2>5, NoneMore
<1>7. CASE EvBatchFails
  <2>1. /\ pc' \in {"failed", "aborted"} /\ outbox' = <<>>
        /\ opened' = opened /\ closed' = closed /\ opened # closed
    BY <1>7, <1>q, LoopAssumption DEF EvBatchFails, BatchFails, Emit, events, TurnsInv, TypeInv, TypeOK
  <2>2. Matches(view)'
    BY <1>q, <1>v, <2>1 DEF Matches, InTurn, Running
  <2> QED BY <1>q, <1>v, <2>1, <2>2, NoneMore
<1> QED BY <1>1, <1>2, <1>3, <1>4, <1>5, <1>6, <1>7 DEF EvBatch

\* Every step keeps what is to be heard legal.
LEMMA GrammarNext == TypeInv /\ TurnsInv /\ DetailInv /\ GrammarInv /\ [EvNext]_all => GrammarInv'
<1> SUFFICES ASSUME TypeInv, TurnsInv, DetailInv, GrammarInv, [EvNext]_all PROVE GrammarInv'
  OBVIOUS
<1>1. CASE EvRunPrompt \/ EvRunContinue
  BY <1>1, GrammarRuns
<1>2. CASE EvOwn
  BY <1>2, GrammarOwn
<1>3. CASE EvStream
  BY <1>3, GrammarStream
<1>4. CASE EvBatch
  BY <1>4, GrammarBatch
<1>w. PICK w : Follows(view, outbox, w) /\ Matches(w)
  BY DEF GrammarInv
<1>5. CASE Deliver
  <2>1. /\ outbox # <<>> /\ view' = Heard(view, Head(outbox)) /\ outbox' = Tail(outbox)
        /\ pc' = pc /\ iterations' = iterations /\ ask' = ask /\ work' = work /\ outcome' = outcome
        /\ opened' = opened /\ closed' = closed
    BY <1>5 DEF Deliver, Quiet, detail, vars, run, events
  <2>2. Follows(view', outbox', w)
    BY <1>w, <2>1, TheRestFollows
  <2>3. Matches(w)'
    BY <1>w, <2>1 DEF Matches, InTurn, Waiting
  <2> QED BY <2>2, <2>3 DEF GrammarInv
<1>6. CASE FromOutside \/ UNCHANGED all
  <2>1. /\ view' = view /\ outbox' = outbox
        /\ pc' = pc /\ iterations' = iterations /\ ask' = ask /\ work' = work /\ outcome' = outcome
        /\ opened' = opened /\ closed' = closed
    BY <1>6 DEF FromOutside, Steer, Cancel, all, detail, listener, vars, run, events
  <2>2. Matches(w)'
    BY <1>w, <2>1 DEF Matches, InTurn, Waiting
  <2> QED BY <1>w, <2>1, <2>2 DEF GrammarInv
<1> QED BY <1>1, <1>2, <1>3, <1>4, <1>5, <1>6 DEF EvNext, EvEnded

\* What holds in every state of a run with its events.
LEMMA EvInvariants == EvSpec => [](TypeInv /\ TurnsInv /\ DetailInv /\ GrammarInv)
<1>1. EvInit => TypeInv /\ TurnsInv /\ DetailInv /\ GrammarInv
  BY TypeInit, TurnsInit, DetailInit, GrammarInit DEF EvInit
<1>2. TypeInv /\ TurnsInv /\ DetailInv /\ GrammarInv /\ [EvNext]_all =>
        (TypeInv /\ TurnsInv /\ DetailInv /\ GrammarInv)'
  BY EvStep, TypeNext, TurnsNext, DetailNext, GrammarNext
<1> QED BY <1>1, <1>2, PTL DEF EvSpec

\* The events of every run follow the grammar of EventContract: what a
\* listener hears is, step by step, what the contract allows.
THEOREM EventsFollowTheGrammar == EvSpec => FollowsGrammar
<1>1. EvInit => Events!Init
  BY DEF EvInit, Events!Init
<1>2. GrammarInv /\ [EvNext]_all => [Events!Next]_(Events!vars)
  <2> SUFFICES ASSUME GrammarInv, [EvNext]_all PROVE [Events!Next]_(Events!vars)
    OBVIOUS
  <2>1. CASE Deliver
    <3>1. PICK w : Follows(view, outbox, w)
      BY DEF GrammarInv
    <3>2. outbox # <<>> /\ view' = Heard(view, Head(outbox))
      BY <2>1 DEF Deliver, Quiet
    <3>3. Legal(view, Head(outbox)) /\ view \in Where
      BY <3>1, <3>2, TheRestFollows, FollowsIsSomewhere
    <3>4. PICK e : e = Head(outbox)
      OBVIOUS
    <3> QED BY <3>2, <3>3, <3>4, LegalIsInTheGrammar
  <2>2. CASE ~Deliver
    <3>1. view' = view
      BY <2>2 DEF EvNext, EvRunPrompt, EvRunContinue, EvOwn, EvBeginTurn, AnnounceTurnEnd, EvEndTurn, EvEndRun,
             Silent, EvStream, Request, ProviderSends, Retry, Wake, Escalate, EvStreamCalls, EvStreamText,
             EvStreamFails, EvBatch, SequentialPrepare, SequentialReturn, ParallelPrepare, ParallelReturn,
             AnswerHeld, EvBatchReturns, EvBatchFails, FromOutside, EvEnded, all, listener
    <3> QED BY <3>1 DEF Events!vars
  <2> QED BY <2>1, <2>2
<1> QED BY <1>1, <1>2, EvInvariants, PTL DEF EvSpec, FollowsGrammar, Events!Spec

\* The grammar nests: a message in a turn, a turn in the run.
Nested == (view.turn => view.run = "open") /\ (view.message => view.turn)

\* Every stream of the grammar nests.
LEMMA GrammarNests == Events!Spec => []Nested
<1>1. Events!Init => Nested
  BY DEF Events!Init, Nested
<1>2. Nested /\ [Events!Next]_(Events!vars) => Nested'
  <2> SUFFICES ASSUME Nested, [Events!Next]_(Events!vars) PROVE Nested'
    OBVIOUS
  <2> USE DEF Nested
  <2>1. CASE Events!AgentStart \/ Events!AgentEnd \/ Events!TurnStart \/ Events!TurnEnd
    BY <2>1 DEF Events!AgentStart, Events!AgentEnd, Events!TurnStart, Events!TurnEnd
  <2>2. CASE Events!RequestPrepared \/ Events!MessageStart \/ Events!MessageUpdate \/ Events!Escalation
    BY <2>2 DEF Events!RequestPrepared, Events!MessageStart, Events!MessageUpdate, Events!Escalation
  <2>3. ASSUME NEW calls, Events!MessageEnd(calls) PROVE Nested'
    BY <2>3 DEF Events!MessageEnd
  <2>4. ASSUME NEW c, Events!ExecutionStart(c) \/ Events!ExecutionEnd(c) PROVE Nested'
    BY <2>4 DEF Events!ExecutionStart, Events!ExecutionEnd
  <2>5. CASE UNCHANGED Events!vars
    BY <2>5 DEF Events!vars
  <2> QED BY <2>1, <2>2, <2>3, <2>4, <2>5 DEF Events!Next
<1> QED BY <1>1, <1>2, PTL DEF Events!Spec

\* A listener hears AgentEnd last, if and only if the run ends well.
THEOREM TheEndIsAnnounced == EvSpec => []EndIsAnnounced
<1>1. GrammarInv /\ Nested => EndIsAnnounced
  <2> SUFFICES ASSUME GrammarInv, Nested PROVE EndIsAnnounced
    OBVIOUS
  <2>1. PICK w : Follows(view, outbox, w) /\ Matches(w)
    BY DEF GrammarInv
  <2>2. CASE outbox = <<>>
    BY <2>1, <2>2, NothingLeadsNowhere DEF EndIsAnnounced, Matches, Quiet
  <2>3. CASE outbox # <<>>
    <3>1. view.run # "over"
      <4>1. PICK e : e = Head(outbox)
        OBVIOUS
      <4>2. Legal(view, e)
        BY <2>1, <2>3, <4>1, TheRestFollows
      <4> QED BY <4>2 DEF Legal, Nested
    <3> QED BY <2>3, <3>1 DEF EndIsAnnounced, Quiet
  <2> QED BY <2>2, <2>3
<1> QED BY <1>1, EvInvariants, EventsFollowTheGrammar, GrammarNests, PTL DEF FollowsGrammar
-----------------------------------------------------------------------------
(* What a listener is told. *)

Transcript == Seq(Message)

\* Rank counts up by one at every message that is no nudge.
LEMMA RankCounts ==
  ASSUME NEW messages \in Transcript, NEW n \in 0 .. Len(messages)
  PROVE  /\ Rank(messages, n) \in Nat
         /\ Rank(messages, 0) = 0
         /\ n > 0 => Rank(messages, n) = Rank(messages, n - 1) + (IF messages[n] # "nudge" THEN 1 ELSE 0)
<1> DEFINE S(k) == {i \in 1 .. k : messages[i] # "nudge"}
<1>1. \A k \in Nat : IsFiniteSet(S(k))
  <2> SUFFICES ASSUME NEW k \in Nat PROVE IsFiniteSet(S(k))
    OBVIOUS
  <2>1. IsFiniteSet(1 .. k)
    BY FS_Interval
  <2> QED BY <2>1, FS_Subset
<1>2. n \in Nat /\ Rank(messages, n) \in Nat
  <2>1. n \in Nat
    OBVIOUS
  <2> QED BY <1>1, <2>1, FS_CardinalityType DEF Rank
<1>3. Rank(messages, 0) = 0
  <2>1. S(0) = {}
    OBVIOUS
  <2> QED BY <2>1, FS_EmptySet DEF Rank
<1>4. ASSUME n > 0
      PROVE  Rank(messages, n) = Rank(messages, n - 1) + (IF messages[n] # "nudge" THEN 1 ELSE 0)
  <2>1. n - 1 \in Nat /\ n \notin S(n - 1)
    BY <1>4
  <2>2. S(n) = IF messages[n] # "nudge" THEN S(n - 1) \cup {n} ELSE S(n - 1)
    BY <1>4
  <2>3. Cardinality(S(n - 1) \cup {n}) = Cardinality(S(n - 1)) + 1
    BY <1>1, <2>1, FS_AddElement
  <2>4. Cardinality(S(n - 1)) \in Nat
    BY <1>1, <2>1, FS_CardinalityType
  <2>5. Rank(messages, n) = Cardinality(S(n)) /\ Rank(messages, n - 1) = Cardinality(S(n - 1))
    BY DEF Rank
  <2> HIDE DEF S
  <2>6. CASE messages[n] # "nudge"
    BY <2>2, <2>3, <2>5, <2>6
  <2>7. CASE messages[n] = "nudge"
    BY <2>2, <2>4, <2>5, <2>7
  <2> QED BY <2>6, <2>7
<1> QED BY <1>2, <1>3, <1>4

\* What comes later does not change the rank of a message.
LEMMA RankStays ==
  ASSUME NEW messages \in Transcript, NEW m \in Message, NEW n \in 0 .. Len(messages)
  PROVE  Rank(Append(messages, m), n) = Rank(messages, n)
<1>1. {i \in 1 .. n : Append(messages, m)[i] # "nudge"} = {i \in 1 .. n : messages[i] # "nudge"}
  BY DEF Transcript
<1> QED BY <1>1 DEF Rank

\* A message that is no nudge has a rank among those that are not.
LEMMA RankIsBounded ==
  ASSUME NEW messages \in Transcript, NEW n \in 1 .. Len(messages), messages[n] # "nudge"
  PROVE  Rank(messages, n) \in 1 .. Rank(messages, Len(messages))
<1> DEFINE S(k) == {i \in 1 .. k : messages[i] # "nudge"}
           L == Len(messages)
<1>1. L \in Nat /\ n \in Nat
  BY DEF Transcript
<1>2. IsFiniteSet(S(L)) /\ S(n) \in SUBSET S(L)
  <2>1. IsFiniteSet(1 .. L)
    BY <1>1, FS_Interval
  <2> QED BY <1>1, <2>1, FS_Subset
<1>3. Cardinality(S(n)) <= Cardinality(S(L)) /\ IsFiniteSet(S(n))
  BY <1>2, FS_Subset
<1>4. Cardinality(S(n)) \in Nat /\ Cardinality(S(L)) \in Nat
  BY <1>2, <1>3, FS_CardinalityType
<1>5. Cardinality(S(n)) # 0
  <2>1. S(n) # {}
    BY <1>1
  <2> QED BY <1>3, <2>1, FS_EmptySet
<1> QED BY <1>3, <1>4, <1>5 DEF Rank

\* Nothing, of nothing.
LEMMA NothingIsTold == WithoutNudges(<<>>, <<>>)
<1>1. <<>> \in Transcript /\ Len(<<>>) = 0 /\ DOMAIN <<>> = {}
  BY DEF Transcript
<1>2. Rank(<<>>, 0) = 0
  BY <1>1, RankCounts
<1> QED BY <1>1, <1>2 DEF WithoutNudges

\* One more message, which is told of unless it is a nudge.
LEMMA OneIsTold ==
  ASSUME NEW messages \in Transcript, NEW rest \in Transcript, WithoutNudges(messages, rest),
         NEW m \in Message
  PROVE  WithoutNudges(Append(messages, m), IF m = "nudge" THEN rest ELSE Append(rest, m))
<1> DEFINE all1 == Append(messages, m)
           more == IF m = "nudge" THEN rest ELSE Append(rest, m)
           n == Len(messages)
<1>1. /\ n \in Nat /\ all1 \in Transcript /\ Len(all1) = n + 1 /\ all1[n + 1] = m
      /\ DOMAIN messages = 1 .. n /\ DOMAIN all1 = 1 .. (n + 1)
      /\ \A i \in 1 .. n : all1[i] = messages[i]
  BY DEF Transcript
<1>2. Rank(messages, n) = Len(rest) /\ Len(rest) \in Nat
  BY DEF WithoutNudges, Transcript
<1>3. Rank(all1, n) = Rank(messages, n)
  BY <1>1, RankStays
<1>4. Rank(all1, n + 1) = Rank(all1, n) + (IF m # "nudge" THEN 1 ELSE 0)
  <2> HIDE DEF all1, n
  <2>1. n + 1 \in 0 .. Len(all1) /\ n + 1 > 0 /\ (n + 1) - 1 = n
    BY <1>1
  <2> QED BY <1>1, <2>1, RankCounts
<1>5. Len(more) = Rank(all1, n + 1)
  BY <1>2, <1>3, <1>4 DEF Transcript
<1>6. ASSUME NEW i \in 1 .. n, messages[i] # "nudge"
      PROVE  more[Rank(all1, i)] = messages[i]
  <2>1. Rank(all1, i) = Rank(messages, i)
    BY <1>1, RankStays
  <2>2. Rank(messages, i) \in 1 .. Len(rest)
    BY <1>1, <1>2, <1>6, RankIsBounded
  <2>3. rest[Rank(messages, i)] = messages[i]
    BY <1>1, <1>6 DEF WithoutNudges
  <2>4. \A k \in 1 .. Len(rest) : more[k] = rest[k]
    BY DEF Transcript
  <2> QED BY <2>1, <2>2, <2>3, <2>4
<1>7. ASSUME m # "nudge"
      PROVE  more[Rank(all1, n + 1)] = m
  BY <1>2, <1>3, <1>4, <1>7 DEF Transcript
<1>8. \A i \in 1 .. (n + 1) : i \in 1 .. n \/ i = n + 1
  BY <1>1
<1> HIDE DEF all1, more, n
<1>9. \A i \in DOMAIN all1 : all1[i] # "nudge" => more[Rank(all1, i)] = all1[i]
  BY <1>1, <1>6, <1>7, <1>8
<1>10. WithoutNudges(all1, more)
  BY <1>1, <1>5, <1>9 DEF WithoutNudges
<1> QED BY <1>10 DEF all1, more

\* More messages, none of them a nudge.
LEMMA ManyAreTold ==
  ASSUME NEW messages \in Transcript, NEW rest \in Transcript, WithoutNudges(messages, rest),
         NEW s \in Seq(Message \ {"nudge"})
  PROVE  WithoutNudges(messages \o s, rest \o s)
<1> DEFINE both == messages \o s
           more == rest \o s
           n == Len(messages)
           k == Len(s)
<1>1. /\ n \in Nat /\ k \in Nat /\ s \in Transcript /\ both \in Transcript /\ Len(both) = n + k
      /\ DOMAIN messages = 1 .. n /\ DOMAIN both = 1 .. (n + k)
      /\ \A i \in 1 .. n : both[i] = messages[i]
      /\ \A i \in 1 .. k : both[n + i] = s[i] /\ s[i] # "nudge"
  BY DEF Transcript
<1>2. /\ Rank(messages, n) = Len(rest) /\ Len(rest) \in Nat /\ Len(more) = Len(rest) + k
      /\ \A i \in 1 .. Len(rest) : more[i] = rest[i]
      /\ \A i \in 1 .. k : more[Len(rest) + i] = s[i]
  <2>1. Rank(messages, n) = Len(rest) /\ Len(rest) \in Nat
    BY DEF WithoutNudges, Transcript
  <2>2. /\ Len(more) = Len(rest) + Len(s)
        /\ \A i \in 1 .. (Len(rest) + Len(s)) : more[i] = IF i <= Len(rest) THEN rest[i] ELSE s[i - Len(rest)]
    BY <1>1 DEF Transcript
  <2> HIDE DEF more
  <2>3. \A i \in 1 .. Len(rest) : i \in 1 .. (Len(rest) + Len(s)) /\ more[i] = rest[i]
    BY <1>1, <2>1, <2>2
  <2>4. \A i \in 1 .. k : more[Len(rest) + i] = s[i]
    <3> SUFFICES ASSUME NEW i \in 1 .. k PROVE more[Len(rest) + i] = s[i]
      OBVIOUS
    <3>1. /\ Len(rest) + i \in 1 .. (Len(rest) + Len(s)) /\ ~(Len(rest) + i <= Len(rest))
          /\ Len(rest) + i - Len(rest) = i
      BY <1>1, <2>1
    <3> QED BY <2>2, <3>1
  <2> QED BY <2>1, <2>2, <2>3, <2>4
<1> HIDE DEF both, more, n, k
<1>3. ASSUME NEW i \in 1 .. n
      PROVE  Rank(both, i) = Rank(messages, i)
  <2>1. {j \in 1 .. i : both[j] # "nudge"} = {j \in 1 .. i : messages[j] # "nudge"}
    BY <1>1
  <2> QED BY <2>1 DEF Rank
<1>4. ASSUME NEW i \in 0 .. k
      PROVE  Rank(both, n + i) = Len(rest) + i
  <2> DEFINE S == {j \in 1 .. n : messages[j] # "nudge"}
             T == (n + 1) .. (n + i)
  <2>1. {j \in 1 .. (n + i) : both[j] # "nudge"} = S \cup T
    <3>1. \A j \in 1 .. n : both[j] = messages[j] /\ j \in 1 .. (n + i)
      BY <1>1
    <3>2. \A j \in T : j - n \in 1 .. k /\ n + (j - n) = j /\ j \in 1 .. (n + i)
      BY <1>1
    <3>3. \A j \in T : both[j] # "nudge"
      BY <1>1, <3>2
    <3>4. \A j \in 1 .. (n + i) : j \in 1 .. n \/ j \in T
      BY <1>1
    <3> HIDE DEF T
    <3> QED BY <3>1, <3>2, <3>3, <3>4
  <2>2. IsFiniteSet(S)
    <3>1. IsFiniteSet(1 .. n)
      BY <1>1, FS_Interval
    <3> QED BY <3>1, FS_Subset
  <2>3. IsFiniteSet(T) /\ Cardinality(T) = i
    BY <1>1, FS_Interval
  <2>4. S \cap T = {}
    BY <1>1
  <2>5. Cardinality(S) = Len(rest)
    BY <1>2 DEF Rank
  <2> HIDE DEF S, T
  <2>6. Cardinality(S \cup T) = Cardinality(S) + Cardinality(T)
    <3>1. Cardinality(S \cup T) = Cardinality(S) + Cardinality(T) - Cardinality(S \cap T)
      BY <2>2, <2>3, FS_Union
    <3>2. Cardinality(S \cap T) = 0
      BY <2>4, FS_EmptySet
    <3>3. Cardinality(S) \in Nat /\ Cardinality(T) \in Nat
      BY <2>2, <2>3, FS_CardinalityType
    <3> QED BY <3>1, <3>2, <3>3
  <2> QED BY <2>1, <2>3, <2>5, <2>6 DEF Rank
<1>5. Len(more) = Rank(both, Len(both))
  BY <1>1, <1>2, <1>4
<1>6. ASSUME NEW i \in DOMAIN both, both[i] # "nudge"
      PROVE  more[Rank(both, i)] = both[i]
  <2>1. CASE i \in 1 .. n
    <3>1. messages[i] # "nudge" /\ n = Len(messages)
      BY <1>1, <1>6, <2>1 DEF n
    <3>2. Rank(messages, i) \in 1 .. Len(rest)
      BY <1>2, <2>1, <3>1, RankIsBounded
    <3>3. rest[Rank(messages, i)] = messages[i]
      BY <1>1, <2>1, <3>1 DEF WithoutNudges
    <3> QED BY <1>1, <1>2, <1>3, <2>1, <3>2, <3>3
  <2>2. CASE i \notin 1 .. n
    <3>1. i - n \in 1 .. k /\ n + (i - n) = i
      BY <1>1, <2>2
    <3>4. PICK j : j = i - n
      OBVIOUS
    <3>2. j \in 1 .. k /\ n + j = i /\ j \in 0 .. k
      BY <1>1, <3>1, <3>4
    <3>3. Rank(both, i) = Len(rest) + j
      BY <1>4, <3>2
    <3> QED BY <1>1, <1>2, <3>2, <3>3
  <2> QED BY <2>1, <2>2
<1>7. WithoutNudges(both, more)
  BY <1>5, <1>6 DEF WithoutNudges
<1> QED BY <1>7 DEF both, more

\* A listener who was told t and hears s has then been told u.
Tells(path, t, s, u) ==
  /\ path \in [0 .. Len(s) -> Transcript]
  /\ path[0] = t /\ path[Len(s)] = u
  /\ \A i \in 1 .. Len(s) : path[i] = Folded(path[i - 1], s[i])

Learns(t, s, u) == IsSaid(s) /\ \E path : Tells(path, t, s, u)

\* A listener is only ever told transcripts.
LEMMA LearnsTranscripts ==
  ASSUME NEW t, NEW s, NEW u, Learns(t, s, u)
  PROVE  t \in Transcript /\ u \in Transcript
<1>1. PICK path : Tells(path, t, s, u)
  BY DEF Learns
<1>2. Len(s) \in Nat
  BY DEF Learns, IsSaid
<1> QED BY <1>1, <1>2 DEF Tells

\* A listener that hears nothing learns nothing ...
LEMMA NothingIsLearned ==
  ASSUME NEW t \in Transcript
  PROVE  Learns(t, <<>>, t)
<1> DEFINE path == [i \in 0 .. 0 |-> t]
<1>1. <<>> \in Seq({}) /\ Len(<<>>) = 0
  OBVIOUS
<1>2. Tells(path, t, <<>>, t)
  BY <1>1 DEF Tells
<1> QED BY <1>1, <1>2 DEF Learns, IsSaid

\* ... and nothing else.
LEMMA NothingTeachesNothing ==
  ASSUME NEW t, NEW u, Learns(t, <<>>, u)
  PROVE  t = u
<1>1. PICK path : Tells(path, t, <<>>, u)
  BY DEF Learns
<1>2. Len(<<>>) = 0
  OBVIOUS
<1> QED BY <1>1, <1>2 DEF Tells

\* One event.
LEMMA OneIsLearned ==
  ASSUME NEW t \in Transcript, NEW e, Folded(t, e) \in Transcript
  PROVE  Learns(t, <<e>>, Folded(t, e))
<1> DEFINE path == [i \in 0 .. 1 |-> IF i = 0 THEN t ELSE Folded(t, e)]
           s == <<e>>
<1>1. s \in Seq({e}) /\ Len(s) = 1 /\ s[1] = e
  OBVIOUS
<1>3. Tells(path, t, s, Folded(t, e))
  <2> HIDE DEF s
  <2> QED BY <1>1 DEF Tells
<1>4. IsSaid(s)
  <2> HIDE DEF s
  <2> QED BY <1>1 DEF IsSaid
<1> QED BY <1>3, <1>4 DEF Learns

\* One stretch of events after another.
LEMMA BothAreLearned ==
  ASSUME NEW v, NEW s, NEW u, NEW t, NEW w, Learns(v, s, u), Learns(u, t, w)
  PROVE  Learns(v, s \o t, w)
<1>1. PICK p : Tells(p, v, s, u)
  BY DEF Learns
<1>2. PICK q : Tells(q, u, t, w)
  BY DEF Learns
<1>3. PICK S : s \in Seq(S)
  BY DEF Learns, IsSaid
<1>4. PICK T : t \in Seq(T)
  BY DEF Learns, IsSaid
<1>5. s \in Seq(S \cup T) /\ t \in Seq(S \cup T)
  BY <1>3, <1>4
<1> DEFINE m == Len(s)
           n == Len(t)
           path == [i \in 0 .. (m + n) |-> IF i <= m THEN p[i] ELSE q[i - m]]
<1>6. /\ m \in Nat /\ n \in Nat
      /\ s \o t \in Seq(S \cup T) /\ Len(s \o t) = m + n
      /\ \A i \in 1 .. (m + n) : (s \o t)[i] = IF i <= m THEN s[i] ELSE t[i - m]
  BY <1>5
<1>7. /\ p \in [0 .. m -> Transcript] /\ p[0] = v /\ p[m] = u
      /\ \A i \in 1 .. m : p[i] = Folded(p[i - 1], s[i])
  BY <1>1 DEF Tells
<1>8. /\ q \in [0 .. n -> Transcript] /\ q[0] = u /\ q[n] = w
      /\ \A i \in 1 .. n : q[i] = Folded(q[i - 1], t[i])
  BY <1>2 DEF Tells
<1> HIDE DEF m, n
<1>9. path \in [0 .. (m + n) -> Transcript]
  BY <1>6, <1>7, <1>8
<1>10. path[0] = v /\ path[m + n] = w
  BY <1>6, <1>7, <1>8
<1>11. ASSUME NEW i \in 1 .. (m + n)
       PROVE  path[i] = Folded(path[i - 1], (s \o t)[i])
  <2>1. CASE i <= m
    <3>1. i \in 1 .. m /\ path[i - 1] = p[i - 1] /\ path[i] = p[i] /\ (s \o t)[i] = s[i]
      BY <1>6, <2>1
    <3> QED BY <1>7, <3>1
  <2>2. CASE i > m
    <3>1. i - m \in 1 .. n /\ ~(i <= m) /\ i \in 0 .. (m + n)
      BY <1>6, <2>2
    <3>2. path[i] = q[i - m] /\ (s \o t)[i] = t[i - m]
      BY <1>6, <3>1
    <3>3. path[i - 1] = q[i - m - 1]
      <4>1. i - 1 \in 0 .. (m + n) /\ i - m - 1 = (i - 1) - m
        BY <1>6
      <4>2. CASE i - 1 <= m
        <5>1. i - 1 = m /\ i - m - 1 = 0
          BY <1>6, <2>2, <4>2
        <5>2. path[i - 1] = p[m]
          BY <4>1, <4>2, <5>1
        <5> QED BY <1>7, <1>8, <5>1, <5>2
      <4>3. CASE ~(i - 1 <= m)
        BY <4>1, <4>3
      <4> QED BY <4>2, <4>3
    <3> QED BY <1>8, <3>1, <3>2, <3>3
  <2> QED BY <1>6, <2>1, <2>2
<1>12. Tells(path, v, s \o t, w)
  BY <1>6, <1>9, <1>10, <1>11 DEF Tells
<1> QED BY <1>6, <1>12 DEF Learns, IsSaid

\* The first event of a stretch, and the rest.
LEMMA TheRestIsLearned ==
  ASSUME NEW v, NEW s, NEW w, Learns(v, s, w), s # <<>>
  PROVE  Learns(Folded(v, Head(s)), Tail(s), w)
<1>1. PICK p : Tells(p, v, s, w)
  BY DEF Learns
<1>2. PICK S : s \in Seq(S)
  BY DEF Learns, IsSaid
<1> DEFINE n == Len(s)
           q == [i \in 0 .. (n - 1) |-> p[i + 1]]
<1>3. /\ n \in Nat \ {0} /\ Head(s) = s[1]
      /\ Tail(s) \in Seq(S) /\ Len(Tail(s)) = n - 1
      /\ \A i \in 1 .. (n - 1) : Tail(s)[i] = s[i + 1]
  BY <1>2
<1>4. /\ p \in [0 .. n -> Transcript] /\ p[0] = v /\ p[n] = w
      /\ \A i \in 1 .. n : p[i] = Folded(p[i - 1], s[i])
  BY <1>1 DEF Tells
<1> HIDE DEF n
<1>5. q \in [0 .. (n - 1) -> Transcript] /\ q[0] = p[1] /\ q[n - 1] = w
  BY <1>3, <1>4
<1>6. p[1] = Folded(v, Head(s))
  BY <1>3, <1>4
<1>7. ASSUME NEW i \in 1 .. (n - 1)
      PROVE  q[i] = Folded(q[i - 1], Tail(s)[i])
  <2>1. q[i - 1] = p[i] /\ q[i] = p[i + 1] /\ Tail(s)[i] = s[i + 1] /\ i + 1 \in 1 .. n /\ (i + 1) - 1 = i
    BY <1>3
  <2> QED BY <1>4, <2>1
<1>8. Tells(q, Folded(v, Head(s)), Tail(s), w)
  BY <1>3, <1>5, <1>6, <1>7 DEF Tells
<1> QED BY <1>3, <1>8 DEF Learns, IsSaid

\* The ends of calls say nothing of the transcript.
LEMMA EndsTeachNothing ==
  ASSUME NEW t \in Transcript, NEW calls \in Seq(Call)
  PROVE  Learns(t, EndsOf(calls), t)
<1> DEFINE s == EndsOf(calls)
           n == Len(calls)
           path == [i \in 0 .. n |-> t]
<1>1. n \in Nat /\ DOMAIN calls = 1 .. n
  OBVIOUS
<1>2. IsSaid(s) /\ Len(s) = n /\ \A i \in 1 .. n : s[i] = EndOf(calls[i])
  <2>1. s = [i \in 1 .. n |-> s[i]]
    BY <1>1 DEF EndsOf
  <2>2. \A i \in 1 .. n : s[i] = EndOf(calls[i])
    BY <1>1 DEF EndsOf
  <2> QED BY <1>1, <2>1, <2>2, TableIsSaid
<1> HIDE DEF s, n
<1>3. \A i \in 1 .. n : Folded(t, s[i]) = t
  <2>1. \A i \in 1 .. n : s[i].kind = "ExecutionEnd"
    BY <1>2 DEF EndOf
  <2> QED BY <2>1 DEF Folded
<1>4. Tells(path, t, s, t)
  BY <1>1, <1>2, <1>3 DEF Tells
<1> QED BY <1>2, <1>4 DEF Learns, s

\* Messages that are announced are learned, in their order.
LEMMA AnnouncedIsLearned ==
  ASSUME NEW t \in Transcript, NEW messages \in Seq({"steer", "follow_up"})
  PROVE  Learns(t, Announced(messages), t \o messages)
<1> DEFINE s == Announced(messages)
           n == Len(messages)
           path == [i \in 0 .. 2 * n |-> t \o SubSeq(messages, 1, i \div 2)]
<1>1. n \in Nat /\ 2 * n \in Nat
  OBVIOUS
<1>2. s = [i \in 1 .. 2 * n |-> IF i % 2 = 1 THEN Event("MessageStart") ELSE Ending(messages[i \div 2], {})]
  BY DEF Announced
<1> HIDE DEF s
<1>3. IsSaid(s) /\ Len(s) = 2 * n
  <2>1. s = [i \in 1 .. 2 * n |-> s[i]]
    BY <1>2
  <2> HIDE DEF n
  <2> QED BY <1>1, <2>1, TableIsSaid
<1>4. \A i \in 0 .. 2 * n : i \div 2 \in 0 .. n
  BY <1>1
<1>5. \A k \in 0 .. n : /\ SubSeq(messages, 1, k) \in Seq({"steer", "follow_up"})
                        /\ t \o SubSeq(messages, 1, k) \in Transcript
  BY DEF Transcript, Message
<1>6. SubSeq(messages, 1, 0) = <<>> /\ SubSeq(messages, 1, n) = messages
  OBVIOUS
<1>7. t \o <<>> = t
  BY DEF Transcript
<1>8. ASSUME NEW k \in 1 .. n
      PROVE  t \o SubSeq(messages, 1, k) = Append(t \o SubSeq(messages, 1, k - 1), messages[k])
  <2>1. SubSeq(messages, 1, k) = Append(SubSeq(messages, 1, k - 1), messages[k])
    OBVIOUS
  <2>2. \A a, b : \A c \in Seq(Message), d \in Seq(Message) : c \o Append(d, messages[k]) = Append(c \o d, messages[k])
    OBVIOUS
  <2> QED BY <1>5, <2>1, <2>2 DEF Transcript, Message
<1>9. ASSUME NEW i \in 1 .. 2 * n
      PROVE  path[i] = Folded(path[i - 1], s[i])
  <2>1. /\ path[i] = t \o SubSeq(messages, 1, i \div 2)
        /\ path[i - 1] = t \o SubSeq(messages, 1, (i - 1) \div 2)
    BY SMTT(30), <1>1
  <2> HIDE DEF path
  <2>2. CASE i % 2 = 1
    <3>1. s[i] = Event("MessageStart")
      BY <1>2, <2>2
    <3>2. s[i].kind = "MessageStart"
      BY <3>1 DEF Event
    <3>3. i \div 2 = (i - 1) \div 2
      BY <1>1, <2>2
    <3> QED BY <2>1, <3>2, <3>3 DEF Folded
  <2>3. CASE i % 2 # 1
    <3>1. PICK k \in 1 .. n : i \div 2 = k /\ (i - 1) \div 2 = k - 1
      BY <1>1, <2>3
    <3>2. s[i] = Ending(messages[k], {})
      BY <1>2, <2>3, <3>1
    <3>3. s[i].kind = "MessageEnd" /\ s[i].message = messages[k]
      BY <3>2 DEF Ending
    <3>4. messages[k] \notin Assistant \cup {"errored"}
      BY DEF Assistant
    <3>5. Folded(path[i - 1], s[i]) = Append(path[i - 1], messages[k])
      BY <3>3, <3>4 DEF Folded
    <3> QED BY <1>8, <2>1, <3>1, <3>5
  <2> QED BY <2>2, <2>3
<1>10. path[0] = t /\ path[2 * n] = t \o messages
  <2>1. 0 \div 2 = 0 /\ (2 * n) \div 2 = n
    BY <1>1
  <2>2. path[0] = t \o SubSeq(messages, 1, 0) /\ path[2 * n] = t \o SubSeq(messages, 1, n)
    BY <1>1, <2>1
  <2> HIDE DEF path, n
  <2> QED BY <1>6, <1>7, <2>2
<1>11. path \in [0 .. 2 * n -> Transcript]
  BY <1>4, <1>5
<1>12. Tells(path, t, s, t \o messages)
  BY <1>3, <1>9, <1>10, <1>11 DEF Tells
<1> QED BY <1>3, <1>12 DEF Learns, s

\* What a listener will have been told when all that was emitted is heard: the
\* transcript, but for the message and results of the turn under way. Of a run
\* that was aborted or failed there is no transcript left.
Tallies(u) ==
  /\ pc \in {"idle", "rejected", "collect", "loop", "stream", "done"} => WithoutNudges(produced, u)
  /\ pc = "batch" => outcome.message = "calls" /\ WithoutNudges(produced, u \o <<"calls">>)
  /\ pc = "turn_end" =>
       /\ outcome.message \in Assistant
       /\ IF outcome.announced THEN WithoutNudges(produced, u)
          ELSE WithoutNudges(produced, (u \o <<outcome.message>>) \o outcome.results)

ToldInv == \E u : Learns(told, outbox, u) /\ Tallies(u)

\* Nothing has been told and there is nothing to tell.
LEMMA ToldInit == EvInit => ToldInv
<1> SUFFICES ASSUME EvInit PROVE ToldInv
  OBVIOUS
<1>1. told = <<>> /\ outbox = <<>> /\ produced = <<>> /\ pc = "idle"
  BY DEF EvInit, Init
<1>2. <<>> \in Transcript
  BY DEF Transcript
<1>3. Learns(told, outbox, told)
  BY <1>1, <1>2, NothingIsLearned
<1>4. Tallies(told)
  BY <1>1, NothingIsTold DEF Tallies
<1> QED BY <1>3, <1>4 DEF ToldInv

\* The loop goes on when all has been heard.
LEMMA AllTold ==
  ASSUME ToldInv, Quiet
  PROVE  told \in Transcript /\ Tallies(told)
<1>1. PICK u : Learns(told, outbox, u) /\ Tallies(u)
  BY DEF ToldInv
<1>2. told \in Transcript
  BY <1>1, LearnsTranscripts
<1> QED BY <1>1, <1>2, NothingTeachesNothing DEF Quiet

\* Events that say nothing of the transcript.
Wordless(e) == e.kind # "TurnEnd" /\ (e.kind = "MessageEnd" => e.message \in Assistant \cup {"errored"})

\* A step that emits nothing.
LEMMA NoneLearned ==
  ASSUME told' = told, outbox' = <<>>, told \in Transcript, Tallies(told)'
  PROVE  ToldInv'
<1>1. Learns(told, <<>>, told)
  BY NothingIsLearned
<1> QED BY <1>1 DEF ToldInv

\* They leave what is known of the transcript as it is.
LEMMA WordlessTeaches ==
  ASSUME NEW t \in Transcript, NEW e, Wordless(e)
  PROVE  Learns(t, <<e>>, t)
<1>1. Folded(t, e) = t
  <2>1. CASE e.kind = "MessageEnd"
    BY <2>1 DEF Wordless, Folded
  <2>2. CASE e.kind # "MessageEnd"
    BY <2>2 DEF Wordless, Folded
  <2> QED BY <2>1, <2>2
<1> QED BY <1>1, OneIsLearned

\* A step that emits one of them.
LEMMA WordlessLearned ==
  ASSUME told' = told, NEW e, outbox' = <<e>>, told \in Transcript, Wordless(e), Tallies(told)'
  PROVE  ToldInv'
<1>1. Learns(told, <<e>>, told)
  BY WordlessTeaches
<1> QED BY <1>1 DEF ToldInv

\* The beginning of the run: the prompt is announced.
LEMMA ToldRuns ==
  ASSUME TypeInv, ToldInv, EvRunPrompt \/ EvRunContinue
  PROVE  ToldInv'
<1>1. /\ pc = "idle" /\ pc' = "collect" /\ told' = told /\ Quiet
  BY DEF EvRunPrompt, EvRunContinue, RunPrompt, RunContinue, listener, Emit
<1>2. told \in Transcript /\ WithoutNudges(produced, told) /\ produced \in Transcript
  BY <1>1, AllTold DEF Tallies, TypeInv, TypeOK, Transcript
<1>3. PICK a, b, c, d : a = Event("AgentStart") /\ b = Event("TurnStart") /\ c = Event("MessageStart")
                        /\ d = Ending("user", {})
  OBVIOUS
<1>4. Learns(told, <<a, b>>, told)
  <2>1. Wordless(a) /\ Wordless(b)
    BY <1>3 DEF Wordless, Event
  <2>2. Learns(told, <<a>>, told) /\ Learns(told, <<b>>, told)
    BY <1>2, <2>1, WordlessTeaches
  <2> QED BY <2>2, TwoAreOneEach, BothAreLearned
<1>5. CASE EvRunContinue
  <2>1. produced' = produced /\ outbox' = <<a, b>>
    BY <1>3, <1>5 DEF EvRunContinue, RunContinue, run, Emit
  <2>2. Tallies(told)'
    BY <1>1, <1>2, <2>1 DEF Tallies
  <2> QED BY <1>1, <1>4, <2>1, <2>2 DEF ToldInv
<1>6. CASE EvRunPrompt
  <2>1. produced' = produced \o <<"user">> /\ outbox' = <<a, b>> \o <<c, d>>
    BY <1>3, <1>6 DEF EvRunPrompt, RunPrompt, PushBoth, Emit, Whole
  <2>2. Learns(told, <<c>>, told)
    BY <1>2, <1>3, WordlessTeaches DEF Wordless, Event
  <2>3. PICK u : u = Append(told, "user")
    OBVIOUS
  <2>4. Folded(told, d) = u
    BY <1>3, <2>3 DEF Folded, Ending, Assistant
  <2>5. u \in Transcript /\ u = told \o <<"user">>
    BY <1>2, <2>3 DEF Transcript, Message
  <2>6. Learns(told, <<d>>, u)
    BY <1>2, <2>4, <2>5, OneIsLearned
  <2>7. Learns(told, outbox', u)
    BY <1>4, <2>1, <2>2, <2>6, TwoAreOneEach, BothAreLearned
  <2>8. <<"user">> \in Seq(Message \ {"nudge"})
    BY DEF Message
  <2>9. WithoutNudges(produced', u)
    BY <1>2, <2>1, <2>5, <2>8, ManyAreTold
  <2>10. Tallies(u)'
    BY <1>1, <2>9 DEF Tallies
  <2> QED BY <1>1, <2>7, <2>10 DEF ToldInv
<1> QED BY <1>5, <1>6

\* The loop's own steps: what was pending is announced, and the turn told of at its end.
LEMMA ToldOwn ==
  ASSUME TypeInv, TurnsInv, DetailInv, ToldInv, EvOwn
  PROVE  ToldInv'
<1>q. Quiet /\ told' = told
  BY DEF EvOwn, EvBeginTurn, AnnounceTurnEnd, EvEndTurn, EvEndRun, Silent, Emit, listener
<1>t. told \in Transcript /\ Tallies(told) /\ produced \in Transcript
  BY <1>q, AllTold DEF TypeInv, TypeOK, Transcript
<1>1. CASE EvBeginTurn
  <2>1. /\ pc = "loop" /\ pc' = "stream" /\ produced' = produced \o pending
        /\ outbox' = (IF iterations = 0 THEN <<>> ELSE <<Event("TurnStart")>>) \o Announced(pending)
    BY <1>1 DEF EvBeginTurn, BeginTurn, Emit, PushBoth
  <2>2. pending \in Seq({"steer", "follow_up"}) /\ pending \in Seq(Message \ {"nudge"})
    BY DEF TypeInv, TypeOK, Message
  <2>3. Learns(told, IF iterations = 0 THEN <<>> ELSE <<Event("TurnStart")>>, told)
    <3>1. Learns(told, <<>>, told)
      BY <1>t, NothingIsLearned
    <3>2. PICK e : e = Event("TurnStart")
      OBVIOUS
    <3>3. Learns(told, <<e>>, told)
      BY <1>t, <3>2, WordlessTeaches DEF Wordless, Event
    <3> QED BY <3>1, <3>2, <3>3
  <2>4. PICK u : u = told \o pending
    OBVIOUS
  <2>5. Learns(told, outbox', u)
    BY <1>t, <2>1, <2>2, <2>3, <2>4, AnnouncedIsLearned, BothAreLearned
  <2>6. WithoutNudges(produced', u)
    BY <1>t, <2>1, <2>2, <2>4, ManyAreTold DEF Tallies
  <2>7. Tallies(u)'
    BY <2>1, <2>6 DEF Tallies
  <2> QED BY <1>q, <2>5, <2>7 DEF ToldInv
<1>2. CASE AnnounceTurnEnd
  <2>e. PICK e : e = [kind |-> "TurnEnd", message |-> outcome.message, results |-> outcome.results]
    OBVIOUS
  <2>1. /\ pc = "turn_end" /\ pc' = pc /\ ~outcome.announced /\ outcome' = [outcome EXCEPT !.announced = TRUE]
        /\ outbox' = <<e>> /\ produced' = produced
    BY <1>2, <2>e DEF AnnounceTurnEnd, Emit, vars, run
  <2>2. outcome'.announced /\ outcome'.message = outcome.message /\ outcome.message \in Assistant
    BY <1>t, <2>1 DEF DetailInv, Said, Tallies
  <2>3. PICK u : u = (told \o <<outcome.message>>) \o outcome.results
    OBVIOUS
  <2>4. Folded(told, e) = u
    BY <2>e, <2>3 DEF Folded
  <2>5. u \in Transcript
    <3>1. outcome.results \in Transcript
      BY DEF DetailInv, Said, Transcript, Message
    <3>2. <<outcome.message>> \in Transcript
      BY <2>2 DEF Transcript, Message
    <3> QED BY <1>t, <2>3, <3>1, <3>2 DEF Transcript
  <2>6. Learns(told, outbox', u)
    BY <1>t, <2>1, <2>4, <2>5, OneIsLearned
  <2>7. WithoutNudges(produced', u)
    BY <1>t, <2>1, <2>3 DEF Tallies
  <2>8. Tallies(u)'
    BY <2>1, <2>2, <2>7 DEF Tallies
  <2> QED BY <1>q, <2>6, <2>8 DEF ToldInv
<1>3. CASE EvEndTurn
  <2>1. pc = "turn_end" /\ pc' = "loop" /\ outcome.announced /\ outbox' = <<>> /\ produced' = produced
    BY <1>3 DEF EvEndTurn, EndTurn, Emit
  <2>2. Tallies(told)'
    BY <1>q, <1>t, <2>1 DEF Tallies
  <2> QED BY <1>q, <1>t, <2>1, <2>2, NoneLearned
<1>4. CASE EvEndRun
  <2>1. PICK e : e = Event("AgentEnd")
    OBVIOUS
  <2>2. pc = "loop" /\ pc' = "done" /\ outbox' = <<e>> /\ produced' = produced
    BY <1>4, <2>1 DEF EvEndRun, EndRun, Emit, run
  <2>3. Wordless(e)
    BY <2>1 DEF Wordless, Event
  <2>4. Tallies(told)'
    BY <1>q, <1>t, <2>2 DEF Tallies
  <2> QED BY <1>q, <1>t, <2>2, <2>3, <2>4, WordlessLearned
<1>5. CASE Silent
  <2>1. /\ outbox' = <<>>
        /\ \/ pc' = "aborted"
           \/ /\ produced' = produced
              /\ <<pc, pc'>> \in {<<"collect", "loop">>, <<"loop", "loop">>, <<"idle", "rejected">>}
    BY <1>5 DEF Silent, CollectInitial, AbortAtTop, AcceptFollowUp, RejectContinue, Emit, run
  <2>2. Tallies(told)'
    BY <1>q, <1>t, <2>1 DEF Tallies
  <2> QED BY <1>q, <1>t, <2>1, <2>2, NoneLearned
<1> QED BY <1>1, <1>2, <1>3, <1>4, <1>5 DEF EvOwn

\* An assistant message is not told of before its turn ends.
LEMMA ToldStream ==
  ASSUME TypeInv, TurnsInv, DetailInv, ToldInv, EvStream
  PROVE  ToldInv'
<1>q. Quiet /\ told' = told /\ pc = "stream"
  BY DEF EvStream, Request, ProviderSends, Retry, Wake, Escalate, EvStreamCalls, EvStreamText, EvStreamFails,
         StreamCalls, StreamText, StreamFails, Emit, listener
<1>t. told \in Transcript /\ WithoutNudges(produced, told) /\ produced \in Transcript
  BY <1>q, AllTold DEF Tallies, TypeInv, TypeOK, Transcript
<1>e. \* An attempt that is given up says nothing of the transcript.
      ASSUME NEW calls
      PROVE  Wordless(Ending("errored", calls))
  BY DEF Wordless, Ending
<1>1. CASE Request \/ ProviderSends \/ Retry \/ Wake
  <2>1. pc' = pc /\ produced' = produced
    BY <1>1 DEF Request, ProviderSends, Retry, Wake, vars, run
  <2>2. Tallies(told)'
    BY <1>q, <1>t, <2>1 DEF Tallies
  <2>3. CASE outbox' = <<>>
    BY <1>q, <1>t, <2>2, <2>3, NoneLearned
  <2>4. CASE \E e \in {Prepared, Event("MessageStart"), Event("MessageUpdate")} : outbox' = <<e>>
    <3>1. PICK e \in {Prepared, Event("MessageStart"), Event("MessageUpdate")} : outbox' = <<e>>
      BY <2>4
    <3>2. Wordless(e)
      BY DEF Wordless, Prepared, Event
    <3> QED BY <1>q, <1>t, <2>2, <3>1, <3>2, WordlessLearned
  <2>5. CASE \E calls \in Asked \cup {{}} : outbox' = <<Ending("errored", calls)>>
    <3>1. PICK calls : outbox' = <<Ending("errored", calls)>>
      BY <2>5
    <3> QED BY <1>q, <1>t, <1>e, <2>2, <3>1, WordlessLearned
  <2> QED BY <1>1, <2>3, <2>4, <2>5 DEF Request, ProviderSends, Retry, Wake, Emit
<1>2. CASE Escalate
  <2>1. PICK calls : outbox' = <<Ending("calls", calls), Event("Escalation")>>
    BY <1>2 DEF Escalate, Emit
  <2>2. PICK e, f : e = Ending("calls", calls) /\ f = Event("Escalation")
    OBVIOUS
  <2>3. Wordless(e) /\ Wordless(f)
    BY <2>2 DEF Wordless, Event, Ending, Assistant
  <2>4. Learns(told, <<e>>, told) /\ Learns(told, <<f>>, told)
    BY <1>t, <2>3, WordlessTeaches
  <2>5. Learns(told, outbox', told)
    BY <2>1, <2>2, <2>4, TwoAreOneEach, BothAreLearned
  <2>6. pc' = pc /\ produced' = produced
    BY <1>2 DEF Escalate, vars, run
  <2>7. Tallies(told)'
    BY <1>q, <1>t, <2>6 DEF Tallies
  <2> QED BY <1>q, <2>5, <2>7 DEF ToldInv
<1>3. CASE EvStreamCalls
  <2>1. PICK calls : outbox' = <<Ending("calls", calls)>>
    BY <1>3 DEF EvStreamCalls, Emit
  <2>2. /\ pc' = "batch" /\ produced' = produced \o <<"calls">>
        /\ outcome' = [NoOutcome EXCEPT !.message = "calls"]
    BY <1>3 DEF EvStreamCalls, StreamCalls
  <2>3. PICK e : e = Ending("calls", calls)
    OBVIOUS
  <2>4. Wordless(e)
    BY <2>3 DEF Wordless, Ending, Assistant
  <2>5. outcome'.message = "calls"
    BY <2>2 DEF NoOutcome
  <2>6. <<"calls">> \in Seq(Message \ {"nudge"})
    BY DEF Message, Assistant
  <2>7. WithoutNudges(produced', told \o <<"calls">>)
    BY <1>t, <2>2, <2>6, ManyAreTold
  <2>8. Tallies(told)'
    BY <1>q, <2>2, <2>5, <2>7 DEF Tallies
  <2> QED BY <1>q, <1>t, <2>1, <2>3, <2>4, <2>8, WordlessLearned
<1>4. CASE EvStreamText
  <2>1. PICK m \in {"text", "silent"}, narrowed \in BOOLEAN :
          produced' = produced \o (IF NudgeMode(narrowed) THEN <<m, "nudge">>
                                   ELSE IF TakesText(m, narrowed) THEN <<m, "fallback">>
                                   ELSE <<m>>)
    BY <1>4 DEF EvStreamText, StreamText
  <2>2. PICK reply : /\ reply = IF NudgeMode(narrowed) THEN <<m, "nudge">>
                                ELSE IF TakesText(m, narrowed) THEN <<m, "fallback">>
                                ELSE <<m>>
    OBVIOUS
  <2>3. produced' = produced \o reply
    BY <2>1, <2>2
  <2>4. PICK last, results :
          /\ last = reply[Len(reply)]
          /\ results = IF last = "fallback" THEN <<"fallback">> ELSE <<>>
    OBVIOUS
  <2>5. /\ reply \in Transcript /\ Len(reply) \in {1, 2} /\ reply[1] = m
        /\ m \in Assistant
    <3>1. /\ <<m, "nudge">> \in Transcript /\ Len(<<m, "nudge">>) = 2
          /\ <<m, "fallback">> \in Transcript /\ Len(<<m, "fallback">>) = 2
          /\ <<m>> \in Transcript /\ Len(<<m>>) = 1 /\ m \in Assistant
      BY DEF Transcript, Message, Assistant
    <3> QED BY <2>2, <3>1
  <2>6. produced'[Len(produced) + 1] = m /\ Last(produced') = last
    BY <1>t, <2>3, <2>4, <2>5 DEF Last, Transcript
  <2>7. /\ outcome' = [message |-> m, results |-> results, announced |-> FALSE]
        /\ pc' = "turn_end"
    BY <1>4, <2>4, <2>6 DEF EvStreamText, StreamText, NoOutcome
  <2>8. PICK e : e = Ending(m, {})
    OBVIOUS
  <2>9. outbox' = <<e>>
    BY <1>4, <2>6, <2>8 DEF EvStreamText, Emit
  <2>10. Wordless(e)
    BY <2>5, <2>8 DEF Wordless, Ending
  <2>11. WithoutNudges(produced', (told \o <<m>>) \o results)
    <3>1. <<m>> \in Seq(Message \ {"nudge"})
      BY DEF Message, Assistant
    <3>2. /\ WithoutNudges(produced \o <<m>>, told \o <<m>>)
          /\ produced \o <<m>> \in Transcript /\ told \o <<m>> \in Transcript
      <4>1. <<m>> \in Seq(Message)
        BY DEF Message, Assistant
      <4>2. produced \o <<m>> \in Transcript /\ told \o <<m>> \in Transcript
        BY <1>t, <4>1 DEF Transcript
      <4>3. WithoutNudges(produced \o <<m>>, told \o <<m>>)
        BY <1>t, <3>1, ManyAreTold
      <4> QED BY <4>2, <4>3
    <3>3. CASE reply = <<m, "nudge">>
      <4>1. results = <<>>
        BY <2>4, <3>3
      <4>2. produced' = Append(produced \o <<m>>, "nudge")
        BY <1>t, <2>3, <3>1, <3>3 DEF Transcript
      <4>3. WithoutNudges(produced', told \o <<m>>)
        BY <3>2, <4>2, OneIsTold DEF Message
      <4>4. (told \o <<m>>) \o <<>> = told \o <<m>>
        BY <3>2 DEF Transcript
      <4> QED BY <4>1, <4>3, <4>4
    <3>4. CASE reply = <<m, "fallback">>
      <4>1. results = <<"fallback">>
        BY <2>4, <3>4
      <4>2. produced' = (produced \o <<m>>) \o <<"fallback">>
        BY <1>t, <2>3, <3>1, <3>4 DEF Transcript
      <4>3. <<"fallback">> \in Seq(Message \ {"nudge"})
        BY DEF Message
      <4> QED BY <3>2, <4>1, <4>2, <4>3, ManyAreTold
    <3>5. CASE reply = <<m>>
      <4>1. results = <<>>
        BY <2>4, <3>5
      <4>2. (told \o <<m>>) \o <<>> = told \o <<m>>
        BY <3>2 DEF Transcript
      <4> QED BY <2>3, <3>2, <3>5, <4>1, <4>2
    <3> QED BY <2>2, <3>3, <3>4, <3>5
  <2>12. Tallies(told)'
    BY <1>q, <2>5, <2>7, <2>11 DEF Tallies
  <2> QED BY <1>q, <1>t, <2>9, <2>10, <2>12, WordlessLearned
<1>5. CASE EvStreamFails
  <2>1. pc' \in {"failed", "aborted"}
    BY <1>5 DEF EvStreamFails, StreamFails
  <2>2. Tallies(told)'
    BY <2>1 DEF Tallies
  <2>3. CASE outbox' = <<>>
    BY <1>q, <1>t, <2>2, <2>3, NoneLearned
  <2>4. CASE \E calls \in Asked \cup {{}} : outbox' = <<Ending("errored", calls)>>
    <3>1. PICK calls : outbox' = <<Ending("errored", calls)>>
      BY <2>4
    <3> QED BY <1>q, <1>t, <1>e, <2>2, <3>1, WordlessLearned
  <2> QED BY <1>5, <2>3, <2>4 DEF EvStreamFails, Emit
<1> QED BY <1>1, <1>2, <1>3, <1>4, <1>5 DEF EvStream

\* Nor are the results of its batch.
LEMMA ToldBatch ==
  ASSUME TypeInv, TurnsInv, DetailInv, ToldInv, EvBatch
  PROVE  ToldInv'
<1>q. Quiet /\ told' = told /\ pc = "batch"
  BY DEF EvBatch, SequentialPrepare, SequentialReturn, ParallelPrepare, ParallelReturn, AnswerHeld,
         EvBatchReturns, EvBatchFails, BatchReturns, BatchFails, InBatch, Emit, listener
<1>t. /\ told \in Transcript /\ produced \in Transcript
      /\ outcome.message = "calls" /\ WithoutNudges(produced, told \o <<"calls">>)
  BY <1>q, AllTold DEF Tallies, TypeInv, TypeOK, Transcript
<1>w. /\ work.todo \in Seq(Call) /\ work.running \in Seq(Call) /\ work.held \in Seq(Call)
  BY <1>q DEF DetailInv, Batched
<1>1. CASE SequentialPrepare \/ SequentialReturn \/ ParallelPrepare \/ ParallelReturn \/ AnswerHeld
  <2>1. pc' = pc /\ produced' = produced /\ outcome' = outcome
    BY <1>1 DEF SequentialPrepare, SequentialReturn, ParallelPrepare, ParallelReturn, AnswerHeld, vars, run
  <2>2. Tallies(told)'
    BY <1>q, <1>t, <2>1 DEF Tallies
  <2>3. \/ outbox' = <<>>
        \/ \E c : outbox' = <<Starting(c)>> \/ outbox' = <<EndOf(c)>>
        \/ \E calls \in {work.todo, work.running, work.held, work.running \o work.todo} : outbox' = EndsOf(calls)
    BY <1>1 DEF SequentialPrepare, SequentialReturn, ParallelPrepare, ParallelReturn, AnswerHeld, Emit
  <2>4. CASE outbox' = <<>>
    BY <1>q, <1>t, <2>2, <2>4, NoneLearned
  <2>5. CASE \E c : outbox' = <<Starting(c)>> \/ outbox' = <<EndOf(c)>>
    <3>1. PICK e : outbox' = <<e>> /\ \E c : e = Starting(c) \/ e = EndOf(c)
      BY <2>5
    <3>2. Wordless(e)
      BY <3>1 DEF Wordless, Starting, EndOf
    <3> QED BY <1>q, <1>t, <2>2, <3>1, <3>2, WordlessLearned
  <2>6. CASE \E calls \in {work.todo, work.running, work.held, work.running \o work.todo} : outbox' = EndsOf(calls)
    <3>1. PICK calls \in {work.todo, work.running, work.held, work.running \o work.todo} : outbox' = EndsOf(calls)
      BY <2>6
    <3>2. calls \in Seq(Call)
      <4>1. work.running \o work.todo \in Seq(Call)
        BY <1>w
      <4> QED BY <1>w, <3>1, <4>1
    <3>3. Learns(told, outbox', told)
      BY <1>t, <3>1, <3>2, EndsTeachNothing
    <3> QED BY <1>q, <2>2, <3>3 DEF ToldInv
  <2> QED BY <2>3, <2>4, <2>5, <2>6
<1>2. CASE EvBatchReturns
  <2>1. /\ pc' = "turn_end" /\ produced' = produced \o <<"results">> /\ outbox' = <<>>
        /\ outcome' = [outcome EXCEPT !.results = <<"results">>]
    BY <1>2 DEF EvBatchReturns, BatchReturns, PushBoth, Emit
  <2>2. ~outcome'.announced /\ outcome'.message = "calls" /\ outcome'.results = <<"results">>
    BY <1>q, <1>t, <2>1 DEF DetailInv, Said
  <2>3. <<"results">> \in Seq(Message \ {"nudge"}) /\ told \o <<"calls">> \in Transcript
    BY <1>t DEF Message, Assistant, Transcript
  <2>4. WithoutNudges(produced', (told \o <<"calls">>) \o <<"results">>)
    BY <1>t, <2>1, <2>3, ManyAreTold
  <2>5. Tallies(told)'
    BY <1>q, <2>1, <2>2, <2>4 DEF Tallies, Assistant
  <2> QED BY <1>q, <1>t, <2>1, <2>5, NoneLearned
<1>3. CASE EvBatchFails
  <2>1. pc' \in {"failed", "aborted"} /\ outbox' = <<>>
    BY <1>3 DEF EvBatchFails, BatchFails, Emit
  <2>2. Tallies(told)'
    BY <2>1 DEF Tallies
  <2> QED BY <1>q, <1>t, <2>1, <2>2, NoneLearned
<1> QED BY <1>1, <1>2, <1>3 DEF EvBatch

\* Every step keeps what is told and to be told in step with the transcript.
LEMMA ToldNext == TypeInv /\ TurnsInv /\ DetailInv /\ ToldInv /\ [EvNext]_all => ToldInv'
<1> SUFFICES ASSUME TypeInv, TurnsInv, DetailInv, ToldInv, [EvNext]_all PROVE ToldInv'
  OBVIOUS
<1>1. CASE EvRunPrompt \/ EvRunContinue
  BY <1>1, ToldRuns
<1>2. CASE EvOwn
  BY <1>2, ToldOwn
<1>3. CASE EvStream
  BY <1>3, ToldStream
<1>4. CASE EvBatch
  BY <1>4, ToldBatch
<1>u. PICK u : Learns(told, outbox, u) /\ Tallies(u)
  BY DEF ToldInv
<1>5. CASE Deliver
  <2>1. /\ outbox # <<>> /\ told' = Folded(told, Head(outbox)) /\ outbox' = Tail(outbox)
        /\ pc' = pc /\ produced' = produced /\ outcome' = outcome /\ opened' = opened /\ closed' = closed
    BY <1>5 DEF Deliver, Quiet, detail, vars, run, events
  <2>2. Learns(told', outbox', u)
    BY <1>u, <2>1, TheRestIsLearned
  <2>3. Tallies(u)'
    BY <1>u, <2>1 DEF Tallies
  <2> QED BY <2>2, <2>3 DEF ToldInv
<1>6. CASE FromOutside \/ UNCHANGED all
  <2>1. /\ told' = told /\ outbox' = outbox
        /\ pc' = pc /\ produced' = produced /\ outcome' = outcome /\ opened' = opened /\ closed' = closed
    BY <1>6 DEF FromOutside, Steer, Cancel, all, detail, listener, vars, run, events
  <2>2. Tallies(u)'
    BY <1>u, <2>1 DEF Tallies
  <2> QED BY <1>u, <2>1, <2>2 DEF ToldInv
<1> QED BY <1>1, <1>2, <1>3, <1>4, <1>5, <1>6 DEF EvNext, EvEnded

\* Between turns a listener has been told all there is.
THEOREM TurnEndsAreComplete == EvSpec => []TurnEndsTellAll
<1>1. EvInit => ToldInv
  BY ToldInit
<1>2. TypeInv /\ GrammarInv /\ ToldInv => TurnEndsTellAll
  <2> SUFFICES ASSUME TypeInv, GrammarInv, ToldInv, Quiet, ~view.turn, view.run # "before",
                      pc \notin {"aborted", "failed"}
               PROVE  WithoutNudges(produced, told)
    BY DEF TurnEndsTellAll
  <2>1. Matches(view) /\ Tallies(told)
    BY AllHeard, AllTold
  <2> QED BY <2>1 DEF Matches, Tallies, InTurn, Running, Final, TypeInv, TypeOK
<1> QED BY <1>1, <1>2, ToldNext, EvInvariants, PTL DEF EvSpec
=============================================================================
