------------------------ MODULE StreamRecovery_proofs ------------------------
(***************************************************************************)
(* Proofs about StreamRecovery, for every width of the cap, every set of   *)
(* configured caps and efforts, and every size of transcript.              *)
(***************************************************************************)
EXTENDS StreamRecovery, TLAPS

\* The doubled cap is a cap, at least as large, and only two do not grow.
LEMMA DoubledCap ==
  ASSUME NEW c \in 0..CapMax
  PROVE  /\ Doubled(c) \in 0..CapMax
         /\ Doubled(c) >= c
         /\ ~(Doubled(c) > c) => c \in {0, CapMax}
  BY CapAssumption DEF Doubled

\* A configuration is a configured cap and a configured effort.
LEMMA ConfigFields ==
  ASSUME NEW c \in [cap : Caps, effort : Efforts]
  PROVE  /\ c.cap \in (0..CapMax) \cup {NoCap}
         /\ c.effort \in Effort
         /\ RetryEffort(c.effort) \in Effort
  BY CapAssumption, ConfigAssumption DEF RetryEffort, Effort

\* The initial states are well typed.
LEMMA TypeInit == Init => TypeOK
<1> SUFFICES ASSUME Init PROVE TypeOK
  OBVIOUS
<1>1. cap \in (0..CapMax) \cup {NoCap} /\ effort \in Effort
  BY ConfigFields DEF Init
<1>2. 0 \in 0..CapMax /\ 0 \in 0..MaxSize
  BY CapAssumption, ConfigAssumption
<1> QED
  BY <1>1, <1>2 DEF Init, TypeOK, Busy, Final

\* Every step keeps the types.
LEMMA TypeNext == TypeOK /\ [Next]_vars => TypeOK'
<1> SUFFICES ASSUME TypeOK, [Next]_vars PROVE TypeOK'
  OBVIOUS
<1> USE DEF TypeOK, Busy, Final, request, history
<1>1. CASE Begin
  BY <1>1 DEF Begin
<1>2. CASE AcceptTruncated
  BY <1>2 DEF AcceptTruncated
<1>3. CASE Escalate
  <2>1. cap \in 0..CapMax
    BY <1>3 DEF Escalate, MayEscalate
  <2>2. cap' \in 0..CapMax
    BY <1>3, <2>1, DoubledCap DEF Escalate
  <2> QED BY <1>3, <2>2 DEF Escalate
<1>4. CASE Wake \/ WakeCancelled
  BY <1>4 DEF Wake, WakeCancelled
<1>5. CASE Deliver \/ Truncate \/ FailPermanent \/ FailAborted
  BY <1>5 DEF Deliver, Truncate, FailPermanent, FailAborted, EndMessage
<1>6. CASE FailTransient \/ FailEmpty
  BY <1>6 DEF FailTransient, FailEmpty, EndMessage, Doze
<1>7. CASE FailZeroOutput
  BY <1>7, ConfigFields DEF FailZeroOutput, EndMessage, Doze
<1>8. CASE FailOverflow
  BY <1>8, ConfigAssumption DEF FailOverflow, EndMessage
<1>9. CASE GiveUp
  BY <1>9 DEF GiveUp
<1>10. CASE Recover
  <2>1. cap' \in (0..CapMax) \cup {NoCap} /\ effort' \in Effort
    BY <1>10, ConfigFields DEF Recover, StartLadder
  <2> QED BY <1>10, <2>1 DEF Recover, StartLadder
<1>11. CASE Cancel
  BY <1>11 DEF Cancel
<1>12. CASE UNCHANGED vars
  BY <1>12 DEF vars
<1> QED
  BY <1>1, <1>2, <1>3, <1>4, <1>5, <1>6, <1>7, <1>8, <1>9, <1>10, <1>11, <1>12
  DEF Next, Own, Respond, Hook, Ended

\* Every variable keeps its type.
THEOREM TypeCorrect == Spec => []TypeOK
  BY TypeInit, TypeNext, PTL DEF Spec
-----------------------------------------------------------------------------
(* Cancellation.  The flag is only ever set under a cancelled signal, and a *)
(* request that carries it leads straight to an end.                        *)

LateInv ==
  signalled => cancelled /\ pc \in {"streaming"} \cup Final

\* Every step keeps it.
LEMMA LateNext == TypeOK /\ LateInv /\ [Next]_vars => LateInv'
<1> SUFFICES ASSUME TypeOK, LateInv, [Next]_vars PROVE LateInv'
  OBVIOUS
<1> USE DEF TypeOK, LateInv, Busy, Final, request, history
<1>1. CASE Own
  <2>1. CASE Begin
    BY <2>1 DEF Begin
  <2>2. CASE AcceptTruncated \/ Escalate
    BY <2>2 DEF AcceptTruncated, Escalate
  <2>3. CASE Wake \/ WakeCancelled
    BY <2>3 DEF Wake, WakeCancelled
  <2> QED BY <1>1, <2>1, <2>2, <2>3 DEF Own
<1>2. CASE Respond
  BY <1>2 DEF Respond, Deliver, Truncate, FailTransient, FailEmpty, FailZeroOutput,
              FailPermanent, FailAborted, FailOverflow, MayDeliver, Doze, Recoverable
<1>3. CASE Hook
  BY <1>3 DEF Hook, GiveUp, Recover
<1>4. CASE Cancel
  BY <1>4 DEF Cancel
<1>5. CASE UNCHANGED vars
  BY <1>5 DEF vars
<1> QED
  BY <1>1, <1>2, <1>3, <1>4, <1>5 DEF Next, Ended

\* At most one request follows the cancellation, wherever it falls.
THEOREM NoSecondLateRequest == Spec => []OneLateRequest
<1>1. Init => LateInv
  BY DEF Init, LateInv
<1>2. LateInv => OneLateRequest
  BY DEF LateInv, OneLateRequest, Final
<1> QED
  BY <1>1, <1>2, LateNext, TypeCorrect, PTL DEF Spec
-----------------------------------------------------------------------------
(* The ladder. *)

LadderInv ==
  /\ cap = NoCap <=> config.cap = NoCap
  /\ pc = "truncated" => cap \in {NoCap, 0, CapMax}

\* Every step keeps it.
LEMMA LadderNext == TypeOK /\ LadderInv /\ [Next]_vars => LadderInv'
<1> SUFFICES ASSUME TypeOK, LadderInv, [Next]_vars PROVE LadderInv'
  OBVIOUS
<1> USE DEF LadderInv, request, history
<1>1. CASE Begin \/ Wake \/ WakeCancelled
  BY <1>1 DEF Begin, Wake, WakeCancelled
<1>2. CASE AcceptTruncated
  <2>1. ~(cap # NoCap /\ Doubled(cap) > cap)
    BY <1>2 DEF AcceptTruncated, MayEscalate
  <2>2. cap \in {NoCap, 0, CapMax}
    BY <2>1, DoubledCap DEF TypeOK
  <2> QED BY <1>2, <2>2 DEF AcceptTruncated
<1>3. CASE Escalate
  <2>1. cap # NoCap /\ cap \in 0..CapMax
    BY <1>3 DEF Escalate, MayEscalate, TypeOK
  <2>2. Doubled(cap) # NoCap
    BY <2>1, DoubledCap, CapAssumption
  <2> QED BY <1>3, <2>1, <2>2 DEF Escalate
<1>4. CASE Respond
  BY <1>4 DEF Respond, Deliver, Truncate, FailTransient, FailEmpty, FailZeroOutput,
              FailPermanent, FailAborted, FailOverflow, Doze
<1>5. CASE GiveUp
  BY <1>5 DEF GiveUp
<1>6. CASE Recover
  BY <1>6 DEF Recover, StartLadder
<1>7. CASE Cancel
  BY <1>7 DEF Cancel
<1>8. CASE UNCHANGED vars
  BY <1>8 DEF vars
<1> QED
  BY <1>1, <1>2, <1>3, <1>4, <1>5, <1>6, <1>7, <1>8 DEF Next, Own, Hook, Ended

\* A truncated message is accepted only when no larger cap can be asked for.
THEOREM TruncationIsLastResort == Spec => []TruncatedOnlyAtCeiling
<1>1. Init => LadderInv
  BY DEF Init, LadderInv
<1>2. LadderInv => TruncatedOnlyAtCeiling
  BY DEF LadderInv, TruncatedOnlyAtCeiling
<1> QED
  BY <1>1, <1>2, LadderNext, TypeCorrect, PTL DEF Spec
-----------------------------------------------------------------------------
\* Every step keeps the agreement.
LEMMA EffortNext == NoteAndEffortAgree /\ [Next]_vars => NoteAndEffortAgree'
<1> SUFFICES ASSUME NoteAndEffortAgree, [Next]_vars PROVE NoteAndEffortAgree'
  OBVIOUS
<1> USE DEF NoteAndEffortAgree, request, history
<1>1. CASE Own
  BY <1>1 DEF Own, Begin, AcceptTruncated, Escalate, Wake, WakeCancelled
<1>2. CASE FailZeroOutput
  BY <1>2 DEF FailZeroOutput
<1>3. CASE Respond /\ ~FailZeroOutput
  BY <1>3 DEF Respond, Deliver, Truncate, FailTransient, FailEmpty,
              FailPermanent, FailAborted, FailOverflow
<1>4. CASE Hook
  BY <1>4 DEF Hook, GiveUp, Recover, StartLadder
<1>5. CASE Cancel \/ UNCHANGED vars
  BY <1>5 DEF Cancel, vars
<1> QED
  BY <1>1, <1>2, <1>3, <1>4, <1>5 DEF Next, Ended

\* The recovery note and the reduced effort come and go together.
THEOREM RetriesAreConsistent == Spec => []NoteAndEffortAgree
<1>1. Init => NoteAndEffortAgree
  BY DEF Init, NoteAndEffortAgree
<1> QED
  BY <1>1, EffortNext, PTL DEF Spec
-----------------------------------------------------------------------------
(* Refinement: a step of the call is a step of the contract or a stutter.   *)

\* A call begins as the contract does.
LEMMA ContractInit == Init => Contract!Init
  BY ConfigAssumption DEF Init, Contract!Init, Live

\* Every step is a step of the contract or leaves its variables alone.
LEMMA ContractNext == TypeOK /\ [Next]_vars => [Contract!Next]_(Contract!vars)
<1> SUFFICES ASSUME TypeOK, [Next]_vars PROVE [Contract!Next]_(Contract!vars)
  OBVIOUS
<1> USE DEF Contract!vars, Live, request, history
<1>1. CASE Begin \/ Wake \/ Escalate
  BY <1>1 DEF Begin, Wake, Escalate
<1>2. CASE AcceptTruncated \/ WakeCancelled
  BY <1>2 DEF AcceptTruncated, WakeCancelled, Contract!Next, Contract!End
<1>3. CASE Truncate
  BY <1>3 DEF Truncate, MayDeliver
<1>4. CASE Deliver \/ FailPermanent \/ FailAborted
  BY <1>4 DEF Deliver, FailPermanent, FailAborted, MayDeliver, Contract!Next, Contract!End
<1>5. CASE FailTransient \/ FailEmpty \/ FailZeroOutput
  BY <1>5 DEF FailTransient, FailEmpty, FailZeroOutput, MayDeliver, Doze,
              Contract!Next, Contract!End
<1>6. CASE FailOverflow
  BY <1>6 DEF FailOverflow, MayDeliver, Contract!Next, Contract!End
<1>7. CASE GiveUp
  BY <1>7 DEF GiveUp, Contract!Next, Contract!End
<1>8. CASE Recover
  <2>1. PICK after \in 0..MaxSize : after < before /\ size' = after
    BY <1>8 DEF Recover
  <2>2. after \in 0..(before - 1)
    BY <2>1, ConfigAssumption DEF TypeOK
  <2> QED
    BY <1>8, <2>1, <2>2 DEF Recover, Contract!Next, Contract!Shrink
<1>9. CASE Cancel
  BY <1>9 DEF Cancel, Busy, Contract!Next, Contract!Cancel
<1>10. CASE UNCHANGED vars
  BY <1>10 DEF vars
<1> QED
  BY <1>1, <1>2, <1>3, <1>4, <1>5, <1>6, <1>7, <1>8, <1>9, <1>10
  DEF Next, Own, Respond, Hook, Ended

\* A call keeps the promise StreamContract makes to the loop: the transcript
\* only shrinks while the call is open, and an abort is always the caller's.
THEOREM CallImplementsContract == Spec => ImplementsContract
  BY ContractInit, ContractNext, TypeCorrect, PTL DEF Spec, ImplementsContract, Contract!Spec
=============================================================================
