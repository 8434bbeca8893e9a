---------------------------- MODULE StreamContract ----------------------------
(***************************************************************************)
(* What the streaming half of run.rs promises the agent loop about one     *)
(* call for an assistant message: while the call is open the transcript    *)
(* may only be replaced by a smaller one, the call ends once, it reports   *)
(* an abort only if the run was cancelled, and it never touches the        *)
(* transcript again.                                                       *)
(***************************************************************************)
EXTENDS Integers

CONSTANT MaxSize      \* largest transcript, in estimated tokens

VARIABLES size,       \* of the transcript the next request will carry
          status,     \* "open", "message", "aborted" or "failed"
          cancelled   \* the run-wide cancellation signal

vars == <<size, status, cancelled>>

Init ==
  /\ size \in 0..MaxSize
  /\ status = "open"
  /\ cancelled \in BOOLEAN

\* The provider found the transcript too large; a smaller one takes its place.
Shrink ==
  /\ status = "open"
  /\ \E smaller \in 0..(size - 1) : size' = smaller
  /\ UNCHANGED <<status, cancelled>>

End ==
  /\ status = "open"
  /\ \/ status' \in {"message", "failed"}
     \/ cancelled /\ status' = "aborted"
  /\ UNCHANGED <<size, cancelled>>

Cancel ==
  /\ ~cancelled
  /\ cancelled' = TRUE
  /\ UNCHANGED <<size, status>>

Next == Shrink \/ End \/ Cancel

Spec == Init /\ [][Next]_vars
=============================================================================
