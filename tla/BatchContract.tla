---------------------------- MODULE BatchContract ----------------------------
(***************************************************************************)
(* What the tool executor of clark-agent (exec.rs) promises the agent      *)
(* loop (run.rs) about one batch of tool calls, with nothing said about    *)
(* how: the batch stays open while its calls are invoked and answered, and *)
(* it closes once, in one of three ways.                                   *)
(*   "returned"  every call of the assistant message has been answered;    *)
(*   "aborted"   the run was cancelled, nothing is handed to the loop;     *)
(*   "fatal"     a tool that was running asked for the run to end.         *)
(* A call is invoked at most once and only if the batch permits it, it is  *)
(* answered exactly once, and a closed batch never moves again.            *)
(***************************************************************************)
CONSTANT Calls        \* the calls of the assistant message

VARIABLES permitted,  \* the calls whose tool may be invoked (never changes)
          life,       \* "waiting", "running" or "answered", per call
          status,     \* "open", "returned", "aborted" or "fatal"
          cancelled   \* the run-wide cancellation signal

vars == <<permitted, life, status, cancelled>>

TypeOK ==
  /\ permitted \subseteq Calls
  /\ life \in [Calls -> {"waiting", "running", "answered"}]
  /\ status \in {"open", "returned", "aborted", "fatal"}
  /\ cancelled \in BOOLEAN

Init ==
  /\ permitted \in SUBSET Calls
  /\ life = [c \in Calls |-> "waiting"]
  /\ status = "open"
  /\ cancelled \in BOOLEAN

\* The tool's implementation is called.
Invoke(c) ==
  /\ status = "open"
  /\ c \in permitted
  /\ life[c] = "waiting"
  /\ life' = [life EXCEPT ![c] = "running"]
  /\ UNCHANGED <<permitted, status, cancelled>>

\* The call gets its one result, whether or not its tool was ever invoked.
Answer(c) ==
  /\ status = "open"
  /\ life[c] # "answered"
  /\ life' = [life EXCEPT ![c] = "answered"]
  /\ UNCHANGED <<permitted, status, cancelled>>

Return ==
  /\ status = "open"
  /\ \A c \in Calls : life[c] = "answered"
  /\ status' = "returned"
  /\ UNCHANGED <<permitted, life, cancelled>>

Abort ==
  /\ status = "open"
  /\ cancelled
  /\ status' = "aborted"
  /\ UNCHANGED <<permitted, life, cancelled>>

Fatal ==
  /\ status = "open"
  /\ \E c \in Calls : life[c] = "running"
  /\ status' = "fatal"
  /\ UNCHANGED <<permitted, life, cancelled>>

\* The caller may cancel the run at any time.
Cancel ==
  /\ ~cancelled
  /\ cancelled' = TRUE
  /\ UNCHANGED <<permitted, life, status>>

Next ==
  \/ \E c \in Calls : Invoke(c) \/ Answer(c)
  \/ Return
  \/ Abort
  \/ Fatal
  \/ Cancel

Spec == Init /\ [][Next]_vars
=============================================================================
