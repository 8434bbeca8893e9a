---------------------------- MODULE EventContract ----------------------------
(***************************************************************************)
(* What the events of one run (src/event.rs) promise a listener, with      *)
(* nothing said about how the run works: the grammar of the event stream.  *)
(* The variables are all a listener needs to know where it is.             *)
(***************************************************************************)
CONSTANT Calls      \* the calls one assistant message may carry

VARIABLES
  run,        \* "before", "open" or "over"
  turn,       \* a turn is open
  message,    \* a message is open
  asked,      \* the calls of the assistant message that ended last
  executing,  \* those that were started and have not ended
  answered,   \* those that have ended
  last        \* the kind of the latest event

vars == <<run, turn, message, asked, executing, answered, last>>

Init ==
  /\ run = "before"
  /\ turn = FALSE
  /\ message = FALSE
  /\ asked = {} /\ executing = {} /\ answered = {}
  /\ last = "none"

AgentStart ==
  /\ run = "before"
  /\ run' = "open"
  /\ last' = "AgentStart"
  /\ UNCHANGED <<turn, message, asked, executing, answered>>

TurnStart ==
  /\ run = "open"
  /\ ~turn
  /\ turn' = TRUE
  /\ asked' = {} /\ executing' = {} /\ answered' = {}
  /\ last' = "TurnStart"
  /\ UNCHANGED <<run, message>>

\* A request goes out before anything was asked, or after an answer that was
\* given up: its calls are void, none of them was run.
RequestPrepared ==
  /\ turn /\ ~message
  /\ executing = {} /\ answered = {}
  /\ asked' = {}
  /\ last' = "RequestPrepared"
  /\ UNCHANGED <<run, turn, message, executing, answered>>

MessageStart ==
  /\ turn /\ ~message
  /\ executing = {} /\ answered = {}
  /\ message' = TRUE
  /\ last' = "MessageStart"
  /\ UNCHANGED <<run, turn, asked, executing, answered>>

MessageUpdate ==
  /\ message
  /\ last' = "MessageUpdate"
  /\ UNCHANGED <<run, turn, message, asked, executing, answered>>

\* The answer to a request may be delivered whole, or fail at once: then its
\* message ends without having started.
MessageEnd(calls) ==
  /\ turn
  /\ message \/ last = "RequestPrepared"
  /\ message' = FALSE
  /\ asked' = calls
  /\ last' = "MessageEnd"
  /\ UNCHANGED <<run, turn, executing, answered>>

\* A truncated message is given up for an attempt with a higher cap.
Escalation ==
  /\ turn
  /\ last = "MessageEnd"
  /\ last' = "Escalation"
  /\ UNCHANGED <<run, turn, message, asked, executing, answered>>

ExecutionStart(c) ==
  /\ turn /\ ~message
  /\ c \in asked \ (executing \cup answered)
  /\ executing' = executing \cup {c}
  /\ last' = "ExecutionStart"
  /\ UNCHANGED <<run, turn, message, asked, answered>>

\* A call that never reached execution ends without a start.
ExecutionEnd(c) ==
  /\ turn /\ ~message
  /\ c \in asked \ answered
  /\ executing' = executing \ {c}
  /\ answered' = answered \cup {c}
  /\ last' = "ExecutionEnd"
  /\ UNCHANGED <<run, turn, message, asked>>

TurnEnd ==
  /\ turn /\ ~message
  /\ executing = {} /\ answered = asked
  /\ turn' = FALSE
  /\ last' = "TurnEnd"
  /\ UNCHANGED <<run, message, asked, executing, answered>>

AgentEnd ==
  /\ run = "open"
  /\ ~turn
  /\ run' = "over"
  /\ last' = "AgentEnd"
  /\ UNCHANGED <<turn, message, asked, executing, answered>>

Next ==
  \/ AgentStart \/ TurnStart \/ RequestPrepared \/ MessageStart \/ MessageUpdate
  \/ \E calls \in SUBSET Calls : MessageEnd(calls)
  \/ Escalation
  \/ \E c \in Calls : ExecutionStart(c) \/ ExecutionEnd(c)
  \/ TurnEnd \/ AgentEnd

Spec == Init /\ [][Next]_vars
=============================================================================
