---------------------------- MODULE StreamRecovery ----------------------------
(***************************************************************************)
(* One call of stream_with_overflow_recovery (src/run.rs) and everything   *)
(* under it: the overflow loop, the ladder that retries errors and doubles *)
(* the output cap, and the folding of one provider stream into events.     *)
(* The provider, the overflow hook, the clock and the caller that cancels  *)
(* are the environment.                                                    *)
(***************************************************************************)
EXTENDS Integers

CONSTANTS
  CapMax,      \* u32::MAX in the code: where the doubling saturates
  NoCap,       \* max_output_tokens = None
  Caps,        \* the configured caps to consider
  Efforts,     \* the configured reasoning efforts to consider
  HasRecovery, \* an overflow_recovery hook is installed
  MaxSize      \* bound: size of the transcript, in estimated tokens

Effort == {"none", "minimal", "low", "medium", "high", "xhigh"}

ASSUME CapAssumption ==
  /\ CapMax \in Nat \ {0}
  /\ NoCap \notin Nat
  /\ Caps \subseteq (0..CapMax) \cup {NoCap}

ASSUME ConfigAssumption ==
  /\ Efforts \subseteq Effort
  /\ HasRecovery \in BOOLEAN
  /\ MaxSize \in Nat

VARIABLES
  pc,          \* what the call does next, or how it ended
  config,      \* the configured cap and effort (never change)
  cap,         \* current_cap
  effort,      \* reasoning
  note,        \* zero_output_recovery_context is set
  size,        \* estimate of current.messages
  before,      \* estimate of the history handed to the overflow hook
  shown,       \* assistant messages a listener holds: ended, not rolled back
  signalled,   \* the signal was already set when the latest request was sent
  cancelled    \* the run-wide signal

request == <<cap, effort, note>>
history == <<size, before>>
vars == <<pc, config, request, history, shown, signalled, cancelled>>

\* "attempt"    about to send a request
\* "streaming"  the request is sent, its stream has not ended
\* "truncation" a message cut off at the cap has arrived
\* "sleep"      waiting out a retry delay
\* "recovering" inside the overflow hook; current.messages has been taken
Busy == {"attempt", "streaming", "truncation", "sleep", "recovering"}

\* "message", "truncated"  an assistant message is handed to the loop
\* "fatal"     a permanent error, or inconsistent tool history
\* "overflow"  an overflow nothing could be done about
Final == {"message", "truncated", "aborted", "fatal", "overflow"}

TypeOK ==
  /\ pc \in Busy \cup Final
  /\ config \in [cap : Caps, effort : Efforts]
  /\ cap \in (0..CapMax) \cup {NoCap}
  /\ effort \in Effort
  /\ note \in BOOLEAN
  /\ {size, before} \subseteq 0..MaxSize
  /\ shown \subseteq {"truncated", "errored", "message"}
  /\ {signalled, cancelled} \subseteq BOOLEAN
-----------------------------------------------------------------------------
\* Mutant: the doubling wraps around.
DoubledWrapping(c) == (2 * c) % (CapMax + 1)

\* prev_cap.saturating_mul(2)
Doubled(c) == IF 2 * c > CapMax THEN CapMax ELSE 2 * c

\* zero_output_transport_retry_reasoning
RetryEffort(e) == IF e \in {"medium", "high", "xhigh"} THEN "minimal" ELSE e

\* The head of stream_with_max_tokens_recovery, entered again after every
\* recovered overflow: all it learnt from earlier attempts is forgotten.
StartLadder ==
  /\ cap' = config.cap
  /\ effort' = config.effort
  /\ note' = FALSE

\* Mutant: a delay is slept through whatever the signal says.
DozeUnsignalled == pc' = "sleep"

\* tokio::select! of the signal and a delay that is never zero.
Doze == pc' = IF cancelled THEN "aborted" ELSE "sleep"

Init ==
  /\ pc = "attempt"
  /\ config \in [cap : Caps, effort : Efforts]
  /\ cap = config.cap
  /\ effort = config.effort
  /\ note = FALSE
  /\ size \in 0..MaxSize
  /\ before = 0
  /\ shown = {}
  /\ signalled = FALSE
  /\ cancelled \in BOOLEAN

Cancel ==
  /\ pc \in Busy
  /\ ~cancelled
  /\ cancelled' = TRUE
  /\ UNCHANGED <<pc, config, request, history, shown, signalled>>

\* Transforms and gates run, the request is sent.
Begin ==
  /\ pc = "attempt"
  /\ pc' = "streaming"
  /\ signalled' = cancelled
  /\ UNCHANGED <<config, request, history, shown, cancelled>>

\* A stream that was opened under a cancelled signal only reports that, or is
\* dropped; any other may still end as if nothing had happened.
MayDeliver == pc = "streaming" /\ ~signalled

\* A MessageEnd is emitted for whatever ended the stream.
EndMessage(kind) == shown' = shown \cup {kind}

Deliver ==
  /\ MayDeliver
  /\ EndMessage("message")
  /\ pc' = "message"
  /\ UNCHANGED <<config, request, history, signalled, cancelled>>

Truncate ==
  /\ MayDeliver
  /\ EndMessage("truncated")
  /\ pc' = "truncation"
  /\ UNCHANGED <<config, request, history, signalled, cancelled>>

\* A transient error, a rate limit, or a message whose stop reason is Error.
FailTransient ==
  /\ MayDeliver
  /\ EndMessage("errored")
  /\ Doze
  /\ UNCHANGED <<config, request, history, signalled, cancelled>>

\* An empty response, or a stream dropped without a terminal event.
FailEmpty ==
  /\ pc = "streaming"
  /\ EndMessage("errored")
  /\ Doze
  /\ UNCHANGED <<config, request, history, signalled, cancelled>>

\* Nothing actionable came through: ask again with a note and less reasoning.
FailZeroOutput ==
  /\ MayDeliver
  /\ EndMessage("errored")
  /\ note' = TRUE
  /\ effort' = RetryEffort(config.effort)
  /\ Doze
  /\ UNCHANGED <<config, cap, history, signalled, cancelled>>

FailPermanent ==
  /\ MayDeliver
  /\ EndMessage("errored")
  /\ pc' = "fatal"
  /\ UNCHANGED <<config, request, history, signalled, cancelled>>

\* The provider reports the caller's cancellation.
FailAborted ==
  /\ pc = "streaming"
  /\ cancelled
  /\ EndMessage("errored")
  /\ pc' = "aborted"
  /\ UNCHANGED <<config, request, history, signalled, cancelled>>

\* The transcript exceeds the model's window.  The hook gets the history that
\* is taken out of current.messages for as long as the hook runs.
Recoverable == HasRecovery /\ ~cancelled

FailOverflow ==
  /\ MayDeliver
  /\ EndMessage("errored")
  /\ IF Recoverable
     THEN /\ pc' = "recovering"
          /\ before' = size
          /\ size' = 0
     ELSE /\ pc' = "overflow"
          /\ UNCHANGED <<before, size>>
  /\ UNCHANGED <<config, request, signalled, cancelled>>

\* Mutant: the history that was taken is not put back.
GiveUpEmptyHanded ==
  /\ pc = "recovering"
  /\ \E after \in 0..MaxSize : after >= before
  /\ pc' = "overflow"
  /\ UNCHANGED <<config, request, history, shown, signalled, cancelled>>

\* The hook returns.  Without progress the history is put back.
GiveUp ==
  /\ pc = "recovering"
  /\ \E after \in 0..MaxSize : after >= before
  /\ size' = before
  /\ pc' = "overflow"
  /\ UNCHANGED <<config, request, before, shown, signalled, cancelled>>

\* Mutant: a history of the same size counts as progress.
RecoverWithoutProgress ==
  /\ pc = "recovering"
  /\ \E after \in 0..MaxSize :
       /\ after <= before
       /\ size' = after
  /\ pc' = "attempt"
  /\ StartLadder
  /\ UNCHANGED <<config, before, shown, signalled, cancelled>>

Recover ==
  /\ pc = "recovering"
  /\ \E after \in 0..MaxSize :
       /\ after < before
       /\ size' = after
  /\ pc' = "attempt"
  /\ StartLadder
  /\ UNCHANGED <<config, before, shown, signalled, cancelled>>

\* A truncated message stands when there is no cap or the cap cannot grow.
MayEscalate == cap # NoCap /\ Doubled(cap) > cap

AcceptTruncated ==
  /\ pc = "truncation"
  /\ ~MayEscalate
  /\ pc' = "truncated"
  /\ UNCHANGED <<config, request, history, shown, signalled, cancelled>>

\* Otherwise it is discarded, which a listener learns from the event.
Escalate ==
  /\ pc = "truncation"
  /\ MayEscalate
  /\ pc' = "attempt"
  /\ cap' = Doubled(cap)
  /\ shown' = shown \ {"truncated"}
  /\ UNCHANGED <<config, effort, note, history, signalled, cancelled>>

Wake ==
  /\ pc = "sleep"
  /\ pc' = "attempt"
  /\ UNCHANGED <<config, request, history, shown, signalled, cancelled>>

WakeCancelled ==
  /\ pc = "sleep"
  /\ cancelled
  /\ pc' = "aborted"
  /\ UNCHANGED <<config, request, history, shown, signalled, cancelled>>

Ended == pc \in Final /\ UNCHANGED vars

Respond ==
  \/ Deliver \/ Truncate
  \/ FailTransient \/ FailEmpty \/ FailZeroOutput
  \/ FailPermanent \/ FailAborted \/ FailOverflow

Own == Begin \/ AcceptTruncated \/ Escalate \/ Wake \/ WakeCancelled

Hook == GiveUp \/ Recover

Next == Own \/ Respond \/ Hook \/ Cancel \/ Ended
-----------------------------------------------------------------------------
(* The task is polled and a delay elapses; the hook returns.  A provider     *)
(* may stay silent for ever unless it is cancelled.                          *)
Fairness ==
  /\ WF_vars(Own)
  /\ WF_vars(Hook)
  /\ WF_vars(cancelled /\ Respond)

Spec == Init /\ [][Next]_vars

FairSpec == Spec /\ Fairness
-----------------------------------------------------------------------------
(* Safety. *)

\* A message cut off by the cap reaches the transcript only if no larger cap
\* could have been asked for: none was set, or doubling it gains nothing.
TruncatedOnlyAtCeiling ==
  pc = "truncated" => /\ cap \in {NoCap, 0, CapMax}
                      /\ cap = NoCap <=> config.cap = NoCap

\* The recovery note and the reduced effort come and go together: a retry
\* carries both or, like every first attempt and every attempt after an
\* overflow was recovered from, neither.
NoteAndEffortAgree ==
  effort = IF note THEN RetryEffort(config.effort) ELSE config.effort

\* However cancellation falls among delays, hooks and streams, at most one
\* more request is sent after it: whatever that one comes to, the call does
\* not get back to where the next would be sent.
OneLateRequest == signalled => pc \notin {"attempt", "sleep", "recovering"}
-----------------------------------------------------------------------------
(* Liveness, under FairSpec. *)

\* Cancelling the run ends the call.
CancelEndsCall == cancelled ~> pc \in Final

\* Escalation and overflow recovery cannot keep a call going by themselves:
\* one that never ends is waiting on a silent provider or goes on sleeping
\* between attempts that failed.
OnlyRetriesGoOn ==
  \/ <>(pc \in Final)
  \/ <>[](pc = "streaming")
  \/ []<>(pc = "sleep")
-----------------------------------------------------------------------------
(* Refinement. *)

\* The transcript in use: while the hook runs it is the one that was taken.
Live == IF pc = "recovering" THEN before ELSE size

Contract == INSTANCE StreamContract WITH
  size      <- Live,
  status    <- CASE pc \in {"message", "truncated"} -> "message"
                 [] pc \in {"fatal", "overflow"}    -> "failed"
                 [] pc = "aborted"                  -> "aborted"
                 [] OTHER                           -> "open",
  cancelled <- cancelled

\* What the loop sees of a call is what the contract allows: the transcript
\* only shrinks, and only while the call is open, the moment it is taken out
\* for the hook never shows, and an abort is always the caller's.
ImplementsContract == Contract!Spec
-----------------------------------------------------------------------------
(* What the repository says and the code does not do. *)

\* "listeners that care must correlate via the OutputTokensEscalation event
\* that this wrapper emits before each retry" (run.rs:499-501): a listener
\* that does is left with the accepted message alone.
ProjectionMatchesTranscript ==
  pc \in {"message", "truncated"} => shown = {pc}
=============================================================================
