---------------------------- MODULE ThinkingFilter ----------------------------
(***************************************************************************)
(* The streaming filter that keeps thinking blocks out of the visible text *)
(* (src/thinking_filter.rs). Text arrives in deltas that may cut a tag     *)
(* anywhere; between two deltas the owner may take a finished thought, end *)
(* the stream or reset the filter. strip_thinking_tags is one delta and a  *)
(* flush.                                                                  *)
(*                                                                         *)
(* Characters are one-character strings. Letters stand for themselves in   *)
(* either case: the filter compares them in lower case only.               *)
(***************************************************************************)
EXTENDS Naturals, Sequences, SequencesExt, Subsequences

CONSTANTS
  Char,      \* the characters
  Tags,      \* THINKING_TAGS: the names, as sequences of letters
  Deltas,    \* what the stream may deliver at once
  MaxFeeds   \* bound: deltas ever fed

Space == " "
Text == Seq(Char)

ASSUME FilterAssumption ==
  /\ Tags \subseteq Text
  /\ \A tag \in Tags : tag # <<>> /\ {"<", "/", ">", Space} \cap ToSet(tag) = {}
  /\ Deltas \subseteq Text
  /\ MaxFeeds \in Nat

VARIABLES
  inside,     \* a block is open
  pending,    \* a candidate tag, from its "<" on
  thought,    \* thought_buffer: none, or the text of the open block
  completed,  \* completed_thought: none, or the last block closed
  delta,      \* what is left of the delta being fed
  fed,        \* the stream so far, character by character
  shown,      \* the visible text returned so far
  taken,      \* thoughts handed out in this stream
  ended,      \* the stream was flushed or reset
  feeds       \* deltas fed

filter == <<inside, pending, thought, completed>>
stream == <<fed, shown, taken, ended>>
vars == <<filter, delta, stream, feeds>>

\* An optional text is a sequence of at most one.
None == <<>>
Some(text) == <<text>>
-----------------------------------------------------------------------------
\* canonicalize_tag_candidate: blanks do not count in a candidate tag.
Canonical(candidate) == Kept(candidate, Char \ {Space})

FullTag(tag, closing) == (IF closing THEN <<"<", "/">> ELSE <<"<">>) \o tag \o <<">">>

FullTags(closing) == {FullTag(tag, closing) : tag \in Tags}

\* classify: is the candidate a tag, could it become one, or neither?
Classify(candidate, closing) ==
  IF Canonical(candidate) \in FullTags(closing) THEN "complete"
  ELSE IF \E full \in FullTags(closing) : IsPrefix(Canonical(candidate), full) THEN "possible"
  ELSE "no"
-----------------------------------------------------------------------------
Init ==
  /\ inside = FALSE
  /\ pending = <<>>
  /\ thought = None
  /\ completed = None
  /\ delta = <<>>
  /\ fed = <<>>
  /\ shown = <<>>
  /\ taken = {}
  /\ ended = FALSE
  /\ feeds = 0

\* feed: the owner calls it again and again; a stream that was ended is
\* followed by a new one.
Feed ==
  /\ delta = <<>>
  /\ feeds < MaxFeeds
  /\ feeds' = feeds + 1
  /\ delta' \in Deltas
  /\ ended' = FALSE
  /\ IF ended THEN fed' = <<>> /\ shown' = <<>> /\ taken' = {}
              ELSE UNCHANGED <<fed, shown, taken>>
  /\ UNCHANGED filter

\* One character of the delta joins the candidate, if there is one.
Ch == Head(delta)
Candidate == Append(pending, Ch)

Consume ==
  /\ delta # <<>>
  /\ delta' = Tail(delta)
  /\ fed' = Append(fed, Ch)
  /\ UNCHANGED <<taken, ended, feeds>>

\* consume_outside without a candidate: the character is shown, or starts one.
PassOutside ==
  /\ ~inside
  /\ pending = <<>>
  /\ Consume
  /\ IF Ch = "<" THEN pending' = <<Ch>> /\ UNCHANGED shown
                 ELSE shown' = Append(shown, Ch) /\ UNCHANGED pending
  /\ UNCHANGED <<inside, thought, completed>>

\* Mutant: a refuted candidate is dropped like a tag.
ResolveOutsideDropsRefuted ==
  /\ ~inside
  /\ pending # <<>>
  /\ Consume
  /\ LET verdict == Classify(Candidate, FALSE)
     IN  /\ inside' = (verdict = "complete")
         /\ pending' = IF verdict = "possible" THEN Candidate ELSE <<>>
         /\ thought' = IF verdict = "complete" THEN Some(<<>>) ELSE thought
  /\ UNCHANGED <<completed, shown>>

\* Mutant: the candidate is looked for as a closing tag.
ResolveOutsideExpectsClosing ==
  /\ ~inside
  /\ pending # <<>>
  /\ Consume
  /\ LET verdict == Classify(Candidate, TRUE)
     IN  /\ inside' = (verdict = "complete")
         /\ pending' = IF verdict = "possible" THEN Candidate ELSE <<>>
         /\ thought' = IF verdict = "complete" THEN Some(<<>>) ELSE thought
         /\ shown' = IF verdict = "no" THEN shown \o Candidate ELSE shown
  /\ UNCHANGED completed

\* consume_outside with one: it opens a block, waits for more, or is text.
ResolveOutside ==
  /\ ~inside
  /\ pending # <<>>
  /\ Consume
  /\ LET verdict == Classify(Candidate, FALSE)
     IN  /\ inside' = (verdict = "complete")
         /\ pending' = IF verdict = "possible" THEN Candidate ELSE <<>>
         /\ thought' = IF verdict = "complete" THEN Some(<<>>) ELSE thought
         /\ shown' = IF verdict = "no" THEN shown \o Candidate ELSE shown
  /\ UNCHANGED completed

\* Text is added to the open block.
Extended(text) == IF thought = None THEN None ELSE Some(thought[1] \o text)

\* consume_inside without a candidate.
PassInside ==
  /\ inside
  /\ pending = <<>>
  /\ Consume
  /\ IF Ch = "<" THEN pending' = <<Ch>> /\ UNCHANGED thought
                 ELSE thought' = Extended(<<Ch>>) /\ UNCHANGED pending
  /\ UNCHANGED <<inside, completed, shown>>

\* consume_inside with one: it closes the block, waits, or is more thought.
ResolveInside ==
  /\ inside
  /\ pending # <<>>
  /\ Consume
  /\ LET verdict == Classify(Candidate, TRUE)
     IN  /\ inside' = (verdict # "complete")
         /\ pending' = IF verdict = "possible" THEN Candidate ELSE <<>>
         /\ thought' = CASE verdict = "complete" -> None
                         [] verdict = "possible" -> thought
                         [] verdict = "no" -> IF thought = None THEN Some(Candidate)
                                              ELSE Extended(Candidate)
         /\ completed' = IF verdict = "complete" THEN thought ELSE completed
  /\ UNCHANGED shown

\* take_completed_thought, between two calls of feed.
TakeCompleted ==
  /\ delta = <<>>
  /\ completed # None
  /\ taken' = taken \cup {completed[1]}
  /\ completed' = None
  /\ UNCHANGED <<inside, pending, thought, delta, fed, shown, ended, feeds>>

\* Mutant: the thought nobody took survives the stream.
FlushKeepsCompleted ==
  /\ delta = <<>>
  /\ shown' = IF inside THEN shown ELSE shown \o pending
  /\ thought' = IF inside THEN None ELSE thought
  /\ pending' = <<>>
  /\ inside' = FALSE
  /\ ended' = TRUE
  /\ UNCHANGED <<completed, delta, fed, taken, feeds>>

\* flush: an undecided candidate is text after all, an open block is dropped,
\* and so is a thought nobody took.
Flush ==
  /\ delta = <<>>
  /\ shown' = IF inside THEN shown ELSE shown \o pending
  /\ thought' = IF inside THEN None ELSE thought
  /\ pending' = <<>>
  /\ inside' = FALSE
  /\ completed' = None
  /\ ended' = TRUE
  /\ UNCHANGED <<delta, fed, taken, feeds>>

\* reset: whatever was undecided is dropped.
Reset ==
  /\ delta = <<>>
  /\ pending' = <<>>
  /\ inside' = FALSE
  /\ thought' = None
  /\ completed' = None
  /\ fed' = <<>> /\ shown' = <<>> /\ taken' = {}
  /\ ended' = TRUE
  /\ UNCHANGED <<delta, feeds>>

Next ==
  \/ Feed
  \/ PassOutside \/ ResolveOutside
  \/ PassInside \/ ResolveInside
  \/ TakeCompleted \/ Flush \/ Reset

Spec == Init /\ [][Next]_vars
-----------------------------------------------------------------------------
TypeOK ==
  /\ {inside, ended} \subseteq BOOLEAN
  /\ {pending, delta, fed, shown} \subseteq Text
  /\ \A optional \in {thought, completed} : optional \in Seq(Text) /\ Len(optional) <= 1
  /\ taken \subseteq Text
  /\ feeds \in 0..MaxFeeds

\* A tag stands at positions i to j of a text.
TagAt(text, i, j, closing) ==
  /\ text[i] = "<"
  /\ Canonical(SubSeq(text, i, j)) \in FullTags(closing)

\* The "<" at position i of a text cut another candidate short.
CutsCandidate(text, i, closing) ==
  \E k \in 1..(i - 1) :
    /\ text[k] = "<"
    /\ \E full \in FullTags(closing) : IsPrefix(Canonical(SubSeq(text, k, i - 1)), full)

OnlyCutTags(text, closing) ==
  \A i \in DOMAIN text : \A j \in i..Len(text) :
    TagAt(text, i, j, closing) => CutsCandidate(text, i, closing)

HasTag(text, closing) == \E i \in DOMAIN text : \E j \in i..Len(text) : TagAt(text, i, j, closing)

\* A block is open exactly while its text is being collected. The filter keeps
\* the two apart, drops text that finds no buffer, and clears the buffer at a
\* flush only if it believes a block is open.
BufferFollowsInside == inside <=> thought # None

\* However the stream is cut into deltas, an opening tag becomes visible, or a
\* closing tag part of a thought, in one case only: its "<" was the character
\* that refuted another candidate.
VisibleTagHasCause ==
  /\ OnlyCutTags(shown, FALSE)
  /\ \A text \in ToSet(thought) \cup ToSet(completed) : OnlyCutTags(text, TRUE)

\* The text stands between an opening and a closing tag of a stream.
Enclosed(text, whole) ==
  \E i \in DOMAIN whole : \E j \in i..Len(whole) :
    /\ TagAt(whole, i, j, FALSE)
    /\ j + Len(text) < Len(whole)
    /\ SubSeq(whole, j + 1, j + Len(text)) = text
    /\ \E k \in (j + Len(text) + 1)..Len(whole) : TagAt(whole, j + Len(text) + 1, k, TRUE)

\* A thought handed out is the exact text between an opening and a closing tag
\* of this very stream: nothing of it is lost or invented, and none is left
\* over from a stream that was ended.
ThoughtsAreWhole == \A text \in taken \cup ToSet(completed) : Enclosed(text, fed)

\* A stream without an opening tag is shown as it is, character for character:
\* at most a candidate at its end still waits, and the flush gives it back.
PlainTextPasses == ~HasTag(fed, FALSE) => shown \o pending = fed
-----------------------------------------------------------------------------
(* What the repository says and the code does not do. *)

\* "Remove XML-like thinking blocks from a complete string"
\* (thinking_filter.rs:213): no block is left in the visible text.
BlocksAreRemoved ==
  ended => \A i \in DOMAIN shown : \A j \in i..Len(shown) :
             TagAt(shown, i, j, FALSE) => ~HasTag(SubSeq(shown, j + 1, Len(shown)), TRUE)
=============================================================================
