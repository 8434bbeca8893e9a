----------------------------- MODULE Subsequences -----------------------------
(***************************************************************************)
(* What a filter over a sequence leaves: SelectSeq with the set of what is *)
(* kept in place of a predicate, as a recursive function.                  *)
(***************************************************************************)
EXTENDS Naturals, Sequences

\* The elements of s that are in S, in their order.
Kept(s, S) ==
  LET kept[n \in 0..Len(s)] ==
        IF n = 0 THEN <<>>
        ELSE IF s[n] \in S THEN Append(kept[n - 1], s[n]) ELSE kept[n - 1]
  IN  kept[Len(s)]
=============================================================================
