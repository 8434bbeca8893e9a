------------------------ MODULE ThinkingFilter_proofs ------------------------
(***************************************************************************)
(* Three components whose proofs rest on the same facts about filtered     *)
(* sequences.  What becomes of a model's reasoning: theorems about         *)
(* ThinkingFilter, for any tags, any deltas and streams of any length, and *)
(* about ReasoningReplay, for any messages, providers and number of        *)
(* rebuilds.  What becomes of a run's plugins: theorems about ChildRuns,   *)
(* for any plugins, host entries and number of spawned runs.               *)
(***************************************************************************)
EXTENDS ThinkingFilter, ReasoningReplay, ChildRuns, SequenceTheorems,
        FiniteSetTheorems, WellFoundedInduction, TLAPS

-----------------------------------------------------------------------------
(* Filtered sequences.  Kept is a recursive function: what it computes is    *)
(* proved by the least length for which it would not.                        *)

\* A set of numbers with an element has a least one.
LEMMA LeastNumber ==
  ASSUME NEW S, S \subseteq Nat, S # {}
  PROVE  \E n \in S : \A m \in S : n <= m
<1>1. PICK n \in S : \A m \in S : ~(<<m, n>> \in OpToRel(<, Nat))
  BY NatLessThanWellFounded, WFMin
<1>2. \A m \in S : ~(m < n)
  BY <1>1 DEF OpToRel
<1>3. n \in Nat /\ \A m \in S : m \in Nat
  OBVIOUS
<1> QED BY <1>2, <1>3

\* f filters the first n elements of s.
Filters(f, s, S, n) ==
  f = [k \in 0..n |-> IF k = 0 THEN <<>>
                      ELSE IF s[k] \in S THEN Append(f[k - 1], s[k]) ELSE f[k - 1]]

\* There is a function that filters.
LEMMA FiltersExist ==
  ASSUME NEW s, NEW S, NEW n \in Nat
  PROVE  \E f : Filters(f, s, S, n)
<1> DEFINE Bad == {k \in 0..n : ~ \E f : Filters(f, s, S, k)}
<1>1. SUFFICES ASSUME Bad # {} PROVE FALSE
  OBVIOUS
<1>2. PICK k \in Bad : \A j \in Bad : k <= j
  <2>1. Bad \subseteq Nat
    OBVIOUS
  <2> HIDE DEF Bad
  <2> QED BY <1>1, <2>1, LeastNumber
<1>3. k # 0
  <2> SUFFICES ASSUME k = 0 PROVE FALSE
    OBVIOUS
  <2>1. Filters([j \in 0..0 |-> <<>>], s, S, 0)
    <3>1. \A j \in 0..0 : j = 0
      OBVIOUS
    <3> QED BY <3>1 DEF Filters
  <2> QED BY <2>1
<1>4. k \in 1..n /\ k - 1 \in 0..n /\ k - 1 \notin Bad
  BY <1>2, <1>3
<1>5. PICK g : Filters(g, s, S, k - 1)
  BY <1>4
<1> DEFINE last == IF s[k] \in S THEN Append(g[k - 1], s[k]) ELSE g[k - 1]
           h == [j \in 0..k |-> IF j = k THEN last ELSE g[j]]
<1>6. ASSUME NEW j \in 0..k
      PROVE  h[j] = IF j = 0 THEN <<>>
                    ELSE IF s[j] \in S THEN Append(h[j - 1], s[j]) ELSE h[j - 1]
  <2>1. CASE j = k
    <3>1. j # 0 /\ j - 1 \in 0..k /\ j - 1 # k
      BY <1>4, <2>1
    <3>2. h[j] = last /\ h[j - 1] = g[k - 1]
      BY <2>1, <3>1
    <3> QED BY <2>1, <3>1, <3>2
  <2>2. CASE j # k
    <3>1. j \in 0..(k - 1) /\ h[j] = g[j]
      BY <1>4, <2>2
    <3>2. j # 0 => h[j - 1] = g[j - 1]
      BY <1>4, <2>2
    <3>3. g[j] = IF j = 0 THEN <<>>
                 ELSE IF s[j] \in S THEN Append(g[j - 1], s[j]) ELSE g[j - 1]
      BY <1>5, <3>1 DEF Filters
    <3> QED BY <3>1, <3>2, <3>3
  <2> QED BY <2>1, <2>2
<1>7. Filters(h, s, S, k)
  <2>1. DOMAIN h = 0..k /\ h = [j \in DOMAIN h |-> h[j]]
    OBVIOUS
  <2> HIDE DEF h
  <2> QED BY <1>6, <2>1 DEF Filters
<1> QED BY <1>2, <1>7

\* Kept is the last value of one.
LEMMA KeptFilters ==
  ASSUME NEW s, NEW S, Len(s) \in Nat
  PROVE  \E f : Filters(f, s, S, Len(s)) /\ Kept(s, S) = f[Len(s)]
<1>1. PICK f : f = CHOOSE g : Filters(g, s, S, Len(s))
  OBVIOUS
<1>2. Filters(f, s, S, Len(s))
  BY <1>1, FiltersExist
<1>3. Kept(s, S) = f[Len(s)]
  BY <1>1 DEF Kept, Filters
<1> QED BY <1>2, <1>3

\* Filters agree as far as their sequences do.
LEMMA FiltersAgree ==
  ASSUME NEW s, NEW t, NEW S, NEW m \in Nat, NEW n \in Nat, m <= n,
         NEW f, NEW g, Filters(f, s, S, m), Filters(g, t, S, n),
         \A k \in 1..m : s[k] = t[k]
  PROVE  f[m] = g[m]
<1> DEFINE Bad == {k \in 0..m : f[k] # g[k]}
<1>1. ASSUME Bad # {} PROVE FALSE
  <2>1. PICK k \in Bad : \A j \in Bad : k <= j
    <3>1. Bad \subseteq Nat
      OBVIOUS
    <3> HIDE DEF Bad
    <3> QED BY <1>1, <3>1, LeastNumber
  <2>2. k \in 0..m /\ k \in 0..n /\ f[k] # g[k]
    BY <2>1
  <2>3. /\ f[k] = IF k = 0 THEN <<>> ELSE IF s[k] \in S THEN Append(f[k - 1], s[k]) ELSE f[k - 1]
        /\ g[k] = IF k = 0 THEN <<>> ELSE IF t[k] \in S THEN Append(g[k - 1], t[k]) ELSE g[k - 1]
    BY <2>2 DEF Filters
  <2>4. k # 0
    BY <2>2, <2>3
  <2>5. k - 1 \in 0..m /\ ~(k <= k - 1) /\ s[k] = t[k]
    BY <2>2, <2>4
  <2>6. f[k - 1] = g[k - 1]
    BY <2>1, <2>5
  <2> QED BY <2>2, <2>3, <2>5, <2>6
<1>2. m \notin Bad
  BY <1>1
<1> QED BY <1>2

\* Filtering nothing, one element more, a set of elements, two sequences, and with all in the set.
LEMMA KeptEmpty == ASSUME NEW S PROVE Kept(<<>>, S) = <<>>
<1>1. Len(<<>>) = 0
  OBVIOUS
<1>2. PICK f : Filters(f, <<>>, S, 0) /\ Kept(<<>>, S) = f[0]
  BY <1>1, KeptFilters
<1> QED BY <1>2 DEF Filters

LEMMA KeptAppend ==
  ASSUME NEW T, NEW s \in Seq(T), NEW e \in T, NEW S
  PROVE  /\ e \in S => Kept(Append(s, e), S) = Append(Kept(s, S), e)
         /\ e \notin S => Kept(Append(s, e), S) = Kept(s, S)
<1> DEFINE n == Len(s)
<1>1. PICK t : t = Append(s, e)
  OBVIOUS
<1>2. n \in Nat /\ Len(t) = n + 1 /\ n + 1 \in Nat /\ t[n + 1] = e /\ \A k \in 1..n : s[k] = t[k]
  BY <1>1
<1>3. PICK f : Filters(f, s, S, n) /\ Kept(s, S) = f[n]
  BY <1>2, KeptFilters
<1>4. PICK g : Filters(g, t, S, n + 1) /\ Kept(t, S) = g[n + 1]
  BY <1>2, KeptFilters
<1> HIDE DEF n
<1>5. f[n] = g[n]
  BY <1>2, <1>3, <1>4, FiltersAgree
<1>6. /\ t[n + 1] \in S => g[n + 1] = Append(g[n], t[n + 1])
      /\ t[n + 1] \notin S => g[n + 1] = g[n]
  <2>1. n + 1 \in 0..(n + 1) /\ n + 1 # 0 /\ (n + 1) - 1 = n
    BY <1>2
  <2>2. g[n + 1] = IF n + 1 = 0 THEN <<>>
                   ELSE IF t[n + 1] \in S THEN Append(g[(n + 1) - 1], t[n + 1]) ELSE g[(n + 1) - 1]
    BY <1>4, <2>1 DEF Filters
  <2> QED BY <2>1, <2>2
<1> QED BY <1>1, <1>2, <1>3, <1>4, <1>5, <1>6

LEMMA KeptType ==
  ASSUME NEW T, NEW s \in Seq(T), NEW S
  PROVE  Kept(s, S) \in Seq(T \cap S)
<1> DEFINE Bad == {n \in Nat : \E t \in Seq(T) : Len(t) = n /\ Kept(t, S) \notin Seq(T \cap S)}
<1>1. ASSUME Bad # {} PROVE FALSE
  <2>1. PICK n \in Bad : \A m \in Bad : n <= m
    <3>1. Bad \subseteq Nat
      OBVIOUS
    <3> HIDE DEF Bad
    <3> QED BY <1>1, <3>1, LeastNumber
  <2>2. PICK t \in Seq(T) : Len(t) = n /\ Kept(t, S) \notin Seq(T \cap S)
    BY <2>1
  <2>3. t # <<>>
    BY <2>2, KeptEmpty
  <2>a. PICK front \in Seq(T), last \in T : t = Append(front, last)
    BY <2>2, <2>3, SequenceEmptyOrAppend
  <2>4. t = Append(front, last) /\ Len(front) = n - 1
    <3>1. Len(Append(front, last)) = Len(front) + 1 /\ Len(front) \in Nat
      OBVIOUS
    <3> QED BY <2>2, <2>a, <3>1
  <2>5. Kept(front, S) \in Seq(T \cap S)
    <3>1. Len(front) \in Nat /\ n \in Nat /\ ~(n <= Len(front))
      BY <2>2, <2>4
    <3> QED BY <2>1, <3>1
  <2>6. CASE last \in S
    <3>1. Kept(t, S) = Append(Kept(front, S), last)
      BY <2>4, <2>6, KeptAppend
    <3>2. last \in T \cap S
      BY <2>6
    <3>3. Append(Kept(front, S), last) \in Seq(T \cap S)
      BY <2>5, <3>2
    <3> QED BY <2>2, <3>1, <3>3
  <2>7. CASE last \notin S
    <3>1. Kept(t, S) = Kept(front, S)
      BY <2>4, <2>7, KeptAppend
    <3> QED BY <2>2, <2>5, <3>1
  <2> QED BY <2>6, <2>7
<1> QED BY <1>1

LEMMA ConcatAppend ==
  ASSUME NEW T, NEW s \in Seq(T), NEW t \in Seq(T), NEW e \in T
  PROVE  /\ s \o Append(t, e) = Append(s \o t, e)
         /\ s \o t \in Seq(T)
<1>1. /\ s \o Append(t, e) \in Seq(T) /\ Append(s \o t, e) \in Seq(T)
      /\ Len(s \o Append(t, e)) = Len(Append(s \o t, e))
  OBVIOUS
<1>2. ASSUME NEW i \in 1..Len(s \o Append(t, e))
      PROVE  (s \o Append(t, e))[i] = Append(s \o t, e)[i]
  OBVIOUS
<1> QED BY <1>1, <1>2, SeqEqual

LEMMA KeptConcat ==
  ASSUME NEW T, NEW s \in Seq(T), NEW t \in Seq(T), NEW S
  PROVE  Kept(s \o t, S) = Kept(s, S) \o Kept(t, S)
<1> DEFINE Bad == {n \in Nat : \E u \in Seq(T) : Len(u) = n /\ Kept(s \o u, S) # Kept(s, S) \o Kept(u, S)}
<1>1. ASSUME Bad # {} PROVE FALSE
  <2>1. PICK n \in Bad : \A m \in Bad : n <= m
    <3>1. Bad \subseteq Nat
      OBVIOUS
    <3> HIDE DEF Bad
    <3> QED BY <1>1, <3>1, LeastNumber
  <2>2. PICK u \in Seq(T) : Len(u) = n /\ Kept(s \o u, S) # Kept(s, S) \o Kept(u, S)
    BY <2>1
  <2>3. u # <<>>
    <3>1. Kept(s, S) \in Seq(T \cap S)
      BY KeptType
    <3>2. s \o <<>> = s /\ Kept(s, S) \o <<>> = Kept(s, S)
      BY <3>1, ConcatEmptySeq
    <3> QED BY <2>2, <3>2, KeptEmpty
  <2>a. PICK front \in Seq(T), last \in T : u = Append(front, last)
    BY <2>2, <2>3, SequenceEmptyOrAppend
  <2>4. u = Append(front, last) /\ Len(front) = n - 1
    <3>1. Len(Append(front, last)) = Len(front) + 1 /\ Len(front) \in Nat
      OBVIOUS
    <3> QED BY <2>2, <2>a, <3>1
  <2>5. Kept(s \o front, S) = Kept(s, S) \o Kept(front, S)
    <3>1. Len(front) \in Nat /\ n \in Nat /\ ~(n <= Len(front))
      BY <2>2, <2>4
    <3> QED BY <2>1, <3>1
  <2>6. s \o u = Append(s \o front, last) /\ s \o front \in Seq(T)
    BY SMTT(30), <2>4, ConcatAppend
  <2>7. CASE last \in S
    <3>1. Kept(u, S) = Append(Kept(front, S), last)
      BY <2>4, <2>7, KeptAppend
    <3>2. Kept(s \o u, S) = Append(Kept(s, S) \o Kept(front, S), last)
      <4>1. Kept(Append(s \o front, last), S) = Append(Kept(s \o front, S), last)
        BY <2>6, <2>7, KeptAppend
      <4> QED BY <2>5, <2>6, <4>1
    <3>3. Kept(s, S) \in Seq(T \cap S) /\ Kept(front, S) \in Seq(T \cap S) /\ last \in T \cap S
      BY <2>4, <2>7, KeptType
    <3>4. Kept(s, S) \o Append(Kept(front, S), last) = Append(Kept(s, S) \o Kept(front, S), last)
      BY SMTT(30), <3>3, ConcatAppend
    <3> QED BY <2>2, <3>1, <3>2, <3>4
  <2>8. CASE last \notin S
    <3>1. Kept(u, S) = Kept(front, S)
      BY <2>4, <2>8, KeptAppend
    <3>2. Kept(Append(s \o front, last), S) = Kept(s \o front, S)
      BY <2>6, <2>8, KeptAppend
    <3> QED BY <2>2, <2>5, <2>6, <3>1, <3>2
  <2> QED BY <2>7, <2>8
<1> QED BY <1>1

LEMMA KeptAll ==
  ASSUME NEW S, NEW s \in Seq(S)
  PROVE  Kept(s, S) = s
<1> DEFINE Bad == {n \in Nat : \E t \in Seq(S) : Len(t) = n /\ Kept(t, S) # t}
<1>1. ASSUME Bad # {} PROVE FALSE
  <2>1. PICK n \in Bad : \A m \in Bad : n <= m
    <3>1. Bad \subseteq Nat
      OBVIOUS
    <3> HIDE DEF Bad
    <3> QED BY <1>1, <3>1, LeastNumber
  <2>2. PICK t \in Seq(S) : Len(t) = n /\ Kept(t, S) # t
    BY <2>1
  <2>3. t # <<>>
    BY <2>2, KeptEmpty
  <2>a. PICK front \in Seq(S), last \in S : t = Append(front, last)
    BY <2>2, <2>3, SequenceEmptyOrAppend
  <2>4. t = Append(front, last) /\ Len(front) = n - 1
    <3>1. Len(Append(front, last)) = Len(front) + 1 /\ Len(front) \in Nat
      OBVIOUS
    <3> QED BY <2>2, <2>a, <3>1
  <2>5. Kept(front, S) = front
    <3>1. Len(front) \in Nat /\ n \in Nat /\ ~(n <= Len(front))
      BY <2>2, <2>4
    <3> QED BY <2>1, <3>1
  <2>6. Kept(t, S) = Append(Kept(front, S), last)
    BY <2>4, KeptAppend
  <2> QED BY <2>2, <2>4, <2>5, <2>6
<1> QED BY <1>1

-----------------------------------------------------------------------------
(* Types.                                                                   *)

IsOptional(v) == v \in Seq(Text) /\ Len(v) <= 1

\* Optional texts.
LEMMA OptionalCases ==
  ASSUME NEW v, IsOptional(v), v # None PROVE v = Some(v[1]) /\ v[1] \in Text
<1>1. v \in Seq(Text) /\ Len(v) = 1
  <2>1. v \in Seq(Text) /\ v # <<>> /\ Len(v) <= 1
    BY DEF IsOptional, None
  <2>2. Len(v) \in Nat \ {0}
    BY <2>1, EmptySeq
  <2>3. \A n \in Nat \ {0} : n <= 1 => n = 1
    OBVIOUS
  <2> QED BY <2>1, <2>2, <2>3
<1>2. v[1] \in Text /\ DOMAIN v = 1..1
  BY <1>1
<1>3. v = <<v[1]>>
  BY <1>1, <1>2
<1> QED BY <1>2, <1>3 DEF Some

LEMMA SomeIsOptional == ASSUME NEW text \in Text PROVE IsOptional(Some(text))
BY DEF IsOptional, Some

LEMMA NoneIsOptional == IsOptional(None)
BY DEF IsOptional, None

\* A thought with more text is a thought.
LEMMA ExtendedType ==
  ASSUME NEW text \in Text, IsOptional(thought) PROVE IsOptional(Extended(text))
<1>1. CASE thought = None
  BY <1>1, NoneIsOptional DEF Extended
<1>2. CASE thought # None
  <2>1. thought[1] \o text \in Text
    BY <1>2, OptionalCases DEF Text
  <2> QED BY <1>2, <2>1, SomeIsOptional DEF Extended
<1> QED BY <1>1, <1>2

\* Within a step that consumes a character.
LEMMA ConsumeTypes ==
  ASSUME TypeOK, Consume
  PROVE  /\ Ch \in Char /\ Candidate \in Text
         /\ delta' \in Text /\ fed' \in Text
         /\ fed' = Append(fed, Ch)
         /\ shown \o Candidate \in Text
         /\ shown \o Candidate = Append(shown \o pending, Ch)
<1>1. delta \in Seq(Char) /\ delta # <<>>
  BY DEF TypeOK, Consume, Text
<1>2. Head(delta) \in Char /\ Tail(delta) \in Seq(Char)
  BY <1>1
<1>3. Ch \in Char /\ delta' \in Text
  BY <1>2 DEF Ch, Consume, Text
<1>4. /\ pending \in Seq(Char) /\ shown \in Seq(Char) /\ fed \in Seq(Char)
      /\ Candidate = Append(pending, Ch) /\ fed' = Append(fed, Ch)
  BY DEF TypeOK, Text, Candidate, Consume
<1>5. Candidate \in Seq(Char) /\ fed' \in Seq(Char) /\ fed' = Append(fed, Ch)
  BY <1>3, <1>4
<1>6. shown \o Candidate \in Seq(Char)
  BY <1>4, <1>5
<1>7. shown \o Append(pending, Ch) = Append(shown \o pending, Ch)
  BY <1>3, <1>4, ConcatAppend
<1> QED BY <1>3, <1>4, <1>5, <1>6, <1>7 DEF Text

\* The initial states satisfy the types.
LEMMA TypesInit == Init => TypeOK
<1> SUFFICES ASSUME Init PROVE TypeOK
  OBVIOUS
<1>1. <<>> \in Text /\ 0 \in 0..MaxFeeds
  BY FilterAssumption DEF Text
<1>2. None \in Seq(Text) /\ Len(None) <= 1
  BY DEF None
<1> QED BY <1>1, <1>2 DEF Init, TypeOK

\* Every step preserves the types.
LEMMA TypesNext == TypeOK /\ [Next]_vars => TypeOK'
<1> SUFFICES ASSUME TypeOK, [Next]_vars PROVE TypeOK'
  OBVIOUS
<1> USE DEF TypeOK
<1>t. /\ IsOptional(thought) /\ IsOptional(completed)
      /\ IsOptional(thought') /\ IsOptional(completed')
           => \A optional \in {thought', completed'} : optional \in Seq(Text) /\ Len(optional) <= 1
  BY DEF IsOptional
<1>0. <<>> \in Text
  BY DEF Text
<1>1. CASE Feed
  <2>1. delta' \in Text /\ feeds' \in 0..MaxFeeds
    BY <1>1, FilterAssumption DEF Feed, Text
  <2> QED BY <1>0, <1>1, <2>1 DEF Feed, filter
<1>2. CASE PassOutside
  <2> USE <1>2, ConsumeTypes DEF PassOutside
  <2>1. <<Ch>> \in Text /\ Append(shown, Ch) \in Text
    BY DEF Text
  <2>2. pending' \in Text /\ shown' \in Text
    BY <2>1
  <2> QED BY <2>2 DEF Consume
<1>3. CASE ResolveOutside
  <2> USE <1>3, ConsumeTypes DEF ResolveOutside
  <2>1. pending' \in Text
    BY <1>0
  <2>2. shown' \in Text
    OBVIOUS
  <2>3. IsOptional(thought') /\ IsOptional(completed')
    BY <1>0, <1>t, SomeIsOptional
  <2>4. inside' \in BOOLEAN
    OBVIOUS
  <2> QED BY <1>t, <2>1, <2>2, <2>3, <2>4 DEF Consume
<1>4. CASE PassInside
  <2> USE <1>4, ConsumeTypes DEF PassInside
  <2>1. <<Ch>> \in Text
    BY DEF Text
  <2>2. pending' \in Text
    BY <2>1
  <2>3. IsOptional(thought') /\ IsOptional(completed')
    BY <2>1, <1>t, ExtendedType
  <2> QED BY <1>t, <2>2, <2>3 DEF Consume
<1>5. CASE ResolveInside
  <2> USE <1>5, ConsumeTypes DEF ResolveInside
  <2>1. pending' \in Text
    BY <1>0
  <2>2. IsOptional(thought')
    <3> DEFINE verdict == Classify(Candidate, TRUE)
    <3>1. verdict \in {"complete", "possible", "no"}
      BY DEF Classify
    <3>2. IsOptional(Some(Candidate)) /\ IsOptional(Extended(Candidate)) /\ IsOptional(None)
      BY <1>t, SomeIsOptional, ExtendedType, NoneIsOptional
    <3>3. thought' \in {None, thought, Some(Candidate), Extended(Candidate)}
      BY <3>1
    <3> QED BY <1>t, <3>2, <3>3
  <2>3. IsOptional(completed') /\ inside' \in BOOLEAN
    BY <1>t
  <2> QED BY <1>t, <2>1, <2>2, <2>3 DEF Consume
<1>6. CASE TakeCompleted
  <2>1. completed[1] \in Text
    BY <1>6, <1>t, OptionalCases DEF TakeCompleted
  <2> QED BY <1>6, <1>t, <2>1, NoneIsOptional DEF TakeCompleted
<1>7. CASE Flush
  <2>1. shown \o pending \in Text
    BY DEF Text
  <2>2. IsOptional(thought') /\ IsOptional(completed')
    BY <1>7, <1>t, NoneIsOptional DEF Flush
  <2> QED BY <1>0, <1>7, <1>t, <2>1, <2>2 DEF Flush
<1>8. CASE Reset
  BY <1>0, <1>8, <1>t, NoneIsOptional DEF Reset
<1>9. CASE UNCHANGED vars
  BY <1>9 DEF vars, filter, stream
<1> QED
  BY <1>1, <1>2, <1>3, <1>4, <1>5, <1>6, <1>7, <1>8, <1>9 DEF Next

\* The filter holds texts and at most one open and one closed thought,
\* whatever arrives.
THEOREM TypesHold == Spec => []TypeOK
<1> QED BY TypesInit, TypesNext, PTL DEF Spec

-----------------------------------------------------------------------------
(* The two halves of the state.                                             *)

\* The initial states satisfy BufferFollowsInside.
LEMMA BufferInit == Init => BufferFollowsInside
BY DEF Init, BufferFollowsInside, None

\* Extending neither begins a thought nor ends one.
LEMMA ExtendedKeeps ==
  ASSUME NEW text PROVE (Extended(text) = None) <=> (thought = None)
BY DEF Extended, None, Some

\* Every step preserves BufferFollowsInside.
LEMMA BufferNext == TypeOK /\ BufferFollowsInside /\ [Next]_vars => BufferFollowsInside'
<1> SUFFICES ASSUME TypeOK, BufferFollowsInside, [Next]_vars PROVE BufferFollowsInside'
  OBVIOUS
<1> USE DEF BufferFollowsInside
<1>0. \A text : Some(text) # None
  BY DEF Some, None
<1>1. CASE Feed \/ PassOutside \/ TakeCompleted
  BY <1>1 DEF Feed, filter, PassOutside, TakeCompleted
<1>2. CASE ResolveOutside
  BY <1>0, <1>2 DEF ResolveOutside
<1>3. CASE PassInside
  BY <1>3, ExtendedKeeps DEF PassInside
<1>4. CASE ResolveInside
  <2>1. Classify(Candidate, TRUE) \in {"complete", "possible", "no"}
    BY DEF Classify
  <2>2. CASE Classify(Candidate, TRUE) = "complete"
    BY <1>4, <2>2 DEF ResolveInside
  <2>3. CASE Classify(Candidate, TRUE) = "possible"
    BY <1>4, <2>3 DEF ResolveInside
  <2>4. CASE Classify(Candidate, TRUE) = "no"
    BY <1>0, <1>4, <2>4, ExtendedKeeps DEF ResolveInside
  <2> QED BY <2>1, <2>2, <2>3, <2>4
<1>5. CASE Flush \/ Reset
  BY <1>5 DEF Flush, Reset
<1>6. CASE UNCHANGED vars
  BY <1>6 DEF vars, filter
<1> QED BY <1>1, <1>2, <1>3, <1>4, <1>5, <1>6 DEF Next

\* A block is open exactly while its text is collected, so that no text of a
\* thought is dropped for want of a buffer and a flush outside a block leaves
\* none behind.
THEOREM BufferHolds == Spec => []BufferFollowsInside
<1> QED BY TypesInit, TypesNext, BufferInit, BufferNext, PTL DEF Spec

-----------------------------------------------------------------------------
(* Text without a tag.                                                      *)

\* What is waiting begins like a tag, an ended stream has nothing waiting, and
\* until a tag has come by, nothing was hidden.
PlainInv ==
  /\ pending # <<>> => pending[1] = "<"
  /\ ended => delta = <<>> /\ pending = <<>> /\ ~inside
  /\ ~HasTag(fed, FALSE) => ~inside /\ shown \o pending = fed

\* A text keeps its tags as it grows, and has the one it ends with.
LEMMA TagsStay ==
  ASSUME NEW text \in Text, NEW ch \in Char, HasTag(text, FALSE)
  PROVE  HasTag(Append(text, ch), FALSE)
<1> DEFINE longer == Append(text, ch)
<1>1. PICK i \in DOMAIN text : \E j \in i..Len(text) : TagAt(text, i, j, FALSE)
  BY DEF HasTag
<1>2. PICK j \in i..Len(text) : TagAt(text, i, j, FALSE)
  BY <1>1
<1>0. text \in Seq(Char) /\ longer \in Seq(Char) /\ Len(longer) = Len(text) + 1
  BY DEF Text
<1>3. i \in DOMAIN longer /\ j \in i..Len(longer) /\ longer[i] = text[i]
  BY <1>0, <1>2
<1>4. SubSeq(longer, i, j) = SubSeq(text, i, j)
  BY <1>2 DEF Text
<1>5. TagAt(longer, i, j, FALSE)
  BY <1>2, <1>3, <1>4 DEF TagAt
<1> QED BY <1>3, <1>5 DEF HasTag

LEMMA TagAtEnd ==
  ASSUME NEW before \in Text, NEW tag \in Text, tag # <<>>, tag[1] = "<",
         Canonical(tag) \in FullTags(FALSE)
  PROVE  HasTag(before \o tag, FALSE)
<1> DEFINE whole == before \o tag
           i == Len(before) + 1
           j == Len(whole)
<1>1. whole \in Seq(Char) /\ Len(whole) = Len(before) + Len(tag) /\ Len(tag) > 0
  BY DEF Text
<1>2. i \in DOMAIN whole /\ j \in i..Len(whole) /\ whole[i] = tag[1]
  BY <1>1 DEF Text
<1>3. SubSeq(whole, i, j) = tag
  BY <1>1 DEF Text
<1>4. TagAt(whole, i, j, FALSE)
  BY <1>2, <1>3 DEF TagAt
<1> QED BY <1>2, <1>4 DEF HasTag

\* The initial states satisfy PlainInv.
LEMMA PlainInit == Init => PlainInv
<1>1. <<>> \o <<>> = <<>>
  OBVIOUS
<1> QED BY <1>1 DEF Init, PlainInv

\* A step that consumes a character, as far as it concerns the text shown.
LEMMA PlainConsume ==
  ASSUME TypeOK, PlainInv, Consume,
         pending' # <<>> => pending'[1] = "<",
         \/ HasTag(fed, FALSE)
         \/ ~inside' /\ shown' \o pending' = shown \o Candidate
         \/ HasTag(shown \o Candidate, FALSE)
  PROVE  PlainInv'
<1>1. fed' = Append(fed, Ch) /\ shown \o Candidate = Append(shown \o pending, Ch) /\ Ch \in Char
  BY ConsumeTypes
<1>2. ~ended'
  BY DEF Consume, PlainInv
<1>3. HasTag(fed, FALSE) => HasTag(fed', FALSE)
  BY <1>1, TagsStay DEF TypeOK
<1>4. ~HasTag(fed, FALSE) => shown \o Candidate = fed'
  BY <1>1 DEF PlainInv
<1>5. ~HasTag(fed', FALSE) => ~inside' /\ shown' \o pending' = fed'
  BY <1>3, <1>4
<1> QED BY <1>2, <1>5 DEF PlainInv

\* Every step preserves PlainInv.
LEMMA PlainNext == TypeOK /\ PlainInv /\ [Next]_vars => PlainInv'
<1> SUFFICES ASSUME TypeOK, PlainInv, [Next]_vars PROVE PlainInv'
  OBVIOUS
<1>e. shown \o <<>> = shown /\ shown \o pending \in Text
  BY DEF TypeOK, Text
<1>1. CASE Feed
  <2>1. CASE ended
    <3>1. /\ pending' = <<>> /\ ~inside' /\ ~ended'
          /\ shown' = <<>> /\ fed' = <<>>
      BY <1>1, <2>1 DEF Feed, filter, PlainInv
    <3>2. shown' \o pending' = fed'
      BY <3>1
    <3> QED BY <3>1, <3>2 DEF PlainInv
  <2>2. CASE ~ended
    BY <1>1, <2>2 DEF Feed, filter, PlainInv
  <2> QED BY <2>1, <2>2
<1>2. CASE PassOutside
  <2>1. Consume /\ pending = <<>> /\ ~inside' /\ Ch \in Char
    BY <1>2, ConsumeTypes DEF PassOutside
  <2>2. Candidate = <<Ch>>
    BY <2>1 DEF Candidate
  <2>5. shown \in Seq(Char)
    BY DEF TypeOK, Text
  <2>6. ASSUME Ch = "<" PROVE shown' \o pending' = shown \o Candidate
    <3>1. shown' = shown /\ pending' = Candidate
      BY <1>2, <2>2, <2>6 DEF PassOutside
    <3> QED BY <3>1
  <2>7. ASSUME Ch # "<" PROVE shown' \o pending' = shown \o Candidate
    <3>1. shown' = Append(shown, Ch) /\ pending' = <<>>
      BY <1>2, <2>7 DEF PassOutside
    <3>2. shown \o Append(<<>>, Ch) = Append(shown \o <<>>, Ch)
      BY <2>1, <2>5, ConcatAppend
    <3>3. shown' \o <<>> = shown' /\ shown \o <<>> = shown
      BY <2>1, <2>5, <3>1
    <3>4. Append(<<>>, Ch) = Candidate
      BY <2>2
    <3> QED BY <3>1, <3>2, <3>3, <3>4
  <2>3. shown' \o pending' = shown \o Candidate
    BY <2>6, <2>7
  <2>4. pending' # <<>> => pending'[1] = "<"
    BY <1>2, <2>1 DEF PassOutside
  <2> QED BY <2>1, <2>3, <2>4, PlainConsume
<1>3. CASE ResolveOutside
  <2>1. Consume /\ pending # <<>> /\ pending[1] = "<" /\ pending \in Text /\ shown \in Text
    BY <1>3 DEF ResolveOutside, PlainInv, TypeOK
  <2>2. Candidate \in Text /\ Candidate # <<>> /\ Candidate[1] = "<"
    <3>1. Ch \in Char /\ Candidate \in Text
      BY <2>1, ConsumeTypes
    <3>2. pending \in Seq(Char) /\ Candidate = Append(pending, Ch)
      BY <2>1 DEF Candidate, Text
    <3> QED BY <2>1, <3>1, <3>2
  <2>3. pending' # <<>> => pending'[1] = "<"
    BY <1>3, <2>2 DEF ResolveOutside
  <2>4. CASE Classify(Candidate, FALSE) = "complete"
    <3>1. Canonical(Candidate) \in FullTags(FALSE)
      BY <2>4 DEF Classify
    <3>2. HasTag(shown \o Candidate, FALSE)
      BY <2>1, <2>2, <3>1, TagAtEnd
    <3> QED BY <2>1, <2>3, <3>2, PlainConsume
  <2>5. CASE Classify(Candidate, FALSE) = "possible"
    <3>1. ~inside' /\ pending' = Candidate /\ shown' = shown
      BY <1>3, <2>5 DEF ResolveOutside
    <3> QED BY <2>1, <2>3, <3>1, PlainConsume
  <2>6. CASE Classify(Candidate, FALSE) = "no"
    <3>1. ~inside' /\ pending' = <<>> /\ shown' = shown \o Candidate
      BY <1>3, <2>6 DEF ResolveOutside
    <3>2. shown' \o pending' = shown \o Candidate
      BY <2>1, <2>2, <3>1 DEF Text
    <3> QED BY <2>1, <2>3, <3>1, <3>2, PlainConsume
  <2> QED BY <2>4, <2>5, <2>6 DEF Classify
<1>4. CASE PassInside
  <2>1. Consume /\ HasTag(fed, FALSE)
    BY <1>4 DEF PassInside, PlainInv
  <2>2. pending' # <<>> => pending'[1] = "<"
    BY <1>4 DEF PassInside
  <2> QED BY <2>1, <2>2, PlainConsume
<1>5. CASE ResolveInside
  <2>1. Consume /\ HasTag(fed, FALSE) /\ pending # <<>> /\ pending[1] = "<"
    BY <1>5 DEF ResolveInside, PlainInv
  <2>2. Candidate[1] = "<"
    BY <2>1, ConsumeTypes DEF Candidate, Text, TypeOK
  <2>3. pending' # <<>> => pending'[1] = "<"
    BY <1>5, <2>2 DEF ResolveInside
  <2> QED BY <2>1, <2>3, PlainConsume
<1>6. CASE TakeCompleted
  BY <1>6 DEF TakeCompleted, PlainInv
<1>7. CASE Flush
  <2>0. pending' = <<>> /\ ~inside' /\ delta' = <<>> /\ fed' = fed
    BY <1>7 DEF Flush
  <2>1. CASE inside
    BY <2>0, <2>1 DEF PlainInv
  <2>2. CASE ~inside
    <3>1. shown' = shown \o pending
      BY <1>7, <2>2 DEF Flush
    <3>2. shown' \o <<>> = shown'
      BY <1>e, <3>1 DEF Text
    <3> QED BY <2>0, <3>1, <3>2 DEF PlainInv
  <2> QED BY <2>1, <2>2
<1>8. CASE Reset
  <2>1. pending' = <<>> /\ ~inside' /\ delta' = <<>> /\ shown' = <<>> /\ fed' = <<>>
    BY <1>8 DEF Reset
  <2>2. shown' \o pending' = fed'
    BY <2>1
  <2> QED BY <2>1, <2>2 DEF PlainInv
<1>9. CASE UNCHANGED vars
  BY <1>9 DEF vars, filter, stream, PlainInv
<1> QED
  BY <1>1, <1>2, <1>3, <1>4, <1>5, <1>6, <1>7, <1>8, <1>9 DEF Next

\* Text that holds no opening tag is shown as it is, in whatever deltas it
\* arrives: nothing is lost, doubled or moved by the candidates on the way.
THEOREM PlainTextHolds == Spec => []PlainTextPasses
<1>1. PlainInv => PlainTextPasses
  BY DEF PlainInv, PlainTextPasses
<1> QED BY <1>1, TypesInit, TypesNext, PlainInit, PlainNext, PTL DEF Spec

-----------------------------------------------------------------------------
(* Candidates and tags.                                                     *)

\* Characters are made canonical one by one.
LEMMA CanonicalConcat ==
  ASSUME NEW s \in Text, NEW t \in Text
  PROVE  Canonical(s \o t) = Canonical(s) \o Canonical(t)
BY KeptConcat DEF Text, Canonical

LEMMA CanonicalType == ASSUME NEW s \in Text PROVE Canonical(s) \in Text
<1>1. Kept(s, Char \ {Space}) \in Seq(Char \cap (Char \ {Space}))
  BY KeptType DEF Text
<1>2. Char \cap (Char \ {Space}) = Char \ {Space}
  OBVIOUS
<1>3. Kept(s, Char \ {Space}) \in Seq(Char \ {Space})
  BY <1>1, <1>2
<1>4. ASSUME NEW u \in Seq(Char \ {Space}) PROVE u \in Seq(Char)
  BY <1>4
<1> QED BY <1>3, <1>4 DEF Text, Canonical

\* A candidate begins with its "<", and does not end there.
LEMMA OpensCandidate ==
  ASSUME "<" \in Char, NEW closing \in BOOLEAN
  PROVE  /\ Canonical(<<"<">>) = <<"<">>
         /\ <<"<">> \notin FullTags(closing)
         /\ Tags # {} => \E full \in FullTags(closing) : IsPrefix(<<"<">>, full)
<1>1. Canonical(<<"<">>) = <<"<">>
  <2>1. "<" \in Char \ {Space} /\ <<>> \in Seq(Char) /\ Append(<<>>, "<") = <<"<">>
    BY DEF Space
  <2>2. Kept(Append(<<>>, "<"), Char \ {Space}) = Append(Kept(<<>>, Char \ {Space}), "<")
    <3>1. ASSUME NEW kept, "<" \in kept
          PROVE  Kept(Append(<<>>, "<"), kept) = Append(Kept(<<>>, kept), "<")
      BY <2>1, <3>1, KeptAppend
    <3> QED BY <2>1, <3>1
  <2> QED BY <2>1, <2>2, KeptEmpty DEF Canonical
<1>2. ASSUME NEW tag \in Tags
      PROVE  /\ Len(FullTag(tag, closing)) > 1
             /\ IsPrefix(<<"<">>, FullTag(tag, closing))
  <2>1. tag \in Seq(Char)
    BY FilterAssumption DEF Text
  <2> DEFINE opening == IF closing THEN <<"<", "/">> ELSE <<"<">>
             T == Char \cup {"<", "/", ">"}
  <2>2. opening \in Seq(T) /\ tag \in Seq(T) /\ <<">">> \in Seq(T) /\ Len(opening) >= 1 /\ opening[1] = "<"
    <3>1. tag \in Seq(T) /\ <<">">> \in Seq(T)
      BY <2>1
    <3>2. CASE closing
      <4>1. opening = <<"<", "/">>
        BY <3>2
      <4> HIDE DEF opening
      <4>2. opening \in Seq(T) /\ Len(opening) >= 1 /\ opening[1] = "<"
        BY <4>1
      <4> QED BY <3>1, <4>2
    <3>3. CASE ~closing
      <4>1. opening = <<"<">>
        BY <3>3
      <4> HIDE DEF opening
      <4>2. opening \in Seq(T) /\ Len(opening) >= 1 /\ opening[1] = "<"
        BY <4>1
      <4> QED BY <3>1, <4>2
    <3> QED BY <3>2, <3>3
  <2> HIDE DEF opening
  <2>3. (opening \o tag) \o <<">">> \in Seq(T) /\ Len((opening \o tag) \o <<">">>) = Len(opening) + Len(tag) + 1
        /\ ((opening \o tag) \o <<">">>)[1] = "<"
    BY <2>2
  <2>4. FullTag(tag, closing) = (opening \o tag) \o <<">">>
    BY DEF FullTag, opening
  <2>5. \A f \in Seq(T) : Len(f) > 1 /\ f[1] = "<" => IsPrefix(<<"<">>, f)
    BY DEF IsPrefix
  <2>6. Len(FullTag(tag, closing)) > 1
    BY <2>2, <2>3, <2>4
  <2> QED BY <2>3, <2>4, <2>5, <2>6
<1>3. <<"<">> \notin FullTags(closing)
  <2> SUFFICES ASSUME <<"<">> \in FullTags(closing) PROVE FALSE
    OBVIOUS
  <2>1. PICK tag \in Tags : <<"<">> = FullTag(tag, closing)
    BY DEF FullTags
  <2>2. Len(<<"<">>) = 1
    OBVIOUS
  <2> QED BY <1>2, <2>1, <2>2
<1> QED BY <1>1, <1>2, <1>3 DEF FullTags

\* What extends no tag is extended by none.
LEMMA NoTagAfterRefusal ==
  ASSUME NEW s \in Text, NEW t \in Text, NEW closing \in BOOLEAN,
         ~ \E full \in FullTags(closing) : IsPrefix(Canonical(s), full)
  PROVE  Canonical(s \o t) \notin FullTags(closing)
<1> SUFFICES ASSUME Canonical(s \o t) \in FullTags(closing) PROVE FALSE
  OBVIOUS
<1>1. Canonical(s \o t) = Canonical(s) \o Canonical(t) /\ Canonical(s) \in Seq(Char) /\ Canonical(t) \in Seq(Char)
  BY CanonicalConcat, CanonicalType DEF Text
<1>2. ASSUME NEW a \in Seq(Char), NEW b \in Seq(Char) PROVE IsPrefix(a, a \o b)
  <2>1. Len(a) <= Len(a \o b) /\ SubSeq(a, 1, Len(a)) = a
    BY <1>2
  <2>2. SubSeq(a \o b, 1, Len(a)) = SubSeq(a, 1, Len(a))
    BY <1>2
  <2> QED BY <2>1, <2>2 DEF IsPrefix
<1> QED BY <1>1, <1>2

-----------------------------------------------------------------------------
(* Why a "<" that was passed on stands for no tag.                          *)

\* What waits begins with a "<" and at no length is more than the beginning
\* of a tag.
Waits(candidate, closing) ==
  candidate # <<>> =>
    /\ candidate[1] = "<"
    /\ \A m \in 1..Len(candidate) :
         /\ Canonical(SubSeq(candidate, 1, m)) \notin FullTags(closing)
         /\ \E full \in FullTags(closing) : IsPrefix(Canonical(SubSeq(candidate, 1, m)), full)

\* The text from position i on was seen to begin no tag.
RefutedAt(text, i, closing) ==
  \E m \in i..Len(text) :
    /\ ~ \E full \in FullTags(closing) : IsPrefix(Canonical(SubSeq(text, i, m)), full)
    /\ \A j \in i..m : Canonical(SubSeq(text, i, j)) \notin FullTags(closing)

Accounted(text, i, closing) ==
  text[i] = "<" => CutsCandidate(text, i, closing) \/ RefutedAt(text, i, closing)

Settled(text, closing) == \A i \in 1..Len(text) : Accounted(text, i, closing)

\* No tag begins where a candidate was refused before it was complete.
LEMMA TagBehindRefusal ==
  ASSUME NEW text \in Text, NEW closing \in BOOLEAN,
         NEW i \in 1..Len(text), NEW j \in i..Len(text), TagAt(text, i, j, closing),
         NEW m \in i..Len(text),
         ~ \E full \in FullTags(closing) : IsPrefix(Canonical(SubSeq(text, i, m)), full),
         \A k \in i..m : Canonical(SubSeq(text, i, k)) \notin FullTags(closing)
  PROVE  FALSE
<1>2. Canonical(SubSeq(text, i, j)) \in FullTags(closing)
  BY DEF TagAt
<1>3. j > m
  <2>1. j \notin i..m
    BY <1>2
  <2>2. Len(text) \in Nat
    BY DEF Text
  <2> QED BY <2>1, <2>2
<1>4. /\ SubSeq(text, i, m) \o SubSeq(text, m + 1, j) = SubSeq(text, i, j)
      /\ SubSeq(text, i, m) \in Text /\ SubSeq(text, m + 1, j) \in Text
  <2>1. text \in Seq(Char) /\ Len(text) \in Nat
    BY DEF Text
  <2>2. SubSeq(text, i, m) \in Seq(Char) /\ SubSeq(text, m + 1, j) \in Seq(Char)
    BY <1>3, <2>1
  <2>3. i \in 1..Len(text) + 1 /\ m \in i - 1 .. Len(text) /\ j \in m..Len(text)
    BY <1>3, <2>1
  <2>4. SubSeq(text, i, m) \o SubSeq(text, m + 1, j) = SubSeq(text, i, j)
    BY <2>1, <2>3, ConcatAdjacentSubSeq
  <2> QED BY <2>2, <2>4 DEF Text
<1> QED BY <1>2, <1>4, NoTagAfterRefusal

\* In a settled text every tag has its < inside an earlier candidate.
LEMMA SettledHasOnlyCutTags ==
  ASSUME NEW text \in Text, NEW closing \in BOOLEAN, Settled(text, closing)
  PROVE  OnlyCutTags(text, closing)
<1> SUFFICES ASSUME NEW i \in 1..Len(text), NEW j \in i..Len(text), TagAt(text, i, j, closing),
                    ~CutsCandidate(text, i, closing)
             PROVE  FALSE
  BY DEF OnlyCutTags, Text
<1>1. PICK m \in i..Len(text) :
        /\ ~ \E full \in FullTags(closing) : IsPrefix(Canonical(SubSeq(text, i, m)), full)
        /\ \A k \in i..m : Canonical(SubSeq(text, i, k)) \notin FullTags(closing)
  BY DEF Settled, Accounted, RefutedAt, TagAt
<1> QED BY <1>1, TagBehindRefusal

\* What is accounted for stays so when the text goes on.
LEMMA AccountedStays ==
  ASSUME NEW s \in Text, NEW t \in Text, NEW closing, NEW i \in 1..Len(s), Accounted(s, i, closing)
  PROVE  Accounted(s \o t, i, closing)
<1>1. s \in Seq(Char) /\ t \in Seq(Char) /\ s \o t \in Seq(Char) /\ Len(s \o t) = Len(s) + Len(t)
      /\ Len(s) \in Nat /\ Len(t) \in Nat
  BY DEF Text
<1>2. \A k \in 1..Len(s) : (s \o t)[k] = s[k]
  BY <1>1
<1>3. ASSUME NEW a \in 1..Len(s), NEW b \in 0..Len(s) PROVE SubSeq(s \o t, a, b) = SubSeq(s, a, b)
  BY <1>1, <1>3
<1>4. ASSUME CutsCandidate(s, i, closing) PROVE CutsCandidate(s \o t, i, closing)
  <2>1. PICK k \in 1..(i - 1) :
          s[k] = "<" /\ \E full \in FullTags(closing) : IsPrefix(Canonical(SubSeq(s, k, i - 1)), full)
    BY <1>4 DEF CutsCandidate
  <2>2. k \in 1..Len(s) /\ i - 1 \in 0..Len(s)
    BY <1>1
  <2>3. (s \o t)[k] = "<" /\ SubSeq(s \o t, k, i - 1) = SubSeq(s, k, i - 1)
    BY <1>2, <1>3, <2>1, <2>2
  <2> QED BY <2>1, <2>3 DEF CutsCandidate
<1>5. ASSUME RefutedAt(s, i, closing) PROVE RefutedAt(s \o t, i, closing)
  <2>1. PICK m \in i..Len(s) :
          /\ ~ \E full \in FullTags(closing) : IsPrefix(Canonical(SubSeq(s, i, m)), full)
          /\ \A j \in i..m : Canonical(SubSeq(s, i, j)) \notin FullTags(closing)
    BY <1>5 DEF RefutedAt
  <2>2. ASSUME NEW j \in i..m PROVE SubSeq(s \o t, i, j) = SubSeq(s, i, j)
    <3>1. j \in 0..Len(s)
      BY <1>1
    <3> QED BY <1>3, <3>1
  <2>3. m \in i..m /\ m \in i..Len(s \o t)
    BY <1>1
  <2>4. SubSeq(s \o t, i, m) = SubSeq(s, i, m)
    BY <2>2, <2>3
  <2> QED BY <2>1, <2>2, <2>3, <2>4 DEF RefutedAt
<1>6. (s \o t)[i] = s[i]
  BY <1>2
<1> QED BY <1>4, <1>5, <1>6 DEF Accounted

\* A candidate's beginning, found again behind a text.
LEMMA BeginningInPlace ==
  ASSUME NEW s \in Text, NEW c \in Text, NEW m \in 1..Len(c)
  PROVE  /\ Len(s) + 1 \in 1..Len(s \o c) /\ Len(s) + m \in (Len(s) + 1)..Len(s \o c)
         /\ (s \o c)[Len(s) + 1] = c[1]
         /\ SubSeq(s \o c, Len(s) + 1, Len(s) + m) = SubSeq(c, 1, m)
<1>1. s \in Seq(Char) /\ c \in Seq(Char) /\ Len(s) \in Nat /\ Len(c) \in Nat /\ Len(s \o c) = Len(s) + Len(c)
  BY DEF Text
<1>2. Len(s) + 1 \in Len(s) + 1 .. Len(s) + Len(c) /\ Len(s) + m \in Len(s) + 1 .. Len(s) + Len(c)
  BY <1>1
<1>3. SubSeq(s \o c, Len(s) + 1, Len(s) + m) = SubSeq(c, (Len(s) + 1) - Len(s), (Len(s) + m) - Len(s))
  BY <1>1, <1>2, SubSeqOfConcat2
<1>4. (Len(s) + 1) - Len(s) = 1 /\ (Len(s) + m) - Len(s) = m
  BY <1>1
<1>5. (s \o c)[Len(s) + 1] = c[1]
  BY <1>1
<1> QED BY <1>1, <1>2, <1>3, <1>4, <1>5

\* Behind its first character, a candidate that waited holds only a "<" that
\* cuts it short.
LEMMA CutsWaiting ==
  ASSUME NEW s \in Text, NEW c \in Text, NEW p \in Text, NEW closing \in BOOLEAN,
         Waits(p, closing), p # <<>>, NEW q \in 2..Len(c), q - 1 <= Len(p),
         SubSeq(c, 1, q - 1) = SubSeq(p, 1, q - 1), c[1] = p[1]
  PROVE  CutsCandidate(s \o c, Len(s) + q, closing)
<1>1. Len(s) \in Nat /\ Len(c) \in Nat /\ Len(p) \in Nat
  BY DEF Text
<1>2. q - 1 \in 1..Len(c) /\ q - 1 \in 1..Len(p)
  BY <1>1
<1>3. c[1] = "<" /\ \E full \in FullTags(closing) : IsPrefix(Canonical(SubSeq(c, 1, q - 1)), full)
  BY <1>2 DEF Waits
<1>4. /\ (s \o c)[Len(s) + 1] = c[1]
      /\ SubSeq(s \o c, Len(s) + 1, Len(s) + (q - 1)) = SubSeq(c, 1, q - 1)
  BY <1>2, BeginningInPlace
<1>5. Len(s) + (q - 1) = (Len(s) + q) - 1 /\ Len(s) + 1 \in 1..((Len(s) + q) - 1)
  BY <1>1
<1> QED BY <1>3, <1>4, <1>5 DEF CutsCandidate

\* The positions of a text made of two.
LEMMA PositionsOfConcat ==
  ASSUME NEW s \in Text, NEW c \in Text, NEW i \in 1..Len(s \o c), i \notin 1..Len(s)
  PROVE  \E q \in 1..Len(c) : i = Len(s) + q
<1>1. Len(s) \in Nat /\ Len(c) \in Nat /\ Len(s \o c) = Len(s) + Len(c)
  BY DEF Text
<1>2. i - Len(s) \in 1..Len(c) /\ i = Len(s) + (i - Len(s))
  BY <1>1
<1> QED BY <1>2

\* A text stays settled with a character that begins no tag, and with a refused candidate.
LEMMA SettledWithLetter ==
  ASSUME NEW s \in Text, NEW ch \in Char, ch # "<", NEW closing \in BOOLEAN, Settled(s, closing)
  PROVE  Settled(s \o <<ch>>, closing)
<1>1. <<ch>> \in Text /\ Len(<<ch>>) = 1
  BY DEF Text
<1>2. ASSUME NEW i \in 1..Len(s \o <<ch>>) PROVE Accounted(s \o <<ch>>, i, closing)
  <2>1. CASE i \in 1..Len(s)
    BY <1>1, <2>1, AccountedStays DEF Settled
  <2>2. CASE i \notin 1..Len(s)
    <3>1. PICK q \in 1..Len(<<ch>>) : i = Len(s) + q
      BY <1>1, <2>2, PositionsOfConcat
    <3>2. i = Len(s) + 1
      BY <1>1, <3>1
    <3>3. (s \o <<ch>>)[Len(s) + 1] = ch
      BY DEF Text
    <3> QED BY <3>2, <3>3 DEF Accounted
  <2> QED BY <2>1, <2>2
<1> QED BY <1>2 DEF Settled

\* What joins a candidate that waited.
LEMMA JoinsCandidate ==
  ASSUME NEW p \in Text, NEW ch \in Char
  PROVE  /\ Append(p, ch) \in Text /\ Len(Append(p, ch)) = Len(p) + 1 /\ Len(p) \in Nat
         /\ \A m \in 1..Len(p) : SubSeq(Append(p, ch), 1, m) = SubSeq(p, 1, m)
         /\ SubSeq(Append(p, ch), 1, Len(p) + 1) = Append(p, ch)
         /\ p # <<>> => Append(p, ch)[1] = p[1]
BY DEF Text

LEMMA SettledWithRefused ==
  ASSUME NEW s \in Text, NEW p \in Text, NEW ch \in Char, NEW closing \in BOOLEAN,
         Settled(s, closing), Waits(p, closing), p # <<>>,
         Classify(Append(p, ch), closing) = "no"
  PROVE  Settled(s \o Append(p, ch), closing)
<1> DEFINE c == Append(p, ch)
           text == s \o c
<1>1. /\ c \in Text /\ Len(c) = Len(p) + 1 /\ Len(p) \in Nat /\ Len(s) \in Nat /\ c[1] = p[1]
      /\ \A m \in 1..Len(p) : SubSeq(c, 1, m) = SubSeq(p, 1, m)
      /\ SubSeq(c, 1, Len(p) + 1) = c
  BY JoinsCandidate DEF Text
<1>2. /\ Canonical(c) \notin FullTags(closing)
      /\ ~ \E full \in FullTags(closing) : IsPrefix(Canonical(c), full)
  BY DEF Classify
<1> HIDE DEF c
<1>3. RefutedAt(text, Len(s) + 1, closing)
  <2> DEFINE last == Len(s) + Len(c)
  <2>1. /\ last \in (Len(s) + 1)..Len(text)
        /\ SubSeq(text, Len(s) + 1, last) = c
    <3>1. Len(c) \in 1..Len(c)
      BY <1>1
    <3> QED BY ZenonT(40), <1>1, <3>1, BeginningInPlace
  <2>2. ASSUME NEW j \in (Len(s) + 1)..last
        PROVE  Canonical(SubSeq(text, Len(s) + 1, j)) \notin FullTags(closing)
    <3>1. j - Len(s) \in 1..Len(c) /\ j = Len(s) + (j - Len(s))
      BY <1>1
    <3>2. SubSeq(text, Len(s) + 1, j) = SubSeq(c, 1, j - Len(s))
      BY <1>1, <3>1, BeginningInPlace
    <3>3. CASE j - Len(s) \in 1..Len(p)
      <4>1. SubSeq(c, 1, j - Len(s)) = SubSeq(p, 1, j - Len(s))
        BY <1>1, <3>3
      <4> QED BY <3>2, <3>3, <4>1 DEF Waits
    <3>4. CASE j - Len(s) \notin 1..Len(p)
      <4>1. j - Len(s) = Len(p) + 1
        BY <1>1, <3>1, <3>4
      <4> QED BY <1>1, <1>2, <3>2, <4>1
    <3> QED BY <3>3, <3>4
  <2> QED BY <1>2, <2>1, <2>2 DEF RefutedAt
<1>4. ASSUME NEW q \in 1..Len(c) PROVE Accounted(text, Len(s) + q, closing)
  <2>1. CASE q = 1
    BY <1>3, <2>1 DEF Accounted
  <2>2. CASE q # 1
    <3>1. q \in 2..Len(c) /\ q - 1 <= Len(p) /\ q - 1 \in 1..Len(p)
      BY <1>1, <2>2
    <3>2. SubSeq(c, 1, q - 1) = SubSeq(p, 1, q - 1)
      BY <1>1, <3>1
    <3>3. CutsCandidate(text, Len(s) + q, closing)
      BY <1>1, <3>1, <3>2, CutsWaiting
    <3> QED BY <3>3 DEF Accounted
  <2> QED BY <2>1, <2>2
<1>5. ASSUME NEW i \in 1..Len(text) PROVE Accounted(text, i, closing)
  <2>1. CASE i \in 1..Len(s)
    BY <1>1, <2>1, AccountedStays DEF Settled
  <2>2. CASE i \notin 1..Len(s)
    <3>1. PICK q \in 1..Len(c) : i = Len(s) + q
      BY <1>1, <2>2, PositionsOfConcat
    <3> QED BY <1>4, <3>1
  <2> QED BY <2>1, <2>2
<1> QED BY <1>5 DEF Settled, c

\* A candidate that is given back undecided is no tag either.
LEMMA FlushedHasOnlyCutTags ==
  ASSUME NEW s \in Text, NEW p \in Text, NEW closing \in BOOLEAN,
         Settled(s, closing), Waits(p, closing)
  PROVE  OnlyCutTags(s \o p, closing)
<1> DEFINE text == s \o p
<1>0. text \in Text /\ Len(s) \in Nat /\ Len(p) \in Nat /\ Len(text) = Len(s) + Len(p)
  BY DEF Text
<1>1. CASE p = <<>>
  <2>1. text = s
    BY <1>1 DEF Text
  <2> QED BY <2>1, SettledHasOnlyCutTags
<1>2. CASE p # <<>>
  <2> SUFFICES ASSUME NEW i \in 1..Len(text), NEW j \in i..Len(text), TagAt(text, i, j, closing),
                      ~CutsCandidate(text, i, closing)
               PROVE  FALSE
    BY <1>0 DEF OnlyCutTags, Text
  <2>1. CASE i \in 1..Len(s)
    <3>1. Accounted(text, i, closing)
      BY <2>1, AccountedStays DEF Settled
    <3>2. PICK m \in i..Len(text) :
            /\ ~ \E full \in FullTags(closing) : IsPrefix(Canonical(SubSeq(text, i, m)), full)
            /\ \A k \in i..m : Canonical(SubSeq(text, i, k)) \notin FullTags(closing)
      BY <3>1 DEF Accounted, RefutedAt, TagAt
    <3> QED BY <1>0, <3>2, TagBehindRefusal
  <2>2. CASE i \notin 1..Len(s)
    <3>1. PICK q \in 1..Len(p) : i = Len(s) + q
      BY <1>0, <2>2, PositionsOfConcat
    <3>2. CASE q = 1
      <4>1. j - Len(s) \in 1..Len(p) /\ j = Len(s) + (j - Len(s))
        BY <1>0, <3>1, <3>2
      <4>2. SubSeq(text, i, j) = SubSeq(p, 1, j - Len(s))
        BY <3>1, <3>2, <4>1, BeginningInPlace
      <4> QED BY <1>2, <4>1, <4>2 DEF TagAt, Waits
    <3>3. CASE q # 1
      <4>1. q \in 2..Len(p) /\ q - 1 <= Len(p)
        BY <1>0, <3>3
      <4> QED BY <1>2, <3>1, <4>1, CutsWaiting
    <3> QED BY <3>2, <3>3
  <2> QED BY <2>1, <2>2
<1> QED BY <1>1, <1>2

\* A candidate that may still become a tag goes on waiting.
LEMMA WaitsLonger ==
  ASSUME NEW p \in Text, NEW ch \in Char, NEW closing \in BOOLEAN,
         Waits(p, closing), p # <<>>, Classify(Append(p, ch), closing) = "possible"
  PROVE  Waits(Append(p, ch), closing)
<1> DEFINE c == Append(p, ch)
<1>1. /\ c \in Text /\ Len(c) = Len(p) + 1 /\ Len(p) \in Nat /\ c[1] = p[1]
      /\ \A m \in 1..Len(p) : SubSeq(c, 1, m) = SubSeq(p, 1, m)
      /\ SubSeq(c, 1, Len(p) + 1) = c
  BY JoinsCandidate
<1>2. /\ Canonical(c) \notin FullTags(closing)
      /\ \E full \in FullTags(closing) : IsPrefix(Canonical(c), full)
  BY DEF Classify
<1> HIDE DEF c
<1>3. ASSUME NEW m \in 1..Len(c)
      PROVE  /\ Canonical(SubSeq(c, 1, m)) \notin FullTags(closing)
             /\ \E full \in FullTags(closing) : IsPrefix(Canonical(SubSeq(c, 1, m)), full)
  <2>1. CASE m \in 1..Len(p)
    <3>1. SubSeq(c, 1, m) = SubSeq(p, 1, m)
      BY <1>1, <2>1
    <3> QED BY <2>1, <3>1 DEF Waits
  <2>2. CASE m \notin 1..Len(p)
    <3>1. m = Len(p) + 1
      BY <1>1, <2>2
    <3> QED BY <1>1, <1>2, <3>1
  <2> QED BY <2>1, <2>2
<1> QED BY <1>1, <1>3 DEF Waits, c

\* A lone < waits, and nothing at all is settled and waits.
LEMMA WaitsFirst ==
  ASSUME "<" \in Char, Tags # {}, NEW closing \in BOOLEAN PROVE Waits(<<"<">>, closing)
<1>1. ASSUME NEW m \in 1..Len(<<"<">>) PROVE SubSeq(<<"<">>, 1, m) = <<"<">>
  <2>1. m = Len(<<"<">>) /\ <<"<">> \in Seq(Char)
    OBVIOUS
  <2> QED BY <2>1, SubSeqFull
<1>2. <<"<">>[1] = "<"
  OBVIOUS
<1> QED BY <1>1, <1>2, OpensCandidate DEF Waits

\* While the stream goes on, everything it passed on is settled; what it ended
\* with is not, but nothing is added to that.
CutInv ==
  /\ Waits(pending, inside)
  /\ OnlyCutTags(shown, FALSE)
  /\ ~ended => Settled(shown, FALSE)
  /\ \A text \in ToSet(thought) \cup ToSet(completed) : Settled(text, TRUE)

LEMMA NothingIsSettled == ASSUME NEW closing \in BOOLEAN PROVE Settled(<<>>, closing) /\ OnlyCutTags(<<>>, closing)
BY DEF Settled, OnlyCutTags

\* The texts of an optional text.
LEMMA OptionTexts ==
  /\ ToSet(None) = {}
  /\ \A text : ToSet(Some(text)) = {text}
BY DEF ToSet, None, Some

LEMMA NothingWaits == ASSUME NEW closing PROVE Waits(<<>>, closing)
BY DEF Waits

\* The initial states satisfy CutInv.
LEMMA CutInit == Init => CutInv
<1> SUFFICES ASSUME Init PROVE CutInv
  OBVIOUS
<1>1. pending = <<>> /\ shown = <<>> /\ thought = None /\ completed = None
  BY DEF Init
<1> QED BY <1>1, NothingIsSettled, OptionTexts, NothingWaits DEF CutInv

\* Every step preserves CutInv.
LEMMA CutNext ==
  ASSUME Tags # {}, TypeOK, BufferFollowsInside, PlainInv, CutInv, [Next]_vars
  PROVE  CutInv'
<1>t. /\ pending \in Text /\ shown \in Text /\ inside \in BOOLEAN /\ TRUE \in BOOLEAN /\ FALSE \in BOOLEAN
      /\ IsOptional(thought) /\ IsOptional(completed)
  BY DEF TypeOK, IsOptional
<1>c. ASSUME Consume PROVE ~ended /\ ~ended' /\ Ch \in Char /\ Candidate = Append(pending, Ch) /\ Candidate \in Text
  BY <1>c, ConsumeTypes DEF Consume, PlainInv, Candidate
<1>1. CASE Feed
  <2>1. pending' = pending /\ inside' = inside /\ thought' = thought /\ completed' = completed
    BY <1>1 DEF Feed, filter
  <2>2. CASE ended
    <3>1. shown' = <<>>
      BY <1>1, <2>2 DEF Feed
    <3> QED BY <2>1, <3>1, NothingIsSettled DEF CutInv
  <2>3. CASE ~ended
    <3>1. shown' = shown
      BY <1>1, <2>3 DEF Feed
    <3> QED BY <2>1, <2>3, <3>1 DEF CutInv
  <2> QED BY <2>2, <2>3
<1>2. CASE PassOutside
  <2>1. Consume /\ inside = FALSE /\ inside' = FALSE /\ pending = <<>> /\ thought' = thought /\ completed' = completed
    BY <1>2, <1>t DEF PassOutside
  <2>2. CASE Ch = "<"
    <3>1. pending' = <<"<">> /\ shown' = shown
      BY <1>2, <2>2 DEF PassOutside
    <3>2. Waits(pending', inside')
      BY <1>c, <2>1, <2>2, <3>1, WaitsFirst
    <3> QED BY <1>c, <2>1, <3>1, <3>2 DEF CutInv
  <2>3. CASE Ch # "<"
    <3>1. pending' = <<>> /\ shown' = Append(shown, Ch)
      BY <1>2, <2>1, <2>3 DEF PassOutside
    <3>2. Append(shown, Ch) = shown \o <<Ch>> /\ shown' \in Text
      BY <1>c, <1>t, <2>1, <3>1 DEF Text
    <3>3. Settled(shown', FALSE)
      BY <1>c, <1>t, <2>1, <2>3, <3>1, <3>2, SettledWithLetter DEF CutInv
    <3>4. OnlyCutTags(shown', FALSE)
      BY <1>t, <3>2, <3>3, SettledHasOnlyCutTags
    <3> QED BY <2>1, <3>1, <3>3, <3>4, NothingWaits DEF CutInv
  <2> QED BY <2>2, <2>3
<1>3. CASE ResolveOutside
  <2>1. Consume /\ inside = FALSE /\ pending # <<>> /\ completed' = completed
    BY <1>3, <1>t DEF ResolveOutside
  <2>2. Waits(pending, FALSE) /\ Settled(shown, FALSE)
    BY <1>c, <2>1 DEF CutInv
  <2>3. CASE Classify(Candidate, FALSE) = "complete"
    <3>1. pending' = <<>> /\ shown' = shown /\ thought' = Some(<<>>)
      BY <1>3, <2>3 DEF ResolveOutside
    <3>2. \A text \in ToSet(thought') \cup ToSet(completed') : Settled(text, TRUE)
      <4>1. ToSet(thought') = {<<>>} /\ ToSet(completed') = ToSet(completed)
        BY <2>1, <3>1, OptionTexts
      <4>2. Settled(<<>>, TRUE)
        BY <1>t, NothingIsSettled
      <4> QED BY <4>1, <4>2 DEF CutInv
    <3> QED BY <2>2, <3>1, <3>2, NothingWaits DEF CutInv
  <2>4. CASE Classify(Candidate, FALSE) = "possible"
    <3>1. pending' = Candidate /\ inside' = FALSE /\ shown' = shown /\ thought' = thought
      BY <1>3, <2>4 DEF ResolveOutside
    <3>2. Waits(Candidate, FALSE)
      BY <1>c, <1>t, <2>1, <2>2, <2>4, WaitsLonger
    <3> QED BY <2>1, <2>2, <3>1, <3>2 DEF CutInv
  <2>5. CASE Classify(Candidate, FALSE) = "no"
    <3>1. pending' = <<>> /\ shown' = shown \o Candidate /\ thought' = thought
      BY <1>3, <2>5 DEF ResolveOutside
    <3>2. Settled(shown \o Candidate, FALSE)
      BY <1>c, <1>t, <2>1, <2>2, <2>5, SettledWithRefused
    <3>3. OnlyCutTags(shown', FALSE)
      BY <1>t, <1>c, <2>1, <3>1, <3>2, ConsumeTypes, SettledHasOnlyCutTags
    <3> QED BY <2>1, <3>1, <3>2, <3>3, NothingWaits DEF CutInv
  <2> QED BY <2>3, <2>4, <2>5 DEF Classify
<1>4. CASE PassInside
  <2>1. Consume /\ inside = TRUE /\ inside' = TRUE /\ pending = <<>> /\ completed' = completed /\ shown' = shown /\ ~ended /\ ~ended'
    BY <1>4, <1>t, <1>c DEF PassInside
  <2>2. thought # None /\ thought[1] \in Text /\ thought = Some(thought[1])
    BY <1>t, <2>1, OptionalCases DEF BufferFollowsInside
  <2>3. Settled(thought[1], TRUE)
    BY <2>2, OptionTexts DEF CutInv
  <2>4. CASE Ch = "<"
    <3>1. pending' = <<"<">> /\ thought' = thought
      BY <1>4, <2>4 DEF PassInside
    <3>2. Waits(pending', inside')
      BY <1>c, <2>1, <2>4, <3>1, WaitsFirst
    <3> QED BY <2>1, <3>1, <3>2 DEF CutInv
  <2>5. CASE Ch # "<"
    <3>1. pending' = <<>> /\ thought' = Some(thought[1] \o <<Ch>>)
      BY <1>4, <2>1, <2>2, <2>5 DEF PassInside, Extended
    <3>2. Settled(thought[1] \o <<Ch>>, TRUE)
      BY <1>c, <1>t, <2>1, <2>2, <2>3, <2>5, SettledWithLetter
    <3>3. \A text \in ToSet(thought') \cup ToSet(completed') : Settled(text, TRUE)
      <4>1. ToSet(thought') = {thought[1] \o <<Ch>>} /\ ToSet(completed') = ToSet(completed)
        BY <2>1, <3>1, OptionTexts
      <4> QED BY <3>2, <4>1 DEF CutInv
    <3> QED BY <2>1, <3>1, <3>3, NothingWaits DEF CutInv
  <2> QED BY <2>4, <2>5
<1>5. CASE ResolveInside
  <2>1. Consume /\ inside = TRUE /\ pending # <<>> /\ shown' = shown /\ ~ended /\ ~ended'
    BY <1>5, <1>t, <1>c DEF ResolveInside
  <2>2. Waits(pending, TRUE)
    BY <2>1 DEF CutInv
  <2>3. thought # None /\ thought[1] \in Text /\ thought = Some(thought[1])
    BY <1>t, <2>1, OptionalCases DEF BufferFollowsInside
  <2>4. Settled(thought[1], TRUE)
    BY <2>3, OptionTexts DEF CutInv
  <2>5. CASE Classify(Candidate, TRUE) = "complete"
    <3>1. pending' = <<>> /\ thought' = None /\ completed' = thought
      BY <1>5, <2>5 DEF ResolveInside
    <3>2. \A text \in ToSet(thought') \cup ToSet(completed') : Settled(text, TRUE)
      BY <3>1, OptionTexts DEF CutInv
    <3> QED BY <2>1, <3>1, <3>2, NothingWaits DEF CutInv
  <2>6. CASE Classify(Candidate, TRUE) = "possible"
    <3>1. pending' = Candidate /\ inside' = TRUE /\ thought' = thought /\ completed' = completed
      BY <1>5, <2>6 DEF ResolveInside
    <3>2. Waits(Candidate, TRUE)
      BY <1>c, <1>t, <2>1, <2>2, <2>6, WaitsLonger
    <3> QED BY <2>1, <3>1, <3>2 DEF CutInv
  <2>7. CASE Classify(Candidate, TRUE) = "no"
    <3>1. pending' = <<>> /\ thought' = Some(thought[1] \o Candidate) /\ completed' = completed
      BY <1>5, <2>3, <2>7 DEF ResolveInside, Extended
    <3>2. Settled(thought[1] \o Candidate, TRUE)
      BY <1>c, <1>t, <2>1, <2>2, <2>3, <2>4, <2>7, SettledWithRefused
    <3>3. \A text \in ToSet(thought') \cup ToSet(completed') : Settled(text, TRUE)
      <4>1. ToSet(thought') = {thought[1] \o Candidate} /\ ToSet(completed') = ToSet(completed)
        BY <3>1, OptionTexts
      <4> QED BY <3>2, <4>1 DEF CutInv
    <3> QED BY <2>1, <3>1, <3>3, NothingWaits DEF CutInv
  <2> QED BY <2>5, <2>6, <2>7 DEF Classify
<1>6. CASE TakeCompleted
  BY <1>6, OptionTexts DEF TakeCompleted, CutInv
<1>7. CASE Flush
  <2>1. pending' = <<>> /\ ended' /\ completed' = None
    BY <1>7 DEF Flush
  <2>2. OnlyCutTags(shown', FALSE)
    <3>1. CASE inside \/ ended
      <4>1. shown' = shown
        <5>1. CASE inside
          BY <1>7, <5>1 DEF Flush
        <5>2. CASE ~inside
          <6>1. pending = <<>> /\ shown' = shown \o pending
            BY <1>7, <3>1, <5>2 DEF Flush, PlainInv
          <6> QED BY <1>t, <6>1 DEF Text
        <5> QED BY <5>1, <5>2
      <4> QED BY <4>1 DEF CutInv
    <3>2. CASE ~inside /\ ~ended
      <4>1. shown' = shown \o pending /\ Waits(pending, FALSE) /\ Settled(shown, FALSE)
        BY <1>7, <1>t, <3>2 DEF Flush, CutInv
      <4> QED BY <1>t, <4>1, FlushedHasOnlyCutTags
    <3> QED BY <3>1, <3>2
  <2>3. \A text \in ToSet(thought') : Settled(text, TRUE)
    <3>1. thought' = None \/ thought' = thought
      BY <1>7 DEF Flush
    <3> QED BY <3>1, OptionTexts DEF CutInv
  <2> QED BY <2>1, <2>2, <2>3, OptionTexts, NothingWaits DEF CutInv
<1>8. CASE Reset
  <2>1. pending' = <<>> /\ shown' = <<>> /\ thought' = None /\ completed' = None
    BY <1>8 DEF Reset
  <2> QED BY <2>1, NothingIsSettled, OptionTexts, NothingWaits DEF CutInv
<1>9. CASE UNCHANGED vars
  BY <1>9 DEF vars, filter, stream, CutInv
<1> QED
  BY <1>1, <1>2, <1>3, <1>4, <1>5, <1>6, <1>7, <1>8, <1>9 DEF Next

\* However the stream is cut, a tag gets into the visible text, or a closing
\* one into a thought, only where its "<" cut another candidate short: a tag
\* that begins afresh is always recognised.
THEOREM TagsAreRecognised == Spec => []VisibleTagHasCause
<1>1. CASE Tags = {}
  <2>1. VisibleTagHasCause
    BY <1>1 DEF VisibleTagHasCause, OnlyCutTags, TagAt, FullTags
  <2> QED BY <2>1, PTL
<1>2. CASE Tags # {}
  <2>1. TypeOK /\ CutInv => VisibleTagHasCause
    <3> SUFFICES ASSUME TypeOK, CutInv, NEW text \in ToSet(thought) \cup ToSet(completed)
                 PROVE  OnlyCutTags(text, TRUE)
      BY DEF CutInv, VisibleTagHasCause
    <3>1. text \in Text
      BY DEF TypeOK, ToSet
    <3> QED BY <3>1, SettledHasOnlyCutTags DEF CutInv
  <2>2. TypeOK /\ BufferFollowsInside /\ PlainInv /\ CutInv /\ [Next]_vars => CutInv'
    BY <1>2, CutNext
  <2> QED
    BY <2>1, <2>2, TypesInit, TypesNext, BufferInit, BufferNext, PlainInit, PlainNext, CutInit,
       PTL DEF Spec
<1> QED BY <1>1, <1>2

-----------------------------------------------------------------------------
(* Thoughts and the stream they were cut from.                              *)

\* A whole candidate that is a tag.
IsTag(tag, closing) == tag # <<>> /\ tag[1] = "<" /\ Canonical(tag) \in FullTags(closing)

\* A text keeps the tags it has, and what they enclose, as it grows.
LEMMA TagAtStays ==
  ASSUME NEW f \in Text, NEW ch \in Char, NEW closing,
         NEW i \in 1..Len(f), NEW j \in i..Len(f), TagAt(f, i, j, closing)
  PROVE  TagAt(Append(f, ch), i, j, closing)
<1>1. f \in Seq(Char) /\ Len(f) \in Nat
  BY DEF Text
<1>2. Append(f, ch)[i] = f[i] /\ SubSeq(Append(f, ch), i, j) = SubSeq(f, i, j)
  BY <1>1
<1> QED BY <1>2 DEF TagAt

LEMMA EnclosedStays ==
  ASSUME NEW f \in Text, NEW ch \in Char, NEW text \in Text, Enclosed(text, f)
  PROVE  Enclosed(text, Append(f, ch))
<1>g. PICK g : g = Append(f, ch)
  OBVIOUS
<1>1. f \in Seq(Char) /\ Len(f) \in Nat /\ g \in Seq(Char) /\ Len(g) = Len(f) + 1 /\ Len(text) \in Nat
  BY <1>g DEF Text
<1>0. PICK i \in DOMAIN f :
        \E j \in i..Len(f) :
          /\ TagAt(f, i, j, FALSE)
          /\ j + Len(text) < Len(f)
          /\ SubSeq(f, j + 1, j + Len(text)) = text
          /\ \E k \in (j + Len(text) + 1)..Len(f) : TagAt(f, j + Len(text) + 1, k, TRUE)
  BY DEF Enclosed
<1>2. PICK j \in i..Len(f) :
        /\ TagAt(f, i, j, FALSE)
        /\ j + Len(text) < Len(f)
        /\ SubSeq(f, j + 1, j + Len(text)) = text
        /\ \E k \in (j + Len(text) + 1)..Len(f) : TagAt(f, j + Len(text) + 1, k, TRUE)
  BY <1>0
<1>3. PICK k \in (j + Len(text) + 1)..Len(f) : TagAt(f, j + Len(text) + 1, k, TRUE)
  BY <1>2
<1>4. i \in 1..Len(f) /\ j + Len(text) + 1 \in 1..Len(f)
  BY <1>1, <1>2
<1>5. TagAt(g, i, j, FALSE) /\ TagAt(g, j + Len(text) + 1, k, TRUE)
  BY <1>g, <1>2, <1>3, <1>4, TagAtStays
<1>6. SubSeq(g, j + 1, j + Len(text)) = SubSeq(f, j + 1, j + Len(text))
  BY <1>g, <1>1, <1>2, <1>4
<1>7. i \in DOMAIN g /\ j \in i..Len(g) /\ j + Len(text) < Len(g) /\ k \in (j + Len(text) + 1)..Len(g)
  BY <1>1, <1>2, <1>4
<1>8. Enclosed(text, g)
  BY <1>2, <1>5, <1>6, <1>7 DEF Enclosed
<1> QED BY <1>g, <1>8

\* A tag at a place of a longer text.
LEMMA TagInPlace ==
  ASSUME NEW before \in Text, NEW tag \in Text, NEW after \in Text, NEW closing, IsTag(tag, closing)
  PROVE  TagAt(before \o (tag \o after), Len(before) + 1, Len(before) + Len(tag), closing)
<1>1. before \in Seq(Char) /\ tag \in Seq(Char) /\ after \in Seq(Char) /\ tag \o after \in Text
  BY DEF Text
<1>2. Len(tag) \in 1..Len(tag) /\ Len(tag) \in 1..Len(tag \o after) /\ tag # <<>>
  BY <1>1 DEF IsTag
<1>3. /\ (before \o (tag \o after))[Len(before) + 1] = (tag \o after)[1]
      /\ SubSeq(before \o (tag \o after), Len(before) + 1, Len(before) + Len(tag))
           = SubSeq(tag \o after, 1, Len(tag))
  BY <1>1, <1>2, BeginningInPlace
<1>4. (tag \o after)[1] = tag[1] /\ SubSeq(tag \o after, 1, Len(tag)) = tag
  BY <1>1, <1>2
<1> QED BY <1>3, <1>4 DEF TagAt, IsTag

\* Concatenation of texts is associative.
LEMMA TextsAssociate ==
  ASSUME NEW s \in Text, NEW t \in Text, NEW u \in Text
  PROVE  (s \o t) \o u = s \o (t \o u)
<1>1. s \in Seq(Char) /\ t \in Seq(Char) /\ u \in Seq(Char)
  BY DEF Text
<1> QED BY <1>1, ConcatAssociative

\* What stands between two tags is enclosed.
LEMMA EnclosedAtEnd ==
  ASSUME NEW before \in Text, NEW tag \in Text, NEW text \in Text, NEW close \in Text,
         IsTag(tag, FALSE), IsTag(close, TRUE)
  PROVE  Enclosed(text, (before \o tag) \o (text \o close))
<1>f. PICK f, i, j :
        /\ f = (before \o tag) \o (text \o close)
        /\ i = Len(before) + 1
        /\ j = Len(before) + Len(tag)
  OBVIOUS
<1>1. /\ before \in Seq(Char) /\ tag \in Seq(Char) /\ text \in Seq(Char) /\ close \in Seq(Char)
      /\ Len(before) \in Nat /\ Len(tag) \in Nat \ {0} /\ Len(text) \in Nat /\ Len(close) \in Nat \ {0}
  BY DEF Text, IsTag
<1>2. text \o close \in Text /\ <<>> \in Text /\ close \o <<>> = close /\ (before \o tag) \o text \in Text
  BY <1>1 DEF Text
<1>3. /\ f = before \o (tag \o (text \o close))
      /\ f = ((before \o tag) \o text) \o (close \o <<>>)
  <2>1. (before \o tag) \o (text \o close) = before \o (tag \o (text \o close))
    BY SMTT(30), <1>2, TextsAssociate
  <2>2. (before \o tag) \o (text \o close) = ((before \o tag) \o text) \o close
    <3>1. before \o tag \in Text
      BY <1>1 DEF Text
    <3> QED BY <3>1, TextsAssociate
  <2> QED BY <1>f, <1>2, <2>1, <2>2
<1>4. TagAt(f, i, j, FALSE)
  BY <1>f, <1>2, <1>3, TagInPlace
<1>5. Len((before \o tag) \o text) = j + Len(text)
  BY <1>f, <1>1
<1>6. Len(f) = j + Len(text) + Len(close) /\ i \in 1..Len(f) /\ j \in i..Len(f) /\ DOMAIN f = 1..Len(f)
  BY <1>f, <1>1
<1>7. TagAt(f, j + Len(text) + 1, j + Len(text) + Len(close), TRUE)
  BY <1>2, <1>3, <1>5, TagInPlace
<1>8. SubSeq(f, j + 1, j + Len(text)) = text
  <2>1. CASE text = <<>>
    <3>1. Len(text) = 0 /\ j \in Nat
      BY <1>f, <1>1, <2>1
    <3>2. j + 1 \in Int /\ j + Len(text) \in Int /\ j + Len(text) < j + 1
      BY <3>1
    <3> QED BY <2>1, <3>2, SubSeqEmpty
  <2>2. CASE text # <<>>
    <3>1. Len(text) \in 1..Len(text) /\ Len(text) \in 1..Len(text \o close)
      BY <1>1, <2>2
    <3>2. Len(before \o tag) = j /\ before \o tag \in Text
      BY <1>f, <1>1 DEF Text
    <3>3. SubSeq(f, j + 1, j + Len(text)) = SubSeq(text \o close, 1, Len(text))
      <4>1. SubSeq((before \o tag) \o (text \o close), Len(before \o tag) + 1, Len(before \o tag) + Len(text))
              = SubSeq(text \o close, 1, Len(text))
        BY <1>2, <3>1, <3>2, BeginningInPlace
      <4> QED BY <1>f, <3>2, <4>1
    <3>4. SubSeq(text \o close, 1, Len(text)) = text
      BY <1>1
    <3> QED BY <3>3, <3>4
  <2> QED BY <2>1, <2>2
<1>9. /\ j + Len(text) < Len(f)
      /\ j + Len(text) + Len(close) \in (j + Len(text) + 1)..Len(f)
  BY <1>1, <1>6
<1>10. Enclosed(text, f)
  BY <1>4, <1>6, <1>7, <1>8, <1>9 DEF Enclosed
<1> QED BY <1>f, <1>10

\* What waits is the end of the stream; inside a block, what was collected
\* stands before it and the opening tag before that.
WholeInv ==
  /\ ~inside => \E front \in Text : fed = front \o pending
  /\ inside => \E front \in Text, tag \in Text :
                 IsTag(tag, FALSE) /\ fed = (front \o tag) \o (thought[1] \o pending)
  /\ \A text \in taken \cup ToSet(completed) : Enclosed(text, fed)
  /\ ended => completed = None

\* The initial states satisfy WholeInv.
LEMMA WholeInit == Init => WholeInv
<1>1. <<>> \in Text /\ <<>> \o <<>> = <<>>
  BY DEF Text
<1> QED BY <1>1, OptionTexts DEF Init, WholeInv

\* Every step preserves WholeInv.
LEMMA WholeNext ==
  ASSUME TypeOK, BufferFollowsInside, PlainInv, WholeInv, [Next]_vars
  PROVE  WholeInv'
<1>t. /\ pending \in Text /\ fed \in Text /\ inside \in BOOLEAN /\ taken \subseteq Text
      /\ IsOptional(thought) /\ IsOptional(completed)
      /\ <<>> \in Text
      /\ \A s \in Text : s \o <<>> = s /\ <<>> \o s = s
  BY DEF TypeOK, IsOptional, Text
<1>c. ASSUME Consume
      PROVE  /\ ~ended /\ ~ended' /\ Ch \in Char /\ taken' = taken
             /\ Candidate = Append(pending, Ch) /\ Candidate \in Text
             /\ fed' = Append(fed, Ch) /\ fed' \in Text
             /\ \A text \in taken \cup ToSet(completed) : Enclosed(text, fed')
  <2>1. /\ ~ended /\ ~ended' /\ Ch \in Char /\ taken' = taken /\ fed' \in Text
        /\ Candidate = Append(pending, Ch) /\ Candidate \in Text /\ fed' = Append(fed, Ch)
    BY <1>c, ConsumeTypes DEF Consume, PlainInv, Candidate
  <2>2. ASSUME NEW text \in taken \cup ToSet(completed) PROVE Enclosed(text, fed')
    <3>1. text \in Text
      BY DEF TypeOK, ToSet
    <3>2. Enclosed(text, fed)
      BY DEF WholeInv
    <3> QED BY <1>t, <2>1, <3>1, <3>2, EnclosedStays
  <2> QED BY <2>1, <2>2
<1>o. ASSUME Consume, ~inside PROVE \E front \in Text : fed' = front \o Candidate
  <2>1. PICK front \in Text : fed = front \o pending
    BY <1>o DEF WholeInv
  <2>2. front \o Append(pending, Ch) = Append(front \o pending, Ch)
    BY <1>c, <1>o, <1>t, ConcatAppend DEF Text
  <2> QED BY <1>c, <1>o, <2>1, <2>2
<1>i. ASSUME Consume, inside
      PROVE  /\ thought # None /\ thought[1] \in Text /\ thought = Some(thought[1])
             /\ thought[1] \o Candidate \in Text
             /\ \E front \in Text, tag \in Text :
                  IsTag(tag, FALSE) /\ fed' = (front \o tag) \o (thought[1] \o Candidate)
  <2>1. PICK front \in Text, tag \in Text :
          IsTag(tag, FALSE) /\ fed = (front \o tag) \o (thought[1] \o pending)
    BY <1>i DEF WholeInv
  <2>2. thought # None /\ thought[1] \in Text /\ thought = Some(thought[1])
    BY <1>t, <1>i, OptionalCases DEF BufferFollowsInside
  <2>3. PICK t \in Text : t = thought[1]
    BY <2>2
  <2>4. t \o Append(pending, Ch) = Append(t \o pending, Ch) /\ t \o pending \in Text /\ front \o tag \in Text
    BY <1>c, <1>i, <1>t, ConcatAppend DEF Text
  <2>5. (front \o tag) \o Append(t \o pending, Ch) = Append((front \o tag) \o (t \o pending), Ch)
    BY SMTT(30), <1>c, <1>i, <2>4, ConcatAppend DEF Text
  <2>6. fed' = (front \o tag) \o (t \o Candidate)
    BY <1>c, <1>i, <2>1, <2>3, <2>4, <2>5
  <2>7. t \o Candidate \in Text
    BY <1>c, <1>i DEF Text
  <2> QED BY <2>1, <2>2, <2>3, <2>6, <2>7
<1>1. CASE Feed
  <2>1. pending' = pending /\ inside' = inside /\ thought' = thought /\ completed' = completed /\ ~ended'
    BY <1>1 DEF Feed, filter
  <2>2. CASE ended
    <3>1. fed' = <<>> /\ taken' = {} /\ pending = <<>> /\ ~inside /\ completed = None
      BY <1>1, <2>2 DEF Feed, PlainInv, WholeInv
    <3>2. fed' = <<>> \o pending'
      BY <1>t, <2>1, <3>1
    <3>3. taken' \cup ToSet(completed') = {}
      BY <2>1, <3>1, OptionTexts
    <3> QED BY <1>t, <2>1, <3>1, <3>2, <3>3 DEF WholeInv
  <2>3. CASE ~ended
    <3>1. fed' = fed /\ taken' = taken
      BY <1>1, <2>3 DEF Feed
    <3> QED BY <2>1, <3>1 DEF WholeInv
  <2> QED BY <2>2, <2>3
<1>2. CASE PassOutside
  <2>1. Consume /\ ~inside /\ ~inside' /\ pending = <<>> /\ completed' = completed
    BY <1>2 DEF PassOutside
  <2>2. \E front \in Text : fed' = front \o pending'
    <3>1. CASE Ch = "<"
      <4>1. pending' = Candidate
        BY <1>2, <1>c, <2>1, <3>1 DEF PassOutside
      <4> QED BY <1>o, <2>1, <4>1
    <3>2. CASE Ch # "<"
      <4>1. pending' = <<>>
        BY <1>2, <2>1, <3>2 DEF PassOutside
      <4> QED BY <1>c, <1>t, <2>1, <4>1
    <3> QED BY <3>1, <3>2
  <2> QED BY <1>c, <2>1, <2>2 DEF WholeInv
<1>3. CASE ResolveOutside
  <2>1. Consume /\ ~inside /\ pending # <<>> /\ completed' = completed
    BY <1>3 DEF ResolveOutside
  <2>2. CASE Classify(Candidate, FALSE) = "complete"
    <3>1. inside' /\ pending' = <<>> /\ thought' = Some(<<>>)
      BY <1>3, <2>2 DEF ResolveOutside
    <3>2. IsTag(Candidate, FALSE)
      <4>1. pending[1] = "<" /\ Candidate # <<>> /\ Candidate[1] = pending[1]
        BY <1>c, <1>t, <2>1, JoinsCandidate DEF PlainInv, Text
      <4> QED BY <2>2, <4>1 DEF IsTag, Classify
    <3>3. PICK front \in Text : fed' = front \o Candidate
      BY <1>o, <2>1
    <3>4. thought'[1] = <<>> /\ front \o Candidate \in Text
      BY <1>c, <2>1, <3>1, <3>3 DEF Some
    <3>5. (front \o Candidate) \o (thought'[1] \o pending') = fed'
      BY <1>t, <3>1, <3>3, <3>4
    <3> QED BY <1>c, <2>1, <3>1, <3>2, <3>5 DEF WholeInv
  <2>3. CASE Classify(Candidate, FALSE) # "complete"
    <3>1. ~inside' /\ pending' \in {<<>>, Candidate}
      BY <1>3, <2>3 DEF ResolveOutside
    <3>2. \E front \in Text : fed' = front \o pending'
      <4>1. CASE pending' = <<>>
        BY <1>c, <1>t, <2>1, <4>1
      <4>2. CASE pending' = Candidate
        BY <1>o, <2>1, <4>2
      <4> QED BY <3>1, <4>1, <4>2
    <3> QED BY <1>c, <2>1, <3>1, <3>2 DEF WholeInv
  <2> QED BY <2>2, <2>3
<1>4. CASE PassInside
  <2>1. Consume /\ inside /\ inside' /\ pending = <<>> /\ completed' = completed
    BY <1>4 DEF PassInside
  <2>2. PICK t \in Text : t = thought[1]
    BY <1>i, <2>1
  <2>3. PICK front \in Text, tag \in Text :
          IsTag(tag, FALSE) /\ fed' = (front \o tag) \o (t \o Candidate)
    BY <1>i, <2>1, <2>2
  <2>4. thought'[1] \o pending' = t \o Candidate
    <3>1. CASE Ch = "<"
      <4>1. pending' = Candidate /\ thought' = thought
        BY <1>4, <1>c, <2>1, <3>1 DEF PassInside
      <4> QED BY <2>2, <4>1
    <3>2. CASE Ch # "<"
      <4>1. pending' = <<>> /\ thought' = Some(t \o <<Ch>>) /\ Candidate = <<Ch>>
        BY <1>4, <1>c, <1>i, <2>1, <2>2, <3>2 DEF PassInside, Extended
      <4>2. thought'[1] = t \o Candidate /\ t \o Candidate \in Text
        BY <1>i, <2>1, <2>2, <4>1 DEF Some
      <4> QED BY <1>t, <4>1, <4>2
    <3> QED BY <3>1, <3>2
  <2> QED BY <1>c, <2>1, <2>3, <2>4 DEF WholeInv
<1>5. CASE ResolveInside
  <2>1. Consume /\ inside /\ pending # <<>>
    BY <1>5 DEF ResolveInside
  <2>2. PICK t \in Text : t = thought[1]
    BY <1>i, <2>1
  <2>3. PICK front \in Text, tag \in Text :
          IsTag(tag, FALSE) /\ fed' = (front \o tag) \o (t \o Candidate)
    BY <1>i, <2>1, <2>2
  <2>4. CASE Classify(Candidate, TRUE) = "complete"
    <3>1. ~inside' /\ pending' = <<>> /\ completed' = thought
      BY <1>5, <2>4 DEF ResolveInside
    <3>2. IsTag(Candidate, TRUE)
      <4>1. pending[1] = "<" /\ Candidate # <<>> /\ Candidate[1] = pending[1]
        BY SMTT(30), <1>c, <1>t, <2>1, JoinsCandidate DEF PlainInv, Text
      <4> QED BY <2>4, <4>1 DEF IsTag, Classify
    <3>3. Enclosed(t, fed')
      BY <1>c, <2>1, <2>3, <3>2, EnclosedAtEnd
    <3>4. ToSet(completed') = {t}
      BY <1>i, <2>1, <2>2, <3>1, OptionTexts
    <3>5. \E f \in Text : fed' = f \o pending'
      BY <1>c, <1>t, <2>1, <3>1
    <3> QED BY <1>c, <2>1, <3>1, <3>3, <3>4, <3>5 DEF WholeInv
  <2>5. CASE Classify(Candidate, TRUE) # "complete"
    <3>1. inside' /\ completed' = completed
      BY <1>5, <2>5 DEF ResolveInside
    <3>2. thought'[1] \o pending' = t \o Candidate
      <4>1. CASE Classify(Candidate, TRUE) = "possible"
        <5>1. pending' = Candidate /\ thought' = thought
          BY <1>5, <4>1 DEF ResolveInside
        <5> QED BY <2>2, <5>1
      <4>2. CASE Classify(Candidate, TRUE) = "no"
        <5>1. pending' = <<>> /\ thought' = Some(t \o Candidate)
          BY <1>5, <1>i, <2>1, <2>2, <4>2 DEF ResolveInside, Extended
        <5>2. thought'[1] = t \o Candidate /\ t \o Candidate \in Text
          BY <1>i, <2>1, <2>2, <5>1 DEF Some
        <5> QED BY <1>t, <5>1, <5>2
      <4> QED BY <2>5, <4>1, <4>2 DEF Classify
    <3> QED BY <1>c, <2>1, <2>3, <3>1, <3>2 DEF WholeInv
  <2> QED BY <2>4, <2>5
<1>6. CASE TakeCompleted
  <2>1. /\ completed' = None /\ taken' = taken \cup {completed[1]}
        /\ inside' = inside /\ pending' = pending /\ thought' = thought /\ fed' = fed
    BY <1>6 DEF TakeCompleted
  <2>2. ToSet(completed) = {completed[1]} /\ ToSet(completed') = {}
    BY <1>6, <1>t, <2>1, OptionalCases, OptionTexts DEF TakeCompleted
  <2>3. taken' \cup ToSet(completed') = taken \cup ToSet(completed)
    BY <2>1, <2>2
  <2> QED BY <2>1, <2>3 DEF WholeInv
<1>7. CASE Flush
  <2>1. pending' = <<>> /\ ~inside' /\ completed' = None /\ fed' = fed /\ taken' = taken
    BY <1>7 DEF Flush
  <2>2. \E front \in Text : fed' = front \o pending'
    BY <1>t, <2>1
  <2> QED BY <2>1, <2>2, OptionTexts DEF WholeInv
<1>8. CASE Reset
  <2>1. pending' = <<>> /\ ~inside' /\ completed' = None /\ fed' = <<>> /\ taken' = {}
    BY <1>8 DEF Reset
  <2>2. \E front \in Text : fed' = front \o pending'
    BY <1>t, <2>1
  <2> QED BY <2>1, <2>2, OptionTexts DEF WholeInv
<1>9. CASE UNCHANGED vars
  BY <1>9 DEF vars, filter, stream, WholeInv
<1> QED
  BY <1>1, <1>2, <1>3, <1>4, <1>5, <1>6, <1>7, <1>8, <1>9 DEF Next

\* A thought that is handed out is, character for character, what this stream
\* had between an opening and a closing tag.
THEOREM ThoughtsHold == Spec => []ThoughtsAreWhole
<1>1. WholeInv => ThoughtsAreWhole
  BY DEF WholeInv, ThoughtsAreWhole
<1> QED
  BY <1>1, TypesInit, TypesNext, BufferInit, BufferNext, PlainInit, PlainNext, WholeInit, WholeNext,
     PTL DEF Spec

-----------------------------------------------------------------------------
(* Sequences of sequences.                                                 *)

\* Concatenation, as FlattenSeq computes it.
Flattens(f, seqs, n) ==
  f = [i \in 1..n |-> IF i = 1 THEN seqs[i] ELSE f[i - 1] \o seqs[i]]

\* There is a function that flattens.
LEMMA FlattensExist ==
  ASSUME NEW seqs, NEW n \in Nat
  PROVE  \E f : Flattens(f, seqs, n)
<1> DEFINE Bad == {k \in 0..n : ~ \E f : Flattens(f, seqs, k)}
<1>1. SUFFICES ASSUME Bad # {} PROVE FALSE
  OBVIOUS
<1>2. PICK k \in Bad : \A j \in Bad : k <= j
  <2>1. Bad \subseteq Nat
    OBVIOUS
  <2> HIDE DEF Bad
  <2> QED BY <1>1, <2>1, LeastNumber
<1>3. k # 0
  <2> SUFFICES ASSUME k = 0 PROVE FALSE
    OBVIOUS
  <2>1. Flattens([j \in 1..0 |-> <<>>], seqs, 0)
    <3>1. \A j \in 1..0 : FALSE
      OBVIOUS
    <3> QED BY <3>1 DEF Flattens
  <2> QED BY <2>1
<1>4. k \in 1..n /\ k - 1 \in 0..n /\ k - 1 \notin Bad
  BY <1>2, <1>3
<1>5. PICK g : Flattens(g, seqs, k - 1)
  BY <1>4
<1> DEFINE last == IF k = 1 THEN seqs[k] ELSE g[k - 1] \o seqs[k]
           h == [j \in 1..k |-> IF j = k THEN last ELSE g[j]]
<1>6. ASSUME NEW j \in 1..k
      PROVE  h[j] = IF j = 1 THEN seqs[j] ELSE h[j - 1] \o seqs[j]
  <2>1. CASE j = k
    <3>1. j # 1 => j - 1 \in 1..k /\ j - 1 # k
      BY <1>4, <2>1
    <3>2. h[j] = last /\ (j # 1 => h[j - 1] = g[k - 1])
      BY <2>1, <3>1
    <3> QED BY <2>1, <3>2
  <2>2. CASE j # k
    <3>1. j \in 1..(k - 1) /\ h[j] = g[j]
      BY <1>4, <2>2
    <3>2. j # 1 => h[j - 1] = g[j - 1]
      BY <1>4, <2>2
    <3>3. g[j] = IF j = 1 THEN seqs[j] ELSE g[j - 1] \o seqs[j]
      BY <1>5, <3>1 DEF Flattens
    <3> QED BY <3>1, <3>2, <3>3
  <2> QED BY <2>1, <2>2
<1>7. Flattens(h, seqs, k)
  <2>1. DOMAIN h = 1..k /\ h = [j \in DOMAIN h |-> h[j]]
    OBVIOUS
  <2> HIDE DEF h
  <2> QED BY <1>6, <2>1 DEF Flattens
<1> QED BY <1>2, <1>7

\* FlattenSeq is the last value of one.
LEMMA FlattenFlattens ==
  ASSUME NEW seqs, Len(seqs) \in Nat \ {0}
  PROVE  \E f : Flattens(f, seqs, Len(seqs)) /\ FlattenSeq(seqs) = f[Len(seqs)]
<1>1. PICK f : f = CHOOSE g : Flattens(g, seqs, Len(seqs))
  OBVIOUS
<1>2. Flattens(f, seqs, Len(seqs))
  BY <1>1, FlattensExist
<1>3. FlattenSeq(seqs) = f[Len(seqs)]
  BY <1>1 DEF FlattenSeq, Flattens
<1> QED BY <1>2, <1>3

\* One sequence alone is left as it is.
LEMMA FlattenOne == ASSUME NEW s PROVE FlattenSeq(<<s>>) = s
<1>1. PICK f : Flattens(f, <<s>>, 1) /\ FlattenSeq(<<s>>) = f[1]
  <2>1. Len(<<s>>) = 1 /\ 1 \in Nat \ {0}
    OBVIOUS
  <2> QED BY <2>1, FlattenFlattens
<1> QED BY <1>1 DEF Flattens

\* Sequences of a set make a sequence of it.
LEMMA FlattenType ==
  ASSUME NEW T, NEW seqs \in Seq(Seq(T))
  PROVE  FlattenSeq(seqs) \in Seq(T)
<1>1. CASE Len(seqs) = 0
  <2>1. FlattenSeq(seqs) = seqs /\ seqs = <<>>
    BY <1>1 DEF FlattenSeq
  <2> QED BY <2>1
<1>2. CASE Len(seqs) # 0
  <2>1. PICK n : n = Len(seqs)
    OBVIOUS
  <2>2. PICK f : Flattens(f, seqs, n) /\ FlattenSeq(seqs) = f[n]
    BY <1>2, <2>1, FlattenFlattens
  <2> DEFINE Bad == {k \in 1..n : f[k] \notin Seq(T)}
  <2>3. ASSUME Bad # {} PROVE FALSE
    <3>1. PICK k \in Bad : \A j \in Bad : k <= j
      <4>1. Bad \subseteq Nat
        BY <2>1
      <4> HIDE DEF Bad
      <4> QED BY <2>3, <4>1, LeastNumber
    <3>2. k \in 1..n /\ n \in Nat /\ f[k] \notin Seq(T)
      BY <2>1, <3>1
    <3>3. f[k] = IF k = 1 THEN seqs[k] ELSE f[k - 1] \o seqs[k]
      BY <2>2, <3>2 DEF Flattens
    <3>4. seqs[k] \in Seq(T)
      BY <2>1, <3>2
    <3>5. k # 1 /\ k - 1 \in 1..n /\ ~(k <= k - 1)
      BY <3>2, <3>3, <3>4
    <3>6. f[k - 1] \in Seq(T)
      BY <3>1, <3>5
    <3> QED BY <3>2, <3>3, <3>4, <3>5, <3>6
  <2>4. n \in 1..n /\ n \notin Bad
    BY <1>2, <2>1, <2>3
  <2> QED BY <2>2, <2>4
<1> QED BY <1>1, <1>2

-----------------------------------------------------------------------------
(* ReasoningReplay: raw values, typed items and back.                      *)

\* A raw value, lifted and written.
Rewritten(v) == ToValue(FromValue(v))

IsRaw(raw) == raw \in Seq(ToSet(raw)) /\ \A v \in ToSet(raw) : IsValue(v)

\* What is lifted is lifted again from what was written of it.
LEMMA LiftedAgain ==
  ASSUME NEW v, IsValue(v), Recognized(v)
  PROVE  /\ IsValue(Rewritten(v))
         /\ Recognized(Rewritten(v))
         /\ FromValue(Rewritten(v)) = FromValue(v)
<1>1. PICK item, wire : item = FromValue(v) /\ wire = Rewritten(v)
  OBVIOUS
<1>2. item = [type |-> item.type, format |-> item.format, id |-> item.id, index |-> item.index,
              payload |-> item.payload, signature |-> item.signature]
  BY <1>1 DEF FromValue
<1>3. wire = item
  BY <1>1, <1>2 DEF Rewritten, ToValue, AsWire
<1>4. /\ item.type = v.type
      /\ item.format = IF v.format = Absent THEN "unknown" ELSE FromWire(v.format)
      /\ item.id = IF v.id = "null" THEN Absent ELSE v.id
      /\ item.index = IF v.index = Absent THEN Absent ELSE v.index % IndexModulus
      /\ item.payload = OrEmpty(v.payload)
      /\ item.signature = IF v.type = "text" THEN v.signature ELSE Absent
  BY <1>1 DEF FromValue
<1>5. item.index # Absent => item.index \in Nat /\ item.index % IndexModulus = item.index
  <2> SUFFICES ASSUME v.index # Absent, v.index \in Nat
               PROVE  v.index % IndexModulus \in Nat
                      /\ (v.index % IndexModulus) % IndexModulus = v.index % IndexModulus
    BY <1>4 DEF IsValue
  <2>1. PICK n \in Nat : n = v.index % IndexModulus
    BY IndexAssumption
  <2>2. n < IndexModulus
    BY <2>1, IndexAssumption
  <2>3. n % IndexModulus = n
    BY <2>2, IndexAssumption
  <2> QED BY <2>1, <2>3
<1>6. (IF item.format = Absent THEN "unknown" ELSE FromWire(item.format)) = item.format
  BY <1>4 DEF FromWire
<1>7. (IF item.id = "null" THEN Absent ELSE item.id) = item.id
  BY <1>4
<1>8. OrEmpty(item.payload) = item.payload
  BY <1>4 DEF OrEmpty
<1>9. (IF item.type = "text" THEN item.signature ELSE Absent) = item.signature
  BY <1>4
<1>10. FromValue(item) = item
  BY <1>2, <1>5, <1>6, <1>7, <1>8, <1>9 DEF FromValue
<1>11. IsValue(item) /\ Recognized(item)
  BY <1>2, <1>4, <1>5 DEF IsValue, Recognized
<1> QED BY <1>1, <1>3, <1>10, <1>11

\* A well formed value comes back to the letter.
LEMMA WellFormedComesBack ==
  ASSUME NEW v, IsValue(v), WellFormed(v)
  PROVE  Rewritten(v) = v
<1>1. PICK item : item = FromValue(v)
  OBVIOUS
<1>2. Rewritten(v) = item
  BY <1>1 DEF Rewritten, ToValue, FromValue, AsWire
<1>3. (IF v.format = Absent THEN "unknown" ELSE FromWire(v.format)) = v.format
  BY MessagesAssumption DEF WellFormed, FromWire
<1>4. (IF v.id = "null" THEN Absent ELSE v.id) = v.id
  BY DEF WellFormed
<1>5. (IF v.index = Absent THEN Absent ELSE v.index % IndexModulus) = v.index
  BY IndexAssumption DEF WellFormed, IsValue
<1>6. OrEmpty(v.payload) = v.payload
  BY DEF WellFormed, OrEmpty
<1>7. (IF v.type = "text" THEN v.signature ELSE Absent) = v.signature
  BY DEF WellFormed
<1> QED BY <1>1, <1>2, <1>3, <1>4, <1>5, <1>6, <1>7 DEF FromValue, IsValue

\* What the items say is said of the values of known types, one for one.
LEMMA ItemsAreKnown ==
  ASSUME NEW raw, IsRaw(raw)
  PROVE  /\ KnownOf(raw) \in Seq({v \in ToSet(raw) : Recognized(v)})
         /\ DOMAIN ParseResponse(raw) = DOMAIN KnownOf(raw)
         /\ \A i \in DOMAIN KnownOf(raw) :
              /\ ParseResponse(raw)[i] = FromValue(KnownOf(raw)[i])
              /\ IsValue(KnownOf(raw)[i]) /\ Recognized(KnownOf(raw)[i])
<1>1. PICK S, known : S = {v \in ToSet(raw) : Recognized(v)} /\ known = Kept(raw, S)
  OBVIOUS
<1>2. known = KnownOf(raw)
  BY <1>1 DEF KnownOf
<1>3. known \in Seq(ToSet(raw) \cap S)
  BY <1>1, KeptType DEF IsRaw
<1>4. ToSet(raw) \cap S = S
  BY <1>1
<1>5. ParseResponse(raw) = [i \in DOMAIN known |-> FromValue(known[i])]
  BY <1>2 DEF ParseResponse
<1>6. known \in Seq(S)
  BY <1>3, <1>4
<1>7. \A i \in DOMAIN known : known[i] \in S
  BY <1>6
<1> QED BY <1>1, <1>2, <1>5, <1>6, <1>7 DEF IsRaw

\* What is written of the items, and lifted again.
LEMMA ItemsComeBack ==
  ASSUME NEW raw, IsRaw(raw), NEW back, back = FromItems(ParseResponse(raw))
  PROVE  /\ IsRaw(back)
         /\ KnownOf(back) = back
         /\ ParseResponse(back) = ParseResponse(raw)
         /\ DOMAIN back = DOMAIN KnownOf(raw) /\ Len(back) = Len(KnownOf(raw))
         /\ \A i \in DOMAIN back : back[i] = Rewritten(KnownOf(raw)[i])
<1>1. PICK known, typed : known = KnownOf(raw) /\ typed = ParseResponse(raw)
  OBVIOUS
<1>2. known \in Seq(ToSet(raw)) /\ DOMAIN typed = DOMAIN known
  <2>1. PICK S : S = {v \in ToSet(raw) : Recognized(v)}
    OBVIOUS
  <2>2. known \in Seq(S) /\ DOMAIN typed = DOMAIN known
    BY <1>1, <2>1, ItemsAreKnown
  <2>3. S \subseteq ToSet(raw)
    BY <2>1
  <2> QED BY <2>2, <2>3
<1>3. \A i \in DOMAIN known : /\ typed[i] = FromValue(known[i])
                              /\ IsValue(known[i]) /\ Recognized(known[i])
  BY <1>1, ItemsAreKnown
<1>4. back = [i \in DOMAIN typed |-> ToValue(typed[i])]
  BY <1>1 DEF FromItems
<1>5. \A i \in DOMAIN known : back[i] = Rewritten(known[i])
  BY <1>2, <1>3, <1>4 DEF Rewritten
<1>6. PICK n \in Nat : n = Len(known) /\ DOMAIN known = 1..n
  BY <1>2
<1>7. DOMAIN back = 1..n
  BY <1>2, <1>4, <1>6
<1>8. \A v \in ToSet(back) : IsValue(v) /\ Recognized(v)
  BY <1>3, <1>5, <1>6, <1>7, LiftedAgain DEF ToSet
<1>9. PICK S : S = {v \in ToSet(back) : Recognized(v)}
  OBVIOUS
<1>10. S = ToSet(back)
  BY <1>8, <1>9
<1>11. back \in Seq(S) /\ Len(back) = n
  <2>1. back = [i \in 1..n |-> back[i]] /\ \A i \in 1..n : back[i] \in S
    BY <1>4, <1>7, <1>10 DEF ToSet
  <2> QED BY <2>1
<1>12. KnownOf(back) = back
  BY <1>9, <1>11, KeptAll DEF KnownOf
<1>13. IsRaw(back)
  BY <1>8, <1>10, <1>11 DEF IsRaw
<1>14. PICK again : again = ParseResponse(back)
  OBVIOUS
<1>15. again = [i \in DOMAIN back |-> FromValue(back[i])]
  BY <1>12, <1>14 DEF ParseResponse
<1>16. typed = [i \in DOMAIN known |-> FromValue(known[i])]
  BY <1>1 DEF ParseResponse
<1>17. \A i \in DOMAIN known : FromValue(back[i]) = FromValue(known[i])
  BY <1>3, <1>5, LiftedAgain
<1>18. again = typed
  BY <1>6, <1>7, <1>15, <1>16, <1>17
<1> QED BY <1>1, <1>5, <1>6, <1>7, <1>11, <1>12, <1>13, <1>14, <1>18

\* A filter leaves something exactly if there is something for it to leave.
LEMMA KeptNothing ==
  ASSUME NEW T, NEW s \in Seq(T), NEW S
  PROVE  Kept(s, S) = <<>> <=> \A i \in DOMAIN s : s[i] \notin S
<1>1. ASSUME \A i \in DOMAIN s : s[i] \notin S PROVE Kept(s, S) = <<>>
  <2>1. s \in Seq(T \ S)
    <3>1. DOMAIN s = 1..Len(s) /\ s = [i \in 1..Len(s) |-> s[i]] /\ \A i \in 1..Len(s) : s[i] \in T \ S
      BY <1>1
    <3> QED BY <3>1
  <2>2. Kept(s, S) \in Seq((T \ S) \cap S)
    BY <2>1, KeptType
  <2>3. (T \ S) \cap S = {}
    OBVIOUS
  <2> QED BY <2>2, <2>3
<1> DEFINE Bad == {n \in Nat : \E t \in Seq(T) : /\ Len(t) = n /\ Kept(t, S) = <<>>
                                               /\ \E i \in 1..n : t[i] \in S}
<1>2. ASSUME Bad # {} PROVE FALSE
  <2>1. PICK n \in Bad : \A m \in Bad : n <= m
    <3>1. Bad \subseteq Nat
      OBVIOUS
    <3> HIDE DEF Bad
    <3> QED BY <1>2, <3>1, LeastNumber
  <2>2. PICK t \in Seq(T) : Len(t) = n /\ Kept(t, S) = <<>> /\ \E i \in 1..n : t[i] \in S
    BY <2>1
  <2>3. t # <<>>
    BY <2>2
  <2>4. PICK front \in Seq(T), last \in T : t = Append(front, last)
    BY <2>2, <2>3, SequenceEmptyOrAppend
  <2>5. /\ Len(front) = n - 1 /\ Len(front) \in Nat /\ n \in Nat /\ ~(n <= Len(front))
        /\ t[n] = last /\ \A i \in 1..Len(front) : t[i] = front[i]
    <3>1. Len(Append(front, last)) = Len(front) + 1 /\ Len(front) \in Nat
      OBVIOUS
    <3> QED BY <2>2, <2>4, <3>1
  <2>6. CASE last \in S
    <3>1. Kept(t, S) = Append(Kept(front, S), last)
      BY <2>4, <2>6, KeptAppend
    <3>2. Kept(front, S) \in Seq(T \cap S) /\ last \in T \cap S
      BY <2>6, KeptType
    <3>3. PICK k : k = Kept(front, S)
      OBVIOUS
    <3>4. Len(Append(k, last)) = Len(k) + 1 /\ Len(k) \in Nat
      BY <3>2, <3>3
    <3>5. Len(<<>>) = 0
      OBVIOUS
    <3> QED BY <2>2, <3>1, <3>3, <3>4, <3>5
  <2>7. CASE last \notin S
    <3>1. Kept(t, S) = Kept(front, S)
      BY <2>4, <2>7, KeptAppend
    <3>2. \E i \in 1..Len(front) : front[i] \in S
      BY SMTT(30), <2>2, <2>5, <2>7
    <3>3. Len(front) \in Bad
      BY <2>2, <2>5, <3>1, <3>2
    <3> QED BY <2>1, <2>5, <3>3
  <2> QED BY <2>6, <2>7
<1>3. ASSUME Kept(s, S) = <<>>, NEW i \in DOMAIN s PROVE s[i] \notin S
  <2>1. Len(s) \in Nat /\ i \in 1..Len(s) /\ Len(s) \notin Bad
    BY <1>2
  <2> QED BY <1>3, <2>1
<1> QED BY <1>1, <1>3

\* What a message keeps is a sequence of raw values.
LEMMA KeptValues == ASSUME NEW m, IsMessage(m) PROVE IsRaw(ReasoningDetailsValues(m))
<1>1. PICK S, blocks : S = {b \in ToSet(m) : b.kind = "details"} /\ blocks = OfKind(m, "details")
  OBVIOUS
<1>2. blocks \in Seq(S)
  <2>1. blocks = Kept(m, S)
    BY <1>1 DEF OfKind
  <2>2. Kept(m, S) \in Seq(ToSet(m) \cap S)
    BY KeptType DEF IsMessage
  <2>3. ToSet(m) \cap S = S
    BY <1>1
  <2> QED BY <2>1, <2>2, <2>3
<1>3. PICK T : T = UNION {ToSet(b.content) : b \in S}
  OBVIOUS
<1>4. \A b \in S : b.content \in Seq(T)
  <2> SUFFICES ASSUME NEW b \in S PROVE b.content \in Seq(T)
    OBVIOUS
  <2>1. b.content \in Seq(ToSet(b.content)) /\ ToSet(b.content) \subseteq T
    BY <1>1, <1>3 DEF IsMessage
  <2> QED BY <2>1
<1>5. \A v \in T : IsValue(v)
  BY <1>1, <1>3 DEF IsMessage
<1>6. Contents(blocks) \in Seq(Seq(T))
  <2>1. PICK n \in Nat : n = Len(blocks) /\ DOMAIN blocks = 1..n
    BY <1>2
  <2>2. Contents(blocks) = [i \in 1..n |-> blocks[i].content]
    BY <2>1 DEF Contents
  <2>3. \A i \in 1..n : blocks[i].content \in Seq(T)
    BY <1>2, <1>4, <2>1
  <2> QED BY <2>2, <2>3
<1>7. PICK values : values = ReasoningDetailsValues(m)
  OBVIOUS
<1>8. values \in Seq(T)
  BY <1>1, <1>6, <1>7, FlattenType DEF ReasoningDetailsValues
<1>9. ToSet(values) \subseteq T
  BY <1>8 DEF ToSet
<1>10. values \in Seq(ToSet(values))
  BY <1>8 DEF ToSet
<1> QED BY <1>5, <1>7, <1>9, <1>10 DEF IsRaw

\* A sequence with one element more.
LEMMA OneMore ==
  ASSUME NEW T, NEW s \in Seq(T), NEW e \in T
  PROVE  /\ <<e>> \in Seq(T) /\ s \o <<e>> \in Seq(T)
         /\ ToSet(s \o <<e>>) \subseteq T /\ e \in ToSet(s \o <<e>>)
         /\ s \o <<e>> \in Seq(ToSet(s \o <<e>>))
<1>1. PICK t : t = s \o <<e>>
  OBVIOUS
<1>2. t \in Seq(T) /\ Len(t) = Len(s) + 1 /\ Len(s) \in Nat /\ t[Len(s) + 1] = e
  BY <1>1
<1>3. Len(s) + 1 \in DOMAIN t
  BY <1>2
<1>4. e \in ToSet(t)
  BY <1>2, <1>3 DEF ToSet
<1>5. t \in Seq(T)
  BY <1>2
<1>6. ToSet(t) \subseteq T
  BY <1>5 DEF ToSet
<1>7. t \in Seq(ToSet(t))
  BY <1>5 DEF ToSet
<1> QED BY <1>1, <1>4, <1>5, <1>6, <1>7

\* A rebuilt message keeps what it was rebuilt from, and nothing else.
LEMMA RebuiltKeeps ==
  ASSUME NEW m, IsMessage(m), NEW raw, IsRaw(raw), NEW r,
         r = Kept(m, {b \in ToSet(m) : b.kind # "details"}) \o <<[kind |-> "details", content |-> raw]>>
  PROVE  IsMessage(r) /\ ReasoningDetailsValues(r) = raw
<1>1. PICK N, d, front : /\ N = {b \in ToSet(m) : b.kind # "details"}
                         /\ d = [kind |-> "details", content |-> raw]
                         /\ front = Kept(m, N)
  OBVIOUS
<1>2. r = front \o <<d>> /\ d.kind = "details" /\ d.content = raw
  BY <1>1
<1>3. front \in Seq(N)
  <2>1. Kept(m, N) \in Seq(ToSet(m) \cap N)
    BY KeptType DEF IsMessage
  <2>2. ToSet(m) \cap N = N
    BY <1>1
  <2> QED BY <1>1, <2>1, <2>2
<1>4. PICK T : T = N \cup {d}
  OBVIOUS
<1>5. front \in Seq(T) /\ <<d>> \in Seq(T)
  BY <1>3, <1>4
<1>6. front \in Seq(T) /\ d \in T
  BY <1>3, <1>4
<1>7. ToSet(r) \subseteq T /\ r \in Seq(ToSet(r)) /\ d \in ToSet(r)
  <2>1. PICK t : t = front \o <<d>>
    OBVIOUS
  <2>2. ToSet(t) \subseteq T /\ t \in Seq(ToSet(t)) /\ d \in ToSet(t)
    BY <1>6, <2>1, OneMore
  <2> QED BY <1>2, <2>1, <2>2
<1>9. \A b \in ToSet(r) : b.kind = "details" => b = d
  BY <1>1, <1>4, <1>7
<1>10. IsMessage(r)
  BY <1>2, <1>7, <1>9 DEF IsMessage, IsRaw
<1>11. PICK S : S = {b \in ToSet(r) : b.kind = "details"}
  OBVIOUS
<1>12. S = {d}
  BY <1>2, <1>7, <1>9, <1>11
<1>13. OfKind(r, "details") = <<d>>
  <2>1. OfKind(r, "details") = Kept(front, S) \o Kept(<<d>>, S)
    <3>1. OfKind(r, "details") = Kept(front \o <<d>>, S)
      BY <1>2, <1>11 DEF OfKind
    <3>2. PICK one : one = <<d>>
      OBVIOUS
    <3>3. one \in Seq(T)
      BY <1>5, <3>2
    <3>4. Kept(front \o one, S) = Kept(front, S) \o Kept(one, S)
      BY <1>5, <3>3, KeptConcat
    <3> QED BY <3>1, <3>2, <3>4
  <2>2. Kept(front, S) = <<>>
    <3>1. \A i \in DOMAIN front : front[i] \in N
      BY <1>3
    <3>2. \A i \in DOMAIN front : front[i] \notin S
      BY <1>1, <1>2, <1>12, <3>1
    <3> QED BY <1>5, <3>2, KeptNothing
  <2>3. Kept(<<d>>, S) = <<d>>
    <3>1. <<d>> \in Seq(S)
      BY <1>12
    <3> QED BY <3>1, KeptAll
  <2> QED BY <2>1, <2>2, <2>3
<1>14. Contents(<<d>>) = <<raw>>
  BY <1>2 DEF Contents
<1>15. ReasoningDetailsValues(r) = raw
  BY <1>13, <1>14, FlattenOne DEF ReasoningDetailsValues
<1> QED BY <1>10, <1>15

-----------------------------------------------------------------------------
(* The invariant of the replay.                                            *)

\* However often the message was rebuilt, it keeps what was emitted or that as
\* it was rewritten once; and each later stage is made of the one before.
ReplayInv ==
  /\ stage \in {"answered", "lifted", "audited", "assembled", "sent"}
  /\ IsRaw(emitted) /\ MayEmit(provider, emitted) /\ IsMessage(message)
  /\ ReasoningDetailsValues(message) \in {emitted, FromItems(ParseResponse(emitted))}
  /\ stage # "answered" => items = ParseResponse(emitted)
  /\ stage \in {"audited", "assembled", "sent"} =>
       audit = AuditReplay(items, provider.contract, tools)
  /\ stage = "assembled" => body \in {<<>>, ReasoningDetailsValues(message)}
  /\ stage = "sent" => body \in {emitted, FromItems(ParseResponse(emitted))}

\* A message that keeps what was emitted, as it was or rewritten, has its items.
LEMMA SameItems ==
  ASSUME NEW raw, IsRaw(raw), NEW kept \in {raw, FromItems(ParseResponse(raw))}
  PROVE  ParseResponse(kept) = ParseResponse(raw)
<1>1. PICK back : back = FromItems(ParseResponse(raw))
  OBVIOUS
<1>2. ParseResponse(back) = ParseResponse(raw)
  BY <1>1, ItemsComeBack
<1> QED BY <1>1, <1>2

\* ReplayInv is inductive.
LEMMA ReplayInvHolds == ReplaySpec => []ReplayInv
<1>1. ReplayInit => ReplayInv
  <2> SUFFICES ASSUME ReplayInit PROVE ReplayInv
    OBVIOUS
  <2>1. PICK p \in Providers, m \in Messages : Answered(p, m)
    BY DEF ReplayInit
  <2>2. IsMessage(m) /\ IsRaw(ReasoningDetailsValues(m))
    BY MessagesAssumption, KeptValues
  <2>3. stage = "answered"
    BY DEF ReplayInit
  <2> QED BY <2>1, <2>2, <2>3 DEF Answered, ReplayInv
<1>2. ReplayInv /\ [ReplayNext]_replayVars => ReplayInv'
  <2> SUFFICES ASSUME ReplayInv, [ReplayNext]_replayVars PROVE ReplayInv'
    OBVIOUS
  <2> USE DEF ReplayInv
  <2>1. CASE Lift
    <3>1. ParseResponse(ReasoningDetailsValues(message)) = ParseResponse(emitted)
      BY SameItems
    <3> QED BY <2>1, <3>1 DEF Lift
  <2>2. CASE Rebuild
    <3>1. PICK raw, back : raw = emitted /\ back = FromItems(ParseResponse(raw))
      OBVIOUS
    <3>2. IsRaw(back)
      BY <3>1, ItemsComeBack
    <3>3. items = ParseResponse(raw)
      BY <2>2, <3>1 DEF Rebuild
    <3>4. message' = Kept(message, {b \in ToSet(message) : b.kind # "details"})
                     \o <<[kind |-> "details", content |-> back]>>
      BY <2>2, <3>1, <3>3 DEF Rebuild
    <3>5. IsMessage(message') /\ ReasoningDetailsValues(message') = back
      <4>1. PICK m, r : m = message /\ r = message'
        OBVIOUS
      <4>2. IsMessage(m) /\ r = Kept(m, {b \in ToSet(m) : b.kind # "details"})
                                \o <<[kind |-> "details", content |-> back]>>
        BY <3>4, <4>1
      <4>3. IsMessage(r) /\ ReasoningDetailsValues(r) = back
        BY <3>2, <4>2, RebuiltKeeps
      <4> QED BY <4>1, <4>3
    <3>6. /\ stage' = "answered" /\ emitted' = emitted /\ provider' = provider
          /\ ReasoningDetailsValues(message') = FromItems(ParseResponse(emitted'))
      BY <2>2, <3>1, <3>5 DEF Rebuild
    <3> QED BY <3>5, <3>6
  <2>3. CASE Audit
    BY <2>3 DEF Audit
  <2>4. CASE Assemble
    BY <2>4 DEF Assemble
  <2>5. CASE WriteAssistant
    <3>1. CASE items = <<>>
      <4>1. FromItems(ParseResponse(emitted)) = <<>>
        <5>1. ParseResponse(emitted) = <<>>
          BY <2>5, <3>1 DEF WriteAssistant
        <5> QED BY <5>1 DEF FromItems
      <4>2. body \in {emitted, FromItems(ParseResponse(emitted))}
        BY <2>5, <4>1 DEF WriteAssistant
      <4> QED BY <2>5, <3>1, <4>2 DEF WriteAssistant
    <3>2. CASE items # <<>>
      BY <2>5, <3>2 DEF WriteAssistant
    <3> QED BY <3>1, <3>2
  <2>6. CASE Answer
    <3>1. PICK m \in Messages : /\ MayEmit(provider, ReasoningDetailsValues(m))
                                /\ message' = m /\ emitted' = ReasoningDetailsValues(m)
      BY <2>6 DEF Answer
    <3>2. IsMessage(m) /\ IsRaw(ReasoningDetailsValues(m))
      BY MessagesAssumption, KeptValues
    <3>3. stage' = "answered" /\ provider' = provider
      BY <2>6 DEF Answer
    <3> QED BY <3>1, <3>2, <3>3
  <2>7. CASE UNCHANGED replayVars
    BY <2>7 DEF replayVars
  <2> QED BY <2>1, <2>2, <2>3, <2>4, <2>5, <2>6, <2>7 DEF ReplayNext
<1> QED BY <1>1, <1>2, PTL DEF ReplaySpec

\* For every message and however often it is rebuilt, the items are those of
\* what the provider emitted, and the request says the same.
THEOREM ItemsAreStable == ReplaySpec => []TypedRoundTripIsStable
<1>1. ReplayInv => TypedRoundTripIsStable
  <2> SUFFICES ASSUME ReplayInv, stage # "answered"
               PROVE  /\ items = ParseResponse(emitted)
                      /\ stage = "sent" => ParseResponse(body) = items
    BY DEF TypedRoundTripIsStable
  <2> QED BY SameItems DEF ReplayInv
<1> QED BY <1>1, ReplayInvHolds, PTL

\* What is well formed goes back to the letter, everything known in its order,
\* whichever way the request was written.
THEOREM WhatIsWellFormedSurvives == ReplaySpec => []WellFormedSurvives
<1>1. ReplayInv => WellFormedSurvives
  <2> SUFFICES ASSUME ReplayInv, stage = "sent"
               PROVE  /\ Len(KnownOf(body)) = Len(KnownOf(emitted))
                      /\ \A i \in DOMAIN KnownOf(emitted) :
                           WellFormed(KnownOf(emitted)[i]) => KnownOf(body)[i] = KnownOf(emitted)[i]
    BY DEF WellFormedSurvives
  <2>1. PICK raw, back : raw = emitted /\ back = FromItems(ParseResponse(raw))
    OBVIOUS
  <2>2. IsRaw(raw) /\ body \in {raw, back}
    BY <2>1 DEF ReplayInv
  <2>3. CASE body = raw
    BY <2>1, <2>3
  <2>4. CASE body = back
    <3>1. KnownOf(back) = back /\ Len(back) = Len(KnownOf(raw)) /\ DOMAIN back = DOMAIN KnownOf(raw)
      BY <2>1, <2>2, ItemsComeBack
    <3>2. \A i \in DOMAIN back : back[i] = Rewritten(KnownOf(raw)[i])
      BY <2>1, <2>2, ItemsComeBack
    <3>3. \A i \in DOMAIN KnownOf(raw) : IsValue(KnownOf(raw)[i])
      BY <2>2, ItemsAreKnown
    <3>4. \A i \in DOMAIN KnownOf(raw) : WellFormed(KnownOf(raw)[i]) => back[i] = KnownOf(raw)[i]
      BY <3>1, <3>2, <3>3, WellFormedComesBack
    <3> QED BY <2>1, <2>4, <3>1, <3>4
  <2> QED BY <2>2, <2>3, <2>4
<1> QED BY <1>1, ReplayInvHolds, PTL

\* The audit counts what the provider signed.
LEMMA SignedAreCounted ==
  ASSUME NEW raw, IsRaw(raw), \A i \in DOMAIN raw : WellFormed(raw[i])
  PROVE  /\ FromItems(ParseResponse(raw)) = raw
         /\ Cardinality({i \in DOMAIN ParseResponse(raw) : CarriesSignedPayload(ParseResponse(raw)[i])}) > 0
              <=> SignedOf(raw) # <<>>
<1>1. PICK known, typed, back : /\ known = KnownOf(raw) /\ typed = ParseResponse(raw)
                                /\ back = FromItems(typed)
  OBVIOUS
<1>2. known = raw
  <2>1. PICK S : S = {v \in ToSet(raw) : Recognized(v)}
    OBVIOUS
  <2>2. S = ToSet(raw)
    BY <2>1 DEF ToSet, WellFormed
  <2>3. Kept(raw, S) = raw
    BY <2>2, KeptAll DEF IsRaw
  <2> QED BY <1>1, <2>1, <2>3 DEF KnownOf
<1>3. DOMAIN typed = DOMAIN raw /\ \A i \in DOMAIN raw : typed[i] = FromValue(raw[i]) /\ IsValue(raw[i])
  BY <1>1, <1>2, ItemsAreKnown
<1>4. PICK n \in Nat : n = Len(raw) /\ DOMAIN raw = 1..n /\ raw = [i \in 1..n |-> raw[i]]
  BY DEF IsRaw
<1>5. back = raw
  <2>1. back = [i \in 1..n |-> ToValue(typed[i])]
    BY <1>1, <1>3, <1>4 DEF FromItems
  <2>2. \A i \in 1..n : ToValue(typed[i]) = raw[i]
    BY <1>3, <1>4, WellFormedComesBack DEF Rewritten
  <2> QED BY <1>4, <2>1, <2>2
<1>6. \A i \in 1..n : CarriesSignedPayload(typed[i]) <=> Signed(raw[i])
  <2> SUFFICES ASSUME NEW v, WellFormed(v) PROVE CarriesSignedPayload(FromValue(v)) <=> Signed(v)
    BY <1>3, <1>4
  <2>1. PICK item : item = FromValue(v)
    OBVIOUS
  <2>2. item.type = v.type /\ item.signature = IF v.type = "text" THEN v.signature ELSE Absent
    BY <2>1 DEF FromValue
  <2> QED BY <2>1, <2>2 DEF CarriesSignedPayload, Signed, WellFormed
<1>7. PICK P : P = {i \in DOMAIN typed : CarriesSignedPayload(typed[i])}
  OBVIOUS
<1>8. IsFiniteSet(P)
  <2>1. IsFiniteSet(1..n) /\ P \subseteq 1..n
    BY <1>3, <1>4, <1>7, FS_Interval
  <2> QED BY <2>1, FS_Subset
<1>9. Cardinality(P) \in Nat /\ (Cardinality(P) = 0 <=> P = {})
  BY <1>8, FS_CardinalityType, FS_EmptySet
<1>10. SignedOf(raw) = <<>> <=> P = {}
  <2>1. PICK S : S = {v \in ToSet(raw) : Signed(v)}
    OBVIOUS
  <2>2. Kept(raw, S) = <<>> <=> \A i \in DOMAIN raw : raw[i] \notin S
    BY KeptNothing DEF IsRaw
  <2>3. \A i \in DOMAIN raw : raw[i] \in S <=> Signed(raw[i])
    BY <2>1 DEF ToSet
  <2>4. P = {} <=> \A i \in DOMAIN raw : ~Signed(raw[i])
    BY <1>3, <1>4, <1>6, <1>7
  <2> QED BY <2>1, <2>2, <2>3, <2>4 DEF SignedOf
<1> QED BY <1>1, <1>5, <1>7, <1>9, <1>10

\* The audit of the typed items and the provider that gets the request agree,
\* for every contract, as long as the provider keeps to its schema.
THEOREM TheAuditForetells == ReplaySpec => []AuditForetells
<1>1. ReplayInv => AuditForetells
  <2> SUFFICES ASSUME ReplayInv, stage = "sent", provider.honest
               PROVE  audit.clean <=> Accepts(provider, tools, body)
    BY DEF AuditForetells
  <2>1. IsRaw(emitted) /\ \A i \in DOMAIN emitted : WellFormed(emitted[i])
    BY DEF ReplayInv, MayEmit
  <2>2. FromItems(ParseResponse(emitted)) = emitted
    BY <2>1, SignedAreCounted
  <2>3. body = emitted /\ items = ParseResponse(emitted)
    BY <2>2 DEF ReplayInv
  <2>4. PICK signed : signed = Cardinality({i \in DOMAIN items : CarriesSignedPayload(items[i])})
    OBVIOUS
  <2>5. signed > 0 <=> SignedOf(emitted) # <<>>
    BY <2>1, <2>3, <2>4, SignedAreCounted
  <2>6. audit.clean <=> (\/ provider.contract = "stateless"
                         \/ provider.contract = "required_with_tools" /\ ~tools
                         \/ signed > 0)
    <3>1. audit = AuditReplay(items, provider.contract, tools)
      BY DEF ReplayInv
    <3>2. AuditReplay(items, provider.contract, tools) =
            [signed |-> signed,
             clean |-> \/ provider.contract = "stateless"
                       \/ provider.contract = "required_with_tools" /\ ~tools
                       \/ signed > 0]
      BY <2>4 DEF AuditReplay
    <3> QED BY <3>1, <3>2
  <2> QED BY <2>3, <2>5, <2>6 DEF Accepts
<1> QED BY <1>1, ReplayInvHolds, PTL

-----------------------------------------------------------------------------
(* ChildRuns: builders, and the runs they build.                           *)

\* A builder in hand or built.
IsBuilder(b) ==
  /\ b = [spawner |-> b.spawner, options |-> b.options, registry |-> b.registry,
          plugins |-> b.plugins, identity |-> b.identity, own |-> b.own,
          touched |-> b.touched, calls |-> b.calls, origin |-> b.origin]
  /\ b.options = [o \in Options |-> b.options[o]]
  /\ b.plugins \in [Categories -> Seq(Plugins)]
  /\ b.own \in [Categories -> Seq(Plugins)]

\* What is on a builder that goes on where a run stopped, built as parents are.
AsSpawned(b, parents) ==
  LET parent == parents[b.spawner]
  IN  /\ \A o \in (Plain \cup Optional) \ b.touched : b.options[o] = parent.options[o]
      /\ Fallback \cap b.touched = {} => Effective(b.options) = Effective(parent.options)
      /\ "tools" \notin b.touched => b.registry = parent.registry

ShapeOf(b, parents) ==
  /\ IsBuilder(b)
  /\ b.options["max_tool_calls_per_turn"] # 0
  /\ \A o \in Personal \ b.touched : b.options[o] = Unset
  /\ b.spawner > 0 => AsSpawned(b, parents)
  /\ \A c \in Categories :
       b.plugins[c] = (IF b.spawner > 0 THEN Kept(parents[b.spawner].plugins[c], OptedIn) ELSE <<>>)
                      \o b.own[c]

ShapeInv ==
  /\ runs \in Seq(ToSet(runs))
  /\ builder # NoBuilder => builder.spawner \in 0..Len(runs) /\ ShapeOf(builder, runs)
  /\ \A r \in DOMAIN runs : runs[r].spawner \in 0..(r - 1) /\ ShapeOf(runs[r], runs)

\* Nothing but what stands before it says what a builder is.
LEMMA ShapeIsLocal ==
  ASSUME NEW b, NEW parents, NEW others, ShapeOf(b, parents),
         b.spawner > 0 => others[b.spawner] = parents[b.spawner]
  PROVE  ShapeOf(b, others)
BY DEF ShapeOf, AsSpawned

\* Effective tells options apart by the fallback's only.
LEMMA OthersAreNoFallback ==
  ASSUME NEW options, NEW changed, \A o \in Fallback : changed[o] = options[o]
  PROVE  Effective(changed) = Effective(options)
BY DEF Effective, Fallback

\* A new builder has its shape, and every builder call keeps it.
LEMMA NewShape ==
  ASSUME NEW parents
  PROVE  ShapeOf(NewBuilder, parents) /\ NewBuilder # NoBuilder
<1>1. NewBuilder.options = Defaults /\ NewBuilder.plugins = NoPlugins /\ NewBuilder.own = NoPlugins
      /\ NewBuilder.spawner = 0
  BY DEF NewBuilder
<1>2. IsBuilder(NewBuilder)
  <2>1. Defaults = [o \in Options |-> Defaults[o]]
    BY DEF Defaults
  <2>2. NoPlugins \in [Categories -> Seq(Plugins)]
    BY DEF NoPlugins
  <2> QED BY <2>1, <2>2 DEF NewBuilder, IsBuilder
<1>3. Defaults["max_tool_calls_per_turn"] = Unset /\ \A o \in Personal : Defaults[o] = Unset
  BY DEF Defaults, Options, Optional, Personal
<1>4. \A c \in Categories : NoPlugins[c] = <<>> \o NoPlugins[c]
  BY DEF NoPlugins
<1>5. NewBuilder # NoBuilder
  <2>1. NoBuilder.spawner = -1
    BY DEF NoBuilder
  <2> QED BY <1>1, <2>1
<1> QED BY <1>1, <1>2, <1>3, <1>4, <1>5, HostAssumption DEF ShapeOf

\* child_builder: what a run passes on.
LEMMA SpawnedShape ==
  ASSUME NEW parents, NEW p \in Nat \ {0}, NEW parent, parent = parents[p],
         IsBuilder(parent), parent.options["max_tool_calls_per_turn"] # 0,
         NEW identity, NEW calls, NEW b,
         NEW origin,
         b = [ChildBuilder(parent) EXCEPT !.spawner = p, !.identity = identity, !.origin = origin,
                                          !.calls = calls]
  PROVE  ShapeOf(b, parents)
<1>1. /\ b.spawner = p /\ b.options = PassedOn(parent.options) /\ b.registry = parent.registry
      /\ b.plugins = Heritable(parent.plugins) /\ b.own = NoPlugins /\ b.touched = {}
      /\ b = [spawner |-> b.spawner, options |-> b.options, registry |-> b.registry,
              plugins |-> b.plugins, identity |-> b.identity, own |-> b.own,
              touched |-> b.touched, calls |-> b.calls, origin |-> b.origin]
  BY DEF ChildBuilder, NewBuilder
<1>2. \A c \in Categories : parent.plugins[c] \in Seq(Plugins)
  BY DEF IsBuilder
<1>3. \A c \in Categories : /\ b.plugins[c] = Kept(parent.plugins[c], OptedIn)
                            /\ b.plugins[c] \in Seq(Plugins)
                            /\ b.own[c] = <<>>
  <2> SUFFICES ASSUME NEW c \in Categories
               PROVE  /\ b.plugins[c] = Kept(parent.plugins[c], OptedIn)
                      /\ b.plugins[c] \in Seq(Plugins)
                      /\ b.own[c] = <<>>
    OBVIOUS
  <2>1. b.plugins[c] = Kept(parent.plugins[c], OptedIn) /\ b.own[c] = <<>>
    BY <1>1 DEF Heritable, NoPlugins
  <2>2. Kept(parent.plugins[c], OptedIn) \in Seq(Plugins \cap OptedIn)
    BY <1>2, KeptType
  <2>3. Plugins \cap OptedIn \subseteq Plugins
    OBVIOUS
  <2> QED BY <2>1, <2>2, <2>3
<1>4. IsBuilder(b)
  <2>1. b.plugins \in [Categories -> Seq(Plugins)]
    <3>1. b.plugins = [c \in Categories |-> b.plugins[c]]
      BY <1>1 DEF Heritable
    <3> QED BY <1>3, <3>1
  <2>2. b.own \in [Categories -> Seq(Plugins)]
    <3>1. NoPlugins \in [Categories -> Seq(Plugins)]
      BY DEF NoPlugins
    <3> QED BY <1>1, <3>1
  <2>3. b.options = [o \in Options |-> b.options[o]]
    BY <1>1 DEF PassedOn
  <2> QED BY <1>1, <2>1, <2>2, <2>3 DEF IsBuilder
<1>5. \A o \in Plain \cup Optional : b.options[o] = parent.options[o]
  BY <1>1 DEF PassedOn, Options
<1>6. \A o \in Personal : b.options[o] = Unset
  BY <1>1 DEF PassedOn, Options, Personal, Plain, Optional, Fallback, Defaults
<1>7. Effective(b.options) = Effective(parent.options)
  <2>1. CASE parent.options["fallback_tool"] = Unset
    <3>1. b.options["fallback_tool"] = Unset
      BY ZenonT(40), <1>1, <2>1 DEF PassedOn, Options, Fallback, Plain, Optional, Defaults
    <3> QED BY <2>1, <3>1 DEF Effective
  <2>2. CASE parent.options["fallback_tool"] # Unset
    <3>1. \A o \in Fallback : b.options[o] = parent.options[o]
      BY <1>1, <2>2 DEF PassedOn, Options
    <3> QED BY <3>1, OthersAreNoFallback
  <2> QED BY <2>1, <2>2
<1>8. AsSpawned(b, parents)
  BY <1>1, <1>5, <1>7 DEF AsSpawned
<1>9. \A c \in Categories : b.plugins[c] = Kept(parents[p].plugins[c], OptedIn) \o b.own[c]
  <2> SUFFICES ASSUME NEW c \in Categories
               PROVE  b.plugins[c] = Kept(parents[p].plugins[c], OptedIn) \o b.own[c]
    OBVIOUS
  <2>1. PICK list \in Seq(Plugins) : list = b.plugins[c]
    BY <1>3
  <2>2. list \o <<>> = list
    BY ConcatEmptySeq
  <2> QED BY <1>3, <2>1, <2>2
<1>10. b.options["max_tool_calls_per_turn"] # 0
  BY <1>5 DEF Optional
<1>11. b.spawner > 0 /\ \A o \in Personal \ b.touched : b.options[o] = Unset
  BY <1>1, <1>6
<1>12. \A c \in Categories :
         b.plugins[c] = (IF b.spawner > 0 THEN Kept(parents[b.spawner].plugins[c], OptedIn) ELSE <<>>)
                        \o b.own[c]
  BY ZenonT(40), <1>1, <1>9, <1>11
<1> QED BY <1>4, <1>8, <1>10, <1>11, <1>12 DEF ShapeOf

\* A setter.
LEMMA SetOptionShape ==
  ASSUME NEW parents, NEW b, ShapeOf(b, parents), NEW option, NEW value, NEW changed,
         changed = [spawner |-> b.spawner, options |-> [b.options EXCEPT ![option] = Clamp(option, value)],
                    registry |-> b.registry, plugins |-> b.plugins, identity |-> b.identity,
                    own |-> b.own, touched |-> b.touched \cup {option}, calls |-> changed.calls, origin |-> changed.origin]
  PROVE  ShapeOf(changed, parents) /\ changed.spawner = b.spawner
<1>1. IsBuilder(b)
  BY DEF ShapeOf
<1>2. /\ changed = [spawner |-> changed.spawner, options |-> changed.options,
                    registry |-> changed.registry, plugins |-> changed.plugins,
                    identity |-> changed.identity, own |-> changed.own,
                    touched |-> changed.touched, calls |-> changed.calls, origin |-> changed.origin]
      /\ changed.spawner = b.spawner /\ changed.registry = b.registry
      /\ changed.plugins = b.plugins /\ changed.own = b.own
      /\ changed.touched = b.touched \cup {option}
      /\ changed.options = [b.options EXCEPT ![option] = Clamp(option, value)]
  BY <1>1 DEF IsBuilder
<1>3. /\ changed.options = [o \in Options |-> changed.options[o]]
      /\ \A o \in Options : o # option => changed.options[o] = b.options[o]
      /\ option \in Options => changed.options[option] = Clamp(option, value)
  BY <1>1, <1>2 DEF IsBuilder
<1>4. IsBuilder(changed)
  BY <1>1, <1>2, <1>3 DEF IsBuilder
<1>5. changed.options["max_tool_calls_per_turn"] # 0
  BY <1>3 DEF ShapeOf, Clamp, Options, Optional
<1>6. \A o \in Personal \ changed.touched : changed.options[o] = Unset
  BY <1>2, <1>3 DEF ShapeOf, Options
<1>7. ASSUME b.spawner > 0 PROVE AsSpawned(changed, parents)
  <2>1. AsSpawned(b, parents)
    BY <1>7 DEF ShapeOf
  <2>2. \A o \in (Plain \cup Optional) \ changed.touched :
          changed.options[o] = parents[b.spawner].options[o]
    BY <1>2, <1>3, <2>1 DEF AsSpawned, Options
  <2>3. ASSUME Fallback \cap changed.touched = {}
        PROVE  Effective(changed.options) = Effective(parents[b.spawner].options)
    <3>1. Fallback \cap b.touched = {} /\ option \notin Fallback
      BY <1>2, <2>3
    <3>2. \A o \in Fallback : changed.options[o] = b.options[o]
      BY <1>3, <3>1 DEF Options
    <3>3. Effective(changed.options) = Effective(b.options)
      BY <3>2, OthersAreNoFallback
    <3> QED BY <2>1, <3>1, <3>3 DEF AsSpawned
  <2>4. "tools" \notin changed.touched => changed.registry = parents[b.spawner].registry
    BY <1>2, <2>1 DEF AsSpawned
  <2> QED BY <1>2, <2>2, <2>3, <2>4 DEF AsSpawned
<1> QED BY <1>2, <1>4, <1>5, <1>6, <1>7 DEF ShapeOf

\* Another registry or another identity touches no option.
LEMMA TouchedShape ==
  ASSUME NEW parents, NEW b, ShapeOf(b, parents), NEW names, NEW changed,
         /\ changed = [spawner |-> b.spawner, options |-> b.options, registry |-> changed.registry,
                       plugins |-> b.plugins, identity |-> changed.identity, own |-> b.own,
                       touched |-> b.touched \cup names, calls |-> changed.calls, origin |-> changed.origin],
         changed.registry = b.registry \/ "tools" \in names
  PROVE  ShapeOf(changed, parents)
<1>1. IsBuilder(changed)
  BY DEF ShapeOf, IsBuilder
<1>2. /\ changed.spawner = b.spawner /\ changed.options = b.options /\ changed.plugins = b.plugins
      /\ changed.own = b.own /\ changed.touched = b.touched \cup names
  OBVIOUS
<1>3. changed.options["max_tool_calls_per_turn"] # 0
  BY <1>2 DEF ShapeOf
<1>4. \A o \in Personal \ changed.touched : changed.options[o] = Unset
  BY <1>2 DEF ShapeOf
<1>5. ASSUME changed.spawner > 0 PROVE AsSpawned(changed, parents)
  <2>1. AsSpawned(b, parents)
    BY <1>2, <1>5 DEF ShapeOf
  <2>2. "tools" \notin changed.touched => changed.registry = b.registry
    BY <1>2
  <2> QED BY <1>2, <2>1, <2>2 DEF AsSpawned
<1>6. \A c \in Categories :
        changed.plugins[c] = (IF changed.spawner > 0
                              THEN Kept(parents[changed.spawner].plugins[c], OptedIn) ELSE <<>>)
                             \o changed.own[c]
  BY <1>2 DEF ShapeOf
<1> QED BY <1>1, <1>3, <1>4, <1>5, <1>6 DEF ShapeOf

\* A plugin comes last on the lists it is put on.
LEMMA PluginShape ==
  ASSUME NEW parents, NEW b, ShapeOf(b, parents), b.spawner > 0 => IsBuilder(parents[b.spawner]),
         NEW changed, NEW on \in SUBSET Categories, NEW plugin \in Plugins,
         changed = [spawner |-> b.spawner, options |-> b.options, registry |-> b.registry,
                    plugins |-> [c \in Categories |-> IF c \in on THEN Append(b.plugins[c], plugin)
                                                     ELSE b.plugins[c]],
                    identity |-> b.identity,
                    own |-> [c \in Categories |-> IF c \in on THEN Append(b.own[c], plugin) ELSE b.own[c]],
                    touched |-> b.touched, calls |-> changed.calls, origin |-> changed.origin]
  PROVE  ShapeOf(changed, parents)
<1>1. /\ changed.spawner = b.spawner /\ changed.options = b.options /\ changed.registry = b.registry
      /\ changed.touched = b.touched
  OBVIOUS
<1>a. changed.plugins = [c \in Categories |-> IF c \in on THEN Append(b.plugins[c], plugin)
                                            ELSE b.plugins[c]]
  OBVIOUS
<1>b. changed.own = [c \in Categories |-> IF c \in on THEN Append(b.own[c], plugin) ELSE b.own[c]]
  OBVIOUS
<1>2. \A c \in Categories : b.plugins[c] \in Seq(Plugins) /\ b.own[c] \in Seq(Plugins)
  BY DEF ShapeOf, IsBuilder
<1>c. \A c \in Categories :
        /\ changed.plugins[c] = IF c \in on THEN Append(b.plugins[c], plugin) ELSE b.plugins[c]
        /\ changed.own[c] = IF c \in on THEN Append(b.own[c], plugin) ELSE b.own[c]
  BY <1>a, <1>b
<1>3. \A c \in Categories : changed.plugins[c] \in Seq(Plugins) /\ changed.own[c] \in Seq(Plugins)
  <2> SUFFICES ASSUME NEW c \in Categories
               PROVE  changed.plugins[c] \in Seq(Plugins) /\ changed.own[c] \in Seq(Plugins)
    OBVIOUS
  <2>1. Append(b.plugins[c], plugin) \in Seq(Plugins) /\ Append(b.own[c], plugin) \in Seq(Plugins)
    BY <1>2
  <2> QED BY <1>2, <1>c, <2>1
<1>4. IsBuilder(changed)
  <2>1. changed.plugins \in [Categories -> Seq(Plugins)] /\ changed.own \in [Categories -> Seq(Plugins)]
    BY <1>a, <1>b, <1>3
  <2>2. changed.options = [o \in Options |-> changed.options[o]]
    BY <1>1 DEF ShapeOf, IsBuilder
  <2>3. changed = [spawner |-> changed.spawner, options |-> changed.options,
                   registry |-> changed.registry, plugins |-> changed.plugins,
                   identity |-> changed.identity, own |-> changed.own,
                   touched |-> changed.touched, calls |-> changed.calls, origin |-> changed.origin]
    OBVIOUS
  <2> QED BY <2>1, <2>2, <2>3 DEF IsBuilder
<1>5. \A c \in Categories :
        changed.plugins[c] = (IF changed.spawner > 0
                              THEN Kept(parents[changed.spawner].plugins[c], OptedIn) ELSE <<>>)
                             \o changed.own[c]
  <2> SUFFICES ASSUME NEW c \in Categories
               PROVE  changed.plugins[c] = (IF changed.spawner > 0
                                            THEN Kept(parents[changed.spawner].plugins[c], OptedIn) ELSE <<>>)
                                           \o changed.own[c]
    OBVIOUS
  <2>1. PICK from : from = IF b.spawner > 0 THEN Kept(parents[b.spawner].plugins[c], OptedIn) ELSE <<>>
    OBVIOUS
  <2>2. from \in Seq(Plugins)
    <3>1. CASE b.spawner > 0
      <4>1. parents[b.spawner].plugins[c] \in Seq(Plugins)
        BY <3>1 DEF IsBuilder
      <4>2. Kept(parents[b.spawner].plugins[c], OptedIn) \in Seq(Plugins \cap OptedIn)
        BY <4>1, KeptType
      <4> QED BY <2>1, <3>1, <4>2
    <3>2. CASE ~(b.spawner > 0)
      <4>1. from = <<>>
        BY <2>1, <3>2
      <4> QED BY <4>1
    <3> QED BY <3>1, <3>2
  <2>3. b.plugins[c] = from \o b.own[c]
    BY <2>1 DEF ShapeOf
  <2>4. from \o Append(b.own[c], plugin) = Append(from \o b.own[c], plugin)
    BY SMTT(30), <1>2, <2>2, ConcatAppend
  <2>5. changed.plugins[c] = from \o changed.own[c]
    BY <1>c, <2>3, <2>4
  <2> QED BY <1>1, <2>1, <2>5
<1>6. changed.options["max_tool_calls_per_turn"] # 0 /\ \A o \in Personal \ changed.touched : changed.options[o] = Unset
  BY <1>1 DEF ShapeOf
<1>7. ASSUME changed.spawner > 0 PROVE AsSpawned(changed, parents)
  <2>1. AsSpawned(b, parents)
    BY <1>1, <1>7 DEF ShapeOf
  <2> QED BY <1>1, <2>1 DEF AsSpawned
<1> QED BY <1>4, <1>5, <1>6, <1>7 DEF ShapeOf

\* A sequence and one element more, by its own elements.
LEMMA OneRunMore ==
  ASSUME NEW s, s \in Seq(ToSet(s)), NEW e, NEW t, t = Append(s, e)
  PROVE  /\ t \in Seq(ToSet(t)) /\ Len(t) = Len(s) + 1 /\ t[Len(s) + 1] = e
         /\ \A i \in DOMAIN s : t[i] = s[i]
<1>1. PICK T : T = ToSet(s) \cup {e}
  OBVIOUS
<1>2. s \in Seq(T) /\ e \in T
  <2>1. ToSet(s) \subseteq T
    BY <1>1
  <2> QED BY <1>1, <2>1
<1>3. t \in Seq(T) /\ Len(t) = Len(s) + 1 /\ t[Len(s) + 1] = e /\ \A i \in DOMAIN s : t[i] = s[i]
  BY <1>2
<1>4. t \in Seq(T)
  BY <1>3
<1>5. t \in Seq(ToSet(t))
  BY <1>4 DEF ToSet
<1> QED BY <1>3, <1>5

\* ShapeInv is inductive.
LEMMA ShapeInvHolds == ChildSpec => []ShapeInv
<1>1. ChildInit => ShapeInv
  BY DEF ChildInit, ShapeInv, ToSet
<1>2. ShapeInv /\ [ChildNext]_childVars => ShapeInv'
  <2> SUFFICES ASSUME ShapeInv, [ChildNext]_childVars PROVE ShapeInv'
    OBVIOUS
  <2>0. /\ Len(runs) \in Nat /\ DOMAIN runs = 1..Len(runs)
        /\ \A r \in DOMAIN runs : runs[r].spawner \in 0..(r - 1) /\ ShapeOf(runs[r], runs)
    BY DEF ShapeInv
  <2>a. ASSUME runs' = runs, builder' # NoBuilder => builder'.spawner \in 0..Len(runs) /\ ShapeOf(builder', runs)
        PROVE  ShapeInv'
    BY <2>a DEF ShapeInv
  <2>b. ASSUME builder # NoBuilder
        PROVE  /\ builder.spawner \in 0..Len(runs) /\ ShapeOf(builder, runs) /\ IsBuilder(builder)
               /\ builder.spawner > 0 => IsBuilder(runs[builder.spawner])
    <3>1. builder.spawner \in 0..Len(runs) /\ ShapeOf(builder, runs)
      BY <2>b DEF ShapeInv
    <3>2. builder.spawner > 0 => builder.spawner \in DOMAIN runs
      BY <2>0, <3>1
    <3>3. \A r \in DOMAIN runs : IsBuilder(runs[r])
      BY <2>0 DEF ShapeOf
    <3> QED BY <3>1, <3>2, <3>3 DEF ShapeOf
  <2>1. CASE Begin
    <3>1. ShapeOf(NewBuilder, runs) /\ NewBuilder.spawner = 0
      BY NewShape DEF NewBuilder
    <3>2. builder' = NewBuilder /\ runs' = runs
      BY <2>1 DEF Begin
    <3> QED BY <2>0, <2>a, <3>1, <3>2
  <2>2. ASSUME NEW p \in DOMAIN runs, Spawn(p) PROVE ShapeInv'
    <3>1. PICK identity, origin, calls :
            builder' = [ChildBuilder(runs[p]) EXCEPT !.spawner = p, !.identity = identity,
                                                     !.origin = origin, !.calls = calls]
      BY <2>2 DEF Spawn
    <3>2. p \in Nat \ {0} /\ p \in 0..Len(runs)
      BY <2>0
    <3>3. IsBuilder(runs[p]) /\ runs[p].options["max_tool_calls_per_turn"] # 0
      BY <2>0 DEF ShapeOf
    <3>4. PICK b : b = builder'
      OBVIOUS
    <3>5. ShapeOf(b, runs)
      BY <3>1, <3>2, <3>3, <3>4, SpawnedShape
    <3>6. b.spawner = p
      BY <3>1, <3>4 DEF ChildBuilder, NewBuilder
    <3>7. runs' = runs
      BY <2>2 DEF Spawn
    <3> QED BY <2>a, <3>2, <3>4, <3>5, <3>6, <3>7
  <2>3. ASSUME NEW s \in Settings, SetOption(s[1], s[2]) PROVE ShapeInv'
    <3>1. PICK b : b = builder'
      OBVIOUS
    <3>2. /\ b = [builder EXCEPT !.options[s[1]] = Clamp(s[1], s[2]), !.touched = @ \cup {s[1]}, !.calls = @ + 1]
          /\ runs' = runs /\ builder # NoBuilder
      BY <2>3, <3>1 DEF SetOption, Calling
    <3>3. PICK old, option, value : old = builder /\ option = s[1] /\ value = s[2]
      OBVIOUS
    <3>5. ShapeOf(old, runs)
      BY <2>b, <3>2, <3>3
    <3>4. b = [spawner |-> old.spawner, options |-> [old.options EXCEPT ![option] = Clamp(option, value)],
               registry |-> old.registry, plugins |-> old.plugins, identity |-> old.identity,
               own |-> old.own, touched |-> old.touched \cup {option}, calls |-> b.calls, origin |-> b.origin]
      BY <3>2, <3>3, <3>5 DEF ShapeOf, IsBuilder
    <3>6. ShapeOf(b, runs) /\ b.spawner = old.spawner
      BY <3>4, <3>5, SetOptionShape
    <3> QED BY <2>a, <2>b, <3>1, <3>2, <3>3, <3>6
  <2>4. ASSUME NEW tool \in Tools, AddTool(tool) PROVE ShapeInv'
    <3>1. PICK b : b = builder'
      OBVIOUS
    <3>2. /\ b = [builder EXCEPT !.registry = Register(@, tool), !.touched = @ \cup {"tools"}, !.calls = @ + 1]
          /\ runs' = runs /\ builder # NoBuilder
      BY <2>4, <3>1 DEF AddTool, Calling
    <3>3. b = [spawner |-> builder.spawner, options |-> builder.options, registry |-> b.registry,
               plugins |-> builder.plugins, identity |-> b.identity, own |-> builder.own,
               touched |-> builder.touched \cup {"tools"}, calls |-> b.calls, origin |-> b.origin]
      BY <2>b, <3>2 DEF IsBuilder
    <3>4. ShapeOf(b, runs) /\ b.spawner = builder.spawner
      BY <2>b, <3>2, <3>3, TouchedShape
    <3> QED BY <2>a, <2>b, <3>1, <3>2, <3>4
  <2>5. ASSUME NEW plugin \in Plugins, AddPlugin(plugin) PROVE ShapeInv'
    <3>1. PICK b, on : b = builder' /\ on = plugin.caps \cap Categories
      OBVIOUS
    <3>2. /\ b = [builder EXCEPT
                    !.plugins = [c \in Categories |-> IF c \in plugin.caps THEN Append(builder.plugins[c], plugin)
                                                     ELSE builder.plugins[c]],
                    !.own = [c \in Categories |-> IF c \in plugin.caps THEN Append(builder.own[c], plugin)
                                                 ELSE builder.own[c]],
                    !.calls = @ + 1]
          /\ runs' = runs /\ builder # NoBuilder
      BY <2>5, <3>1 DEF AddPlugin, Calling
    <3>3. b = [spawner |-> builder.spawner, options |-> builder.options, registry |-> builder.registry,
               plugins |-> [c \in Categories |-> IF c \in on THEN Append(builder.plugins[c], plugin)
                                                ELSE builder.plugins[c]],
               identity |-> builder.identity,
               own |-> [c \in Categories |-> IF c \in on THEN Append(builder.own[c], plugin)
                                            ELSE builder.own[c]],
               touched |-> builder.touched, calls |-> b.calls, origin |-> b.origin]
      <4>1. \A c \in Categories : c \in on <=> c \in plugin.caps
        BY <3>1
      <4> QED BY <2>b, <3>2, <4>1 DEF IsBuilder
    <3>4. on \in SUBSET Categories
      BY <3>1
    <3>5. ShapeOf(b, runs)
      <4>1. PICK old : old = builder
        OBVIOUS
      <4>2. ShapeOf(old, runs) /\ (old.spawner > 0 => IsBuilder(runs[old.spawner]))
        BY <2>b, <4>1, <3>2
      <4>3. b = [spawner |-> old.spawner, options |-> old.options, registry |-> old.registry,
                 plugins |-> [c \in Categories |-> IF c \in on THEN Append(old.plugins[c], plugin)
                                                  ELSE old.plugins[c]],
                 identity |-> old.identity,
                 own |-> [c \in Categories |-> IF c \in on THEN Append(old.own[c], plugin)
                                              ELSE old.own[c]],
                 touched |-> old.touched, calls |-> b.calls, origin |-> b.origin]
        BY <3>3, <4>1
      <4> QED BY <4>2, <4>3, <3>4, PluginShape
    <3>6. b.spawner = builder.spawner
      BY <3>3
    <3> QED BY <2>a, <2>b, <3>1, <3>2, <3>5, <3>6
  <2>6. ASSUME NEW e \in Entries, AddPluginAs(e[1], e[2]) PROVE ShapeInv'
    <3>1. PICK b, category, plugin : b = builder' /\ category = e[1] /\ plugin = e[2]
      OBVIOUS
    <3>2. category \in Categories /\ plugin \in Plugins
      BY <3>1, HostAssumption
    <3>3. /\ b = [builder EXCEPT !.plugins[category] = Append(@, plugin),
                                 !.own[category] = Append(@, plugin), !.calls = @ + 1]
          /\ runs' = runs /\ builder # NoBuilder
      BY <2>6, <3>1 DEF AddPluginAs, Calling
    <3>4. b = [spawner |-> builder.spawner, options |-> builder.options, registry |-> builder.registry,
               plugins |-> [c \in Categories |-> IF c \in {category} THEN Append(builder.plugins[c], plugin)
                                                ELSE builder.plugins[c]],
               identity |-> builder.identity,
               own |-> [c \in Categories |-> IF c \in {category} THEN Append(builder.own[c], plugin)
                                            ELSE builder.own[c]],
               touched |-> builder.touched, calls |-> b.calls, origin |-> b.origin]
      BY <2>b, <3>2, <3>3 DEF IsBuilder
    <3>5. ShapeOf(b, runs)
      <4>1. PICK old : old = builder
        OBVIOUS
      <4>2. ShapeOf(old, runs) /\ (old.spawner > 0 => IsBuilder(runs[old.spawner]))
        BY <2>b, <4>1, <3>3
      <4>3. b = [spawner |-> old.spawner, options |-> old.options, registry |-> old.registry,
                 plugins |-> [c \in Categories |-> IF c \in {category} THEN Append(old.plugins[c], plugin)
                                                  ELSE old.plugins[c]],
                 identity |-> old.identity,
                 own |-> [c \in Categories |-> IF c \in {category} THEN Append(old.own[c], plugin)
                                              ELSE old.own[c]],
                 touched |-> old.touched, calls |-> b.calls, origin |-> b.origin]
        BY <3>4, <4>1
      <4> QED BY <4>2, <4>3, <3>2, PluginShape
    <3>6. b.spawner = builder.spawner
      BY <3>4
    <3> QED BY <2>a, <2>b, <3>1, <3>3, <3>5, <3>6
  <2>7. CASE WithIdentity \/ SupplyRunId \/ NameConversation
    <3>1. PICK b, none : b = builder' /\ none = {}
      OBVIOUS
    <3>2. builder # NoBuilder /\ runs' = runs
      BY <2>7 DEF WithIdentity, SupplyRunId, NameConversation, Calling
    <3>3. PICK identity, origin, calls :
            b = [builder EXCEPT !.identity = identity, !.origin = origin, !.calls = calls]
      <4>1. CASE WithIdentity
        <5>1. PICK identity, origin :
                builder' = [builder EXCEPT !.identity = identity, !.origin = origin, !.calls = @ + 1]
          BY <4>1 DEF WithIdentity
        <5> QED BY <3>1, <5>1
      <4>2. CASE SupplyRunId
        BY <3>1, <4>2 DEF SupplyRunId
      <4>3. CASE NameConversation
        BY <3>1, <4>3 DEF NameConversation
      <4> QED BY <2>7, <4>1, <4>2, <4>3
    <3>4. /\ b = [spawner |-> builder.spawner, options |-> builder.options, registry |-> b.registry,
                  plugins |-> builder.plugins, identity |-> b.identity, own |-> builder.own,
                  touched |-> builder.touched \cup none, calls |-> b.calls, origin |-> b.origin]
          /\ b.registry = builder.registry
      BY <2>b, <3>1, <3>2, <3>3 DEF IsBuilder
    <3>5. PICK old : old = builder
      OBVIOUS
    <3>6. ShapeOf(old, runs)
      BY <2>b, <3>2, <3>5
    <3>7. ShapeOf(b, runs) /\ b.spawner = builder.spawner
      <4>1. /\ b = [spawner |-> old.spawner, options |-> old.options, registry |-> b.registry,
                    plugins |-> old.plugins, identity |-> b.identity, own |-> old.own,
                    touched |-> old.touched \cup none, calls |-> b.calls, origin |-> b.origin]
            /\ b.registry = old.registry
        BY <3>4, <3>5
      <4>2. ShapeOf(b, runs)
        BY <3>6, <4>1, TouchedShape
      <4> QED BY <3>4, <4>2
    <3> QED BY <2>a, <2>b, <3>1, <3>2, <3>7
  <2>8. CASE Build
    <3>1. CASE runs' = runs
      BY <2>8, <2>a, <3>1 DEF Build
    <3>2. CASE runs' = Append(runs, builder)
      <4>1. PICK n, more : n = Len(runs) /\ more = Append(runs, builder)
        OBVIOUS
      <4>2. /\ Len(more) = n + 1 /\ n \in Nat /\ DOMAIN more = 1..(n + 1) /\ more[n + 1] = builder
            /\ \A r \in 1..n : more[r] = runs[r]
            /\ more \in Seq(ToSet(more))
        <5>1. runs \in Seq(ToSet(runs))
          BY DEF ShapeInv
        <5>2. more \in Seq(ToSet(more)) /\ Len(more) = n + 1
          BY <4>1, <5>1, OneRunMore
        <5>3. more[n + 1] = builder /\ \A r \in DOMAIN runs : more[r] = runs[r]
          BY <4>1, <5>1, OneRunMore
        <5>4. DOMAIN more = 1..Len(more)
          BY <5>2
        <5> QED BY <2>0, <4>1, <5>2, <5>3, <5>4
      <4>3. builder # NoBuilder
        BY <2>8 DEF Build
      <4>4. \A r \in 1..n : more[r].spawner \in 0..(r - 1) /\ ShapeOf(more[r], more)
        <5> SUFFICES ASSUME NEW r \in 1..n PROVE more[r].spawner \in 0..(r - 1) /\ ShapeOf(more[r], more)
          OBVIOUS
        <5>1. PICK b : b = runs[r]
          OBVIOUS
        <5>2. b.spawner \in 0..(r - 1) /\ ShapeOf(b, runs) /\ more[r] = b
          BY <2>0, <4>1, <4>2, <5>1
        <5>3. b.spawner > 0 => more[b.spawner] = runs[b.spawner]
          BY <4>2, <5>2
        <5>4. ShapeOf(b, more)
          BY <5>2, <5>3, ShapeIsLocal
        <5> QED BY <5>2, <5>4
      <4>5. builder.spawner \in 0..n /\ ShapeOf(builder, more)
        <5>1. builder.spawner \in 0..n /\ ShapeOf(builder, runs)
          BY <2>b, <4>1, <4>3
        <5>2. builder.spawner > 0 => more[builder.spawner] = runs[builder.spawner]
          BY <4>2, <5>1
        <5> QED BY <5>1, <5>2, ShapeIsLocal
      <4>6. \A r \in DOMAIN more : more[r].spawner \in 0..(r - 1) /\ ShapeOf(more[r], more)
        <5> SUFFICES ASSUME NEW r \in DOMAIN more PROVE more[r].spawner \in 0..(r - 1) /\ ShapeOf(more[r], more)
          OBVIOUS
        <5>1. CASE r \in 1..n
          BY <4>4, <5>1
        <5>2. CASE r = n + 1
          BY <4>2, <4>5, <5>2
        <5> QED BY <4>2, <5>1, <5>2
      <4>7. builder' = NoBuilder /\ runs' = more
        BY <2>8, <3>2, <4>1 DEF Build
      <4> QED BY <4>2, <4>6, <4>7 DEF ShapeInv
    <3> QED BY <2>8, <3>1, <3>2 DEF Build
  <2>9. CASE UNCHANGED childVars
    BY <2>9 DEF childVars, ShapeInv
  <2> QED BY <2>1, <2>2, <2>3, <2>4, <2>5, <2>6, <2>7, <2>8, <2>9 DEF ChildNext
<1> QED BY <1>1, <1>2, PTL DEF ChildSpec

\* For every host: a child runs as its parent does in what the host left alone.
THEOREM ChildrenTakeAfterParents == ChildSpec => []SameShape
<1>1. ShapeInv => SameShape
  <2> SUFFICES ASSUME ShapeInv, NEW r \in DOMAIN runs
               PROVE  /\ runs[r].options["max_tool_calls_per_turn"] # 0
                      /\ IsChild(r) =>
                           LET parent == runs[runs[r].spawner]
                               kept(set) == set \cap runs[r].touched = {}
                           IN  /\ \A o \in Plain \cup Optional :
                                    kept({o}) => runs[r].options[o] = parent.options[o]
                               /\ kept(Fallback) => Effective(runs[r].options) = Effective(parent.options)
                               /\ kept({"tools"}) => runs[r].registry = parent.registry
    BY DEF SameShape
  <2>1. ShapeOf(runs[r], runs)
    BY DEF ShapeInv
  <2> QED BY <2>1 DEF ShapeOf, AsSpawned, IsChild
<1> QED BY <1>1, ShapeInvHolds, PTL

-----------------------------------------------------------------------------
(* Plugins.                                                                *)

\* f gives what each of the first n runs passes on of a category.
PassesDown(f, parents, c, n) ==
  f = [r \in 0..n |-> IF r = 0 THEN <<>>
                      ELSE f[parents[r].spawner] \o Kept(parents[r].own[c], OptedIn)]

\* There is a function of what is passed down.
LEMMA PassesDownExists ==
  ASSUME NEW parents, NEW c, NEW n \in Nat, \A r \in 1..n : parents[r].spawner \in 0..(r - 1)
  PROVE  \E f : PassesDown(f, parents, c, n)
<1> DEFINE Bad == {k \in 0..n : ~ \E f : PassesDown(f, parents, c, k)}
<1>1. SUFFICES ASSUME Bad # {} PROVE FALSE
  OBVIOUS
<1>2. PICK k \in Bad : \A j \in Bad : k <= j
  <2>1. Bad \subseteq Nat
    OBVIOUS
  <2> HIDE DEF Bad
  <2> QED BY <1>1, <2>1, LeastNumber
<1>3. k # 0
  <2> SUFFICES ASSUME k = 0 PROVE FALSE
    OBVIOUS
  <2>1. PassesDown([j \in 0..0 |-> <<>>], parents, c, 0)
    <3>1. \A j \in 0..0 : j = 0
      OBVIOUS
    <3> QED BY <3>1 DEF PassesDown
  <2> QED BY <2>1
<1>4. k \in 1..n /\ k - 1 \in 0..n /\ k - 1 \notin Bad
  BY <1>2, <1>3
<1>5. PICK g : PassesDown(g, parents, c, k - 1)
  BY <1>4
<1> DEFINE last == g[parents[k].spawner] \o Kept(parents[k].own[c], OptedIn)
           h == [j \in 0..k |-> IF j = k THEN last ELSE g[j]]
<1>6. ASSUME NEW j \in 0..k
      PROVE  h[j] = IF j = 0 THEN <<>>
                    ELSE h[parents[j].spawner] \o Kept(parents[j].own[c], OptedIn)
  <2>0. j # 0 => parents[j].spawner \in 0..k /\ parents[j].spawner # k /\ parents[j].spawner \in 0..(k - 1)
    BY <1>4
  <2>1. CASE j = k
    <3>1. j # 0
      BY <1>4, <2>1
    <3>2. h[parents[j].spawner] = g[parents[j].spawner]
      BY <2>0, <3>1
    <3>3. h[j] = last
      BY <2>1
    <3> QED BY <2>1, <3>1, <3>2, <3>3
  <2>2. CASE j # k
    <3>1. j \in 0..(k - 1) /\ h[j] = g[j]
      BY <1>4, <2>2
    <3>2. j # 0 => h[parents[j].spawner] = g[parents[j].spawner]
      BY <2>0
    <3>3. g[j] = IF j = 0 THEN <<>>
                 ELSE g[parents[j].spawner] \o Kept(parents[j].own[c], OptedIn)
      BY <1>5, <3>1 DEF PassesDown
    <3> QED BY <3>1, <3>2, <3>3
  <2> QED BY <2>1, <2>2
<1>7. PassesDown(h, parents, c, k)
  <2>1. DOMAIN h = 0..k /\ h = [j \in DOMAIN h |-> h[j]]
    OBVIOUS
  <2> HIDE DEF h
  <2> QED BY <1>6, <2>1 DEF PassesDown
<1> QED BY <1>2, <1>7

\* What a run has of its parent is what its lineage passed down.
LEMMA LineagePassesDown ==
  ASSUME NEW parents, parents \in Seq(ToSet(parents)), NEW c \in Categories, NEW f,
         PassesDown(f, parents, c, Len(parents)),
         \A r \in DOMAIN parents : parents[r].spawner \in 0..(r - 1) /\ ShapeOf(parents[r], parents),
         NEW r \in DOMAIN parents
  PROVE  parents[r].plugins[c] = f[parents[r].spawner] \o parents[r].own[c]
<1>1. PICK n \in Nat : n = Len(parents) /\ DOMAIN parents = 1..n
  OBVIOUS
<1> DEFINE From(k) == IF parents[k].spawner > 0
                      THEN Kept(parents[parents[k].spawner].plugins[c], OptedIn) ELSE <<>>
           Bad == {k \in 1..n : f[k] # Kept(parents[k].plugins[c], OptedIn)}
<1>2. \A k \in 1..n : /\ parents[k].plugins[c] = From(k) \o parents[k].own[c]
                      /\ parents[k].plugins[c] \in Seq(Plugins) /\ parents[k].own[c] \in Seq(Plugins)
  BY <1>1 DEF ShapeOf, IsBuilder
<1>3. \A k \in 1..n : From(k) \in Seq(OptedIn) /\ From(k) \in Seq(Plugins)
  <2> SUFFICES ASSUME NEW k \in 1..n PROVE From(k) \in Seq(OptedIn) /\ From(k) \in Seq(Plugins)
    OBVIOUS
  <2>1. CASE parents[k].spawner > 0
    <3>1. PICK list : list = parents[parents[k].spawner].plugins[c]
      OBVIOUS
    <3>2. parents[k].spawner \in 1..n
      BY <1>1, <2>1
    <3>3. list \in Seq(Plugins)
      BY <1>2, <3>1, <3>2
    <3>4. Kept(list, OptedIn) \in Seq(Plugins \cap OptedIn)
      BY <3>3, KeptType
    <3>5. Plugins \cap OptedIn = OptedIn /\ OptedIn \subseteq Plugins
      BY DEF OptedIn
    <3>6. Kept(list, OptedIn) \in Seq(OptedIn) /\ Kept(list, OptedIn) \in Seq(Plugins)
      BY <3>4, <3>5
    <3> QED BY <2>1, <3>1, <3>6
  <2>2. CASE ~(parents[k].spawner > 0)
    BY <2>2
  <2> QED BY <2>1, <2>2
<1>4. ASSUME NEW k \in 1..n, \A j \in 1..(k - 1) : f[j] = Kept(parents[j].plugins[c], OptedIn)
      PROVE  f[parents[k].spawner] = From(k) /\ f[k] = Kept(parents[k].plugins[c], OptedIn)
  <2>1. parents[k].spawner \in 0..(k - 1) /\ k \in 0..n /\ k # 0 /\ 0 \in 0..n
    BY <1>1
  <2>2. f[0] = <<>>
    BY <1>1, <2>1 DEF PassesDown
  <2>3. f[k] = f[parents[k].spawner] \o Kept(parents[k].own[c], OptedIn)
    BY <1>1, <2>1 DEF PassesDown
  <2>4. f[parents[k].spawner] = From(k)
    <3>1. CASE parents[k].spawner = 0
      BY <2>2, <3>1
    <3>2. CASE parents[k].spawner # 0
      <4>1. parents[k].spawner \in 1..(k - 1) /\ parents[k].spawner > 0
        BY <2>1, <3>2
      <4> QED BY <1>4, <4>1
    <3> QED BY <3>1, <3>2
  <2>5. PICK from, own : from = From(k) /\ own = parents[k].own[c]
    OBVIOUS
  <2>6. from \in Seq(OptedIn) /\ from \in Seq(Plugins) /\ own \in Seq(Plugins)
    BY <1>2, <1>3, <2>5
  <2>7. Kept(from \o own, OptedIn) = Kept(from, OptedIn) \o Kept(own, OptedIn)
    BY <2>6, KeptConcat
  <2>8. Kept(from, OptedIn) = from
    BY <2>6, KeptAll
  <2>9. parents[k].plugins[c] = from \o own
    BY <1>2, <2>5
  <2>10. f[k] = from \o Kept(own, OptedIn)
    BY <2>3, <2>4, <2>5
  <2> QED BY <2>4, <2>7, <2>8, <2>9, <2>10
<1>5. Bad = {}
  <2> SUFFICES ASSUME Bad # {} PROVE FALSE
    OBVIOUS
  <2>1. PICK k \in Bad : \A j \in Bad : k <= j
    <3>1. Bad \subseteq Nat
      OBVIOUS
    <3> HIDE DEF Bad
    <3> QED BY <3>1, LeastNumber
  <2>2. \A j \in 1..(k - 1) : j \in 1..n /\ ~(k <= j)
    BY <1>1, <2>1
  <2>3. \A j \in 1..(k - 1) : f[j] = Kept(parents[j].plugins[c], OptedIn)
    BY <2>1, <2>2
  <2> HIDE DEF From
  <2> QED BY <1>4, <2>1, <2>3
<1>6. f[parents[r].spawner] = From(r)
  <2>1. \A j \in 1..(r - 1) : j \in 1..n /\ f[j] = Kept(parents[j].plugins[c], OptedIn)
    BY <1>1, <1>5
  <2>2. r \in 1..n
    BY <1>1
  <2> HIDE DEF From
  <2> QED BY <1>4, <2>1, <2>2
<1>7. r \in 1..n
  BY <1>1
<1> HIDE DEF From
<1> QED BY <1>2, <1>6, <1>7

\* For any number of generations: a run is watched by its own plugins and those
\* that opted in along its lineage, oldest first, and shares nothing personal.
THEOREM WhatIsPassedDown == ChildSpec => []ParentOnlyStays
<1>1. ShapeInv => ParentOnlyStays
  <2> SUFFICES ASSUME ShapeInv PROVE ParentOnlyStays
    OBVIOUS
  <2>1. PICK parents, n : parents = runs /\ n = Len(runs)
    OBVIOUS
  <2>2. /\ parents \in Seq(ToSet(parents)) /\ n \in Nat /\ DOMAIN parents = 1..n /\ n = Len(parents)
        /\ \A r \in DOMAIN parents : parents[r].spawner \in 0..(r - 1) /\ ShapeOf(parents[r], parents)
    BY <2>1 DEF ShapeInv
  <2>3. ASSUME NEW c \in Categories, NEW r \in DOMAIN runs
        PROVE  runs[r].plugins[c] = PassedDown(c)[runs[r].spawner] \o runs[r].own[c]
    <3>1. PICK f : f = PassedDown(c)
      OBVIOUS
    <3>2. f = CHOOSE g : PassesDown(g, parents, c, n)
      BY <2>1, <3>1 DEF PassedDown, PassesDown
    <3>3. \E g : PassesDown(g, parents, c, n)
      BY <2>2, PassesDownExists
    <3>4. PassesDown(f, parents, c, Len(parents))
      BY <2>2, <3>2, <3>3
    <3>5. parents[r].plugins[c] = f[parents[r].spawner] \o parents[r].own[c]
      BY <2>1, <2>2, <3>4, LineagePassesDown
    <3> QED BY <2>1, <3>1, <3>5
  <2>4. ASSUME NEW r \in DOMAIN runs PROVE \A o \in Personal \ runs[r].touched : runs[r].options[o] = Unset
    BY <2>1, <2>2 DEF ShapeOf
  <2> QED BY <2>3, <2>4 DEF ParentOnlyStays
<1> QED BY <1>1, ShapeInvHolds, PTL

-----------------------------------------------------------------------------
(* Identities.                                                             *)

\* An identity that may be met when n ids were generated.
IsIdentity(i, n) ==
  \/ i = Anonymous
  \/ /\ i = [run_id |-> i.run_id, parent_run_id |-> i.parent_run_id, depth |-> i.depth,
             conversation_id |-> i.conversation_id]
     /\ i.run_id \in 1..n \cup HostIds
     /\ i.depth \in Nat

Height(i) == IF i = Anonymous THEN 0 ELSE i.depth

\* The parent that is named is a root that was generated for an anonymous run.
Orphan(b, parents) == b.origin.from # 0 /\ parents[b.origin.from].identity = Anonymous

\* An identity goes on from that of the run it derives from, whoever supplied
\* its id. The id of the root of an orphan is borne by no run it was generated for.
Linked(b, parents, n) ==
  LET i == b.identity
      parent == parents[b.origin.from].identity
  IN  IF b.origin.from = 0 THEN Height(i) = 0
      ELSE /\ i # Anonymous /\ i.depth = Height(parent) + 1
           /\ parent # Anonymous =>
                /\ i.parent_run_id = parent.run_id
                /\ ~b.origin.named => i.conversation_id = parent.conversation_id
           /\ parent = Anonymous =>
                /\ i.parent_run_id \in 1..n
                /\ \A q \in DOMAIN parents :
                     parents[q].origin.fresh => parents[q].identity.run_id # i.parent_run_id

\* What holds of the identity of the k-th run, and of one to be.
Standing(b, k, parents, n) ==
  /\ b.origin = [from |-> b.origin.from, fresh |-> b.origin.fresh, named |-> b.origin.named]
  /\ b.origin.from \in 0..(k - 1)
  /\ IsIdentity(b.identity, n)
  /\ b.origin.fresh => b.identity # Anonymous /\ b.identity.run_id \in 1..n
  /\ Linked(b, parents, n)

\* A generated id is named nowhere before.
Apart(b, parents) ==
  b.origin.fresh =>
    /\ \A q \in DOMAIN parents :
         /\ parents[q].origin.fresh => parents[q].identity.run_id # b.identity.run_id
         /\ Orphan(parents[q], parents) => parents[q].identity.parent_run_id # b.identity.run_id
    /\ Orphan(b, parents) => b.identity.parent_run_id # b.identity.run_id

Lineages(parents, n) ==
  /\ \A r \in DOMAIN parents : Standing(parents[r], r, parents, n)
  /\ \A r, q \in DOMAIN parents :
       r # q /\ parents[r].origin.fresh /\ parents[q].origin.fresh =>
         parents[r].identity.run_id # parents[q].identity.run_id

LineageInv ==
  /\ minted \in Nat
  /\ Lineages(runs, minted)
  /\ builder # NoBuilder => Standing(builder, Len(runs) + 1, runs, minted) /\ Apart(builder, runs)

\* More ids generated take nothing away.
LEMMA StandingLater ==
  ASSUME NEW n \in Nat, NEW m \in Nat, n <= m, NEW b, NEW k, NEW parents, Standing(b, k, parents, n)
  PROVE  Standing(b, k, parents, m)
<1>1. 1..n \subseteq 1..m
  OBVIOUS
<1>2. IsIdentity(b.identity, m)
  BY <1>1 DEF Standing, IsIdentity
<1>3. Linked(b, parents, m)
  BY <1>1 DEF Standing, Linked
<1>4. /\ b.origin = [from |-> b.origin.from, fresh |-> b.origin.fresh, named |-> b.origin.named]
      /\ b.origin.from \in 0..(k - 1)
      /\ b.origin.fresh => b.identity # Anonymous /\ b.identity.run_id \in 1..m
  BY <1>1 DEF Standing
<1> QED BY <1>2, <1>3, <1>4 DEF Standing

\* Nothing but its identity and where that comes from says how a run stands.
LEMMA StandingIsOfIdentity ==
  ASSUME NEW b, NEW other, other.identity = b.identity, other.origin = b.origin,
         NEW k, NEW parents, NEW n, Standing(b, k, parents, n), Apart(b, parents)
  PROVE  Standing(other, k, parents, n) /\ Apart(other, parents)
BY DEF Standing, Apart, Linked, Orphan

\* An id that is higher than all is new.
LEMMA NewIsApart ==
  ASSUME NEW n \in Nat, NEW parents, Lineages(parents, n), NEW b, NEW id \in Nat, n < id,
         b.identity.run_id = id, Orphan(b, parents) => b.identity.parent_run_id # id
  PROVE  Apart(b, parents)
<1>1. ASSUME NEW q \in DOMAIN parents
      PROVE  /\ parents[q].origin.fresh => parents[q].identity.run_id # id
             /\ Orphan(parents[q], parents) => parents[q].identity.parent_run_id # id
  <2>1. Standing(parents[q], q, parents, n)
    BY DEF Lineages
  <2>2. parents[q].origin.fresh => parents[q].identity.run_id \in 1..n
    BY <2>1 DEF Standing
  <2>3. Orphan(parents[q], parents) => parents[q].identity.parent_run_id \in 1..n
    BY <2>1 DEF Standing, Linked, Orphan
  <2> QED BY <2>2, <2>3
<1> QED BY <1>1 DEF Apart

\* A run that is built takes its place behind the others.
LEMMA OneLineageMore ==
  ASSUME NEW n \in Nat, NEW parents, parents \in Seq(ToSet(parents)), Lineages(parents, n),
         NEW b, Standing(b, Len(parents) + 1, parents, n), Apart(b, parents),
         NEW more, more = Append(parents, b)
  PROVE  Lineages(more, n)
<1>1. PICK k : k = Len(parents)
  OBVIOUS
<1>2. /\ k \in Nat /\ DOMAIN parents = 1..k /\ DOMAIN more = 1..(k + 1) /\ more[k + 1] = b
      /\ \A r \in 1..k : more[r] = parents[r]
  <2>1. more \in Seq(ToSet(more)) /\ Len(more) = k + 1
    BY <1>1, OneRunMore
  <2>2. more[k + 1] = b /\ \A r \in DOMAIN parents : more[r] = parents[r]
    BY <1>1, OneRunMore
  <2> QED BY <1>1, <2>1, <2>2
<1>3. \A r \in 1..(k + 1) : r \in 1..k \/ r = k + 1
  BY <1>2
<1>4. ASSUME NEW c, NEW r \in 1..(k + 1), Standing(c, r, parents, n),
             b.origin.fresh /\ Orphan(c, parents) => c.identity.parent_run_id # b.identity.run_id
      PROVE  Standing(c, r, more, n)
  <2>1. c.origin.from \in 0..(r - 1)
    BY <1>4 DEF Standing
  <2>2. c.origin.from # 0 => more[c.origin.from] = parents[c.origin.from]
    <3>1. c.origin.from # 0 => c.origin.from \in 1..k
      BY <1>2, <2>1
    <3> QED BY <1>2, <3>1
  <2>3. ASSUME Orphan(c, parents), NEW q \in DOMAIN more, more[q].origin.fresh
        PROVE  more[q].identity.run_id # c.identity.parent_run_id
    <3>1. CASE q \in 1..k
      BY <1>2, <1>4, <2>3, <3>1 DEF Standing, Linked, Orphan
    <3>2. CASE q = k + 1
      BY <1>2, <1>4, <2>3, <3>2
    <3> QED BY <1>2, <1>3, <3>1, <3>2
  <2>4. Linked(c, more, n)
    BY <1>4, <2>2, <2>3 DEF Standing, Linked, Orphan
  <2> QED BY <1>4, <2>4 DEF Standing
<1>5. \A r \in 1..k : /\ Standing(parents[r], r, parents, n)
                      /\ b.origin.fresh => /\ parents[r].origin.fresh => parents[r].identity.run_id # b.identity.run_id
                                           /\ Orphan(parents[r], parents) =>
                                                parents[r].identity.parent_run_id # b.identity.run_id
  BY <1>2 DEF Lineages, Apart
<1>6. ASSUME NEW r \in DOMAIN more PROVE Standing(more[r], r, more, n)
  <2>1. CASE r \in 1..k
    <3>1. PICK c : c = parents[r]
      OBVIOUS
    <3>2. Standing(c, r, parents, n) /\ (b.origin.fresh /\ Orphan(c, parents) => c.identity.parent_run_id # b.identity.run_id)
      BY <1>5, <2>1, <3>1
    <3> QED BY <1>2, <1>4, <2>1, <3>1, <3>2
  <2>2. CASE r = k + 1
    <3>1. Standing(b, r, parents, n) /\ (b.origin.fresh /\ Orphan(b, parents) => b.identity.parent_run_id # b.identity.run_id)
      BY <1>1, <2>2 DEF Apart
    <3> QED BY <1>2, <1>4, <2>2, <3>1
  <2> QED BY <1>2, <1>3, <2>1, <2>2
<1>7. ASSUME NEW r \in DOMAIN more, NEW q \in DOMAIN more, r # q, more[r].origin.fresh, more[q].origin.fresh
      PROVE  more[r].identity.run_id # more[q].identity.run_id
  <2>1. CASE r \in 1..k /\ q \in 1..k
    BY <1>2, <1>7, <2>1 DEF Lineages
  <2>2. CASE r = k + 1 /\ q \in 1..k
    BY <1>2, <1>5, <1>7, <2>2
  <2>3. CASE r \in 1..k /\ q = k + 1
    BY <1>2, <1>5, <1>7, <2>3
  <2> QED BY <1>2, <1>3, <1>7, <2>1, <2>2, <2>3
<1> QED BY <1>6, <1>7 DEF Lineages


LEMMA LineagesLater ==
  ASSUME NEW n \in Nat, NEW m \in Nat, n <= m, NEW parents, Lineages(parents, n)
  PROVE  Lineages(parents, m)
<1>1. ASSUME NEW r \in DOMAIN parents PROVE Standing(parents[r], r, parents, m)
  <2>1. Standing(parents[r], r, parents, n)
    BY DEF Lineages
  <2>2. PICK b : b = parents[r]
    OBVIOUS
  <2>3. Standing(b, r, parents, n)
    BY <2>1, <2>2
  <2>4. Standing(b, r, parents, m)
    BY <2>3, StandingLater
  <2> QED BY <2>2, <2>4
<1> QED BY <1>1 DEF Lineages

\* Ids are not 0, so who has one is not anonymous.
LEMMA IdIsNotAnonymous ==
  ASSUME NEW n \in Nat, NEW i, i.run_id \in 1..n \cup HostIds
  PROVE  i # Anonymous
<1>1. Anonymous.run_id = 0
  BY DEF Anonymous
<1>2. 0 \notin 1..n \cup HostIds
  BY HostAssumption
<1> QED BY <1>1, <1>2

\* with_identity for a root, and for a derived identity; spawn_child for an
\* anonymous run; an identity that is used again.
LEMMA RootStands ==
  ASSUME NEW n \in Nat, NEW parents, Lineages(parents, n), NEW k \in Nat \ {0},
         NEW b, b.identity = Root(n + 1), b.origin = Generated(0)
  PROVE  Standing(b, k, parents, n + 1) /\ Apart(b, parents)
<1>1. /\ b.identity = [run_id |-> n + 1, parent_run_id |-> 0, depth |-> 0, conversation_id |-> Unset]
      /\ b.origin = [from |-> 0, fresh |-> TRUE, named |-> FALSE]
  BY DEF Root, Generated
<1>2. n + 1 \in 1..(n + 1) /\ n + 1 \in Nat /\ n < n + 1
  OBVIOUS
<1>3. b.identity # Anonymous
  BY <1>1, <1>2, IdIsNotAnonymous
<1>4. IsIdentity(b.identity, n + 1)
  BY <1>1, <1>2 DEF IsIdentity
<1>5. Linked(b, parents, n + 1) /\ ~Orphan(b, parents)
  BY <1>1 DEF Linked, Orphan, Height
<1>6. Apart(b, parents)
  BY <1>1, <1>2, <1>5, NewIsApart
<1>7. 0 \in 0..(k - 1)
  OBVIOUS
<1> QED BY <1>1, <1>2, <1>3, <1>4, <1>5, <1>6, <1>7 DEF Standing

LEMMA DerivedStands ==
  ASSUME NEW n \in Nat, NEW parents, Lineages(parents, n), NEW k \in Nat,
         NEW q \in 1..(k - 1), q \in DOMAIN parents, NEW of, of = parents[q].identity,
         of # Anonymous, NEW b, b.identity = ChildOf(of, n + 1), b.origin = Generated(q)
  PROVE  Standing(b, k, parents, n + 1) /\ Apart(b, parents)
<1>1. /\ of = [run_id |-> of.run_id, parent_run_id |-> of.parent_run_id, depth |-> of.depth,
               conversation_id |-> of.conversation_id]
      /\ of.depth \in Nat
  BY DEF Lineages, Standing, IsIdentity
<1>2. /\ b.identity = [run_id |-> n + 1, parent_run_id |-> of.run_id, depth |-> of.depth + 1,
                       conversation_id |-> of.conversation_id]
      /\ b.origin = [from |-> q, fresh |-> TRUE, named |-> FALSE]
  BY <1>1 DEF ChildOf, Generated
<1>3. n + 1 \in 1..(n + 1) /\ n + 1 \in Nat /\ n < n + 1
  OBVIOUS
<1>4. b.identity # Anonymous
  BY <1>2, <1>3, IdIsNotAnonymous
<1>5. IsIdentity(b.identity, n + 1)
  BY <1>1, <1>2, <1>3 DEF IsIdentity
<1>6. Linked(b, parents, n + 1) /\ ~Orphan(b, parents)
  BY <1>2, <1>4 DEF Linked, Orphan, Height
<1>7. Apart(b, parents)
  BY <1>2, <1>3, <1>6, NewIsApart
<1>8. q \in 0..(k - 1)
  OBVIOUS
<1> QED BY <1>2, <1>3, <1>4, <1>5, <1>6, <1>7, <1>8 DEF Standing

LEMMA OrphanStands ==
  ASSUME NEW n \in Nat, NEW parents, Lineages(parents, n), NEW k \in Nat,
         NEW q \in 1..(k - 1), q \in DOMAIN parents, parents[q].identity = Anonymous,
         NEW b, b.identity = ChildOf(Root(n + 1), n + 2), b.origin = Generated(q)
  PROVE  Standing(b, k, parents, n + 2) /\ Apart(b, parents)
<1>1. /\ b.identity = [run_id |-> n + 2, parent_run_id |-> n + 1, depth |-> 1, conversation_id |-> Unset]
      /\ b.origin = [from |-> q, fresh |-> TRUE, named |-> FALSE]
  <2>1. PICK of : of = Root(n + 1)
    OBVIOUS
  <2>2. of = [run_id |-> n + 1, parent_run_id |-> 0, depth |-> 0, conversation_id |-> Unset]
    BY <2>1 DEF Root
  <2>3. b.identity = [of EXCEPT !.run_id = n + 2, !.parent_run_id = of.run_id, !.depth = @ + 1]
    BY <2>1 DEF ChildOf
  <2>4. of.depth + 1 = 1
    BY <2>2
  <2> QED BY <2>2, <2>3, <2>4 DEF Generated
<1>2. n + 2 \in 1..(n + 2) /\ n + 2 \in Nat /\ n < n + 2 /\ n + 1 \in 1..(n + 2) /\ n + 1 \notin 1..n
      /\ n + 1 # n + 2 /\ q # 0 /\ q \in 0..(k - 1)
  OBVIOUS
<1>3. b.identity # Anonymous
  BY <1>1, <1>2, IdIsNotAnonymous
<1>4. IsIdentity(b.identity, n + 2)
  BY <1>1, <1>2 DEF IsIdentity
<1>5. \A r \in DOMAIN parents : parents[r].origin.fresh => parents[r].identity.run_id # n + 1
  BY <1>2 DEF Lineages, Standing
<1>6. Linked(b, parents, n + 2)
  BY <1>1, <1>2, <1>3, <1>5 DEF Linked, Height
<1>7. Apart(b, parents)
  BY <1>1, <1>2, NewIsApart
<1> QED BY <1>1, <1>2, <1>3, <1>4, <1>6, <1>7 DEF Standing

LEMMA CopyStands ==
  ASSUME NEW n \in Nat, NEW parents, Lineages(parents, n), NEW k \in Nat,
         NEW q \in 1..(k - 1), q \in DOMAIN parents, NEW of, of = parents[q],
         NEW b, b.identity = of.identity, b.origin = [of.origin EXCEPT !.fresh = FALSE]
  PROVE  Standing(b, k, parents, n) /\ Apart(b, parents)
<1>1. Standing(of, q, parents, n)
  BY DEF Lineages
<1>2. b.origin = [from |-> of.origin.from, fresh |-> FALSE, named |-> of.origin.named]
  BY <1>1 DEF Standing
<1>3. of.origin.from \in 0..(k - 1)
  BY <1>1 DEF Standing
<1>4. IsIdentity(b.identity, n)
  BY <1>1 DEF Standing
<1>5. Linked(b, parents, n)
  BY <1>1, <1>2 DEF Standing, Linked
<1> QED BY <1>2, <1>3, <1>4, <1>5 DEF Standing, Apart

\* with_run_id and with_conversation_id.
Supplied(b, old, id) ==
  b.identity = [old.identity EXCEPT !.run_id = id] /\ b.origin = [old.origin EXCEPT !.fresh = FALSE]

Named(b, old, name) ==
  b.identity = [old.identity EXCEPT !.conversation_id = name] /\ b.origin = [old.origin EXCEPT !.named = TRUE]

LEMMA SuppliedStands ==
  ASSUME NEW n \in Nat, NEW parents, NEW k, NEW old, Standing(old, k, parents, n),
         old.identity # Anonymous, NEW id \in HostIds \cup 1..n,
         NEW b, Supplied(b, old, id)
  PROVE  Standing(b, k, parents, n) /\ Apart(b, parents)
<1>1. PICK i : i = old.identity
  OBVIOUS
<1>2. /\ i = [run_id |-> i.run_id, parent_run_id |-> i.parent_run_id, depth |-> i.depth,
              conversation_id |-> i.conversation_id]
      /\ i.depth \in Nat
  BY <1>1 DEF Standing, IsIdentity
<1>3. /\ b.identity = [run_id |-> id, parent_run_id |-> i.parent_run_id, depth |-> i.depth,
                       conversation_id |-> i.conversation_id]
      /\ b.origin = [from |-> old.origin.from, fresh |-> FALSE, named |-> old.origin.named]
  BY <1>1, <1>2 DEF Standing, Supplied
<1>4. b.identity # Anonymous
  BY <1>3, IdIsNotAnonymous
<1>5. IsIdentity(b.identity, n)
  BY <1>2, <1>3 DEF IsIdentity
<1>6. Linked(b, parents, n)
  BY <1>1, <1>3, <1>4 DEF Standing, Linked, Height
<1> QED BY <1>3, <1>5, <1>6 DEF Standing, Apart

LEMMA NamedStands ==
  ASSUME NEW n \in Nat, NEW parents, NEW k, NEW old, Standing(old, k, parents, n), Apart(old, parents),
         old.identity # Anonymous, NEW name,
         NEW b, Named(b, old, name)
  PROVE  Standing(b, k, parents, n) /\ Apart(b, parents)
<1>1. PICK i : i = old.identity
  OBVIOUS
<1>2. /\ i = [run_id |-> i.run_id, parent_run_id |-> i.parent_run_id, depth |-> i.depth,
              conversation_id |-> i.conversation_id]
      /\ i.depth \in Nat /\ i.run_id \in 1..n \cup HostIds
  BY <1>1 DEF Standing, IsIdentity
<1>3. /\ b.identity = [run_id |-> i.run_id, parent_run_id |-> i.parent_run_id, depth |-> i.depth,
                       conversation_id |-> name]
      /\ b.origin = [from |-> old.origin.from, fresh |-> old.origin.fresh, named |-> TRUE]
  BY <1>1, <1>2 DEF Standing, Named
<1>4. b.identity # Anonymous
  BY <1>2, <1>3, IdIsNotAnonymous
<1>5. IsIdentity(b.identity, n)
  BY <1>2, <1>3 DEF IsIdentity
<1>6. Linked(b, parents, n)
  BY <1>1, <1>3, <1>4 DEF Standing, Linked, Height
<1>7. Apart(b, parents)
  BY <1>1, <1>3 DEF Apart, Orphan
<1>8. b.origin.fresh => b.identity.run_id \in 1..n
  BY <1>1, <1>3 DEF Standing
<1> QED BY <1>3, <1>4, <1>5, <1>6, <1>7, <1>8 DEF Standing
\* LineageInv is inductive.
LEMMA LineageInvHolds == ChildSpec => []LineageInv
<1>1. ChildInit => LineageInv
  BY DEF ChildInit, LineageInv, Lineages
<1>2. ShapeInv /\ LineageInv /\ [ChildNext]_childVars => LineageInv'
  <2> SUFFICES ASSUME ShapeInv, LineageInv, [ChildNext]_childVars PROVE LineageInv'
    OBVIOUS
  <2>1. PICK n, k, parents, old : n = minted /\ k = Len(runs) + 1 /\ parents = runs /\ old = builder
    OBVIOUS
  <2>2. /\ n \in Nat /\ k \in Nat \ {0} /\ k = Len(parents) + 1 /\ DOMAIN parents = 1..(k - 1)
        /\ parents \in Seq(ToSet(parents)) /\ Lineages(parents, n)
    BY <2>1 DEF ShapeInv, LineageInv
  <2>3. old # NoBuilder => IsBuilder(old) /\ Standing(old, k, parents, n) /\ Apart(old, parents)
    BY <2>1 DEF ShapeInv, ShapeOf, LineageInv
  <2>a. ASSUME NEW m \in Nat, n <= m, minted' = m, runs' = runs, NEW b, builder' = b,
               Standing(b, k, parents, m) /\ Apart(b, parents)
        PROVE  LineageInv'
    <3>1. Lineages(parents, m)
      BY <2>2, <2>a, LineagesLater
    <3> QED BY <2>1, <2>a, <3>1 DEF LineageInv
  <2>b. ASSUME minted' = minted, runs' = runs, NEW b, builder' = b, old # NoBuilder,
               b.identity = old.identity, b.origin = old.origin
        PROVE  LineageInv'
    <3>1. Standing(b, k, parents, n) /\ Apart(b, parents)
      BY <2>3, <2>b, StandingIsOfIdentity
    <3>2. n <= n /\ minted' = n
      BY <2>1, <2>2, <2>b
    <3> QED BY <2>2, <2>a, <2>b, <3>1, <3>2
  <2>4. CASE Begin
    <3>1. PICK b : b = NewBuilder
      OBVIOUS
    <3>2. b.identity = Anonymous /\ b.origin = [from |-> 0, fresh |-> FALSE, named |-> FALSE]
      BY <3>1 DEF NewBuilder
    <3>3. 0 \in 0..(k - 1)
      BY <2>2
    <3>4. Standing(b, k, parents, n) /\ Apart(b, parents)
      BY <3>2, <3>3 DEF Standing, Apart, Linked, IsIdentity, Height
    <3>5. builder' = b /\ runs' = runs /\ minted' = n /\ n <= n
      BY <2>1, <2>2, <2>4, <3>1 DEF Begin
    <3> QED BY <2>2, <2>a, <3>4, <3>5
  <2>5. ASSUME NEW p \in DOMAIN runs, Spawn(p) PROVE LineageInv'
    <3>1. PICK of, b : of = parents[p].identity /\ b = builder'
      OBVIOUS
    <3>2. p \in 1..(k - 1) /\ p \in DOMAIN parents
      BY <2>1, <2>2
    <3>3. CASE of = Anonymous
      <4>1. /\ b.identity = ChildOf(Root(n + 1), n + 2) /\ b.origin = Generated(p)
            /\ minted' = n + 2 /\ runs' = runs
        <5>1. builder' = [ChildBuilder(runs[p]) EXCEPT
                            !.spawner = p, !.identity = ChildOf(Root(minted + 1), minted + 2),
                            !.origin = Generated(p), !.calls = runs[Len(runs)].calls]
              /\ minted' = minted + 2 /\ runs' = runs
          BY <2>1, <2>5, <3>1, <3>3 DEF Spawn
        <5>2. builder'.identity = ChildOf(Root(minted + 1), minted + 2) /\ builder'.origin = Generated(p)
          BY <5>1 DEF ChildBuilder, NewBuilder
        <5> QED BY <2>1, <3>1, <5>1, <5>2
      <4>2. Standing(b, k, parents, n + 2) /\ Apart(b, parents)
        BY <2>2, <3>1, <3>2, <3>3, <4>1, OrphanStands
      <4>3. n + 2 \in Nat /\ n <= n + 2
        BY <2>2
      <4> QED BY <2>a, <3>1, <4>1, <4>2, <4>3
    <3>4. CASE of # Anonymous
      <4>1. /\ b.identity = ChildOf(of, n + 1) /\ b.origin = Generated(p)
            /\ minted' = n + 1 /\ runs' = runs
        <5>1. builder' = [ChildBuilder(runs[p]) EXCEPT
                            !.spawner = p, !.identity = ChildOf(runs[p].identity, minted + 1),
                            !.origin = Generated(p), !.calls = runs[Len(runs)].calls]
              /\ minted' = minted + 1 /\ runs' = runs
          BY <2>1, <2>5, <3>1, <3>4 DEF Spawn
        <5>2. builder'.identity = ChildOf(runs[p].identity, minted + 1) /\ builder'.origin = Generated(p)
          BY <5>1 DEF ChildBuilder, NewBuilder
        <5> QED BY <2>1, <3>1, <5>1, <5>2
      <4>2. Standing(b, k, parents, n + 1) /\ Apart(b, parents)
        BY <2>2, <3>1, <3>2, <3>4, <4>1, DerivedStands
      <4>3. n + 1 \in Nat /\ n <= n + 1
        BY <2>2
      <4> QED BY <2>a, <3>1, <4>1, <4>2, <4>3
    <3> QED BY <3>3, <3>4
  <2>6. ASSUME NEW s \in Settings, SetOption(s[1], s[2]) PROVE LineageInv'
    <3>1. PICK b : b = builder'
      OBVIOUS
    <3>2. /\ b = [old EXCEPT !.options[s[1]] = Clamp(s[1], s[2]), !.touched = @ \cup {s[1]}, !.calls = @ + 1]
          /\ runs' = runs /\ minted' = minted /\ old # NoBuilder
      BY <2>1, <2>6, <3>1 DEF SetOption, Calling
    <3>3. b.identity = old.identity /\ b.origin = old.origin
      BY <2>3, <3>2 DEF IsBuilder
    <3> QED BY <2>b, <3>1, <3>2, <3>3
  <2>7. ASSUME NEW tool \in Tools, AddTool(tool) PROVE LineageInv'
    <3>1. PICK b : b = builder'
      OBVIOUS
    <3>2. /\ b = [old EXCEPT !.registry = Register(@, tool), !.touched = @ \cup {"tools"}, !.calls = @ + 1]
          /\ runs' = runs /\ minted' = minted /\ old # NoBuilder
      BY <2>1, <2>7, <3>1 DEF AddTool, Calling
    <3>3. b.identity = old.identity /\ b.origin = old.origin
      BY <2>3, <3>2 DEF IsBuilder
    <3> QED BY <2>b, <3>1, <3>2, <3>3
  <2>8. ASSUME NEW plugin \in Plugins, AddPlugin(plugin) PROVE LineageInv'
    <3>1. PICK b : b = builder'
      OBVIOUS
    <3>2. PICK lists, own : b = [old EXCEPT !.plugins = lists, !.own = own, !.calls = @ + 1]
      BY <2>1, <2>8, <3>1 DEF AddPlugin
    <3>3. runs' = runs /\ minted' = minted /\ old # NoBuilder
      BY <2>1, <2>8 DEF AddPlugin, Calling
    <3>4. b.identity = old.identity /\ b.origin = old.origin
      BY <2>3, <3>2, <3>3 DEF IsBuilder
    <3> QED BY <2>b, <3>1, <3>3, <3>4
  <2>9. ASSUME NEW e \in Entries, AddPluginAs(e[1], e[2]) PROVE LineageInv'
    <3>1. PICK b : b = builder'
      OBVIOUS
    <3>2. b = [old EXCEPT !.plugins[e[1]] = Append(@, e[2]), !.own[e[1]] = Append(@, e[2]), !.calls = @ + 1]
      BY <2>1, <2>9, <3>1 DEF AddPluginAs
    <3>3. runs' = runs /\ minted' = minted /\ old # NoBuilder
      BY <2>1, <2>9 DEF AddPluginAs, Calling
    <3>4. b.identity = old.identity /\ b.origin = old.origin
      BY <2>3, <3>2, <3>3 DEF IsBuilder
    <3> QED BY <2>b, <3>1, <3>3, <3>4
  <2>10. CASE WithIdentity
    <3>1. PICK b : b = builder'
      OBVIOUS
    <3>2. old # NoBuilder /\ runs' = runs /\ IsBuilder(old)
      BY <2>1, <2>3, <2>10 DEF WithIdentity, Calling
    <3>3. CASE /\ builder' = [builder EXCEPT !.identity = Root(minted + 1), !.origin = Generated(0),
                                             !.calls = @ + 1]
               /\ minted' = minted + 1
      <4>1. b.identity = Root(n + 1) /\ b.origin = Generated(0) /\ minted' = n + 1
        BY <2>1, <3>1, <3>2, <3>3 DEF IsBuilder
      <4>2. Standing(b, k, parents, n + 1) /\ Apart(b, parents)
        BY <2>2, <4>1, RootStands
      <4>3. n + 1 \in Nat /\ n <= n + 1
        BY <2>2
      <4> QED BY <2>a, <3>1, <3>2, <4>1, <4>2, <4>3
    <3>4. ASSUME NEW q \in Identified,
                 builder' = [builder EXCEPT !.identity = ChildOf(runs[q].identity, minted + 1),
                                            !.origin = Generated(q), !.calls = @ + 1],
                 minted' = minted + 1
          PROVE  LineageInv'
      <4>1. PICK of : of = parents[q].identity
        OBVIOUS
      <4>2. b.identity = ChildOf(of, n + 1) /\ b.origin = Generated(q) /\ minted' = n + 1
        BY <2>1, <3>1, <3>2, <3>4, <4>1 DEF IsBuilder
      <4>3. q \in 1..(k - 1) /\ q \in DOMAIN parents /\ of # Anonymous
        BY <2>1, <2>2, <4>1 DEF Identified
      <4>4. Standing(b, k, parents, n + 1) /\ Apart(b, parents)
        BY <2>2, <4>1, <4>2, <4>3, DerivedStands
      <4>5. n + 1 \in Nat /\ n <= n + 1
        BY <2>2
      <4> QED BY <2>a, <3>1, <3>2, <4>2, <4>4, <4>5
    <3>5. ASSUME NEW q \in Identified,
                 builder' = [builder EXCEPT !.identity = runs[q].identity,
                                            !.origin = [runs[q].origin EXCEPT !.fresh = FALSE],
                                            !.calls = @ + 1],
                 minted' = minted
          PROVE  LineageInv'
      <4>1. PICK of : of = parents[q]
        OBVIOUS
      <4>2. b.identity = of.identity /\ b.origin = [of.origin EXCEPT !.fresh = FALSE] /\ minted' = n
        BY <2>1, <3>1, <3>2, <3>5, <4>1 DEF IsBuilder
      <4>3. q \in 1..(k - 1) /\ q \in DOMAIN parents
        BY <2>1, <2>2 DEF Identified
      <4>4. Standing(b, k, parents, n) /\ Apart(b, parents)
        BY <2>2, <4>1, <4>2, <4>3, CopyStands
      <4>5. n <= n
        BY <2>2
      <4> QED BY <2>2, <2>a, <3>1, <3>2, <4>2, <4>4, <4>5
    <3> QED BY <2>10, <3>3, <3>4, <3>5 DEF WithIdentity
  <2>11. CASE SupplyRunId
    <3>1. PICK b : b = builder'
      OBVIOUS
    <3>2. /\ old # NoBuilder /\ runs' = runs /\ minted' = n /\ IsBuilder(old) /\ old.identity # Anonymous
      BY <2>1, <2>3, <2>11 DEF SupplyRunId, Calling
    <3>3. PICK id \in HostIds \cup 1..n :
            b = [old EXCEPT !.identity.run_id = id, !.origin.fresh = FALSE, !.calls = @ + 1]
      BY <2>1, <2>11, <3>1 DEF SupplyRunId
    <3>4. Supplied(b, old, id)
      BY <3>2, <3>3 DEF IsBuilder, Supplied
    <3>5. Standing(old, k, parents, n)
      BY <2>3, <3>2
    <3>6. Standing(b, k, parents, n) /\ Apart(b, parents)
      BY <2>2, <3>2, <3>3, <3>4, <3>5, SuppliedStands
    <3>7. n <= n
      BY <2>2
    <3> QED BY <2>2, <2>a, <3>1, <3>2, <3>6, <3>7
  <2>12. CASE NameConversation
    <3>1. PICK b : b = builder'
      OBVIOUS
    <3>2. /\ old # NoBuilder /\ runs' = runs /\ minted' = n /\ IsBuilder(old) /\ old.identity # Anonymous
          /\ b = [old EXCEPT !.identity.conversation_id = "other", !.origin.named = TRUE, !.calls = @ + 1]
      BY <2>1, <2>3, <2>12, <3>1 DEF NameConversation, Calling
    <3>3. PICK name : name = "other"
      OBVIOUS
    <3>4. Named(b, old, name)
      BY <3>2, <3>3 DEF IsBuilder, Named
    <3>5. Standing(old, k, parents, n) /\ Apart(old, parents)
      BY <2>3, <3>2
    <3>6. Standing(b, k, parents, n) /\ Apart(b, parents)
      BY <2>2, <3>2, <3>4, <3>5, NamedStands
    <3>7. n <= n
      BY <2>2
    <3> QED BY <2>2, <2>a, <3>1, <3>2, <3>6, <3>7
  <2>13. CASE Build
    <3>1. old # NoBuilder /\ builder' = NoBuilder /\ minted' = n
      BY <2>1, <2>13 DEF Build
    <3>2. CASE runs' = runs
      BY <2>1, <2>2, <3>1, <3>2 DEF LineageInv
    <3>3. CASE runs' = Append(runs, builder)
      <4>1. PICK more : more = Append(parents, old)
        OBVIOUS
      <4>2. Standing(old, Len(parents) + 1, parents, n) /\ Apart(old, parents)
        BY <2>2, <2>3, <3>1
      <4>3. Lineages(more, n)
        BY <2>2, <4>1, <4>2, OneLineageMore
      <4>4. runs' = more
        BY <2>1, <3>3, <4>1
      <4> QED BY <2>2, <3>1, <4>3, <4>4 DEF LineageInv
    <3> QED BY <2>13, <3>2, <3>3 DEF Build
  <2>14. CASE UNCHANGED childVars
    BY <2>14 DEF childVars, LineageInv
  <2> QED BY <2>4, <2>5, <2>6, <2>7, <2>8, <2>9, <2>10, <2>11, <2>12, <2>13, <2>14 DEF ChildNext
<1> QED BY <1>1, <1>2, ShapeInvHolds, PTL DEF ChildSpec
\* f goes from e on by a step, k times.
Iterates(f, S, e, step, k) == f \in [0..k -> S] /\ f[0] = e /\ \A m \in 1..k : f[m] = step[f[m - 1]]

LEMMA IteratesExist ==
  ASSUME NEW S, NEW e \in S, NEW step \in [S -> S], NEW n \in Nat
  PROVE  \E f : Iterates(f, S, e, step, n)
<1> DEFINE Bad == {k \in 0..n : ~ \E f : Iterates(f, S, e, step, k)}
<1>1. SUFFICES ASSUME Bad # {} PROVE FALSE
  <2>1. n \in 0..n
    OBVIOUS
  <2> QED BY <2>1
<1>2. PICK k \in Bad : \A j \in Bad : k <= j
  <2>1. Bad \subseteq Nat
    OBVIOUS
  <2> HIDE DEF Bad
  <2> QED BY <1>1, <2>1, LeastNumber
<1>3. k # 0
  <2> SUFFICES ASSUME k = 0 PROVE FALSE
    OBVIOUS
  <2>1. PICK f : f = [j \in 0..0 |-> e]
    OBVIOUS
  <2>2. Iterates(f, S, e, step, 0)
    BY <2>1 DEF Iterates
  <2> QED BY <2>2
<1>4. k \in 1..n /\ k - 1 \in 0..n /\ k - 1 \notin Bad
  BY <1>2, <1>3
<1>5. PICK g : Iterates(g, S, e, step, k - 1)
  BY <1>4
<1>6. g \in [0 .. k - 1 -> S] /\ g[0] = e /\ \A m \in 1 .. k - 1 : g[m] = step[g[m - 1]]
  BY <1>5 DEF Iterates
<1>7. PICK h : h = [j \in 0..k |-> IF j = k THEN step[g[k - 1]] ELSE g[j]]
  OBVIOUS
<1>8. step[g[k - 1]] \in S /\ k - 1 \in 0 .. k - 1 /\ 0 \in 0..k /\ 0 # k
  BY <1>4, <1>6
<1>9. \A j \in 0..k : j # k => j \in 0 .. k - 1
  BY <1>4
<1>10. h \in [0..k -> S] /\ h[0] = e
  BY <1>6, <1>7, <1>8, <1>9
<1>11. ASSUME NEW m \in 1..k PROVE h[m] = step[h[m - 1]]
  <2>1. m - 1 \in 0..k /\ m - 1 # k /\ m \in 0..k /\ (m # k => m \in 1 .. k - 1)
    BY <1>4
  <2>2. h[m - 1] = g[m - 1]
    BY <1>7, <2>1
  <2>3. CASE m = k
    BY <1>7, <2>1, <2>2, <2>3
  <2>4. CASE m # k
    BY <1>6, <1>7, <2>1, <2>2, <2>4
  <2> QED BY <2>3, <2>4
<1>12. Iterates(h, S, e, step, k)
  BY <1>10, <1>11 DEF Iterates
<1> QED BY <1>2, <1>12

BearersIn(parents, id) ==
  {q \in {r \in DOMAIN parents : parents[r].identity # Anonymous} : parents[q].identity.run_id = id}

Above(parents, found) == UNION {BearersIn(parents, parents[q].identity.parent_run_id) : q \in found}

DerivedFrom(parents, q) == IF q = 0 THEN 0 ELSE parents[q].origin.from

\* f is what is found from run r, and a are its ancestors, up to n steps.
Climbs(f, parents, r, n) ==
  f = [m \in 0..n |-> IF m = 0 THEN {r} ELSE Above(parents, f[m - 1])]

Descends(a, parents, r, n) ==
  a = [m \in 0..n |-> IF m = 0 THEN r ELSE DerivedFrom(parents, a[m - 1])]

\* There are both functions.
LEMMA ClimbsExists ==
  ASSUME NEW parents, NEW r \in DOMAIN parents, NEW n \in Nat
  PROVE  \E f : Climbs(f, parents, r, n)
<1>1. PICK S, step : S = SUBSET DOMAIN parents /\ step = [found \in S |-> Above(parents, found)]
  OBVIOUS
<1>2. {r} \in S /\ step \in [S -> S]
  BY <1>1 DEF Above, BearersIn
<1>3. PICK f : Iterates(f, S, {r}, step, n)
  BY <1>2, IteratesExist
<1>4. f \in [0..n -> S] /\ f[0] = {r} /\ \A m \in 1..n : f[m] = step[f[m - 1]]
  BY <1>3 DEF Iterates
<1>5. ASSUME NEW m \in 0..n PROVE f[m] = IF m = 0 THEN {r} ELSE Above(parents, f[m - 1])
  <2>1. CASE m = 0
    BY <1>4, <2>1
  <2>2. CASE m # 0
    <3>1. m \in 1..n /\ m - 1 \in 0..n
      BY <2>2
    <3>2. f[m - 1] \in S
      BY <1>4, <3>1
    <3> QED BY <1>1, <1>4, <2>2, <3>1, <3>2
  <2> QED BY <2>1, <2>2
<1>6. f = [m \in 0..n |-> f[m]]
  BY <1>4
<1>7. Climbs(f, parents, r, n)
  BY <1>5, <1>6 DEF Climbs
<1> QED BY <1>7

LEMMA DescendsExists ==
  ASSUME NEW parents, NEW len \in Nat, DOMAIN parents = 1..len, NEW r \in DOMAIN parents, NEW n \in Nat,
         \A k \in 1..len : parents[k].origin.from \in 0..len
  PROVE  \E a : Descends(a, parents, r, n)
<1>1. PICK S, step : S = 0..len /\ step = [q \in S |-> DerivedFrom(parents, q)]
  OBVIOUS
<1>2. r \in S /\ step \in [S -> S]
  <2>1. ASSUME NEW q \in 0..len PROVE DerivedFrom(parents, q) \in 0..len
    <3>1. q = 0 \/ q \in 1..len
      OBVIOUS
    <3>2. 0 \in 0..len
      OBVIOUS
    <3> QED BY <3>1, <3>2 DEF DerivedFrom
  <2> QED BY SMTT(30), <1>1, <2>1
<1>3. PICK a : Iterates(a, S, r, step, n)
  BY <1>2, IteratesExist
<1>4. a \in [0..n -> S] /\ a[0] = r /\ \A m \in 1..n : a[m] = step[a[m - 1]]
  BY <1>3 DEF Iterates
<1>5. ASSUME NEW m \in 0..n PROVE a[m] = IF m = 0 THEN r ELSE DerivedFrom(parents, a[m - 1])
  <2>1. CASE m = 0
    BY <1>4, <2>1
  <2>2. CASE m # 0
    <3>1. m \in 1..n /\ m - 1 \in 0..n
      BY <2>2
    <3>2. a[m - 1] \in S
      BY <1>4, <3>1
    <3> QED BY <1>1, <1>4, <2>2, <3>1, <3>2
  <2> QED BY <2>1, <2>2
<1>6. a = [m \in 0..n |-> a[m]]
  BY <1>4
<1>7. Descends(a, parents, r, n)
  BY <1>5, <1>6 DEF Descends
<1> QED BY <1>7

\* Who is deep comes late: every run it derives from was built before it.
LEMMA DeepIsLate ==
  ASSUME NEW n \in Nat, NEW parents, NEW len \in Nat, DOMAIN parents = 1..len, Lineages(parents, n),
         NEW r \in 1..len
  PROVE  Height(parents[r].identity) \in 0..(r - 1)
<1>1. \A k \in 1..len : Standing(parents[k], k, parents, n)
  BY DEF Lineages
<1> DEFINE Bad == {k \in 1..len : Height(parents[k].identity) \notin 0..(k - 1)}
<1>2. SUFFICES ASSUME Bad # {} PROVE FALSE
  OBVIOUS
<1>3. PICK k \in Bad : \A j \in Bad : k <= j
  <2>1. Bad \subseteq Nat
    OBVIOUS
  <2> HIDE DEF Bad
  <2> QED BY <1>2, <2>1, LeastNumber
<1>4. PICK i, from : i = parents[k].identity /\ from = parents[k].origin.from
  OBVIOUS
<1>5. k \in 1..len /\ from \in 0..(k - 1)
  BY <1>1, <1>3, <1>4 DEF Standing
<1>6. CASE from = 0
  <2>1. Height(i) = 0
    BY <1>1, <1>4, <1>5, <1>6 DEF Standing, Linked
  <2>2. 0 \in 0..(k - 1)
    BY <1>5
  <2> QED BY <1>3, <1>4, <2>1, <2>2
<1>7. CASE from # 0
  <2>1. from \in 1..len /\ from < k
    BY <1>5, <1>7
  <2>2. PICK h : h = Height(parents[from].identity)
    OBVIOUS
  <2>3. h \in 0..(from - 1)
    BY <1>3, <1>5, <2>1, <2>2
  <2>4. i # Anonymous /\ i.depth = h + 1
    BY <1>1, <1>4, <1>5, <1>7, <2>2 DEF Standing, Linked
  <2>5. Height(i) = h + 1
    BY <2>4 DEF Height
  <2>6. h + 1 \in 0..(k - 1)
    BY <1>5, <2>1, <2>3
  <2> QED BY <1>3, <1>4, <2>5, <2>6
<1> QED BY <1>6, <1>7

\* Where m steps up from run r lead.
Traced(parents, len, f, a, r, depth, m) ==
  LET i == parents[a[m]].identity
  IN  /\ a[m] \in 1..len /\ Height(i) = depth - m
      /\ i # Anonymous => a[m] \in f[m]
      /\ (\A j \in 0..m : \A q \in f[j] : parents[q].origin.fresh) => f[m] \subseteq {a[m]}
      /\ /\ i # Anonymous
         /\ \A j \in 0 .. m - 1 : ~parents[a[j]].origin.named
         => i.conversation_id = parents[r].identity.conversation_id

\* One step more.
LEMMA TracedOn ==
  ASSUME NEW n \in Nat, NEW parents, NEW len \in Nat, DOMAIN parents = 1..len, Lineages(parents, n),
         NEW f, NEW a, NEW r, NEW depth \in Nat, NEW m \in Nat, m < depth, depth <= len,
         Climbs(f, parents, r, len), Descends(a, parents, r, len),
         Traced(parents, len, f, a, r, depth, m)
  PROVE  Traced(parents, len, f, a, r, depth, m + 1)
<1>1. PICK b, i, from : b = parents[a[m]] /\ i = b.identity /\ from = b.origin.from
  OBVIOUS
<1>2. m + 1 \in 0..len /\ m + 1 # 0 /\ (m + 1) - 1 = m
  OBVIOUS
<1>3. a[m] \in 1..len /\ Height(i) = depth - m /\ depth - m > 0 /\ (i # Anonymous => a[m] \in f[m])
  BY <1>1 DEF Traced
<1>4. Standing(b, a[m], parents, n)
  BY <1>1, <1>3 DEF Lineages
<1>5. i # Anonymous
  BY <1>3 DEF Height
<1>6. from # 0 /\ from \in 1..len
  <2>1. from # 0
    <3>1. Linked(b, parents, n)
      BY <1>4 DEF Standing
    <3>2. from = 0 => Height(i) = 0
      BY <1>1, <3>1 DEF Linked
    <3> QED BY <1>3, <3>2
  <2>2. from \in 0..(a[m] - 1)
    BY <1>1, <1>4 DEF Standing
  <2> QED BY <1>3, <2>1, <2>2
<1>7. PICK p : p = parents[from].identity
  OBVIOUS
<1>8. /\ i.depth = Height(p) + 1
      /\ p # Anonymous => /\ i.parent_run_id = p.run_id
                          /\ ~b.origin.named => i.conversation_id = p.conversation_id
      /\ p = Anonymous => \A q \in DOMAIN parents :
                            parents[q].origin.fresh => parents[q].identity.run_id # i.parent_run_id
  BY <1>1, <1>4, <1>6, <1>7 DEF Standing, Linked
<1>9. a[m + 1] = from
  <2>1. a[m + 1] = DerivedFrom(parents, a[m])
    BY <1>2 DEF Descends
  <2>2. a[m] # 0
    BY <1>3
  <2> QED BY <1>1, <2>1, <2>2 DEF DerivedFrom
<1>10. f[m + 1] = Above(parents, f[m])
  BY <1>2 DEF Climbs
<1>11. Height(p) = depth - (m + 1)
  <2>1. Height(i) = i.depth
    BY <1>5 DEF Height
  <2>2. from \in 1..len /\ p = parents[from].identity
    BY <1>6, <1>7
  <2>3. Height(p) \in 0..(from - 1)
    BY <2>2, DeepIsLate
  <2>4. Height(p) \in Nat
    BY <1>6, <2>3
  <2> QED BY <1>3, <1>8, <2>1, <2>4
<1>12. p # Anonymous => from \in f[m + 1]
  <2> SUFFICES ASSUME p # Anonymous PROVE from \in f[m + 1]
    OBVIOUS
  <2>1. from \in BearersIn(parents, i.parent_run_id)
    BY <1>6, <1>7, <1>8 DEF BearersIn
  <2>2. a[m] \in f[m] /\ i = parents[a[m]].identity
    BY <1>1, <1>3, <1>5
  <2> QED BY <1>10, <2>1, <2>2 DEF Above
<1>13. ASSUME \A j \in 0..(m + 1) : \A q \in f[j] : parents[q].origin.fresh, NEW q \in f[m + 1]
       PROVE  q = from
  <2>1. \A j \in 0..m : j \in 0..(m + 1)
    OBVIOUS
  <2>2. f[m] \subseteq {a[m]}
    BY <1>13, <2>1 DEF Traced
  <2>3. q \in BearersIn(parents, i.parent_run_id)
    BY <1>1, <1>10, <1>13, <2>2 DEF Above
  <2>4. q \in DOMAIN parents /\ parents[q].identity.run_id = i.parent_run_id
    BY <2>3 DEF BearersIn
  <2>5. m + 1 \in 0..(m + 1)
    OBVIOUS
  <2>6. parents[q].origin.fresh
    BY <1>13, <2>5
  <2>7. p # Anonymous
    BY <1>8, <2>4, <2>6
  <2>8. from \in DOMAIN parents /\ parents[from].origin.fresh /\ parents[from].identity.run_id = i.parent_run_id
    BY <1>6, <1>7, <1>8, <1>12, <1>13, <2>5, <2>7
  <2> QED BY <2>4, <2>6, <2>8 DEF Lineages
<1>14. ASSUME p # Anonymous, \A j \in 0..m : ~parents[a[j]].origin.named
       PROVE  p.conversation_id = parents[r].identity.conversation_id
  <2>1. m \in 0..m /\ \A j \in 0 .. m - 1 : j \in 0..m
    OBVIOUS
  <2>2. i.conversation_id = parents[r].identity.conversation_id
    BY <1>1, <1>5, <1>14, <2>1 DEF Traced
  <2>3. ~b.origin.named
    BY <1>1, <1>14, <2>1
  <2> QED BY <1>8, <1>14, <2>2, <2>3
<1> QED BY <1>2, <1>6, <1>7, <1>9, <1>11, <1>12, <1>13, <1>14 DEF Traced

\* All the way.
LEMMA AllTraced ==
  ASSUME NEW n \in Nat, NEW parents, NEW len \in Nat, DOMAIN parents = 1..len, Lineages(parents, n),
         NEW r \in 1..len, NEW depth \in Nat, depth <= len, parents[r].identity # Anonymous,
         depth = parents[r].identity.depth,
         NEW f, NEW a, Climbs(f, parents, r, len), Descends(a, parents, r, len),
         NEW m \in 0..depth
  PROVE  Traced(parents, len, f, a, r, depth, m)
<1> DEFINE Bad == {k \in 0..depth : ~Traced(parents, len, f, a, r, depth, k)}
<1>1. SUFFICES ASSUME Bad # {} PROVE FALSE
  OBVIOUS
<1>2. PICK k \in Bad : \A j \in Bad : k <= j
  <2>1. Bad \subseteq Nat
    OBVIOUS
  <2> HIDE DEF Bad
  <2> QED BY <1>1, <2>1, LeastNumber
<1>3. Traced(parents, len, f, a, r, depth, 0)
  <2>1. 0 \in 0..len /\ depth - 0 = depth
    OBVIOUS
  <2>2. a[0] = r /\ f[0] = {r}
    BY <2>1 DEF Climbs, Descends
  <2> QED BY <2>1, <2>2 DEF Traced, Height
<1>4. k # 0
  BY <1>2, <1>3
<1>5. k - 1 \in 0..depth /\ k - 1 \in Nat /\ k - 1 < depth /\ (k - 1) + 1 = k /\ k - 1 \notin Bad
  BY <1>2, <1>4
<1>6. PICK j : j = k - 1
  OBVIOUS
<1>7. Traced(parents, len, f, a, r, depth, j) /\ j \in Nat /\ j < depth /\ j + 1 = k
  BY <1>5, <1>6
<1>8. Traced(parents, len, f, a, r, depth, j + 1)
  BY <1>7, TracedOn
<1> QED BY <1>2, <1>7, <1>8
\* For any number of runs: who follows parent ids meets the ancestors of a run
\* and, but through ids the host supplied, no other run, and the conversation
\* is theirs until the host names another.
THEOREM LineagesAreTraceable == ChildSpec => []LineageIsTraceable
<1>1. ShapeInv /\ LineageInv => LineageIsTraceable
  <2> SUFFICES ASSUME ShapeInv, LineageInv PROVE LineageIsTraceable
    OBVIOUS
  <2>1. PICK parents, len, n : parents = runs /\ len = Len(runs) /\ n = minted
    OBVIOUS
  <2>2. len \in Nat /\ DOMAIN parents = 1..len /\ n \in Nat /\ Lineages(parents, n)
    BY <2>1 DEF ShapeInv, LineageInv
  <2> SUFFICES ASSUME NEW r \in Identified
               PROVE  LET depth == runs[r].identity.depth
                          found == Found(r)
                          ancestor == Ancestor(r)
                      IN  /\ depth < Len(runs)
                          /\ ancestor[depth] # 0 /\ runs[ancestor[depth]].origin.from = 0
                          /\ \A m \in 0..depth :
                               /\ ancestor[m] \in Identified => ancestor[m] \in found[m]
                               /\ (\A j \in 0..m : \A q \in found[j] : runs[q].origin.fresh) =>
                                    found[m] \subseteq {ancestor[m]}
                               /\ /\ ancestor[m] \in Identified
                                  /\ \A j \in 0 .. m - 1 : ~runs[ancestor[j]].origin.named
                                  => runs[ancestor[m]].identity.conversation_id = runs[r].identity.conversation_id
    BY DEF LineageIsTraceable
  <2>3. PICK i, depth : i = parents[r].identity /\ depth = i.depth
    OBVIOUS
  <2>4. r \in 1..len /\ r \in DOMAIN parents /\ i # Anonymous
    BY <2>1, <2>2, <2>3 DEF Identified
  <2>5. \A k \in 1..len : parents[k].origin.from \in 0..len /\ parents[k].origin.from \in 0..(k - 1)
    <3> SUFFICES ASSUME NEW k \in 1..len PROVE parents[k].origin.from \in 0..len /\ parents[k].origin.from \in 0..(k - 1)
      OBVIOUS
    <3>1. parents[k].origin.from \in 0..(k - 1)
      BY <2>2 DEF Lineages, Standing
    <3> QED BY <2>2, <3>1
  <2>6. depth \in Nat /\ depth <= len /\ depth < len
    <3>1. Height(i) \in 0..(r - 1)
      BY <2>2, <2>3, <2>4, DeepIsLate
    <3>2. Height(i) = depth
      BY <2>3, <2>4 DEF Height
    <3> QED BY <2>2, <2>4, <3>1, <3>2
  <2>7. PICK f, a : f = Found(r) /\ a = Ancestor(r)
    OBVIOUS
  <2>8. Climbs(f, parents, r, len)
    <3>1. f = CHOOSE g : Climbs(g, parents, r, len)
      BY <2>1, <2>7 DEF Found, Climbs, Above, Bearers, BearersIn, Identified
    <3>2. \E g : Climbs(g, parents, r, len)
      BY <2>2, <2>4, ClimbsExists
    <3> QED BY <3>1, <3>2
  <2>9. Descends(a, parents, r, len)
    <3>1. a = CHOOSE g : Descends(g, parents, r, len)
      BY <2>1, <2>7 DEF Ancestor, Descends, DerivedFrom
    <3>2. \E g : Descends(g, parents, r, len)
      BY <2>2, <2>4, <2>5, DescendsExists
    <3> QED BY <3>1, <3>2
  <2>10. \A m \in 0..depth : Traced(parents, len, f, a, r, depth, m)
    BY <2>2, <2>3, <2>4, <2>6, <2>8, <2>9, AllTraced
  <2>11. a[depth] # 0 /\ parents[a[depth]].origin.from = 0
    <3>1. PICK q, b : q = a[depth] /\ b = parents[q]
      OBVIOUS
    <3>2. depth \in 0..depth
      BY <2>6
    <3>3. Traced(parents, len, f, a, r, depth, depth)
      BY <2>10, <3>2
    <3>4. q \in 1..len /\ Height(b.identity) = 0
      BY <2>6, <3>1, <3>3 DEF Traced
    <3>5. Standing(b, q, parents, n)
      BY <2>2, <3>1, <3>4 DEF Lineages
    <3>6. ASSUME b.origin.from # 0 PROVE FALSE
      <4>1. b.origin.from \in 1..len
        BY <2>5, <3>1, <3>4, <3>6
      <4>2. PICK h : h = Height(parents[b.origin.from].identity)
        OBVIOUS
      <4>3. h \in 0..(b.origin.from - 1)
        BY <2>2, <4>1, <4>2, DeepIsLate
      <4>4. h \in Nat
        BY <4>1, <4>3
      <4>5. b.identity # Anonymous /\ b.identity.depth = h + 1
        BY <3>5, <3>6, <4>2 DEF Standing, Linked
      <4> QED BY <3>4, <4>4, <4>5 DEF Height
    <3> QED BY <2>1, <3>1, <3>4, <3>6
  <2>12. ASSUME NEW m \in 0..depth
         PROVE  /\ a[m] \in Identified => a[m] \in f[m]
                /\ (\A j \in 0..m : \A q \in f[j] : runs[q].origin.fresh) => f[m] \subseteq {a[m]}
                /\ /\ a[m] \in Identified
                   /\ \A j \in 0 .. m - 1 : ~runs[a[j]].origin.named
                   => runs[a[m]].identity.conversation_id = runs[r].identity.conversation_id
    <3>1. Traced(parents, len, f, a, r, depth, m)
      BY <2>10
    <3>2. a[m] \in Identified => parents[a[m]].identity # Anonymous
      BY <2>1 DEF Identified
    <3> QED BY <2>1, <3>1, <3>2 DEF Traced
  <2> QED BY <2>1, <2>3, <2>6, <2>7, <2>11, <2>12
<1> QED BY <1>1, ShapeInvHolds, LineageInvHolds, PTL
=============================================================================
