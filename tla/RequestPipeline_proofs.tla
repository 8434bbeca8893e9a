----------------------- MODULE RequestPipeline_proofs -----------------------
(***************************************************************************)
(* Theorems about RequestPipeline: types, and, for every transcript, every *)
(* order of the transforms and every size and cap, that the calls of a     *)
(* request have ids of their own.                                          *)
(***************************************************************************)
EXTENDS RequestPipeline, SequenceTheorems, FiniteSetTheorems, TLAPS

\* The transforms a pipeline is made of.
Transform == {"ids", "cap", "trim"}

\* An item of the request, with its position.
LEMMA ItemType ==
  ASSUME TypeOK, NEW i \in DOMAIN items
  PROVE  items[i] \in Item /\ i \in 1..Len(items) /\ items[i].id \in Int
<1>1. items[i] \in Item /\ i \in 1..Len(items)
  BY DEF TypeOK
<1>2. items[i].id \in Int
  BY <1>1 DEF Item
<1> QED BY <1>1, <1>2

\* A view with one item changed is a view of the same length.
LEMMA ViewUpdate ==
  ASSUME TypeOK, NEW i \in DOMAIN items, NEW item \in Item
  PROVE  /\ [items EXCEPT ![i] = item] \in Seq(Item)
         /\ Len([items EXCEPT ![i] = item]) = Len(items)
         /\ DOMAIN [items EXCEPT ![i] = item] = DOMAIN items
BY DEF TypeOK

\* Another id changes nothing else of an item.
LEMMA Renamed ==
  ASSUME NEW item \in Item, NEW id \in Int
  PROVE  /\ [item EXCEPT !.id = id] \in Item
         /\ [item EXCEPT !.id = id].id = id
         /\ [item EXCEPT !.id = id].kind = item.kind
         /\ [item EXCEPT !.id = id].answers = item.answers
BY DEF Item

\* Neither budget touches what a call is known by.
LEMMA ClipItem ==
  ASSUME NEW item \in Item
  PROVE  /\ Clip(item) \in Item
         /\ Clip(item).id = item.id /\ Clip(item).kind = item.kind
         /\ Clip(item).answers = item.answers
BY PipelineAssumption DEF Clip, Item, Form

\* Nor does emptying it.
LEMMA MarkItem ==
  ASSUME NEW item \in Item
  PROVE  /\ Mark(item) \in Item
         /\ Mark(item).id = item.id /\ Mark(item).kind = item.kind
         /\ Mark(item).answers = item.answers
BY PipelineAssumption DEF Mark, Item, Form

\* Capping leaves items, ids and pairing where they are.
LEMMA CapView ==
  ASSUME TypeOK, Cap
  PROVE  /\ items' \in Seq(Item) /\ Len(items') = Len(items)
         /\ DOMAIN items' = DOMAIN items
         /\ \A i \in DOMAIN items :
              /\ items'[i].id = items[i].id /\ items'[i].kind = items[i].kind
              /\ items'[i].answers = items[i].answers
<1>1. items' = [i \in 1..Len(items) |-> IF MustClip(i) THEN Clip(items[i]) ELSE items[i]]
  BY DEF Cap, TypeOK
<1>2. \A i \in 1..Len(items) :
        LET item == IF MustClip(i) THEN Clip(items[i]) ELSE items[i]
        IN  /\ item \in Item /\ item.id = items[i].id /\ item.kind = items[i].kind
            /\ item.answers = items[i].answers
  <2> SUFFICES ASSUME NEW i \in 1..Len(items)
               PROVE  LET item == IF MustClip(i) THEN Clip(items[i]) ELSE items[i]
                      IN  /\ item \in Item /\ item.id = items[i].id /\ item.kind = items[i].kind
                          /\ item.answers = items[i].answers
    OBVIOUS
  <2>1. items[i] \in Item
    BY DEF TypeOK
  <2> QED BY <2>1, ClipItem
<1>3. Len(items) \in Nat
  BY DEF TypeOK
<1>4. \A i \in 1..Len(items) :
        /\ items'[i] \in Item /\ items'[i].id = items[i].id /\ items'[i].kind = items[i].kind
        /\ items'[i].answers = items[i].answers
  BY <1>1, <1>2
<1>5. items' \in Seq(Item) /\ Len(items') = Len(items)
  BY <1>1, <1>3, <1>4
<1>6. DOMAIN items = 1..Len(items) /\ DOMAIN items' = 1..Len(items)
  BY <1>1, <1>3 DEF TypeOK
<1> QED BY <1>4, <1>5, <1>6

\* So does trimming.
LEMMA TrimView ==
  ASSUME TypeOK, Trim
  PROVE  /\ items' \in Seq(Item) /\ Len(items') = Len(items)
         /\ DOMAIN items' = DOMAIN items
         /\ \A i \in DOMAIN items :
              /\ items'[i].id = items[i].id /\ items'[i].kind = items[i].kind
              /\ items'[i].answers = items[i].answers
<1>1. at \in DOMAIN items /\ items' = [items EXCEPT ![at] = Mark(items[at])]
  BY DEF Trim, At
<1>2. Mark(items[at]) \in Item
  BY <1>1, ItemType, MarkItem
<1>3. /\ Mark(items[at]).id = items[at].id /\ Mark(items[at]).kind = items[at].kind
      /\ Mark(items[at]).answers = items[at].answers
  BY <1>1, ItemType, MarkItem
<1>4. \A i \in DOMAIN items : items'[i] = IF i = at THEN Mark(items[at]) ELSE items[i]
  BY <1>1 DEF TypeOK
<1> QED BY <1>1, <1>2, <1>3, <1>4, ViewUpdate

\* A renamed item in its place.
LEMMA RenameView ==
  ASSUME TypeOK, at \in DOMAIN items, NEW id \in Int,
         items' = [items EXCEPT ![at].id = id]
  PROVE  /\ items' \in Seq(Item) /\ Len(items') = Len(items)
         /\ DOMAIN items' = DOMAIN items
         /\ items'[at].id = id /\ items'[at].kind = items[at].kind
         /\ items'[at].answers = items[at].answers
         /\ \A i \in DOMAIN items \ {at} : items'[i] = items[i]
<1>1. items[at] \in Item
  BY ItemType
<1>2. [items[at] EXCEPT !.id = id] \in Item
  BY <1>1, Renamed
<1>3. items' = [items EXCEPT ![at] = [items[at] EXCEPT !.id = id]]
  OBVIOUS
<1>4. items'[at] = [items[at] EXCEPT !.id = id]
  BY <1>3 DEF TypeOK
<1>5. /\ items'[at].id = id /\ items'[at].kind = items[at].kind
      /\ items'[at].answers = items[at].answers
  BY <1>1, <1>4, Renamed
<1>6. \A i \in DOMAIN items \ {at} : items'[i] = items[i]
  BY <1>3 DEF TypeOK
<1> QED BY <1>2, <1>3, <1>5, <1>6, ViewUpdate

\* A rest of the pipeline is a rest.
LEMMA TodoTail ==
  ASSUME TypeOK, todo # <<>>
  PROVE  /\ Tail(todo) \in Seq(Transform)
         /\ ToSet(todo) = {Head(todo)} \cup ToSet(Tail(todo))
<1>1. todo \in Seq(Transform) /\ Len(todo) \in Nat \ {0}
  BY DEF TypeOK, Transform
<1>2. /\ Tail(todo) \in Seq(Transform)
      /\ Len(Tail(todo)) = Len(todo) - 1
      /\ \A i \in 1..Len(Tail(todo)) : Tail(todo)[i] = todo[i + 1]
  BY <1>1
<1>3. ToSet(todo) \subseteq {Head(todo)} \cup ToSet(Tail(todo))
  <2> SUFFICES ASSUME NEW i \in 1..Len(todo), i # 1
               PROVE  todo[i] \in ToSet(Tail(todo))
    <3>1. Head(todo) = todo[1] /\ DOMAIN todo = 1..Len(todo)
      BY <1>1
    <3> QED BY <3>1 DEF ToSet
  <2>1. i - 1 \in 1..Len(Tail(todo)) /\ Tail(todo)[i - 1] = todo[i]
    BY <1>1, <1>2
  <2>2. DOMAIN Tail(todo) = 1..Len(Tail(todo))
    BY <1>2
  <2> QED BY <2>1, <2>2 DEF ToSet
<1>4. {Head(todo)} \cup ToSet(Tail(todo)) \subseteq ToSet(todo)
  <2>1. Head(todo) \in ToSet(todo)
    BY <1>1 DEF ToSet
  <2>2. \A i \in 1..Len(Tail(todo)) : Tail(todo)[i] \in ToSet(todo)
    BY <1>1, <1>2 DEF ToSet
  <2> QED BY <1>2, <2>1, <2>2 DEF ToSet
<1> QED BY <1>2, <1>3, <1>4

-----------------------------------------------------------------------------
(* Types.                                                                    *)

\* The initial states satisfy TypeOK.
LEMMA TypeInit == Init => TypeOK
<1> SUFFICES ASSUME Init PROVE TypeOK
  OBVIOUS
<1>1. input \in Seq(Item) /\ pipeline \in Seq(Transform)
  BY PipelineAssumption DEF Init, Transform
<1>2. Len(input) \in Nat /\ 0 \in 0..(Len(input) + 1)
  BY <1>1
<1>3. MaxSuffix \in Nat /\ <<>> \in Seq([original : Int, wire : Int])
  BY PipelineAssumption
<1> QED BY <1>1, <1>2, <1>3 DEF Init, TypeOK, Transform

\* The next position is a position, or one past the end.
LEMMA Progress ==
  ASSUME TypeOK, at \in DOMAIN items
  PROVE  at + 1 \in 0..(Len(items) + 1)
BY DEF TypeOK

\* What waits when one call is answered.
LEMMA WaitingRest ==
  ASSUME TypeOK, NEW w \in DOMAIN waiting
  PROVE  RemoveAt(waiting, w) \in Seq([original : Int, wire : Int])
<1> DEFINE Pair == [original : Int, wire : Int]
<1>1. waiting \in Seq(Pair) /\ w \in 1..Len(waiting) /\ Len(waiting) \in Nat
  BY DEF TypeOK
<1>2. SubSeq(waiting, 1, w - 1) \in Seq(Pair) /\ SubSeq(waiting, w + 1, Len(waiting)) \in Seq(Pair)
  <2> HIDE DEF Pair
  <2> QED BY <1>1
<1> QED
  <2> HIDE DEF Pair
  <2>1. SubSeq(waiting, 1, w - 1) \o SubSeq(waiting, w + 1, Len(waiting)) \in Seq(Pair)
    BY <1>2
  <2> QED BY <2>1 DEF RemoveAt, Pair

\* A waiting call has a wire id.
LEMMA WaitingType ==
  ASSUME TypeOK, NEW w \in DOMAIN waiting
  PROVE  waiting[w].wire \in Int
<1> DEFINE Pair == [original : Int, wire : Int]
<1>1. waiting \in Seq(Pair)
  BY DEF TypeOK
<1>2. waiting[w] \in Pair
  <2> HIDE DEF Pair
  <2> QED BY <1>1
<1> QED BY <1>2

\* Every step preserves TypeOK.
LEMMA TypeNext == TypeOK /\ [Next]_vars => TypeOK'
<1> SUFFICES ASSUME TypeOK, [Next]_vars PROVE TypeOK'
  OBVIOUS
<1> USE DEF given, renaming
<1>0. /\ Len(items) \in Nat /\ 0 \in 0..(Len(items) + 1) /\ 1 \in 0..(Len(items) + 1)
      /\ MaxSuffix \in Nat /\ <<>> \in Seq([original : Int, wire : Int])
  BY PipelineAssumption DEF TypeOK
<1>1. ASSUME BeginIds PROVE TypeOK'
  <2>1. Mentioned \in SUBSET Int
    BY ItemType DEF Mentioned
  <2> QED BY <1>0, <1>1, <2>1 DEF TypeOK, BeginIds, Begin
<1>2. ASSUME NextMessage PROVE TypeOK'
  <2>1. at + 1 \in 0..(Len(items) + 1)
    BY <1>2, Progress DEF NextMessage, At
  <2> QED BY <1>0, <1>2, <2>1 DEF TypeOK, NextMessage
<1>3. ASSUME KeepCall PROVE TypeOK'
  <2>1. at + 1 \in 0..(Len(items) + 1) /\ items[at].id \in Int
    BY <1>3, Progress, ItemType DEF KeepCall, At
  <2>2. used' \in SUBSET Int
    BY <1>3, <2>1 DEF KeepCall, TypeOK
  <2>3. waiting' \in Seq([original : Int, wire : Int])
    <3>1. [original |-> items[at].id, wire |-> items[at].id] \in [original : Int, wire : Int]
      BY <2>1
    <3> QED BY <1>3, <3>1 DEF KeepCall, TypeOK
  <2> QED BY <1>3, <2>1, <2>2, <2>3 DEF TypeOK, KeepCall
<1>4. ASSUME RenameCall PROVE TypeOK'
  <2>1. at \in DOMAIN items /\ at + 1 \in 0..(Len(items) + 1) /\ items[at].id \in Int
    BY <1>4, Progress, ItemType DEF RenameCall, At
  <2>2. PICK wire \in suffix..MaxSuffix :
          /\ items' = [items EXCEPT ![at].id = wire]
          /\ used' = used \cup {wire} /\ reserved' = reserved \cup {wire}
          /\ suffix' = wire + 1
          /\ waiting' = Append(waiting, [original |-> items[at].id, wire |-> wire])
    BY <1>4 DEF RenameCall
  <2>3. wire \in Int /\ wire + 1 \in 1..(MaxSuffix + 1)
    BY <1>0, <2>2 DEF TypeOK
  <2>4. items' \in Seq(Item) /\ Len(items') = Len(items)
    BY <2>1, <2>2, <2>3, RenameView
  <2>5. waiting' \in Seq([original : Int, wire : Int])
    <3>1. [original |-> items[at].id, wire |-> wire] \in [original : Int, wire : Int]
      BY <2>1, <2>3
    <3> QED BY <2>2, <3>1 DEF TypeOK
  <2>6. used' \in SUBSET Int /\ reserved' \in SUBSET Int
    BY <2>2, <2>3 DEF TypeOK
  <2> QED BY <1>4, <2>1, <2>2, <2>3, <2>4, <2>5, <2>6 DEF TypeOK, RenameCall
<1>5. ASSUME MatchResult PROVE TypeOK'
  <2>1. at \in DOMAIN items /\ at + 1 \in 0..(Len(items) + 1)
    BY <1>5, Progress DEF MatchResult, At
  <2>2. CASE UNCHANGED <<items, waiting>>
    BY <1>5, <2>1, <2>2 DEF TypeOK, MatchResult
  <2>3. ASSUME NEW w \in DOMAIN waiting,
               items' = [items EXCEPT ![at].id = waiting[w].wire],
               waiting' = RemoveAt(waiting, w)
        PROVE TypeOK'
    <3>1. waiting[w].wire \in Int
      BY WaitingType
    <3>2. items' \in Seq(Item) /\ Len(items') = Len(items)
      BY <2>1, <2>3, <3>1, RenameView
    <3>3. waiting' \in Seq([original : Int, wire : Int])
      BY <2>3, WaitingRest
    <3> QED BY <1>5, <2>1, <3>2, <3>3 DEF TypeOK, MatchResult
  <2> QED BY <1>5, <2>2, <2>3 DEF MatchResult
<1>6. ASSUME EndIds \/ NothingToTrim \/ EndTrim PROVE TypeOK'
  <2>1. Tail(todo) \in Seq({"ids", "cap", "trim"})
    BY <1>6, TodoTail DEF EndIds, NothingToTrim, EndTrim, Begin, Transform
  <2>2. todo' = Tail(todo) /\ at' = 0
    BY <1>6 DEF EndIds, NothingToTrim, EndTrim, EndTransform
  <2>3. before' \in Seq(Item)
    BY <1>6 DEF TypeOK, EndIds, NothingToTrim, EndTrim, Begin
  <2>4. UNCHANGED <<given, items, renaming>>
    BY <1>6 DEF EndIds, NothingToTrim, EndTrim
  <2> QED BY <1>0, <2>1, <2>2, <2>3, <2>4 DEF TypeOK
<1>7. ASSUME Cap PROVE TypeOK'
  <2>1. items' \in Seq(Item) /\ Len(items') = Len(items)
    BY <1>7, CapView
  <2>2. Tail(todo) \in Seq({"ids", "cap", "trim"})
    BY <1>7, TodoTail DEF Cap, Begin, Transform
  <2> QED BY <1>0, <1>7, <2>1, <2>2 DEF TypeOK, Cap, Begin, EndTransform
<1>8. ASSUME BeginTrim PROVE TypeOK'
  BY <1>0, <1>8 DEF TypeOK, BeginTrim, Begin
<1>9. ASSUME Trim PROVE TypeOK'
  <2>1. items' \in Seq(Item) /\ Len(items') = Len(items)
    BY <1>9, TrimView
  <2>2. Tail(todo) \in Seq({"ids", "cap", "trim"}) /\ at + 1 \in 0..(Len(items) + 1)
    BY <1>9, TodoTail, Progress DEF Trim, At, Transform
  <2>3. \/ todo' = Tail(todo) /\ at' = 0
        \/ todo' = todo /\ at' = at + 1
    BY <1>9 DEF Trim, EndTransform
  <2> QED BY <1>0, <1>9, <2>1, <2>2, <2>3 DEF TypeOK, Trim
<1>10. ASSUME TrimNothing PROVE TypeOK'
  <2>1. at + 1 \in 0..(Len(items) + 1)
    BY <1>10, Progress DEF TrimNothing
  <2> QED BY <1>10, <2>1 DEF TypeOK, TrimNothing
<1>11. CASE UNCHANGED vars
  BY <1>11 DEF TypeOK, vars
<1> QED
  BY <1>1, <1>2, <1>3, <1>4, <1>5, <1>6, <1>7, <1>8, <1>9, <1>10, <1>11 DEF Next, Sent

-----------------------------------------------------------------------------
(* Ids.  Every id in the transcript is reserved before the first is given    *)
(* out, so a generated one is neither an earlier call's nor a later one's.   *)

\* The transform has reached an item.
Renaming == todo # <<>> /\ Head(todo) = "ids" /\ at # 0

IdsInv ==
  Renaming =>
    /\ used \subseteq reserved
    /\ \A i \in Calls : items[i].id \in reserved
    /\ \A i \in Calls : i < at => items[i].id \in used
    /\ \A i, j \in Calls : i < at /\ j < at /\ items[i].id = items[j].id => i = j

UniqueInv == IdsInv /\ UniqueIds

\* The initial states satisfy UniqueInv.
LEMMA UniqueInit == Init => UniqueInv
BY DEF Init, UniqueInv, IdsInv, Renaming, UniqueIds, IdsDone

\* A step that leaves kinds and ids alone leaves the calls apart.
LEMMA SameCalls ==
  ASSUME DOMAIN items' = DOMAIN items,
         \A i \in DOMAIN items : items'[i].id = items[i].id /\ items'[i].kind = items[i].kind
  PROVE  Calls' = Calls /\ \A i \in Calls : items'[i].id = items[i].id
BY DEF Calls

\* Every step preserves UniqueInv.
LEMMA UniqueNext ==
  ASSUME TypeOK, UniqueInv, [Next]_vars
  PROVE  UniqueInv'
<1> USE DEF given, renaming
<1>1. ASSUME BeginIds PROVE UniqueInv'
  <2>1. at' = 1 /\ used' = {} /\ reserved' = Mentioned /\ items' = items
        /\ todo' = todo /\ pipeline' = pipeline /\ "ids" \in ToSet(todo)
    BY <1>1, TodoTail DEF BeginIds, Begin
  <2>2. Calls' = Calls /\ \A i \in Calls : i \in DOMAIN items /\ i \in Nat \ {0}
    BY <2>1 DEF Calls, TypeOK
  <2>3. \A i \in Calls : items[i].id \in Mentioned
    BY DEF Calls, Mentioned
  <2>4. IdsInv'
    BY <2>1, <2>2, <2>3 DEF IdsInv
  <2> QED BY <2>1, <2>4 DEF UniqueInv, UniqueIds, IdsDone
<1>2. ASSUME Renaming, "ids" \in ToSet(todo), todo' = todo, pipeline' = pipeline, at' = at + 1,
             at \in DOMAIN items, at \notin Calls, Calls' = Calls,
             \A i \in Calls : items'[i].id = items[i].id,
             used' = used, reserved' = reserved
      PROVE UniqueInv'
  <2>1. \A i \in Calls : i \in Nat /\ (i < at + 1 => i < at)
    BY <1>2 DEF Calls, TypeOK
  <2>2. IdsInv'
    BY <1>2, <2>1 DEF UniqueInv, IdsInv
  <2> QED BY <1>2, <2>2 DEF UniqueInv, UniqueIds, IdsDone
<1>3. ASSUME NextMessage PROVE UniqueInv'
  <2>1. Renaming /\ at \in DOMAIN items /\ at \notin Calls
    BY <1>3 DEF NextMessage, At, Renaming, Calls, TypeOK
  <2>2. "ids" \in ToSet(todo)
    BY <2>1, TodoTail DEF Renaming
  <2>3. Calls' = Calls /\ \A i \in Calls : items'[i].id = items[i].id
    BY <1>3 DEF NextMessage, Calls
  <2> QED BY <1>2, <1>3, <2>1, <2>2, <2>3 DEF NextMessage
<1>4. ASSUME MatchResult PROVE UniqueInv'
  <2>1. Renaming /\ at \in DOMAIN items /\ at \notin Calls
    BY <1>4 DEF MatchResult, At, Renaming, Calls, TypeOK
  <2>2. "ids" \in ToSet(todo)
    BY <2>1, TodoTail DEF Renaming
  <2>3. Calls' = Calls /\ \A i \in Calls : items'[i].id = items[i].id
    <3>1. CASE UNCHANGED <<items, waiting>>
      BY <3>1 DEF Calls
    <3>2. ASSUME NEW w \in DOMAIN waiting, items' = [items EXCEPT ![at].id = waiting[w].wire]
          PROVE Calls' = Calls /\ \A i \in Calls : items'[i].id = items[i].id
      <4>1. waiting[w].wire \in Int
        BY WaitingType
      <4>2. /\ DOMAIN items' = DOMAIN items /\ items'[at].kind = items[at].kind
            /\ \A i \in DOMAIN items \ {at} : items'[i] = items[i]
        BY <2>1, <3>2, <4>1, RenameView
      <4> QED BY <2>1, <4>2 DEF Calls
    <3> QED BY <1>4, <3>1, <3>2 DEF MatchResult
  <2> QED BY <1>2, <1>4, <2>1, <2>2, <2>3 DEF MatchResult
<1>5. ASSUME Renaming, "ids" \in ToSet(todo), todo' = todo, pipeline' = pipeline, at' = at + 1,
             at \in Calls, Calls' = Calls, NEW wire, items'[at].id = wire,
             \A i \in Calls \ {at} : items'[i].id = items[i].id,
             used' = used \cup {wire}, reserved' = reserved \cup {wire}, wire \notin used
      PROVE UniqueInv'
  <2>1. \A i \in Calls : i \in Nat /\ (i < at + 1 <=> i < at \/ i = at)
    BY <1>5 DEF Calls, TypeOK
  <2>2. used' \subseteq reserved' /\ \A i \in Calls : items'[i].id \in reserved'
    BY <1>5 DEF UniqueInv, IdsInv
  <2>3. \A i \in Calls : i < at + 1 => items'[i].id \in used'
    BY <1>5, <2>1 DEF UniqueInv, IdsInv
  <2>4. ASSUME NEW i \in Calls, NEW j \in Calls, i < at + 1, j < at + 1,
               items'[i].id = items'[j].id
        PROVE i = j
    <3>1. ~ (i = at /\ j # at) /\ ~ (j = at /\ i # at)
      BY <1>5, <2>1, <2>4 DEF UniqueInv, IdsInv
    <3>2. CASE i # at /\ j # at
      BY <1>5, <2>1, <2>4, <3>2 DEF UniqueInv, IdsInv
    <3> QED BY <3>1, <3>2
  <2>5. IdsInv'
    BY <1>5, <2>2, <2>3, <2>4 DEF IdsInv
  <2> QED BY <1>5, <2>5 DEF UniqueInv, UniqueIds, IdsDone
<1>6. ASSUME KeepCall PROVE UniqueInv'
  <2>1. Renaming /\ at \in Calls
    BY <1>6 DEF KeepCall, At, Renaming, Calls, TypeOK
  <2>2. "ids" \in ToSet(todo)
    BY <2>1, TodoTail DEF Renaming
  <2>3. reserved' = reserved \cup {items[at].id}
    BY <1>6, <2>1 DEF KeepCall, UniqueInv, IdsInv
  <2>4. Calls' = Calls /\ items' = items
    BY <1>6 DEF KeepCall, Calls
  <2> QED BY <1>5, <1>6, <2>1, <2>2, <2>3, <2>4 DEF KeepCall
<1>7. ASSUME RenameCall PROVE UniqueInv'
  <2>1. Renaming /\ at \in Calls /\ at \in DOMAIN items
    BY <1>7 DEF RenameCall, At, Renaming, Calls, TypeOK
  <2>2. "ids" \in ToSet(todo)
    BY <2>1, TodoTail DEF Renaming
  <2>3. PICK wire \in suffix..MaxSuffix :
          /\ wire \notin reserved
          /\ items' = [items EXCEPT ![at].id = wire]
          /\ used' = used \cup {wire} /\ reserved' = reserved \cup {wire}
    BY <1>7 DEF RenameCall
  <2>4. wire \in Int
    BY <2>3, PipelineAssumption DEF TypeOK
  <2>5. wire \notin used
    BY <2>1, <2>3 DEF UniqueInv, IdsInv
  <2>6. /\ DOMAIN items' = DOMAIN items /\ items'[at].kind = items[at].kind /\ items'[at].id = wire
        /\ \A i \in DOMAIN items \ {at} : items'[i] = items[i]
    BY <2>1, <2>3, <2>4, RenameView
  <2>7. Calls' = Calls /\ \A i \in Calls \ {at} : items'[i].id = items[i].id
    BY <2>6 DEF Calls
  <2> QED BY <1>5, <1>7, <2>1, <2>2, <2>3, <2>5, <2>6, <2>7 DEF RenameCall
<1>8. ASSUME EndIds PROVE UniqueInv'
  <2>1. Renaming /\ at = Len(items) + 1
    BY <1>8 DEF EndIds, Renaming, TypeOK
  <2>2. \A i \in Calls : i < at
    BY <2>1 DEF Calls, TypeOK
  <2>3. \A i, j \in Calls : items[i].id = items[j].id => i = j
    BY <2>1, <2>2 DEF UniqueInv, IdsInv
  <2>4. Calls' = Calls /\ items' = items /\ at' = 0
    BY <1>8 DEF EndIds, EndTransform, Calls
  <2> QED BY <2>3, <2>4 DEF UniqueInv, UniqueIds, IdsInv, Renaming
<1>9. ASSUME todo # <<>>, Head(todo) # "ids", pipeline' = pipeline,
             Calls' = Calls, \A i \in Calls : items'[i].id = items[i].id,
             (at' = 0 /\ todo' = Tail(todo)) \/ todo' = todo
      PROVE UniqueInv'
  <2>1. IdsDone' => IdsDone
    BY <1>9, TodoTail DEF IdsDone
  <2>2. IdsInv'
    BY <1>9 DEF IdsInv, Renaming
  <2> QED BY <1>9, <2>1, <2>2 DEF UniqueInv, UniqueIds
<1>10. ASSUME Cap \/ Trim PROVE UniqueInv'
  <2>1. Calls' = Calls /\ \A i \in Calls : items'[i].id = items[i].id
    BY <1>10, CapView, TrimView, SameCalls
  <2>2. todo # <<>> /\ Head(todo) # "ids"
    BY <1>10 DEF Cap, Trim, Begin, At
  <2> QED BY <1>9, <1>10, <2>1, <2>2 DEF Cap, Trim, EndTransform
<1>11. ASSUME NothingToTrim \/ BeginTrim \/ TrimNothing \/ EndTrim PROVE UniqueInv'
  <2>1. Calls' = Calls /\ items' = items /\ pipeline' = pipeline
    BY <1>11 DEF NothingToTrim, BeginTrim, TrimNothing, EndTrim, Calls
  <2>2. todo # <<>> /\ Head(todo) # "ids"
    BY <1>11 DEF NothingToTrim, BeginTrim, TrimNothing, EndTrim, Begin
  <2>3. (at' = 0 /\ todo' = Tail(todo)) \/ todo' = todo
    BY <1>11 DEF NothingToTrim, BeginTrim, TrimNothing, EndTrim, EndTransform
  <2> QED BY <1>9, <2>1, <2>2, <2>3
<1>12. CASE UNCHANGED vars
  BY <1>12 DEF UniqueInv, UniqueIds, IdsInv, IdsDone, Renaming, Calls, vars
<1> QED
  BY <1>1, <1>3, <1>4, <1>6, <1>7, <1>8, <1>10, <1>11, <1>12 DEF Next, Sent

-----------------------------------------------------------------------------
(* The size of a view.  Total is a fold over the view's positions: that it   *)
(* is a number is proved by the least view for which it would not be.        *)

\* The sums of a view's items, by the positions summed.
Sums(f, view, n) ==
  f = [s \in SUBSET (1..n) |-> IF s = {} THEN 0 ELSE f[s \ {Max(s)}] + view[Max(s)].size]

\* Total, unfolded: its sums by sets of positions.
LEMMA TotalIsSum ==
  ASSUME NEW view
  PROVE  Total(view) = (CHOOSE f : f = [s \in SUBSET DOMAIN view |->
                                         IF s = {} THEN 0
                                         ELSE f[s \ {Max(s)}] + view[Max(s)].size])[DOMAIN view]
BY DEF Total, FoldLeft, MapThenFoldSet

\* The last of some positions up to n, if n is one of them.
LEMMA MaxOfRange ==
  ASSUME NEW n \in Nat, NEW s, s \subseteq 1..n, n \in s
  PROVE  Max(s) = n
<1>1. \A y \in s : n >= y
  OBVIOUS
<1>2. \A x \in s : (\A y \in s : x >= y) => x = n
  OBVIOUS
<1> QED BY <1>1, <1>2 DEF Max

\* A set of numbers with an element has a least one.
LEMMA LeastNumber ==
  ASSUME NEW S, S \subseteq Nat, S # {}
  PROVE  \E n \in S : \A m \in S : n <= m
<1>1. PICK n \in S : \A m \in S : ~(<<m, n>> \in OpToRel(<, Nat))
  BY NatLessThanWellFounded, WFMin
<1>2. \A m \in S : ~(m < n)
  BY <1>1 DEF OpToRel
<1>3. n \in Nat /\ \A m \in S : m \in Nat
  OBVIOUS
<1> QED BY <1>2, <1>3

\* There is a function of the sums.
LEMMA SumsExist ==
  ASSUME NEW view, NEW n \in Nat
  PROVE  \E f : Sums(f, view, n)
<1> DEFINE Bad == {k \in 0..n : ~ \E f : Sums(f, view, k)}
<1>1. SUFFICES ASSUME Bad # {} PROVE FALSE
  OBVIOUS
<1>2. PICK k \in Bad : \A j \in Bad : k <= j
  <2>1. Bad \subseteq Nat
    OBVIOUS
  <2> HIDE DEF Bad
  <2> QED BY <1>1, <2>1, LeastNumber
<1>3. k # 0
  <2> SUFFICES ASSUME k = 0 PROVE FALSE
    OBVIOUS
  <2>1. Sums([s \in SUBSET (1..0) |-> 0], view, 0)
    <3>1. \A s \in SUBSET (1..0) : s = {}
      OBVIOUS
    <3> QED BY <3>1 DEF Sums
  <2> QED BY <2>1
<1>4. k \in 1..n /\ k - 1 \in 0..n /\ k - 1 \notin Bad
  BY <1>2, <1>3
<1>5. PICK g : Sums(g, view, k - 1)
  BY <1>4
<1> DEFINE h == [s \in SUBSET (1..k) |-> IF k \in s THEN g[s \ {k}] + view[k].size ELSE g[s]]
<1>6. ASSUME NEW s \in SUBSET (1..k)
      PROVE  h[s] = IF s = {} THEN 0 ELSE h[s \ {Max(s)}] + view[Max(s)].size
  <2>1. CASE k \in s
    <3>0. k \in Nat /\ s \subseteq 1..k
      BY <1>4
    <3>1. Max(s) = k /\ s \ {k} \in SUBSET (1..k) /\ s # {}
      BY <2>1, <3>0, MaxOfRange
    <3>2. h[s \ {k}] = g[s \ {k}]
      BY <3>1
    <3> QED BY <2>1, <3>1, <3>2
  <2>2. CASE k \notin s
    <3>0. PICK m : m = Max(s)
      OBVIOUS
    <3>1. s \in SUBSET (1..(k - 1)) /\ s \ {Max(s)} \in SUBSET (1..k) /\ k \notin s \ {Max(s)}
      <4>1. k \in Nat /\ \A x \in s : x \in 1..k /\ x # k
        BY <1>4, <2>2
      <4>2. \A x \in s : x \in 1..(k - 1)
        BY <4>1
      <4>3. s \ {m} \in SUBSET (1..k) /\ k \notin s \ {m}
        BY <4>1
      <4> QED BY <3>0, <4>2, <4>3
    <3>2. g[s] = IF s = {} THEN 0 ELSE g[s \ {Max(s)}] + view[Max(s)].size
      BY <1>5, <3>1 DEF Sums
    <3>3. h[s] = g[s] /\ h[s \ {Max(s)}] = g[s \ {Max(s)}]
      BY <2>2, <3>1
    <3> QED BY <3>2, <3>3
  <2> QED BY <2>1, <2>2
<1>7. Sums(h, view, k)
  <2>1. DOMAIN h = SUBSET (1..k) /\ h = [s \in DOMAIN h |-> h[s]]
    OBVIOUS
  <2> HIDE DEF h
  <2> QED BY <1>6, <2>1 DEF Sums
<1> QED BY <1>2, <1>7

\* The size of a request is a natural number.
LEMMA TotalIsNat ==
  ASSUME NEW view \in Seq(Item)
  PROVE  Total(view) \in Nat
<1>0. Len(view) \in Nat /\ DOMAIN view = 1..Len(view)
  OBVIOUS
<1>1. PICK f : Sums(f, view, Len(view)) /\ Total(view) = f[1..Len(view)]
  <2>1. PICK g : g = CHOOSE f : Sums(f, view, Len(view))
    OBVIOUS
  <2>2. Sums(g, view, Len(view))
    BY <1>0, <2>1, SumsExist
  <2>3. Total(view) = g[1..Len(view)]
    BY <1>0, <2>1, TotalIsSum DEF Sums
  <2> QED BY <2>2, <2>3
<1> DEFINE Bad == {n \in 0..Len(view) : \E s \in SUBSET (1..n) : f[s] \notin Nat}
<1>2. ASSUME Bad # {} PROVE FALSE
  <2>1. PICK n \in Bad : \A m \in Bad : n <= m
    <3>1. Bad \subseteq Nat
      OBVIOUS
    <3> HIDE DEF Bad
    <3> QED BY <1>2, <3>1, LeastNumber
  <2>2. PICK s \in SUBSET (1..n) : f[s] \notin Nat
    BY <2>1
  <2>3. n \in 0..Len(view) /\ s \in SUBSET (1..Len(view))
    BY <1>0, <2>1, <2>2
  <2>4. f[s] = IF s = {} THEN 0 ELSE f[s \ {Max(s)}] + view[Max(s)].size
    BY <1>1, <2>3 DEF Sums
  <2>5. s # {} /\ n # 0
    BY <2>2, <2>4
  <2>6. n - 1 \in 0..Len(view) /\ n - 1 \notin Bad
    <3> HIDE DEF Bad
    <3>1. n - 1 \in 0..Len(view) /\ ~(n <= n - 1)
      BY <1>0, <2>3, <2>5
    <3> QED BY <2>1, <3>1
  <2>7. n \in s
    <3>1. n \notin s => s \in SUBSET (1..(n - 1))
      BY <2>3, <2>2
    <3> QED BY <2>2, <2>6, <3>1
  <2>8. Max(s) = n /\ s \ {n} \in SUBSET (1..(n - 1))
    <3>1. n \in Nat /\ s \subseteq 1..n
      BY <1>0, <2>2, <2>3
    <3>2. Max(s) = n
      BY <2>7, <3>1, MaxOfRange
    <3>3. ASSUME NEW x \in s \ {n} PROVE x \in 1..(n - 1)
      <4>1. x \in 1..n /\ x # n
        BY <3>1
      <4> QED BY <3>1, <4>1
    <3> QED BY <3>2, <3>3
  <2>9. f[s \ {n}] \in Nat
    BY <2>6, <2>8
  <2>10. view[n].size \in Nat
    <3>1. view[n] \in Item
      BY <1>0, <2>3, <2>5
    <3> QED BY <3>1 DEF Item
  <2> QED BY <2>2, <2>4, <2>5, <2>8, <2>9, <2>10
<1>3. Len(view) \notin Bad
  BY <1>2
<1> QED BY <1>0, <1>1, <1>3

-----------------------------------------------------------------------------
(* The budget.                                                               *)

\* The budget is at work on an item.
Trimming == todo # <<>> /\ Head(todo) = "trim" /\ at # 0

\* What was taken is not spared, and was taken while the view was too big.
Justified ==
  \A i \in Results :
    items[i] # before[i] =>
      /\ ~Spared(i)
      /\ Total(SubSeq(items, 1, i - 1) \o SubSeq(before, i, Len(before))) > Trigger

\* The budget goes from the oldest item on, and only while the view is too big:
\* nothing is left to take behind it, nothing is touched yet before it.
TrimInv ==
  /\ todo # <<>> => pipeline # <<>> /\ Last(todo) = Last(pipeline)
  /\ Trimming =>
       /\ Len(before) = Len(items)
       /\ \A i \in DOMAIN items : i >= at => items[i] = before[i]
       /\ \A i \in Results : i < at => items[i].form = "marker"
       /\ Total(items) > Trigger
       /\ Justified
  /\ TrimmedAsNeeded

\* The initial states satisfy TrimInv.
LEMMA TrimInit == Init => TrimInv
BY DEF Init, TrimInv, Trimming, TrimmedAsNeeded, Sent

\* A rest that is not empty ends as the whole does.
LEMMA LastOfTail ==
  ASSUME NEW s \in Seq(Transform), s # <<>>
  PROVE  /\ Tail(s) # <<>> => Last(Tail(s)) = Last(s)
         /\ Tail(s) = <<>> => Head(s) = Last(s)
<1>1. Len(s) \in Nat \ {0} /\ Tail(s) \in Seq(Transform) /\ Len(Tail(s)) = Len(s) - 1
  BY DEF Transform
<1>2. \A i \in 1..Len(Tail(s)) : Tail(s)[i] = s[i + 1]
  BY <1>1
<1>3. ASSUME Tail(s) # <<>> PROVE Tail(s)[Len(Tail(s))] = s[Len(s)]
  <2>1. Len(Tail(s)) \in 1..Len(Tail(s))
    BY <1>1, <1>3, EmptySeq
  <2> QED BY <1>1, <1>2, <2>1
<1>4. ASSUME Tail(s) = <<>> PROVE Head(s) = s[Len(s)]
  <2>1. Len(s) = 1
    BY <1>1, <1>4
  <2> QED BY <1>1, <2>1
<1> QED BY <1>3, <1>4 DEF Last

\* What is spared depends on the kinds alone, and everything behind it is too.
LEMMA SparedByKind ==
  ASSUME Len(items') = Len(items),
         \A i \in 1..Len(items) : items'[i].kind = items[i].kind,
         Len(items) \in Nat, NEW i \in Nat
  PROVE  Spared(i)' <=> Spared(i)
<1>1. {j \in (i + 1)..Len(items') : items'[j].kind # "call"}
        = {j \in (i + 1)..Len(items) : items[j].kind # "call"}
  OBVIOUS
<1> QED BY <1>1 DEF Spared

\* Behind a result that is spared all are.
LEMMA SparedBehind ==
  ASSUME TypeOK, NEW i \in Nat, NEW j \in Nat, i <= j, Spared(i)
  PROVE  Spared(j)
<1> DEFINE Behind(k) == {n \in (k + 1)..Len(items) : items[n].kind # "call"}
<1>0. Len(items) \in Nat
  BY DEF TypeOK
<1>1. IsFiniteSet(Behind(i))
  <2>1. IsFiniteSet((i + 1)..Len(items))
    BY <1>0, FS_Interval
  <2> QED BY <2>1, FS_Subset
<1>2. Behind(j) \subseteq Behind(i)
  BY <1>0
<1>3. Cardinality(Behind(j)) <= Cardinality(Behind(i))
  BY <1>1, <1>2, FS_Subset
<1>4. Cardinality(Behind(j)) \in Nat /\ Cardinality(Behind(i)) \in Nat
  BY <1>1, <1>2, FS_Subset, FS_CardinalityType
<1>5. Cardinality(Behind(i)) < 2
  BY DEF Spared
<1>6. Cardinality(Behind(j)) < 2
  <2> HIDE DEF Behind
  <2> QED BY <1>3, <1>4, <1>5
<1> QED BY <1>6 DEF Spared

\* The end of a pipeline's last transform, or of one that is not the last.
LEMMA TrimEnds ==
  ASSUME TypeOK, TrimInv, todo # <<>>, todo' = Tail(todo), at' = 0, pipeline' = pipeline,
         Tail(todo) = <<>> /\ Head(todo) = "trim" =>
           /\ Justified'
           /\ Total(items') > Trigger => \A i \in Results' : Spared(i)' \/ items'[i].form = "marker"
  PROVE  TrimInv'
<1>1. /\ Tail(todo) # <<>> => Last(Tail(todo)) = Last(todo)
      /\ Tail(todo) = <<>> => Head(todo) = Last(todo)
  BY LastOfTail DEF TypeOK, Transform
<1>2. todo' # <<>> => pipeline' # <<>> /\ Last(todo') = Last(pipeline')
  BY <1>1 DEF TrimInv
<1>3. ASSUME pipeline' # <<>>, Last(pipeline') = "trim", Sent'
      PROVE  Tail(todo) = <<>> /\ Head(todo) = "trim"
  BY <1>1, <1>3 DEF Sent, TrimInv
<1>4. TrimmedAsNeeded'
  BY <1>3 DEF TrimmedAsNeeded, Justified
<1> QED BY <1>2, <1>4 DEF TrimInv, Trimming

\* A step within a transform other than the budget.
LEMMA TrimElsewhere ==
  ASSUME TrimInv, todo # <<>>, todo' = todo, pipeline' = pipeline, Head(todo) # "trim"
  PROVE  TrimInv'
BY DEF TrimInv, Trimming, TrimmedAsNeeded, Sent

\* Every step preserves TrimInv.
LEMMA TrimNext ==
  ASSUME TypeOK, TrimInv, [Next]_vars
  PROVE  TrimInv'
<1> USE DEF given, renaming
<1>0. Len(items) \in Nat /\ DOMAIN items = 1..Len(items) /\ at \in Nat
  BY DEF TypeOK
<1>1. CASE BeginIds
  BY <1>1, TrimElsewhere DEF BeginIds, Begin
<1>2. CASE NextMessage \/ KeepCall \/ RenameCall \/ MatchResult
  BY <1>2, TrimElsewhere DEF NextMessage, KeepCall, RenameCall, MatchResult, At
<1>3. CASE EndIds
  BY <1>3, TrimEnds DEF EndIds, EndTransform
<1>4. CASE Cap
  BY <1>4, TrimEnds DEF Cap, Begin, EndTransform
<1>5. CASE NothingToTrim
  <2>1. Total(items) \in Nat /\ Trigger \in Nat
    BY TotalIsNat, PipelineAssumption DEF TypeOK
  <2>2. ~(Total(items') > Trigger)
    BY <1>5, <2>1 DEF NothingToTrim
  <2>3. Justified'
    BY <1>5 DEF NothingToTrim, Begin, Justified
  <2> QED BY <1>5, <2>2, <2>3, TrimEnds DEF NothingToTrim, Begin, EndTransform
<1>6. CASE BeginTrim
  <2>1. /\ items' = items /\ before' = items /\ at' = 1 /\ todo' = todo /\ pipeline' = pipeline
        /\ todo # <<>> /\ Total(items) > Trigger
    BY <1>6 DEF BeginTrim, Begin
  <2>2. Justified'
    BY <2>1 DEF Justified
  <2>3. \A i \in Results : ~(i < 1)
    BY <1>0 DEF Results
  <2>4. Results' = Results
    BY <2>1 DEF Results
  <2> QED BY <2>1, <2>2, <2>3, <2>4 DEF TrimInv, TrimmedAsNeeded, Sent
<1>7. CASE Trim
  <2>1. /\ Trimming /\ at \in DOMAIN items /\ items[at].kind = "result" /\ ~Spared(at)
        /\ items' = [items EXCEPT ![at] = Mark(items[at])]
        /\ before' = before /\ pipeline' = pipeline /\ todo # <<>> /\ Head(todo) = "trim"
    BY <1>0, <1>7 DEF Trim, At, Trimming
  <2>2. /\ Len(before) = Len(items) /\ Total(items) > Trigger /\ Justified
        /\ \A i \in DOMAIN items : i >= at => items[i] = before[i]
        /\ \A i \in Results : i < at => items[i].form = "marker"
    BY <2>1 DEF TrimInv
  <2>3. /\ Len(items') = Len(items) /\ DOMAIN items' = DOMAIN items
        /\ \A i \in DOMAIN items : items'[i].kind = items[i].kind
        /\ items' \in Seq(Item)
    BY <1>7, TrimView
  <2>4. /\ items'[at] = Mark(items[at]) /\ items'[at].form = "marker"
        /\ \A i \in DOMAIN items \ {at} : items'[i] = items[i]
    <3>1. Mark(items[at]).form = "marker"
      <4>1. items[at] \in Item
        BY <2>1, ItemType
      <4> QED BY <4>1 DEF Mark, Item
    <3> QED BY <2>1, <3>1 DEF TypeOK
  <2>5. Results' = Results /\ Results \subseteq 1..Len(items)
    BY <1>0, <2>3 DEF Results
  <2>6. \A i \in Nat : Spared(i)' <=> Spared(i)
    BY <1>0, <2>3, SparedByKind
  <2>7. \A i \in DOMAIN items : i <= at => SubSeq(items', 1, i - 1) = SubSeq(items, 1, i - 1)
    <3> SUFFICES ASSUME NEW i \in DOMAIN items, i <= at
                 PROVE  SubSeq(items', 1, i - 1) = SubSeq(items, 1, i - 1)
      OBVIOUS
    <3>1. \A j \in 1..(i - 1) : items'[j] = items[j]
      BY <1>0, <2>1, <2>4
    <3>2. /\ SubSeq(items', 1, i - 1) \in Seq(Item) /\ SubSeq(items, 1, i - 1) \in Seq(Item)
          /\ Len(SubSeq(items', 1, i - 1)) = i - 1 /\ Len(SubSeq(items, 1, i - 1)) = i - 1
          /\ \A j \in 1..(i - 1) : /\ SubSeq(items', 1, i - 1)[j] = items'[j]
                                   /\ SubSeq(items, 1, i - 1)[j] = items[j]
      BY <1>0, <2>3 DEF TypeOK
    <3> QED BY <3>1, <3>2, SeqEqual
  <2>8. SubSeq(items, 1, at - 1) \o SubSeq(before, at, Len(before)) = items
    <3>1. SubSeq(before, at, Len(before)) = SubSeq(items, at, Len(items))
      <4>0. before \in Seq(Item) /\ items \in Seq(Item) /\ at \in 1..Len(items)
        BY <1>0, <2>1 DEF TypeOK
      <4>1. ASSUME NEW j \in 1..(Len(items) - at + 1)
            PROVE  SubSeq(before, at, Len(before))[j] = SubSeq(items, at, Len(items))[j]
        <5>1. /\ SubSeq(before, at, Len(before))[j] = before[at + j - 1]
              /\ SubSeq(items, at, Len(items))[j] = items[at + j - 1]
          BY <1>0, <2>2, <4>0
        <5>2. at + j - 1 \in DOMAIN items /\ at + j - 1 >= at
          BY <1>0, <4>0
        <5> QED BY <2>2, <5>1, <5>2
      <4>2. /\ SubSeq(before, at, Len(before)) \in Seq(Item)
            /\ SubSeq(items, at, Len(items)) \in Seq(Item)
            /\ Len(SubSeq(before, at, Len(before))) = Len(items) - at + 1
            /\ Len(SubSeq(items, at, Len(items))) = Len(items) - at + 1
        BY <1>0, <2>1, <2>2 DEF TypeOK
      <4> QED BY <4>1, <4>2, SeqEqual
    <3>2. SubSeq(items, 1, at - 1) \o SubSeq(items, at, Len(items)) = items
      <4>1. items \in Seq(Item) /\ at \in 1..Len(items)
        BY <1>0, <2>1 DEF TypeOK
      <4>2. SubSeq(items, 1, Len(items)) = items
        BY <4>1, SubSeqFull
      <4>4. 1 \in 1..(Len(items) + 1) /\ at - 1 \in (1 - 1)..Len(items) /\ Len(items) \in (at - 1)..Len(items)
        BY <1>0, <4>1
      <4>5. SubSeq(items, 1, at - 1) \o SubSeq(items, (at - 1) + 1, Len(items)) = SubSeq(items, 1, Len(items))
        BY <4>1, <4>4, ConcatAdjacentSubSeq
      <4>3. (at - 1) + 1 = at
        BY <1>0
      <4> QED BY <4>2, <4>3, <4>5
    <3> QED BY <3>1, <3>2
  <2>9. Justified'
    <3> SUFFICES ASSUME NEW i \in Results, items'[i] # before[i]
                 PROVE  /\ ~Spared(i)'
                        /\ Total(SubSeq(items', 1, i - 1) \o SubSeq(before, i, Len(before))) > Trigger
      BY <2>1, <2>5 DEF Justified
    <3>1. i \in DOMAIN items /\ i \in Nat
      BY <1>0, <2>5
    <3>2. i <= at
      BY <1>0, <2>2, <2>4, <3>1, <2>1
    <3>3. CASE i = at
      <4>1. SubSeq(items', 1, i - 1) \o SubSeq(before, i, Len(before)) = items
        BY <2>7, <2>8, <3>1, <3>2, <3>3
      <4>2. ~Spared(i)'
        BY <2>1, <2>6, <3>1, <3>3
      <4> QED BY <2>2, <4>1, <4>2
    <3>4. CASE i # at
      BY <2>2, <2>4, <2>6, <2>7, <3>1, <3>2, <3>4 DEF Justified
    <3> QED BY <3>3, <3>4
  <2>10. Total(items') \in Nat /\ Trigger \in Nat
    BY <2>3, TotalIsNat, PipelineAssumption
  <2>11. CASE Total(items') <= Trigger
    <3>1. todo' = Tail(todo) /\ at' = 0
      BY <1>7, <2>11 DEF Trim, EndTransform
    <3>2. ~(Total(items') > Trigger)
      BY <2>10, <2>11
    <3> QED BY <2>1, <2>9, <3>1, <3>2, TrimEnds
  <2>12. CASE ~(Total(items') <= Trigger)
    <3>1. todo' = todo /\ at' = at + 1
      BY <1>7, <2>12 DEF Trim
    <3>2. Total(items') > Trigger
      BY <2>10, <2>12
    <3>3. \A i \in DOMAIN items' : i >= at' => items'[i] = before'[i]
      BY <1>0, <2>1, <2>2, <2>3, <2>4, <3>1
    <3>4. \A i \in Results' : i < at' => items'[i].form = "marker"
      <4> SUFFICES ASSUME NEW i \in Results, i < at + 1, i # at PROVE items'[i].form = "marker"
        BY <2>4, <2>5, <3>1
      <4>1. i \in DOMAIN items /\ i < at
        BY <1>0, <2>5
      <4> QED BY <2>2, <2>4, <4>1
    <3>5. Len(before') = Len(items')
      BY <2>1, <2>2, <2>3
    <3> QED BY <2>1, <2>9, <3>1, <3>2, <3>3, <3>4, <3>5 DEF TrimInv, TrimmedAsNeeded, Sent
  <2> QED BY <2>11, <2>12
<1>8. CASE TrimNothing
  <2>1. /\ todo # <<>> /\ Head(todo) = "trim" /\ at \in DOMAIN items /\ at' = at + 1
        /\ items[at].kind # "result" \/ items[at].form = "marker"
        /\ items' = items /\ before' = before /\ todo' = todo /\ pipeline' = pipeline
    BY <1>8 DEF TrimNothing
  <2>2. Trimming
    BY <1>0, <2>1 DEF Trimming
  <2>3. Results' = Results /\ Justified' /\ Results \subseteq DOMAIN items
    BY <2>1, <2>2 DEF Results, Justified, Spared, TrimInv
  <2>4. \A i \in Results : i < at + 1 => items[i].form = "marker"
    <3> SUFFICES ASSUME NEW i \in Results, i < at + 1 PROVE items[i].form = "marker"
      OBVIOUS
    <3>1. i < at \/ i = at
      BY <1>0, <2>3
    <3> QED BY <2>1, <2>2, <3>1 DEF TrimInv, Results
  <2>5. \A i \in DOMAIN items : i >= at + 1 => items[i] = before[i]
    BY <1>0, <2>2 DEF TrimInv
  <2> QED BY <2>1, <2>2, <2>3, <2>4, <2>5 DEF TrimInv, TrimmedAsNeeded, Sent
<1>9. CASE EndTrim
  <2>1. /\ todo # <<>> /\ Head(todo) = "trim" /\ at # 0 /\ todo' = Tail(todo) /\ at' = 0
        /\ at \in DOMAIN items => Spared(at)
        /\ items' = items /\ before' = before /\ pipeline' = pipeline
    BY <1>9 DEF EndTrim, EndTransform
  <2>2. Trimming
    BY <2>1 DEF Trimming
  <2>3. Results' = Results /\ Justified' /\ Results \subseteq DOMAIN items
    BY <2>1, <2>2 DEF Results, Justified, Spared, TrimInv
  <2>4. \A i \in Results : Spared(i) \/ items[i].form = "marker"
    <3> SUFFICES ASSUME NEW i \in Results, ~(i < at) PROVE Spared(i)
      BY <2>2 DEF TrimInv
    <3>1. i \in Nat /\ at <= i /\ at \in DOMAIN items
      BY <1>0, <2>1, <2>3
    <3> QED BY <1>0, <2>1, <3>1, SparedBehind
  <2>5. \A i \in Results : Spared(i)' \/ items'[i].form = "marker"
    BY <2>1, <2>4 DEF Spared
  <2> QED BY <2>1, <2>3, <2>5, TrimEnds
<1>10. CASE UNCHANGED vars
  BY <1>10 DEF vars, TrimInv, Trimming, Justified, TrimmedAsNeeded, Results, Spared, Sent
<1> QED
  BY <1>1, <1>2, <1>3, <1>4, <1>5, <1>6, <1>7, <1>8, <1>9, <1>10 DEF Next, Sent

-----------------------------------------------------------------------------
(* Results.                                                                  *)

\* Which calls wait depends on kinds and answers, which no transform changes.
LEMMA OpenAlike ==
  ASSUME NEW v, NEW w, NEW len \in Nat, NEW n \in 1..(len + 1),
         \A i \in 1..len : w[i].kind = v[i].kind /\ w[i].answers = v[i].answers
  PROVE  Open(w, n) = Open(v, n)
<1>1. \A i \in 1..(n - 1) : i \in 1..len
  OBVIOUS
<1>2. ASSUME NEW c \in 1..(n - 1)
      PROVE  c \in Open(w, n) <=> c \in Open(v, n)
  <2>1. \A i \in c..(n - 1) : i \in 1..(n - 1)
    OBVIOUS
  <2> QED BY <1>1, <2>1 DEF Open
<1> QED BY <1>2 DEF Open

\* Whether results are paired is a matter of kinds, ids and answers alone.
LEMMA PairedAlike ==
  ASSUME NEW v, NEW w, NEW len \in Nat, DOMAIN v = 1..len, DOMAIN w = 1..len, Paired(v),
         \A i \in 1..len : /\ w[i].kind = v[i].kind
                           /\ w[i].answers = v[i].answers
                           /\ w[i].id = v[i].id
  PROVE  Paired(w)
<1> SUFFICES ASSUME NEW r \in 1..len, w[r].kind = "result"
             PROVE  LET fitting == {c \in Open(w, r) : w[c].id = w[r].id}
                    IN  IF fitting = {} THEN w[r].answers = 0
                        ELSE w[r].answers \in fitting /\ \A c \in fitting : w[r].answers <= c
  BY DEF Paired
<1>1. Open(w, r) = Open(v, r)
  <2>1. r \in 1..(len + 1)
    OBVIOUS
  <2> QED BY <2>1, OpenAlike
<1>2. Open(v, r) \subseteq 1..len
  BY DEF Open
<1>3. {c \in Open(w, r) : w[c].id = w[r].id} = {c \in Open(v, r) : v[c].id = v[r].id}
  BY <1>1, <1>2
<1> QED BY <1>3 DEF Paired

\* A result answers an earlier call of its message, or none.
LEMMA AnswersEarlier ==
  ASSUME NEW v, Paired(v), NEW r \in DOMAIN v, v[r].kind = "result", v[r].answers # 0
  PROVE  v[r].answers \in Open(v, r) /\ v[v[r].answers].id = v[r].id
BY DEF Paired

\* How the waiting calls change from one item to the next.
LEMMA OpenNext ==
  ASSUME NEW v, NEW len \in Nat, DOMAIN v = 1..len, Paired(v), NEW n \in 1..len
  PROVE  /\ v[n].kind \notin {"call", "result"} => Open(v, n + 1) = {}
         /\ v[n].kind = "call" => Open(v, n + 1) = Open(v, n) \cup {n}
         /\ v[n].kind = "result" => Open(v, n + 1) = Open(v, n) \ {v[n].answers}
<1>0. n \in Nat /\ (n + 1) - 1 = n /\ n - 1 \in Nat /\ \A c : c \in 1..n <=> c \in 1..(n - 1) \/ c = n
  OBVIOUS
<1>1. ASSUME v[n].kind \notin {"call", "result"} PROVE Open(v, n + 1) = {}
  <2>1. \A c \in 1..n : n \in c..n
    BY <1>0
  <2> QED BY <1>0, <1>1, <2>1 DEF Open
<1>2. ASSUME v[n].kind = "call" PROVE Open(v, n + 1) = Open(v, n) \cup {n}
  <2>1. ASSUME NEW q \in 1..n, v[q].kind = "result" PROVE v[q].answers # n
    <3>1. q \in 1..len /\ q # n
      BY <1>0, <1>2, <2>1
    <3>2. v[q].answers = 0 \/ v[q].answers \in 1..(q - 1)
      BY <2>1, <3>1, AnswersEarlier DEF Open
    <3> QED BY <1>0, <3>1, <3>2
  <2>2. n \in Open(v, n + 1)
    <3>1. \A i \in n..n : i = n
      BY <1>0
    <3> QED BY <1>0, <1>2, <2>1, <3>1 DEF Open
  <2>3. ASSUME NEW c \in 1..(n - 1) PROVE c \in Open(v, n + 1) <=> c \in Open(v, n)
    <3>1. \A i : i \in c..n <=> i \in c..(n - 1) \/ i = n
      BY <1>0
    <3> QED BY <1>0, <1>2, <3>1 DEF Open
  <2> QED BY <1>0, <2>2, <2>3 DEF Open
<1>3. ASSUME v[n].kind = "result" PROVE Open(v, n + 1) = Open(v, n) \ {v[n].answers}
  <2>1. n \notin Open(v, n + 1)
    BY <1>3 DEF Open
  <2>2. ASSUME NEW c \in 1..(n - 1)
        PROVE  c \in Open(v, n + 1) <=> c \in Open(v, n) /\ v[n].answers # c
    <3>1. \A i : i \in c..n <=> i \in c..(n - 1) \/ i = n
      BY <1>0
    <3> QED BY <1>0, <1>3, <3>1 DEF Open
  <2> QED BY <1>0, <2>1, <2>2 DEF Open
<1> QED BY <1>1, <1>2, <1>3

\* The entries of the waiting list are the calls that wait, in their order, each
\* under the id it had and the id it has.
Tracks(pos) ==
  /\ \A w \in DOMAIN waiting :
       /\ pos[w] \in Open(before, at)
       /\ waiting[w].original = before[pos[w]].id
       /\ waiting[w].wire = items[pos[w]].id
  /\ \A v, w \in DOMAIN waiting : v < w => pos[v] < pos[w]
  /\ \A c \in Open(before, at) : \E w \in DOMAIN waiting : pos[w] = c

\* What is behind the transform has its final id: a call its own or one nobody
\* mentioned, a result that of its call or its own.
MatchBody ==
  /\ Paired(before) /\ Len(before) = Len(items)
  /\ \A i \in DOMAIN items : items[i].kind = before[i].kind /\ items[i].answers = before[i].answers
  /\ \A i \in DOMAIN items : i >= at => items[i].id = before[i].id
  /\ \A i \in Calls : i < at /\ items[i].id # before[i].id =>
       \A r \in Results : items[i].id # before[r].id
  /\ \A r \in Results : before[r].id \in reserved
  /\ \A r \in Results : r < at =>
       /\ items[r].answers = 0 => items[r].id = before[r].id
       /\ items[r].answers # 0 => items[r].id = items[items[r].answers].id
  /\ \E pos : Tracks(pos)

MatchInv == IF Renaming THEN MatchBody ELSE Paired(items)

\* The initial states satisfy MatchInv.
LEMMA MatchInit == Init => MatchInv
BY PipelineAssumption DEF Init, MatchInv, Renaming

\* Behind the last item, the view pairs its results as the one before did.
LEMMA MatchEnd ==
  ASSUME TypeOK, UniqueInv, Renaming, MatchBody, at = Len(items) + 1
  PROVE  Paired(items)
<1>0. Len(items) \in Nat /\ DOMAIN items = 1..Len(items) /\ DOMAIN before = 1..Len(items)
  BY DEF TypeOK, MatchBody
<1>1. \A i \in DOMAIN items : i < at
  BY <1>0
<1>2. SUFFICES ASSUME NEW r \in 1..Len(items), items[r].kind = "result"
      PROVE  LET fitting == {c \in Open(items, r) : items[c].id = items[r].id}
             IN  IF fitting = {} THEN items[r].answers = 0
                 ELSE items[r].answers \in fitting /\ \A c \in fitting : items[r].answers <= c
  BY <1>0 DEF Paired
<1>3. Open(items, r) = Open(before, r)
  <2>1. r \in 1..(Len(items) + 1)
    BY <1>0
  <2>2. \A i \in 1..Len(items) : items[i].kind = before[i].kind /\ items[i].answers = before[i].answers
    BY <1>0 DEF MatchBody
  <2> QED BY <1>0, <2>1, <2>2, OpenAlike
<1>4. \A c \in Open(items, r) : c \in Calls /\ c \in Nat
  BY <1>0 DEF Open, Calls
<1>5. r \in Results /\ r < at /\ before[r].kind = "result" /\ before[r].answers = items[r].answers
  BY <1>0, <1>1, <1>2 DEF Results, MatchBody
<1> DEFINE fitting == {c \in Open(items, r) : items[c].id = items[r].id}
<1>6. CASE items[r].answers # 0
  <2>1. items[r].answers \in Open(items, r)
    BY <1>0, <1>3, <1>5, <1>6, AnswersEarlier DEF MatchBody
  <2>2. items[r].answers \in fitting
    BY <1>5, <1>6, <2>1 DEF MatchBody
  <2>3. \A c \in fitting : c = items[r].answers
    BY <1>0, <1>1, <1>4, <2>2 DEF UniqueInv, IdsInv, Calls
  <2> QED BY <1>4, <2>1, <2>2, <2>3
<1>7. CASE items[r].answers = 0
  <2>1. ASSUME NEW c \in fitting PROVE FALSE
    <3>1. c \in Calls /\ c < at /\ items[c].id = before[r].id
      BY <1>0, <1>1, <1>4, <1>5, <1>7 DEF MatchBody, Calls
    <3>2. before[c].id = before[r].id
      BY <1>5, <3>1 DEF MatchBody
    <3>3. before[r].answers \in {d \in Open(before, r) : before[d].id = before[r].id}
      BY <1>0, <1>3, <1>5, <3>2 DEF MatchBody, Paired
    <3>4. 0 \notin Open(before, r)
      BY <1>0 DEF Open
    <3> QED BY <1>5, <1>7, <3>3, <3>4
  <2> QED BY <1>7, <2>1
<1> QED BY <1>6, <1>7

\* A step from one item to the next, as far as the items are concerned.
LEMMA MatchStep ==
  ASSUME TypeOK, Renaming, MatchBody, at \in DOMAIN items,
         todo' = todo, before' = before, at' = at + 1,
         Len(items') = Len(items), DOMAIN items' = DOMAIN items,
         \A i \in DOMAIN items \ {at} : items'[i] = items[i],
         items'[at].kind = items[at].kind, items'[at].answers = items[at].answers,
         at \in Calls => \/ items'[at].id = items[at].id
                         \/ \A r \in Results : items'[at].id # before[r].id,
         at \in Results => /\ items[at].answers = 0 => items'[at].id = items[at].id
                           /\ items[at].answers # 0 => items'[at].id = items[items[at].answers].id,
         reserved \subseteq reserved',
         \E pos : Tracks(pos)'
  PROVE  MatchInv'
<1>0. Len(items) \in Nat /\ DOMAIN items = 1..Len(items) /\ DOMAIN before = 1..Len(items) /\ at \in Nat
  BY DEF TypeOK, MatchBody
<1>1. /\ Paired(before) /\ at' = at + 1 /\ before' = before
      /\ \A i \in DOMAIN items : items[i].kind = before[i].kind /\ items[i].answers = before[i].answers
      /\ \A i \in DOMAIN items : i >= at => items[i].id = before[i].id
  BY DEF MatchBody
<1>2. Calls' = Calls /\ Results' = Results /\ Calls \subseteq DOMAIN items /\ Results \subseteq DOMAIN items
  BY DEF Calls, Results
<1>3. \A i \in DOMAIN items : i \in Nat /\ (i < at + 1 <=> i < at \/ i = at) /\ (i >= at + 1 => i >= at /\ i # at)
  BY <1>0
<1>4. \A r \in Results : items[r].answers # 0 =>
        items[r].answers \in DOMAIN items /\ items[r].answers < r
  <2> SUFFICES ASSUME NEW r \in Results, items[r].answers # 0
               PROVE  items[r].answers \in DOMAIN items /\ items[r].answers < r
    OBVIOUS
  <2>1. r \in DOMAIN before /\ before[r].kind = "result" /\ before[r].answers = items[r].answers
    BY <1>0, <1>1, <1>2 DEF Results
  <2>2. items[r].answers \in 1..(r - 1)
    BY <1>1, <2>1, AnswersEarlier DEF Open
  <2> QED BY <1>0, <1>2, <2>2
<1>5. \A i \in DOMAIN items : items'[i].kind = before[i].kind /\ items'[i].answers = before[i].answers
  BY <1>1
<1>6. \A i \in DOMAIN items : i >= at + 1 => items'[i].id = before[i].id
  BY <1>1, <1>3
<1>7. \A i \in Calls : i < at + 1 /\ items'[i].id # before[i].id =>
        \A r \in Results : items'[i].id # before[r].id
  <2> SUFFICES ASSUME NEW i \in Calls, i < at + 1, items'[i].id # before[i].id
               PROVE  \A r \in Results : items'[i].id # before[r].id
    OBVIOUS
  <2>1. CASE i = at
    BY <1>0, <1>1, <2>1
  <2>2. CASE i # at
    BY <1>2, <1>3, <2>2 DEF MatchBody
  <2> QED BY <2>1, <2>2
<1>8. \A r \in Results : before[r].id \in reserved'
  BY DEF MatchBody
<1>9. \A r \in Results : r < at + 1 =>
        /\ items'[r].answers = 0 => items'[r].id = before[r].id
        /\ items'[r].answers # 0 => items'[r].id = items'[items'[r].answers].id
  <2> SUFFICES ASSUME NEW r \in Results, r < at + 1
               PROVE  /\ items'[r].answers = 0 => items'[r].id = before[r].id
                      /\ items'[r].answers # 0 => items'[r].id = items'[items'[r].answers].id
    OBVIOUS
  <2>0. items'[r].answers = items[r].answers
    BY <1>2
  <2>1. items[r].answers # 0 => items'[items[r].answers] = items[items[r].answers]
    <3> SUFFICES ASSUME items[r].answers # 0 PROVE items'[items[r].answers] = items[items[r].answers]
      OBVIOUS
    <3>1. items[r].answers \in DOMAIN items /\ items[r].answers < r
      BY <1>4
    <3>2. items[r].answers # at
      BY <1>0, <1>2, <1>3, <3>1
    <3> QED BY <3>1, <3>2
  <2>2. CASE r = at
    BY <1>0, <1>1, <2>0, <2>1, <2>2
  <2>3. CASE r # at
    <3>1. r < at /\ items'[r] = items[r]
      BY <1>2, <1>3, <2>3
    <3>2. /\ items[r].answers = 0 => items[r].id = before[r].id
          /\ items[r].answers # 0 => items[r].id = items[items[r].answers].id
      BY <3>1 DEF MatchBody
    <3> QED BY <2>0, <2>1, <3>1, <3>2
  <2> QED BY <2>2, <2>3
<1>10. MatchBody'
  BY <1>1, <1>2, <1>5, <1>6, <1>7, <1>8, <1>9 DEF MatchBody
<1>11. Renaming'
  BY <1>0 DEF Renaming
<1> QED BY <1>10, <1>11 DEF MatchInv

\* The call a waiting entry stands for lies behind the transform.
LEMMA TrackedBehind ==
  ASSUME NEW pos, Tracks(pos), NEW w \in DOMAIN waiting
  PROVE  pos[w] \in 1..(at - 1)
BY DEF Tracks, Open

\* A call joins the waiting list.
LEMMA TrackCall ==
  ASSUME TypeOK, Renaming, MatchBody, at \in DOMAIN items, items[at].kind = "call",
         before' = before, at' = at + 1, NEW wire, items'[at].id = wire,
         \A i \in DOMAIN items \ {at} : items'[i] = items[i],
         waiting' = Append(waiting, [original |-> items[at].id, wire |-> wire]), wire \in Int
  PROVE  \E pos : Tracks(pos)'
<1>0. Len(items) \in Nat /\ DOMAIN items = 1..Len(items) /\ DOMAIN before = 1..Len(items) /\ at \in Nat
  BY DEF TypeOK, MatchBody
<1>1. PICK pos : Tracks(pos)
  BY DEF MatchBody
<1>2. items[at].id = before[at].id /\ before[at].kind = "call" /\ items[at].id \in Int
  BY <1>0, ItemType DEF MatchBody
<1>3. Open(before, at + 1) = Open(before, at) \cup {at}
  BY <1>0, <1>2, OpenNext DEF MatchBody
<1> DEFINE n == Len(waiting) + 1
           Pair == [original : Int, wire : Int]
           entry == [original |-> items[at].id, wire |-> wire]
<1>4. waiting \in Seq(Pair) /\ n \in Nat /\ DOMAIN waiting = 1..(n - 1) /\ n - 1 \in Nat
  BY DEF TypeOK
<1>5. DOMAIN waiting' = 1..n /\ waiting'[n] = entry /\ \A w \in 1..(n - 1) : waiting'[w] = waiting[w]
  <2>1. entry \in Pair /\ waiting' = Append(waiting, entry)
    BY <1>2
  <2> HIDE DEF entry, Pair
  <2> QED BY <1>4, <2>1
<1>6. entry.original = before[at].id /\ entry.wire = items'[at].id
  BY <1>2
<1> HIDE DEF n, Pair, entry
<1>7. PICK pos2 : pos2 = [w \in 1..n |-> IF w = n THEN at ELSE pos[w]]
  OBVIOUS
<1>8. pos2[n] = at /\ \A w \in 1..(n - 1) : w \in 1..n /\ w # n /\ pos2[w] = pos[w]
  BY <1>4, <1>7
<1>9. \A w \in 1..n : w = n \/ w \in 1..(n - 1)
  BY <1>4
<1>10. \A w \in 1..(n - 1) : pos[w] \in 1..(at - 1)
  BY <1>1, <1>4, TrackedBehind
<1>11. \A w \in 1..(n - 1) : items'[pos[w]] = items[pos[w]] /\ pos[w] < at
  BY <1>0, <1>10
<1>12. ASSUME NEW w \in 1..n
       PROVE  /\ pos2[w] \in Open(before, at + 1)
              /\ waiting'[w].original = before[pos2[w]].id
              /\ waiting'[w].wire = items'[pos2[w]].id
  <2>1. CASE w = n
    BY <1>3, <1>5, <1>6, <1>8, <2>1
  <2>2. CASE w \in 1..(n - 1)
    BY <1>1, <1>3, <1>4, <1>5, <1>8, <1>11, <2>2 DEF Tracks
  <2> QED BY <1>9, <2>1, <2>2
<1>13. ASSUME NEW v \in 1..n, NEW w \in 1..n, v < w PROVE pos2[v] < pos2[w]
  <2>1. v \in 1..(n - 1)
    BY <1>4, <1>9, <1>13
  <2>2. CASE w = n
    BY <1>8, <1>11, <2>1, <2>2
  <2>3. CASE w \in 1..(n - 1)
    BY <1>1, <1>4, <1>8, <1>13, <2>1, <2>3 DEF Tracks
  <2> QED BY <1>9, <2>2, <2>3
<1>14. ASSUME NEW c \in Open(before, at + 1) PROVE \E w \in 1..n : pos2[w] = c
  <2>1. CASE c = at
    BY <1>4, <1>8, <2>1
  <2>2. CASE c \in Open(before, at)
    BY <1>1, <1>4, <1>8, <2>2 DEF Tracks
  <2> QED BY <1>3, <2>1, <2>2
<1>15. Tracks(pos2)'
  BY <1>5, <1>12, <1>13, <1>14 DEF Tracks
<1> QED BY <1>15

\* What is left of a sequence without its w-th element.
LEMMA RemovedAt ==
  ASSUME NEW S, NEW s \in Seq(S), NEW w \in 1..Len(s)
  PROVE  /\ DOMAIN RemoveAt(s, w) = 1..(Len(s) - 1)
         /\ \A v \in 1..(Len(s) - 1) : RemoveAt(s, w)[v] = IF v < w THEN s[v] ELSE s[v + 1]
<1>0. Len(s) \in Nat
  OBVIOUS
<1>1. PICK l : l = SubSeq(s, 1, w - 1)
  OBVIOUS
<1>2. PICK r : r = SubSeq(s, w + 1, Len(s))
  OBVIOUS
<1>3. l \in Seq(S) /\ Len(l) = w - 1 /\ \A v \in 1..(w - 1) : l[v] = s[v]
  BY <1>0, <1>1
<1>4. r \in Seq(S) /\ Len(r) = Len(s) - w /\ \A v \in 1..(Len(s) - w) : r[v] = s[w + v]
  BY <1>0, <1>2
<1>5. /\ l \o r \in Seq(S) /\ Len(l \o r) = Len(s) - 1
      /\ \A v \in 1..(Len(s) - 1) : (l \o r)[v] = IF v <= w - 1 THEN l[v] ELSE r[v - (w - 1)]
  <2>1. w \in Nat /\ (w - 1) + (Len(s) - w) = Len(s) - 1
    BY <1>0
  <2>2. /\ l \o r \in Seq(S) /\ Len(l \o r) = Len(l) + Len(r)
        /\ \A v \in 1..(Len(l) + Len(r)) : (l \o r)[v] = IF v <= Len(l) THEN l[v] ELSE r[v - Len(l)]
    <3>1. l \in Seq(S) /\ r \in Seq(S)
      BY <1>3, <1>4
    <3> QED BY <3>1, ConcatProperties
  <2> QED BY <1>3, <1>4, <2>1, <2>2
<1>6. RemoveAt(s, w) = l \o r
  BY <1>1, <1>2 DEF RemoveAt
<1>7. ASSUME NEW v \in 1..(Len(s) - 1)
      PROVE  (l \o r)[v] = IF v < w THEN s[v] ELSE s[v + 1]
  <2>1. CASE v < w
    BY <1>0, <1>3, <1>5, <2>1
  <2>2. CASE ~(v < w)
    <3>1. v - (w - 1) \in 1..(Len(s) - w) /\ w + (v - (w - 1)) = v + 1 /\ ~(v <= w - 1)
      BY <1>0, <2>2
    <3> QED BY <1>4, <1>5, <2>2, <3>1
  <2> QED BY <2>1, <2>2
<1>8. PICK rest : rest = l \o r
  OBVIOUS
<1>9. DOMAIN rest = 1..(Len(s) - 1)
  BY <1>5, <1>8
<1> QED BY <1>6, <1>7, <1>8, <1>9

\* A result at the transform finds the call it answers first among those of its
\* id, and finds none only if it answers none.
LEMMA FirstIsAnswered ==
  ASSUME TypeOK, MatchBody, at \in DOMAIN items, items[at].kind = "result", NEW pos, Tracks(pos)
  PROVE  /\ Waiting(items[at].id) = {} => items[at].answers = 0
         /\ \A w : FirstWaiting(items[at].id, w) => items[at].answers = pos[w]
<1>0. Len(items) \in Nat /\ DOMAIN items = 1..Len(items) /\ DOMAIN before = 1..Len(items) /\ at \in Nat
  BY DEF TypeOK, MatchBody
<1>1. /\ before[at].kind = "result" /\ before[at].answers = items[at].answers
      /\ before[at].id = items[at].id /\ Paired(before) /\ at \in DOMAIN before
  BY <1>0 DEF MatchBody
<1>2. ASSUME items[at].answers # 0
      PROVE  \E v \in Waiting(items[at].id) : pos[v] = items[at].answers
  <2>1. items[at].answers \in Open(before, at) /\ before[items[at].answers].id = items[at].id
    BY <1>1, <1>2, AnswersEarlier
  <2>2. PICK v \in DOMAIN waiting : pos[v] = items[at].answers
    BY <2>1 DEF Tracks
  <2> QED BY <2>1, <2>2 DEF Tracks, Waiting
<1>3. ASSUME NEW w, FirstWaiting(items[at].id, w) PROVE items[at].answers = pos[w]
  <2>1. w \in DOMAIN waiting /\ waiting[w].original = items[at].id /\ \A v \in Waiting(items[at].id) : w <= v
    BY <1>3 DEF FirstWaiting, Waiting
  <2>2. pos[w] \in {c \in Open(before, at) : before[c].id = before[at].id}
    BY <1>1, <2>1 DEF Tracks
  <2>3. items[at].answers <= pos[w] /\ items[at].answers \in Open(before, at)
    BY <1>1, <2>2 DEF Paired
  <2>4. items[at].answers # 0 /\ items[at].answers \in Nat /\ pos[w] \in Nat
    BY <1>0, <2>2, <2>3 DEF Open
  <2>5. PICK v \in Waiting(items[at].id) : pos[v] = items[at].answers
    BY <1>2, <2>4
  <2>6. w <= v /\ v \in DOMAIN waiting /\ DOMAIN waiting = 1..Len(waiting) /\ Len(waiting) \in Nat
    BY <2>1, <2>5 DEF Waiting, TypeOK
  <2>7. w = v \/ w < v
    BY <2>1, <2>6
  <2>8. pos[w] <= pos[v]
    BY <2>1, <2>4, <2>5, <2>6, <2>7 DEF Tracks
  <2> QED BY <2>3, <2>4, <2>5, <2>8
<1> QED BY <1>2, <1>3

\* The call that is answered leaves the waiting list.
LEMMA TrackResult ==
  ASSUME TypeOK, MatchBody, at \in DOMAIN items, items[at].kind = "result",
         NEW pos, Tracks(pos), NEW w \in DOMAIN waiting, FirstWaiting(items[at].id, w),
         before' = before, at' = at + 1, waiting' = RemoveAt(waiting, w),
         \A i \in DOMAIN items \ {at} : items'[i] = items[i]
  PROVE  \E q : Tracks(q)'
<1>0. Len(items) \in Nat /\ DOMAIN items = 1..Len(items) /\ DOMAIN before = 1..Len(items) /\ at \in Nat
  BY DEF TypeOK, MatchBody
<1>1. before[at].kind = "result" /\ before[at].answers = pos[w]
  BY <1>0, FirstIsAnswered DEF MatchBody
<1>2. Open(before, at + 1) = Open(before, at) \ {pos[w]}
  BY <1>0, <1>1, OpenNext DEF MatchBody
<1> DEFINE n == Len(waiting) - 1
<1>3. w \in 1..(n + 1) /\ n \in Nat /\ DOMAIN waiting = 1..(n + 1)
  BY SMTT(30) DEF TypeOK
<1>4. /\ DOMAIN waiting' = 1..n
      /\ \A v \in 1..n : waiting'[v] = IF v < w THEN waiting[v] ELSE waiting[v + 1]
  <2>1. waiting \in Seq([original : Int, wire : Int]) /\ w \in 1..Len(waiting)
    BY SMTT(30) DEF TypeOK
  <2> QED BY <2>1, RemovedAt
<1> HIDE DEF n
<1>5. PICK from : from = [v \in 1..n |-> IF v < w THEN v ELSE v + 1]
  OBVIOUS
<1>6. \A v \in 1..n : from[v] \in 1..(n + 1) /\ from[v] # w /\ waiting'[v] = waiting[from[v]]
  BY <1>3, <1>4, <1>5
<1>7. \A u, v \in 1..n : u < v => from[u] < from[v]
  BY <1>3, <1>5
<1>8. \A x \in 1..(n + 1) : x # w => \E v \in 1..n : from[v] = x
  <2> SUFFICES ASSUME NEW x \in 1..(n + 1), x # w PROVE \E v \in 1..n : from[v] = x
    OBVIOUS
  <2>1. CASE x < w
    <3>1. x \in 1..n
      BY <1>3, <2>1
    <3> QED BY <1>5, <2>1, <3>1
  <2>2. CASE ~(x < w)
    <3>1. x - 1 \in 1..n /\ ~(x - 1 < w) /\ (x - 1) + 1 = x
      BY <1>3, <2>2
    <3> QED BY <1>5, <3>1
  <2> QED BY <2>1, <2>2
<1>9. PICK q : q = [v \in 1..n |-> pos[from[v]]]
  OBVIOUS
<1>10. \A x \in 1..(n + 1) : x # w => pos[x] # pos[w]
  <2> SUFFICES ASSUME NEW x \in 1..(n + 1), x # w PROVE pos[x] # pos[w]
    OBVIOUS
  <2>1. pos[x] \in Nat /\ pos[w] \in Nat
    BY <1>0, <1>3, TrackedBehind
  <2>2. x < w \/ w < x
    BY <1>3
  <2>3. pos[x] < pos[w] \/ pos[w] < pos[x]
    BY <1>3, <2>2 DEF Tracks
  <2> QED BY <2>1, <2>3
<1>11. \A x \in 1..(n + 1) : items'[pos[x]] = items[pos[x]]
  <2> SUFFICES ASSUME NEW x \in 1..(n + 1) PROVE items'[pos[x]] = items[pos[x]]
    OBVIOUS
  <2>1. pos[x] \in 1..(at - 1)
    BY <1>3, TrackedBehind
  <2> QED BY <1>0, <2>1
<1>12. ASSUME NEW v \in 1..n
       PROVE  /\ q[v] \in Open(before, at + 1)
              /\ waiting'[v].original = before[q[v]].id
              /\ waiting'[v].wire = items'[q[v]].id
  <2>1. q[v] = pos[from[v]] /\ from[v] \in DOMAIN waiting /\ from[v] # w /\ waiting'[v] = waiting[from[v]]
    BY <1>3, <1>6, <1>9
  <2> QED BY <1>2, <1>3, <1>10, <1>11, <2>1 DEF Tracks
<1>13. ASSUME NEW u \in 1..n, NEW v \in 1..n, u < v PROVE q[u] < q[v]
  BY <1>3, <1>6, <1>7, <1>9, <1>13 DEF Tracks
<1>14. ASSUME NEW c \in Open(before, at + 1) PROVE \E v \in 1..n : q[v] = c
  <2>1. PICK x \in DOMAIN waiting : pos[x] = c
    BY <1>2 DEF Tracks
  <2>2. x # w
    BY <1>2, <2>1
  <2>3. PICK v \in 1..n : from[v] = x
    BY <1>3, <1>8, <2>2
  <2> QED BY <1>9, <2>1, <2>3
<1>15. Tracks(q)'
  BY <1>4, <1>12, <1>13, <1>14 DEF Tracks
<1> QED BY <1>15

\* Every step preserves MatchInv.
LEMMA MatchNext ==
  ASSUME TypeOK, UniqueInv, MatchInv, [Next]_vars
  PROVE  MatchInv'
<1> USE DEF given, renaming
<1>0. Len(items) \in Nat /\ DOMAIN items = 1..Len(items) /\ at \in Nat
  BY DEF TypeOK
<1>d. MatchBody => /\ Paired(before) /\ DOMAIN before = 1..Len(items)
                   /\ \A i \in DOMAIN items : /\ before[i].kind = items[i].kind
                                              /\ before[i].answers = items[i].answers
  BY DEF MatchBody, TypeOK
<1>1. CASE BeginIds
  <2>1. /\ at = 0 /\ at' = 1 /\ items' = items /\ before' = items /\ todo' = todo /\ waiting' = <<>>
        /\ reserved' = Mentioned /\ todo # <<>> /\ Head(todo) = "ids"
    BY <1>1 DEF BeginIds, Begin
  <2>2. Paired(items) /\ Renaming'
    BY <2>1 DEF MatchInv, Renaming
  <2>3. Calls' = Calls /\ Results' = Results /\ \A i \in DOMAIN items : ~(i < 1)
    BY <1>0, <2>1 DEF Calls, Results
  <2>4. \A r \in Results : items[r].id \in Mentioned
    BY DEF Results, Mentioned
  <2>5. Tracks(<<>>)'
    <3>1. Open(items, 1) = {}
      BY DEF Open
    <3>2. DOMAIN <<>> = {}
      OBVIOUS
    <3> QED BY <2>1, <3>1, <3>2 DEF Tracks
  <2>6. MatchBody'
    BY <2>1, <2>2, <2>3, <2>4, <2>5 DEF MatchBody, Calls, Results
  <2> QED BY <2>2, <2>6 DEF MatchInv
<1>2. CASE NextMessage
  <2>1. /\ Renaming /\ MatchBody /\ at \in DOMAIN items /\ items[at].kind \notin {"call", "result"}
        /\ waiting' = <<>> /\ at' = at + 1 /\ items' = items /\ before' = before /\ todo' = todo
        /\ reserved' = reserved
    BY <1>0, <1>2 DEF NextMessage, At, Renaming, MatchInv
  <2>2. Open(before, at + 1) = {}
    <3>1. before[at].kind \notin {"call", "result"} /\ at \in 1..Len(items)
      BY <1>0, <1>d, <2>1
    <3> QED BY <1>0, <1>d, <2>1, <3>1, OpenNext
  <2>3. Tracks(<<>>)'
    <3>1. DOMAIN <<>> = {}
      OBVIOUS
    <3> QED BY <2>1, <2>2, <3>1 DEF Tracks
  <2>4. at \notin Calls /\ at \notin Results
    BY <2>1 DEF Calls, Results
  <2> QED BY <2>1, <2>3, <2>4, MatchStep
<1>3. CASE KeepCall
  <2>1. /\ Renaming /\ MatchBody /\ at \in DOMAIN items /\ items[at].kind = "call"
        /\ waiting' = Append(waiting, [original |-> items[at].id, wire |-> items[at].id])
        /\ at' = at + 1 /\ items' = items /\ before' = before /\ todo' = todo
        /\ reserved' = reserved
    BY <1>0, <1>3 DEF KeepCall, At, Renaming, MatchInv
  <2>2. items[at].id \in Int
    BY <2>1, ItemType
  <2>3. \E pos : Tracks(pos)'
    BY <2>1, <2>2, TrackCall
  <2>4. at \notin Results
    BY <2>1 DEF Results
  <2> QED BY <2>1, <2>3, <2>4, MatchStep
<1>4. CASE RenameCall
  <2>1. /\ Renaming /\ MatchBody /\ at \in DOMAIN items /\ items[at].kind = "call"
        /\ at' = at + 1 /\ before' = before /\ todo' = todo
    BY <1>0, <1>4 DEF RenameCall, At, Renaming, MatchInv
  <2>2. PICK wire \in suffix..MaxSuffix :
          /\ wire \notin reserved
          /\ items' = [items EXCEPT ![at].id = wire]
          /\ reserved' = reserved \cup {wire}
          /\ waiting' = Append(waiting, [original |-> items[at].id, wire |-> wire])
    BY <1>4 DEF RenameCall
  <2>3. wire \in Int
    BY <2>2, PipelineAssumption DEF TypeOK
  <2>4. /\ Len(items') = Len(items) /\ DOMAIN items' = DOMAIN items
        /\ items'[at].id = wire /\ items'[at].kind = items[at].kind
        /\ items'[at].answers = items[at].answers
        /\ \A i \in DOMAIN items \ {at} : items'[i] = items[i]
    BY <2>1, <2>2, <2>3, RenameView
  <2>5. \E pos : Tracks(pos)'
    BY <2>1, <2>2, <2>3, <2>4, TrackCall
  <2>6. at \notin Results /\ \A r \in Results : wire # before[r].id
    BY <2>1, <2>2 DEF Results, MatchBody
  <2>7. reserved \subseteq reserved'
    BY <2>2
  <2> QED BY <2>1, <2>4, <2>5, <2>6, <2>7, MatchStep
<1>5. CASE MatchResult
  <2>1. /\ Renaming /\ MatchBody /\ at \in DOMAIN items /\ items[at].kind = "result"
        /\ at' = at + 1 /\ before' = before /\ todo' = todo /\ reserved' = reserved
    BY <1>0, <1>5 DEF MatchResult, At, Renaming, MatchInv
  <2>2. PICK pos : Tracks(pos)
    BY <2>1 DEF MatchBody
  <2>3. at \notin Calls
    BY <2>1 DEF Calls
  <2>4. CASE Waiting(items[at].id) = {} /\ UNCHANGED <<items, waiting>>
    <3>1. items[at].answers = 0
      BY <2>1, <2>2, <2>4, FirstIsAnswered
    <3>2. before[at].kind = "result" /\ before[at].answers = 0
      BY <2>1, <3>1 DEF MatchBody
    <3>3. Open(before, at + 1) = Open(before, at)
      <4>1. Open(before, at + 1) = Open(before, at) \ {0}
        BY <1>0, <1>d, <2>1, <3>2, OpenNext
      <4>2. 0 \notin Open(before, at)
        BY <1>0 DEF Open
      <4> QED BY <4>1, <4>2
    <3>4. Tracks(pos)'
      BY <2>1, <2>2, <2>4, <3>3 DEF Tracks
    <3> QED BY <2>1, <2>3, <2>4, <3>1, <3>4, MatchStep
  <2>5. ASSUME NEW w \in DOMAIN waiting, FirstWaiting(items[at].id, w),
               items' = [items EXCEPT ![at].id = waiting[w].wire],
               waiting' = RemoveAt(waiting, w)
        PROVE  MatchInv'
    <3>1. waiting[w].wire \in Int
      BY WaitingType
    <3>2. /\ Len(items') = Len(items) /\ DOMAIN items' = DOMAIN items
          /\ items'[at].id = waiting[w].wire /\ items'[at].kind = items[at].kind
          /\ items'[at].answers = items[at].answers
          /\ \A i \in DOMAIN items \ {at} : items'[i] = items[i]
      BY <2>1, <2>5, <3>1, RenameView
    <3>3. items[at].answers = pos[w]
      BY <2>1, <2>2, <2>5, FirstIsAnswered
    <3>4. items'[at].id = items[pos[w]].id /\ pos[w] # 0
      <4>1. waiting[w].wire = items[pos[w]].id /\ pos[w] \in 1..(at - 1)
        BY <2>2, TrackedBehind DEF Tracks
      <4> QED BY <1>0, <3>2, <4>1
    <3>5. \E q : Tracks(q)'
      BY <2>1, <2>2, <2>5, <3>2, TrackResult
    <3> QED BY <2>1, <2>3, <3>2, <3>3, <3>4, <3>5, MatchStep
  <2> QED BY <1>5, <2>4, <2>5 DEF MatchResult
<1>6. CASE EndIds
  <2>1. Renaming /\ at = Len(items) + 1 /\ items' = items /\ at' = 0
    BY <1>0, <1>6 DEF EndIds, EndTransform, Renaming
  <2>2. Paired(items)
    BY <2>1, MatchEnd DEF MatchInv
  <2> QED BY <2>1, <2>2 DEF MatchInv, Renaming
<1>7. ASSUME ~Renaming, ~Renaming', DOMAIN items' = DOMAIN items,
             \A i \in DOMAIN items : /\ items'[i].kind = items[i].kind
                                     /\ items'[i].answers = items[i].answers
                                     /\ items'[i].id = items[i].id
      PROVE  MatchInv'
  <2>1. Paired(items)
    BY <1>7 DEF MatchInv
  <2>2. Paired(items')
    BY <1>0, <1>7, <2>1, PairedAlike
  <2> QED BY <1>7, <2>2 DEF MatchInv
<1>8. CASE Cap \/ NothingToTrim
  <2>1. at = 0 /\ at' = 0
    BY <1>8 DEF Cap, NothingToTrim, Begin, EndTransform
  <2>2. /\ DOMAIN items' = DOMAIN items
        /\ \A i \in DOMAIN items : /\ items'[i].kind = items[i].kind
                                   /\ items'[i].answers = items[i].answers
                                   /\ items'[i].id = items[i].id
    BY <1>8, CapView DEF NothingToTrim
  <2> QED BY <1>7, <2>1, <2>2 DEF Renaming
<1>9. CASE BeginTrim \/ Trim \/ TrimNothing \/ EndTrim
  <2>1. Head(todo) = "trim" /\ (at' = 0 \/ todo' = todo)
    BY <1>9 DEF BeginTrim, Trim, TrimNothing, EndTrim, Begin, At, EndTransform
  <2>2. /\ DOMAIN items' = DOMAIN items
        /\ \A i \in DOMAIN items : /\ items'[i].kind = items[i].kind
                                   /\ items'[i].answers = items[i].answers
                                   /\ items'[i].id = items[i].id
    BY <1>9, TrimView DEF BeginTrim, TrimNothing, EndTrim
  <2> QED BY <1>7, <2>1, <2>2 DEF Renaming
<1>10. CASE UNCHANGED vars
  BY <1>10 DEF vars, MatchInv, MatchBody, Renaming, Tracks, Calls, Results
<1> QED
  BY <1>1, <1>2, <1>3, <1>4, <1>5, <1>6, <1>8, <1>9, <1>10 DEF Next, Sent

-----------------------------------------------------------------------------
(* Theorems.                                                                 *)

\* run.rs, history.rs, tool_result_budget.rs, budget.rs: every variable keeps
\* its type; no transform adds or removes an item.
THEOREM TypeCorrect == Spec => []TypeOK
BY TypeInit, TypeNext, PTL DEF Spec

\* normalize_tool_call_ids: whatever ids the transcript has and whichever
\* transforms run after it, no two calls of a request have one id.
THEOREM CallsAreApart == Spec => []UniqueIds
<1>1. UniqueInv => UniqueIds
  BY DEF UniqueInv
<1> QED BY <1>1, TypeCorrect, UniqueInit, UniqueNext, PTL DEF Spec

\* TokenBudget: a result loses its content only while the view is too big,
\* oldest first, and when the view is still too big at the end, none is left
\* that may lose it.
THEOREM TheBudgetTakesNoMore == Spec => []TrimmedAsNeeded
<1>1. TrimInv => TrimmedAsNeeded
  BY DEF TrimInv
<1> QED BY <1>1, TypeCorrect, TrimInit, TrimNext, PTL DEF Spec

\* normalize_tool_call_ids: every result has the id of the call it answers, and
\* none is taken for another's, however often one id was used, whichever
\* transforms run, and even if the transform is registered twice.
THEOREM ResultsKeepTheirCalls == Spec => []ResultsMatch
<1>1. TypeOK /\ MatchInv => ResultsMatch
  <2> SUFFICES ASSUME TypeOK, MatchInv, IdsDone PROVE Paired(items)
    BY DEF ResultsMatch
  <2>1. ~Renaming
    BY TodoTail DEF IdsDone, Renaming
  <2> QED BY <2>1 DEF MatchInv
<1>2. TypeOK /\ UniqueInv /\ MatchInv /\ [Next]_vars => UniqueInv' /\ MatchInv'
  BY UniqueNext, MatchNext
<1>3. Init => UniqueInv /\ MatchInv
  BY UniqueInit, MatchInit
<1>4. Spec => []TypeOK
  BY TypeCorrect
<1> QED BY <1>1, <1>2, <1>3, <1>4, PTL DEF Spec
=============================================================================
