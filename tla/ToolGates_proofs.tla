-------------------------- MODULE ToolGates_proofs --------------------------
(***************************************************************************)
(* What is settled about a call before it runs.  Proofs about ToolGates,   *)
(* for every registry, any number of gates of any class and priority, and  *)
(* any number of turns and requests.                                       *)
(***************************************************************************)
EXTENDS ToolGates, FiniteSetTheorems, WellFoundedInduction, TLAPS

(* Composition. *)

\* Some element of a set has the least rank.
LEMMA LeastExists ==
  ASSUME NEW S, NEW T, T \subseteq S, T # {}, NEW rank \in [S -> Nat]
  PROVE  Least(T, rank) # {} /\ Least(T, rank) \subseteq T
<1> DEFINE ranks == {rank[g] : g \in T}
<1>1. ranks \subseteq Nat /\ ranks # {}
  OBVIOUS
<1>2. PICK n \in ranks : \A m \in ranks : ~(<<m, n>> \in OpToRel(<, Nat))
  BY <1>1, NatLessThanWellFounded, WFMin
<1>3. PICK g \in T : rank[g] = n
  BY <1>2
<1>4. \A h \in T : rank[h] \in Nat /\ rank[h] \in ranks
  OBVIOUS
<1>5. \A m \in ranks : ~(m < n)
  BY <1>1, <1>2 DEF OpToRel
<1>6. n \in Nat
  BY <1>1
<1>7. \A h \in T : rank[g] <= rank[h]
  <2> HIDE DEF ranks
  <2> QED BY <1>3, <1>4, <1>5, <1>6
<1> QED
  BY <1>3, <1>7 DEF Least

\* The answers of some of the gates, one for each gate polled.
Answered(gates, given) ==
  /\ gates \in Seq(Gate)
  /\ given \in Seq(Answer)
  /\ Len(given) <= Len(gates)

\* What a gate allows is a finite set of names.
LEMMA ListsAreFinite ==
  ASSUME NEW answer \in Answer
  PROVE  ListOf(answer) \subseteq Names /\ Cardinality(ListOf(answer)) \in Nat
<1>1. ListOf(answer) \subseteq Names
  BY DEF ListOf, Answer, Optional
<1> QED
  BY <1>1, GateAssumption, FS_Subset, FS_CardinalityType

\* The gate that is followed alone is the first by name of the strongest candidates
\* with the shortest list.
LEMMA OwnerIsNamed ==
  ASSUME NEW gates, NEW given, Answered(gates, given), Candidates(gates, given) # {}
  PROVE  LET S == Candidates(gates, given)
             strongest == Least(S, [g \in S |-> Strongest - gates[g].priority])
             narrowest == Least(strongest, [g \in S |-> Cardinality(ListOf(given[g]))])
         IN  /\ Owner(gates, given) \in Least(narrowest, [g \in S |-> gates[g].name])
             /\ narrowest \subseteq strongest
             /\ strongest \subseteq S
<1> DEFINE S == Candidates(gates, given)
           strength == [g \in S |-> Strongest - gates[g].priority]
           size == [g \in S |-> Cardinality(ListOf(given[g]))]
           name == [g \in S |-> gates[g].name]
           age == [g \in S |-> Len(given) - g]
           strongest == Least(S, strength)
           narrowest == Least(strongest, size)
           named == Least(narrowest, name)
           latest == Least(named, age)
<1>1. \A g \in S : /\ g \in 1..Len(given)
                   /\ given[g] \in Answer
                   /\ gates[g] \in Gate
  BY DEF Candidates, Active, Decided, Answered
<1>2. \A g \in S : gates[g].priority \in -Strongest..Strongest /\ gates[g].name \in Nat
  BY <1>1 DEF Gate
<1>3. strength \in [S -> Nat]
  BY <1>2, GateAssumption
<1>4. size \in [S -> Nat]
  BY <1>1, ListsAreFinite
<1>5. name \in [S -> Nat]
  BY <1>2
<1>6. age \in [S -> Nat]
  <2>1. Len(given) \in Nat
    BY DEF Answered
  <2> QED BY <1>1, <2>1
<1>7. strongest # {} /\ strongest \subseteq S
  <2>1. S \subseteq S /\ S # {}
    OBVIOUS
  <2> HIDE DEF S, strength
  <2> QED BY <1>3, <2>1, LeastExists
<1>8. narrowest # {} /\ narrowest \subseteq strongest
  <2> HIDE DEF S, strongest, size
  <2> QED BY <1>4, <1>7, LeastExists
<1>9. named # {} /\ named \subseteq narrowest
  <2> HIDE DEF S, narrowest, name
  <2>1. narrowest \subseteq S
    BY <1>7, <1>8
  <2> QED BY <1>5, <1>8, <2>1, LeastExists
<1>10. latest # {} /\ latest \subseteq named
  <2> HIDE DEF S, named, age
  <2>1. named \subseteq S
    BY <1>7, <1>8, <1>9
  <2> QED BY <1>6, <1>9, <2>1, LeastExists
<1>11. Owner(gates, given) = CHOOSE g \in latest : TRUE
  BY DEF Owner
<1>12. Owner(gates, given) \in latest
  <2> HIDE DEF latest
  <2> QED BY <1>10, <1>11
<1>13. Owner(gates, given) \in named
  BY <1>10, <1>12
<1> QED BY <1>7, <1>8, <1>13

\* That gate is a candidate, and none is stronger.
LEMMA OwnerIsStrongest ==
  ASSUME NEW gates, NEW given, Answered(gates, given), Candidates(gates, given) # {}
  PROVE  /\ Owner(gates, given) \in Candidates(gates, given)
         /\ \A h \in Candidates(gates, given) :
              gates[h].priority <= gates[Owner(gates, given)].priority
<1>1. PICK S : S = Candidates(gates, given)
  OBVIOUS
<1>2. PICK strength : strength = [g \in S |-> Strongest - gates[g].priority]
  OBVIOUS
<1>3. Owner(gates, given) \in Least(S, strength)
  BY <1>1, <1>2, OwnerIsNamed DEF Least
<1>4. /\ Owner(gates, given) \in S
      /\ \A h \in S : strength[Owner(gates, given)] <= strength[h]
  BY <1>3 DEF Least
<1>5. \A g \in S : gates[g].priority \in -Strongest..Strongest
  <2>1. \A g \in S : gates[g] \in Gate
    BY <1>1 DEF Candidates, Active, Decided, Answered
  <2> QED BY <2>1 DEF Gate
<1> QED BY <1>1, <1>2, <1>4, <1>5, GateAssumption

\* A composed list is a set of names, and never an empty one.
LEMMA ComposedList ==
  ASSUME NEW gates, NEW given, Answered(gates, given)
  PROVE  /\ Compose(gates, given) \in Optional
         /\ {} \notin Compose(gates, given)
<1>1. Common(gates, given) \subseteq Names
  BY DEF Common
<1>2. CASE Active(gates, given) = {} \/ Common(gates, given) # {} \/ Candidates(gates, given) = {}
  BY <1>1, <1>2 DEF Compose, Optional
<1>3. CASE /\ Active(gates, given) # {} /\ Common(gates, given) = {}
           /\ Candidates(gates, given) # {}
  <2> DEFINE owner == Owner(gates, given)
  <2>1. owner \in Candidates(gates, given)
    BY <1>3, OwnerIsStrongest
  <2>2. ListOf(given[owner]) # {} /\ given[owner] \in Answer
    BY <2>1 DEF Candidates, Active, Decided, Answered
  <2>3. ListOf(given[owner]) \subseteq Names
    BY <2>2, ListsAreFinite
  <2>4. Compose(gates, given) = {ListOf(given[owner])}
    BY <1>3 DEF Compose
  <2> HIDE DEF owner
  <2> QED BY <2>2, <2>3, <2>4 DEF Optional
<1> QED
  BY <1>2, <1>3

\* Why a gate may be overruled, of any composition.
LEMMA ComposedByPriority ==
  ASSUME NEW gates, NEW given, Answered(gates, given), NEW tools,
         NEW g \in Decided(given),
         ~(Admitted(tools, Compose(gates, given)) \subseteq ListOf(given[g]))
  PROVE  \/ /\ gates[g].advisory
            /\ \E h \in Decided(given) :
                 given[h].suppresses /\ gates[h].priority > gates[g].priority
         \/ /\ Conflicting(gates, given)
            /\ \/ ListOf(given[g]) = {}
               \/ \E h \in Decided(given) :
                    /\ Admitted(tools, Compose(gates, given)) \subseteq ListOf(given[h])
                    /\ gates[h].priority >= gates[g].priority
<1> DEFINE admitted == Admitted(tools, Compose(gates, given))
<1>1. \A h \in Decided(given) : gates[h].priority \in Int
  <2> SUFFICES ASSUME NEW h \in Decided(given) PROVE gates[h].priority \in Int
    OBVIOUS
  <2>1. gates[h] \in Gate
    BY DEF Decided, Answered
  <2>2. gates[h].priority \in -Strongest..Strongest
    BY <2>1 DEF Gate
  <2> QED BY <2>2, GateAssumption
<1>2. CASE g \notin Active(gates, given)
  <2>1. PICK h \in Decided(given) : given[h].suppresses /\ gates[g].priority < gates[h].priority
    BY <1>2 DEF Active
  <2>2. gates[g].advisory
    BY <1>2 DEF Active
  <2>3. gates[h].priority > gates[g].priority
    BY <1>1, <2>1
  <2> QED BY <2>1, <2>2, <2>3
<1>3. CASE g \in Active(gates, given)
  <2>1. ASSUME Common(gates, given) # {} PROVE FALSE
    <3>1. Compose(gates, given) = {Common(gates, given)}
      BY <1>3, <2>1 DEF Compose
    <3>2. Common(gates, given) \subseteq ListOf(given[g])
      BY <1>3 DEF Common
    <3> QED BY <3>1, <3>2 DEF Admitted
  <2>2. Conflicting(gates, given)
    BY <1>3, <2>1 DEF Conflicting
  <2>3. ASSUME ListOf(given[g]) # {}
        PROVE  \E h \in Decided(given) : /\ admitted \subseteq ListOf(given[h])
                                         /\ gates[h].priority >= gates[g].priority
    <3> DEFINE owner == Owner(gates, given)
    <3>1. g \in Candidates(gates, given)
      BY <1>3, <2>3 DEF Candidates
    <3>2. owner \in Candidates(gates, given) /\ gates[g].priority <= gates[owner].priority
      BY <3>1, OwnerIsStrongest
    <3>3. owner \in Decided(given)
      BY <3>2 DEF Candidates, Active
    <3>4. Compose(gates, given) = {ListOf(given[owner])}
      BY <1>3, <2>1, <3>1 DEF Compose
    <3>5. admitted \subseteq ListOf(given[owner])
      BY <3>4 DEF Admitted
    <3>6. gates[owner].priority >= gates[g].priority
      BY <1>1, <3>2, <3>3
    <3> HIDE DEF owner, admitted
    <3> QED BY <3>3, <3>5, <3>6
  <2> QED BY <2>2, <2>3
<1> QED
  BY <1>2, <1>3

\* A list that is followed names something some gate allows.
LEMMA ComposedFromGates ==
  ASSUME NEW gates, NEW given, Answered(gates, given),
         NEW list \in Compose(gates, given), NEW t \in list
  PROVE  \E g \in Decided(given) : t \in ListOf(given[g])
<1>1. CASE list = Common(gates, given)
  <2>1. Active(gates, given) # {}
    BY DEF Compose
  <2> QED BY <1>1, <2>1 DEF Common, Active
<1>2. CASE list # Common(gates, given)
  <2>1. Candidates(gates, given) # {} /\ list = ListOf(given[Owner(gates, given)])
    BY <1>2 DEF Compose
  <2>2. Owner(gates, given) \in Candidates(gates, given)
    BY <2>1, OwnerIsStrongest
  <2> QED BY <2>1, <2>2 DEF Candidates, Active
<1> QED
  BY <1>1, <1>2
-----------------------------------------------------------------------------
(* Registration order. *)

\* Another order of the same places: no two places share one, none is left out.
Reordering(o, places) ==
  /\ o \in [places -> places]
  /\ \A g, h \in places : g # h => o[g] # o[h]

\* A reordering leaves out no position.
LEMMA ReorderingIsOnto ==
  ASSUME NEW n \in Nat, NEW o, Reordering(o, 1..n)
  PROVE  \A h \in 1..n : \E g \in 1..n : o[g] = h
<1>1. IsFiniteSet(1..n)
  BY FS_Interval
<1>2. o \in Injection(1..n, 1..n)
  BY DEF Reordering, Injection, IsInjective
<1>3. o \in Surjection(1..n, 1..n)
  BY <1>1, <1>2, FS_Injection
<1> QED BY <1>3 DEF Surjection

\* S are the new places of T, and other ranks them as rank does the old ones.
Carries(places, o, T, rank, S, other) ==
  /\ T \subseteq places
  /\ \A h \in places : \E g \in places : o[g] = h
  /\ S = {g \in places : o[g] \in T}
  /\ \A g \in S : other[g] = rank[o[g]]

\* What is least among the old places is least at the new ones.
LEMMA LeastReordered ==
  ASSUME NEW places, NEW o, NEW T, NEW rank, NEW S, NEW other,
         Carries(places, o, T, rank, S, other)
  PROVE  Least(S, other) = {g \in places : o[g] \in Least(T, rank)}
<1> USE DEF Carries
<1>1. ASSUME NEW g \in Least(S, other) PROVE o[g] \in Least(T, rank)
  <2>1. g \in S /\ o[g] \in T /\ \A h \in S : other[g] <= other[h]
    BY <1>1 DEF Least
  <2>2. ASSUME NEW k \in T PROVE rank[o[g]] <= rank[k]
    <3>1. PICK h \in places : o[h] = k
      OBVIOUS
    <3>2. h \in S /\ other[h] = rank[k]
      BY <3>1
    <3> QED BY <2>1, <3>2
  <2> QED BY <2>1, <2>2 DEF Least
<1>2. ASSUME NEW g \in places, o[g] \in Least(T, rank) PROVE g \in Least(S, other)
  <2>1. g \in S /\ \A k \in T : rank[o[g]] <= rank[k]
    BY <1>2 DEF Least
  <2>2. ASSUME NEW h \in S PROVE other[g] <= other[h]
    BY <2>1
  <2> QED BY <2>1, <2>2 DEF Least
<1>3. Least(S, other) \subseteq places
  BY DEF Least
<1> QED BY <1>1, <1>2, <1>3

\* Gates of different names compose to the same list in any order.
LEMMA ComposedInAnyOrder ==
  ASSUME NEW gates \in Seq(Gate), NEW given \in Seq(Answer), Len(given) = Len(gates),
         \A g, h \in DOMAIN gates : g # h => gates[g].name # gates[h].name,
         NEW o, Reordering(o, DOMAIN gates)
  PROVE  Compose([g \in DOMAIN gates |-> gates[o[g]]], [g \in DOMAIN gates |-> given[o[g]]])
           = Compose(gates, given)
<1> DEFINE n == Len(gates)
           places == 1..n
<1>0. n \in Nat /\ DOMAIN gates = places /\ DOMAIN given = places
  OBVIOUS
<1>o. Reordering(o, places) /\ \A h \in places : \E g \in places : o[g] = h
  BY <1>0, ReorderingIsOnto
<1>i. \A g \in places : o[g] \in places
  BY <1>o DEF Reordering
<1>1. PICK moved : moved = [g \in places |-> gates[o[g]]]
  OBVIOUS
<1>2. PICK told : told = [g \in places |-> given[o[g]]]
  OBVIOUS
<1>3. moved \in Seq(Gate) /\ told \in Seq(Answer) /\ Len(told) = n /\ Len(moved) = n
  <2>1. moved \in [1..n -> Gate] /\ told \in [1..n -> Answer]
    BY <1>0, <1>1, <1>2, <1>i
  <2> QED BY <1>0, <2>1
<1>4. \A g \in places : moved[g] = gates[o[g]] /\ told[g] = given[o[g]]
  BY <1>1, <1>2
<1>5. Answered(gates, given) /\ Answered(moved, told) /\ DOMAIN told = places
  BY <1>0, <1>2, <1>3 DEF Answered
<1> HIDE DEF places, n
<1>6. /\ Decided(told) = {g \in places : o[g] \in Decided(given)}
      /\ Decided(given) \subseteq places
  BY <1>0, <1>4, <1>5, <1>i DEF Decided
<1>7. ASSUME NEW g \in places, o[g] \in Decided(given)
      PROVE  (\E h \in Decided(told) : told[h].suppresses /\ moved[g].priority < moved[h].priority)
             <=> (\E k \in Decided(given) : given[k].suppresses /\ gates[o[g]].priority < gates[k].priority)
  <2>1. ASSUME NEW h \in Decided(told), told[h].suppresses, moved[g].priority < moved[h].priority
        PROVE  \E k \in Decided(given) : given[k].suppresses /\ gates[o[g]].priority < gates[k].priority
    BY <1>4, <1>6, <2>1
  <2>2. ASSUME NEW k \in Decided(given), given[k].suppresses, gates[o[g]].priority < gates[k].priority
        PROVE  \E h \in Decided(told) : told[h].suppresses /\ moved[g].priority < moved[h].priority
    <3>1. PICK h \in places : o[h] = k
      BY <1>o, <1>6
    <3> QED BY <1>4, <1>6, <2>2, <3>1
  <2> QED BY <2>1, <2>2
<1>8. /\ Active(moved, told) = {g \in places : o[g] \in Active(gates, given)}
      /\ Active(gates, given) \subseteq places
  BY <1>4, <1>6, <1>7 DEF Active
<1>9. (Active(moved, told) = {}) <=> (Active(gates, given) = {})
  BY <1>8, <1>o
<1>10. Common(moved, told) = Common(gates, given)
  <2>1. ASSUME NEW t \in Common(gates, given) PROVE t \in Common(moved, told)
    BY <1>4, <1>8 DEF Common
  <2>2. ASSUME NEW t \in Common(moved, told) PROVE t \in Common(gates, given)
    <3>1. ASSUME NEW k \in Active(gates, given) PROVE t \in ListOf(given[k])
      <4>1. PICK h \in places : o[h] = k
        BY <1>o, <1>8
      <4> QED BY <1>4, <1>8, <4>1 DEF Common
    <3> QED BY <3>1 DEF Common
  <2> QED BY <2>1, <2>2
<1>11. /\ Candidates(moved, told) = {g \in places : o[g] \in Candidates(gates, given)}
       /\ Candidates(gates, given) \subseteq places
  BY <1>4, <1>8 DEF Candidates
<1>12. (Candidates(moved, told) = {}) <=> (Candidates(gates, given) = {})
  BY <1>11, <1>o
<1>13. ASSUME Candidates(gates, given) # {}
       PROVE  given[Owner(gates, given)] = told[Owner(moved, told)]
  <2>1. PICK S : S = Candidates(gates, given)
    OBVIOUS
  <2>2. PICK R : R = Candidates(moved, told)
    OBVIOUS
  <2>3. R = {g \in places : o[g] \in S} /\ S \subseteq places /\ R \subseteq places
    BY <1>11, <2>1, <2>2
  <2>4. PICK strongest : strongest = Least(S, [g \in S |-> Strongest - gates[g].priority])
    OBVIOUS
  <2>5. PICK narrowest : narrowest = Least(strongest, [g \in S |-> Cardinality(ListOf(given[g]))])
    OBVIOUS
  <2>6. PICK named : named = Least(narrowest, [g \in S |-> gates[g].name])
    OBVIOUS
  <2>7. PICK strongest2 : strongest2 = Least(R, [g \in R |-> Strongest - moved[g].priority])
    OBVIOUS
  <2>8. PICK narrowest2 : narrowest2 = Least(strongest2, [g \in R |-> Cardinality(ListOf(told[g]))])
    OBVIOUS
  <2>9. PICK named2 : named2 = Least(narrowest2, [g \in R |-> moved[g].name])
    OBVIOUS
  <2>10. /\ named \subseteq narrowest /\ narrowest \subseteq strongest /\ strongest \subseteq S
         /\ named2 \subseteq narrowest2 /\ narrowest2 \subseteq strongest2 /\ strongest2 \subseteq R
    BY <2>4, <2>5, <2>6, <2>7, <2>8, <2>9 DEF Least
  <2>11. strongest2 = {g \in places : o[g] \in strongest}
    <3>1. PICK rank : rank = [h \in S |-> Strongest - gates[h].priority]
      OBVIOUS
    <3>2. PICK other : other = [h \in R |-> Strongest - moved[h].priority]
      OBVIOUS
    <3>3. \A g \in R : other[g] = rank[o[g]]
      BY <1>4, <2>3, <3>1, <3>2
    <3>4. strongest = Least(S, rank) /\ strongest2 = Least(R, other)
      BY <2>4, <2>7, <3>1, <3>2
    <3>5. Carries(places, o, S, rank, R, other)
      BY <1>o, <2>3, <3>3 DEF Carries
    <3> QED BY <3>4, <3>5, LeastReordered
  <2>12. narrowest2 = {g \in places : o[g] \in narrowest}
    <3>1. PICK rank : rank = [h \in S |-> Cardinality(ListOf(given[h]))]
      OBVIOUS
    <3>2. PICK other : other = [h \in R |-> Cardinality(ListOf(told[h]))]
      OBVIOUS
    <3>3. \A g \in strongest2 : other[g] = rank[o[g]]
      BY <1>4, <2>3, <2>10, <2>11, <3>1, <3>2
    <3>4. narrowest = Least(strongest, rank) /\ narrowest2 = Least(strongest2, other)
      BY <2>5, <2>8, <3>1, <3>2
    <3>5. strongest \subseteq places
      BY <2>3, <2>10
    <3>6. Carries(places, o, strongest, rank, strongest2, other)
      BY <1>o, <2>11, <3>3, <3>5 DEF Carries
    <3> QED BY <3>4, <3>6, LeastReordered
  <2>13. named2 = {g \in places : o[g] \in named}
    <3>1. PICK rank : rank = [h \in S |-> gates[h].name]
      OBVIOUS
    <3>2. PICK other : other = [h \in R |-> moved[h].name]
      OBVIOUS
    <3>3. \A g \in narrowest2 : other[g] = rank[o[g]]
      BY <1>4, <2>3, <2>10, <2>12, <3>1, <3>2
    <3>4. named = Least(narrowest, rank) /\ named2 = Least(narrowest2, other)
      BY <2>6, <2>9, <3>1, <3>2
    <3>5. narrowest \subseteq places
      BY <2>3, <2>10
    <3>6. Carries(places, o, narrowest, rank, narrowest2, other)
      BY <1>o, <2>12, <3>3, <3>5 DEF Carries
    <3> QED BY <3>4, <3>6, LeastReordered
  <2>14. \A g, h \in named : g = h
    <3> SUFFICES ASSUME NEW g \in named, NEW h \in named PROVE g = h
      OBVIOUS
    <3>1. g \in S /\ h \in S
      BY <2>10
    <3>2. \A k \in S : gates[k].name \in Nat
      <4> SUFFICES ASSUME NEW k \in S PROVE gates[k].name \in Nat
        OBVIOUS
      <4>1. gates[k] \in Gate
        BY <1>0, <2>3
      <4> QED BY <4>1 DEF Gate
    <3>3. gates[g].name <= gates[h].name /\ gates[h].name <= gates[g].name
      <4>1. g \in narrowest /\ h \in narrowest
        BY <2>10
      <4>2. \A k \in narrowest : /\ [j \in S |-> gates[j].name][g] <= [j \in S |-> gates[j].name][k]
                                 /\ [j \in S |-> gates[j].name][h] <= [j \in S |-> gates[j].name][k]
        BY <2>6 DEF Least
      <4> QED BY <3>1, <4>1, <4>2
    <3>4. gates[g].name = gates[h].name
      BY <3>1, <3>2, <3>3
    <3> QED BY <1>0, <2>3, <3>1, <3>4
  <2>15. Owner(gates, given) \in named
    BY <1>5, <1>13, <2>1, <2>4, <2>5, <2>6, OwnerIsNamed
  <2>16. Owner(moved, told) \in named2
    BY <1>5, <1>12, <1>13, <2>2, <2>7, <2>8, <2>9, OwnerIsNamed
  <2>17. Owner(moved, told) \in places /\ o[Owner(moved, told)] = Owner(gates, given)
    BY <2>13, <2>14, <2>15, <2>16
  <2> QED BY <1>4, <2>17
<1>14. Compose(moved, told) = Compose(gates, given)
  <2>1. CASE Active(gates, given) = {}
    BY <1>9, <2>1 DEF Compose
  <2>2. CASE Active(gates, given) # {} /\ Common(gates, given) # {}
    BY <1>9, <1>10, <2>2 DEF Compose
  <2>3. CASE Active(gates, given) # {} /\ Common(gates, given) = {} /\ Candidates(gates, given) = {}
    BY <1>9, <1>10, <1>12, <2>3 DEF Compose
  <2>4. CASE Active(gates, given) # {} /\ Common(gates, given) = {} /\ Candidates(gates, given) # {}
    BY <1>9, <1>10, <1>12, <1>13, <2>4 DEF Compose
  <2> QED BY <2>1, <2>2, <2>3, <2>4
<1> QED BY <1>0, <1>1, <1>2, <1>14
-----------------------------------------------------------------------------
(* Types. *)

\* Every initial state is well typed.
LEMMA TypeInit == Init => TypeOK
<1> SUFFICES ASSUME Init PROVE TypeOK
  OBVIOUS
<1>1. setup \in Setup
  BY GateAssumption DEF Init
<1>2. setup.past \in Nat /\ setup.gates \in Seq(Gate)
  BY <1>1 DEF Setup
<1>3. answers \in Seq(Answer) /\ Len(answers) <= Len(setup.gates)
  BY <1>2 DEF Init
<1>4. allow \in Optional /\ advertised \in SUBSET setup.tools
  BY DEF Init, Optional
<1>5. iteration \in 0..MaxTurns /\ assistants \in Nat
  BY <1>2, GateAssumption DEF Init
<1>6. call \in SUBSET Names /\ ran \in SUBSET Names /\ denial \in SUBSET Nat
  BY DEF Init
<1> QED
  BY <1>3, <1>4, <1>5, <1>6 DEF Init, TypeOK

\* Every step keeps the types.
LEMMA TypeNext == TypeOK /\ [Next]_vars => TypeOK'
<1> SUFFICES ASSUME TypeOK, [Next]_vars PROVE TypeOK'
  OBVIOUS
<1> USE DEF turn, request, batch
<1>t. /\ setup \in Setups /\ setup.tools \in SUBSET Names /\ setup.gates \in Seq(Gate)
      /\ Answered(setup.gates, answers)
  BY GateAssumption DEF TypeOK, Setup, Answered
<1>n. NoRequest => /\ answers' \in Seq(Answer) /\ Len(answers') <= Len(setup.gates)
                   /\ allow' \in Optional /\ advertised' \in SUBSET setup.tools
                   /\ conflict' \in BOOLEAN
  <2>1. <<>> \in Seq(Answer) /\ Len(<<>>) <= Len(setup.gates)
    BY <1>t
  <2>2. {} \in Optional
    BY DEF Optional
  <2> QED BY <2>1, <2>2 DEF NoRequest
<1>1. CASE PollGate
  <2>1. PICK answer \in Answers(setup.gates[Len(answers) + 1]) : answers' = Append(answers, answer)
    BY <1>1 DEF PollGate
  <2>2. setup.gates[Len(answers) + 1] \in Gate
    BY <1>1, <1>t DEF PollGate, TypeOK
  <2>3. answer \in Answer
    <3> DEFINE gate == setup.gates[Len(answers) + 1]
    <3>1. gate.list \cap setup.tools \in SUBSET Names
      BY <1>t
    <3>2. OpeningAnswer(gate) \in Answer
      BY <3>1 DEF OpeningAnswer, Answer, Optional
    <3> HIDE DEF gate
    <3> QED BY <3>2, <2>1 DEF Answers, gate
  <2>4. answers' \in Seq(Answer) /\ Len(answers') <= Len(setup.gates)
    BY <1>1, <1>t, <2>1, <2>3 DEF PollGate, TypeOK
  <2> QED BY <1>1, <2>4 DEF PollGate, TypeOK
<1>2. CASE Send
  <2>1. allow' \in Optional
    BY <1>2, <1>t, ComposedList DEF Send
  <2>2. advertised' \in SUBSET setup.tools
    BY <1>2 DEF Send, Admitted
  <2>3. conflict' \in BOOLEAN
    BY <1>2 DEF Send, Conflicting
  <2> QED BY <1>2, <2>1, <2>2, <2>3 DEF Send, TypeOK
<1>3. CASE TryAgain
  <2>1. assistants' \in Nat
    BY <1>3 DEF TryAgain, TypeOK
  <2> QED BY <1>3, <1>n, <2>1 DEF TryAgain, TypeOK
<1>4. CASE CallTool
  BY <1>4 DEF CallTool, TypeOK
<1>5. CASE EndRun
  BY <1>5 DEF EndRun, TypeOK
<1>6. CASE Judge
  BY <1>6 DEF Judge, ShownIteration, TypeOK
<1>7. CASE NextTurn
  <2>1. iteration' \in 0..MaxTurns
    BY <1>7, GateAssumption DEF NextTurn, TypeOK
  <2> QED BY <1>7, <1>n, <2>1 DEF NextTurn, TypeOK
<1>8. CASE UNCHANGED vars
  BY <1>8 DEF vars, TypeOK
<1> QED
  BY <1>1, <1>2, <1>3, <1>4, <1>5, <1>6, <1>7, <1>8 DEF Next, Ended

\* Every variable keeps its type.
THEOREM TypeCorrect == Spec => []TypeOK
  BY TypeInit, TypeNext, PTL DEF Spec
-----------------------------------------------------------------------------
(* Requests. *)

\* A request that was sent carries what its own gates were composed to, and
\* nothing runs before the answer to it.
SentInv ==
  /\ Sent => /\ Len(answers) = Len(setup.gates)
             /\ allow = Compose(setup.gates, answers)
             /\ advertised = Admitted(setup.tools, allow)
             /\ conflict = Conflicting(setup.gates, answers)
  /\ pc # "judged" /\ pc # "over" => ran = {}
  /\ ran \subseteq Admitted(setup.tools, allow)

\* No run begins with a request.
LEMMA SentInit == Init => SentInv
  BY DEF Init, SentInv, Sent

\* Every step keeps the request in place until its answer is dealt with.
LEMMA SentNext == SentInv /\ [Next]_vars => SentInv'
<1> SUFFICES ASSUME SentInv, [Next]_vars PROVE SentInv'
  OBVIOUS
<1> USE DEF SentInv, Sent, turn, request, batch
<1>1. CASE PollGate
  BY <1>1 DEF PollGate
<1>2. CASE Send
  BY <1>2 DEF Send, Polled
<1>3. CASE TryAgain
  BY <1>3 DEF TryAgain, NoRequest
<1>4. CASE CallTool
  BY <1>4 DEF CallTool
<1>5. CASE EndRun
  BY <1>5 DEF EndRun
<1>6. CASE Judge
  BY <1>6 DEF Judge
<1>7. CASE NextTurn
  BY <1>7 DEF NextTurn, NoRequest
<1>8. CASE UNCHANGED vars
  BY <1>8 DEF vars
<1> QED
  BY <1>1, <1>2, <1>3, <1>4, <1>5, <1>6, <1>7, <1>8 DEF Next, Ended

\* The request in place is the one that was composed.
LEMMA Requests == Spec => []SentInv
  BY SentInit, SentNext, PTL DEF Spec

\* No call runs that the answered request did not advertise.
THEOREM OnlyAdvertisedRuns == Spec => []RanWasAdvertised
<1>1. SentInv => RanWasAdvertised
  BY DEF SentInv, RanWasAdvertised
<1> QED
  BY <1>1, Requests, PTL

\* What was polled is well formed in every typed state.
LEMMA PolledAnswers == TypeOK => Answered(setup.gates, answers)
  BY GateAssumption DEF TypeOK, Setup, Answered

\* A gate is overruled by priority, and listeners are told.
THEOREM GatesYieldToPriority == Spec => []OverruledByPriority
<1>1. TypeOK /\ SentInv => OverruledByPriority
  <2> SUFFICES ASSUME TypeOK, SentInv, Sent, NEW g \in Decided(answers),
                      ~(advertised \subseteq ListOf(answers[g]))
               PROVE  \/ /\ setup.gates[g].advisory
                         /\ \E h \in Decided(answers) :
                              /\ answers[h].suppresses
                              /\ setup.gates[h].priority > setup.gates[g].priority
                      \/ /\ conflict
                         /\ \/ ListOf(answers[g]) = {}
                            \/ \E h \in Decided(answers) :
                                 /\ advertised \subseteq ListOf(answers[h])
                                 /\ setup.gates[h].priority >= setup.gates[g].priority
    BY DEF OverruledByPriority
  <2>1. Answered(setup.gates, answers)
    BY PolledAnswers
  <2>2. /\ advertised = Admitted(setup.tools, Compose(setup.gates, answers))
        /\ conflict = Conflicting(setup.gates, answers)
    BY DEF SentInv
  <2> QED BY <2>1, <2>2, ComposedByPriority
<1> QED
  BY <1>1, TypeCorrect, Requests, PTL

\* Gates that name registered tools never empty the catalog.
THEOREM TheCatalogIsKept == Spec => []CatalogIsKept
<1>1. TypeOK /\ SentInv => CatalogIsKept
  <2> SUFFICES ASSUME TypeOK, SentInv, Sent, advertised = {}, setup.tools # {}
               PROVE  \E g \in Decided(answers) : ~(ListOf(answers[g]) \subseteq setup.tools)
    BY DEF CatalogIsKept
  <2>1. Answered(setup.gates, answers)
    BY PolledAnswers
  <2>2. /\ allow = Compose(setup.gates, answers)
        /\ Admitted(setup.tools, allow) = {}
    BY DEF SentInv
  <2>3. PICK list \in allow : TRUE
    BY <2>2 DEF Admitted
  <2>4. allow = {list}
    BY <2>2, <2>3 DEF Compose
  <2>5. PICK t \in list : TRUE
    BY <2>1, <2>2, <2>3, ComposedList
  <2>6. t \notin setup.tools
    BY <2>2, <2>4, <2>5 DEF Admitted
  <2>7. PICK g \in Decided(answers) : t \in ListOf(answers[g])
    BY <2>1, <2>2, <2>3, <2>5, ComposedFromGates
  <2> QED BY <2>6, <2>7
<1> QED
  BY <1>1, TypeCorrect, Requests, PTL

\* However the gates of a run are registered, the list is the same, as long as
\* no two have one name.
THEOREM OrderDoesNotMatter == Spec => []OrderIsIrrelevant
<1>1. TypeOK /\ SentInv => OrderIsIrrelevant
  <2> SUFFICES ASSUME TypeOK, SentInv, pc = "request",
                      \A g, h \in DOMAIN setup.gates : g # h => setup.gates[g].name # setup.gates[h].name,
                      NEW o \in [DOMAIN setup.gates -> DOMAIN setup.gates],
                      \A g, h \in DOMAIN setup.gates : g # h => o[g] # o[h]
               PROVE  Compose([g \in DOMAIN setup.gates |-> setup.gates[o[g]]],
                              [g \in DOMAIN setup.gates |-> answers[o[g]]]) = allow
    BY DEF OrderIsIrrelevant
  <2>1. setup.gates \in Seq(Gate) /\ answers \in Seq(Answer)
    BY PolledAnswers DEF Answered
  <2>2. Len(answers) = Len(setup.gates) /\ allow = Compose(setup.gates, answers)
    BY DEF SentInv, Sent
  <2>3. Reordering(o, DOMAIN setup.gates)
    BY DEF Reordering
  <2> QED BY <2>1, <2>2, <2>3, ComposedInAnyOrder
<1> QED
  BY <1>1, TypeCorrect, Requests, PTL
=============================================================================
