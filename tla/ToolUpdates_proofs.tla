------------------------- MODULE ToolUpdates_proofs -------------------------
(***************************************************************************)
(* What passes between a tool and the loop.  Theorems about ToolUpdates,   *)
(* for any capacity of the queue and any number of updates, and then about *)
(* ToolArguments, for every argument type and whatever is sent.            *)
(***************************************************************************)
EXTENDS ToolUpdates, ToolArguments, WellFoundedInduction, TLAPS

-----------------------------------------------------------------------------
(* Types.                                                                   *)

\* The initial states satisfy the types.
LEMMA TypesInit == Init => TypeOK
BY UpdateAssumption DEF Init, TypeOK, Update, Event

\* Every step preserves the types.
LEMMA TypesNext == TypeOK /\ [Next]_vars => TypeOK'
<1> SUFFICES ASSUME TypeOK, [Next]_vars PROVE TypeOK'
  OBVIOUS
<1> USE UpdateAssumption DEF TypeOK, pipe
<1>1. Start \in Event /\ Finish \in Event /\ Update \subseteq Event
  BY DEF Event, Start, Finish, Update
<1>2. CASE Invoke
  BY <1>1, <1>2 DEF Invoke
<1>3. CASE LeaveTask \/ EndTask \/ ToolReturns \/ DropFuture
  BY <1>3 DEF LeaveTask, EndTask, ToolReturns, DropFuture
<1>4. CASE Send
  <2>1. sent + 1 \in Update
    BY <1>4 DEF Send, Update
  <2>2. channel' \in Seq(Update) /\ cut' \in SUBSET Update
    <3>1. CASE draining = "aborted"
      BY <2>1, <3>1, <1>4 DEF Send
    <3>2. CASE draining # "aborted"
      <4>1. channel' = Append(channel, sent + 1) /\ cut' = cut
        BY <3>2, <1>4 DEF Send
      <4> QED BY <4>1, <2>1
    <3> QED BY <3>1, <3>2
  <2>3. sent' \in 0..MaxUpdates
    BY <1>4 DEF Send
  <2> QED BY <2>2, <2>3, <1>4 DEF Send
<1>5. CASE Drain
  <2>1. Head(channel) \in Update /\ Tail(channel) \in Seq(Update)
    BY <1>5 DEF Drain
  <2>2. queue' \in Seq(Update) /\ Len(queue') <= Capacity
    <3>1. CASE Len(queue) < Capacity
      <4>1. queue' = Append(queue, Head(channel))
        BY <3>1, <1>5 DEF Drain
      <4> HIDE DEF Update
      <4> QED BY <4>1, <3>1, <2>1
    <3>2. CASE ~(Len(queue) < Capacity)
      BY <3>2, <1>5 DEF Drain
    <3> QED BY <3>1, <3>2
  <2>3. overflowed' \in SUBSET Update
    BY <2>1, <1>5 DEF Drain
  <2> QED BY <2>1, <2>2, <2>3, <1>5 DEF Drain
<1>6. CASE FinishDrain
  BY <1>6 DEF FinishDrain
<1>7. CASE Dispatch
  <2>1. Head(queue) \in Update /\ Tail(queue) \in Seq(Update) /\ Len(Tail(queue)) <= Capacity
    BY <1>7 DEF Dispatch
  <2> QED BY <2>1, <1>7 DEF Dispatch
<1>8. CASE Show
  <2>1. Head(showing) \in Event
    BY <1>1, <1>8 DEF Show
  <2> QED BY <2>1, <1>8 DEF Show
<1>9. CASE Settle
  BY <1>9 DEF Settle
<1>10. CASE GiveUp
  <2>1. ToSet(channel) \subseteq Update
    BY DEF ToSet
  <2> QED BY <2>1, <1>10 DEF GiveUp
<1>11. CASE End
  BY <1>1, <1>11 DEF End
<1>12. CASE UNCHANGED vars
  BY <1>12 DEF vars
<1> QED
  BY <1>2, <1>3, <1>4, <1>5, <1>6, <1>7, <1>8, <1>9, <1>10, <1>11, <1>12
     DEF Next, Executor, Drainer, Dispatcher, Ended

-----------------------------------------------------------------------------
(* Order.  The four sequences are one pipeline: each rises, and what is      *)
(* further on was sent before what is behind it.                             *)

Rises(s) == \A i, j \in DOMAIN s : i < j => s[i] < s[j]

Before(s, t) == \A i \in DOMAIN s, j \in DOMAIN t : s[i] < t[j]

SentIn(s) == \A i \in DOMAIN s : s[i] <= sent

\* What has been shown, its start and end aside, against a sequence behind it.
ShownBefore(t) ==
  \A i \in DOMAIN shown, j \in DOMAIN t : shown[i] \in Update => shown[i] < t[j]

ShownRises ==
  \A i, j \in DOMAIN shown :
    i < j /\ shown[i] \in Update /\ shown[j] \in Update => shown[i] < shown[j]

OrderInv ==
  /\ pc = "ready" => shown = <<>> /\ channel = <<>> /\ queue = <<>> /\ showing = <<>>
  /\ pc = "ready" => holding = {}
  /\ pc # "ready" => shown # <<>> /\ shown[1] = Start
  /\ ShownRises /\ Rises(queue) /\ Rises(channel)
  /\ ShownBefore(showing) /\ ShownBefore(queue) /\ ShownBefore(channel)
  /\ Before(showing, queue) /\ Before(showing, channel) /\ Before(queue, channel)
  /\ SentIn(showing) /\ SentIn(queue) /\ SentIn(channel)
  /\ \A i \in DOMAIN shown : shown[i] \in Update => shown[i] <= sent

\* The initial states satisfy OrderInv.
LEMMA OrderInit == Init => OrderInv
BY DEF Init, OrderInv, ShownRises, Rises, ShownBefore, Before, SentIn

\* What appending and taking off the head do to these relations.
LEMMA AppendRises ==
  ASSUME NEW s \in Seq(Nat), NEW x \in Nat, Rises(s), \A i \in DOMAIN s : s[i] < x
  PROVE  Rises(Append(s, x))
BY DEF Rises

\* A rising sequence rises without its first element.
LEMMA TailRises ==
  ASSUME NEW s \in Seq(Nat), s # <<>>, Rises(s)
  PROVE  Rises(Tail(s))
<1>1. /\ DOMAIN s = 1..Len(s) /\ Len(s) \in Nat \ {0}
      /\ DOMAIN Tail(s) = 1..(Len(s) - 1)
      /\ \A i \in DOMAIN Tail(s) : i + 1 \in DOMAIN s /\ Tail(s)[i] = s[i + 1]
  OBVIOUS
<1> QED BY <1>1 DEF Rises

\* All of one sequence comes before another with one more behind it.
LEMMA AppendBehind ==
  ASSUME NEW s \in Seq(Nat), NEW t \in Seq(Nat), NEW x \in Nat,
         Before(s, t), \A i \in DOMAIN s : s[i] < x
  PROVE  Before(s, Append(t, x))
BY DEF Before

\* The first of a sequence may move to the end of the one before it.
LEMMA HeadMoves ==
  ASSUME NEW s \in Seq(Nat), NEW t \in Seq(Nat), t # <<>>, Before(s, t), Rises(t)
  PROVE  /\ Before(s, Tail(t)) /\ Before(Append(s, Head(t)), Tail(t))
         /\ \A i \in DOMAIN s : s[i] < Head(t)
<1>1. /\ DOMAIN t = 1..Len(t) /\ Len(t) \in Nat \ {0} /\ Head(t) = t[1]
      /\ DOMAIN Tail(t) = 1..(Len(t) - 1)
      /\ \A i \in DOMAIN Tail(t) : i + 1 \in DOMAIN t /\ Tail(t)[i] = t[i + 1]
  OBVIOUS
<1>2. \A i \in DOMAIN s : s[i] < Head(t)
  BY <1>1 DEF Before
<1>3. Before(s, Tail(t))
  BY <1>1 DEF Before
<1>4. \A j \in DOMAIN Tail(t) : Head(t) < Tail(t)[j]
  BY SMTT(30), <1>1 DEF Rises
<1>5. /\ DOMAIN Append(s, Head(t)) = 1..(Len(s) + 1) /\ Append(s, Head(t))[Len(s) + 1] = Head(t)
      /\ DOMAIN s = 1..Len(s) /\ Len(s) \in Nat
      /\ \A i \in DOMAIN s : Append(s, Head(t))[i] = s[i]
  BY <1>1
<1>6. Before(Append(s, Head(t)), Tail(t))
  BY <1>3, <1>4, <1>5 DEF Before
<1> QED BY <1>2, <1>3, <1>6

\* The first of the sequence before may go.
LEMMA TailBehind ==
  ASSUME NEW s \in Seq(Nat), NEW t \in Seq(Nat), s # <<>>, Before(s, t)
  PROVE  Before(Tail(s), t) /\ Before(<<Head(s)>>, t)
<1>1. /\ DOMAIN s = 1..Len(s) /\ Len(s) \in Nat \ {0} /\ Head(s) = s[1]
      /\ DOMAIN Tail(s) = 1..(Len(s) - 1)
      /\ \A i \in DOMAIN Tail(s) : i + 1 \in DOMAIN s /\ Tail(s)[i] = s[i + 1]
  OBVIOUS
<1> QED BY <1>1 DEF Before

\* A sequence over a subset.
LEMMA SeqSubset ==
  ASSUME NEW S, NEW T, S \subseteq T, NEW s \in Seq(S)
  PROVE  s \in Seq(T)
OBVIOUS

\* Every step preserves OrderInv.
LEMMA OrderNext == TypeOK /\ OrderInv /\ [Next]_vars => OrderInv'
<1> SUFFICES ASSUME TypeOK, OrderInv, [Next]_vars PROVE OrderInv'
  OBVIOUS
<1> USE DEF pipe
<1>0. Update \subseteq Nat /\ sent \in Nat /\ Start \notin Update /\ Finish \notin Update
  BY UpdateAssumption DEF Update, Start, Finish, TypeOK
<1>12. channel \in Seq(Nat) /\ queue \in Seq(Nat) /\ showing \in Seq(Nat)
  BY <1>0, SeqSubset DEF TypeOK
<1>1. CASE Invoke
  BY <1>0, <1>1 DEF Invoke, OrderInv, TypeOK, ShownRises, Rises, ShownBefore, Before, SentIn
<1>2. ASSUME UNCHANGED <<sent, channel, queue, showing, shown>>, pc' # "ready", pc # "ready" PROVE OrderInv'
  BY <1>2 DEF OrderInv, ShownRises, Rises, ShownBefore, Before, SentIn
<1>3. CASE LeaveTask \/ EndTask \/ ToolReturns \/ DropFuture \/ Settle
  BY <1>2, <1>3 DEF LeaveTask, EndTask, ToolReturns, DropFuture, Settle, OrderInv
<1>4. CASE Send
  <2>1. /\ sent' = sent + 1 /\ UNCHANGED <<pc, queue, showing, shown>> /\ pc # "ready"
        /\ channel' = channel \/ channel' = Append(channel, sent + 1)
    BY <1>4 DEF Send, OrderInv
  <2>2. SentIn(showing)' /\ SentIn(queue)'
    BY <2>1, <1>0, <1>12 DEF OrderInv, SentIn
  <2>3. \A i \in DOMAIN shown' : shown'[i] \in Update => shown'[i] <= sent'
    <3> SUFFICES ASSUME NEW i \in DOMAIN shown, shown[i] \in Update PROVE shown[i] <= sent + 1
      BY <2>1
    <3>1. shown[i] <= sent /\ shown[i] \in Nat
      BY <1>0 DEF OrderInv
    <3> QED BY <3>1, <1>0
  <2>4. CASE channel' = channel
    <3>1. SentIn(channel)'
      BY <2>4, <2>1, <1>0, <1>12 DEF OrderInv, SentIn
    <3> QED BY <2>1, <2>2, <2>3, <2>4, <3>1
         DEF OrderInv, ShownRises, Rises, ShownBefore, Before
  <2>5. CASE channel' = Append(channel, sent + 1)
    <3>1. /\ DOMAIN channel' = 1..(Len(channel) + 1) /\ DOMAIN channel = 1..Len(channel)
          /\ Len(channel) \in Nat /\ channel'[Len(channel) + 1] = sent + 1
          /\ \A i \in DOMAIN channel : channel'[i] = channel[i] /\ channel[i] \in Nat
      BY <2>5, <1>0, <1>12
    <3>2. SentIn(channel)'
      BY <3>1, <2>1, <1>0 DEF OrderInv, SentIn
    <3>3. Rises(channel)'
      BY <3>1, <1>0 DEF OrderInv, SentIn, Rises
    <3>4. Before(showing, channel)' /\ Before(queue, channel)'
      <4>1. /\ \A i \in DOMAIN showing : showing[i] < sent + 1
            /\ \A i \in DOMAIN queue : queue[i] < sent + 1
        BY <1>0, <1>12 DEF OrderInv, SentIn
      <4> QED BY <4>1, <2>1, <2>5, <1>0, <1>12, AppendBehind DEF OrderInv
    <3>5. ShownBefore(channel)'
      <4> SUFFICES ASSUME NEW i \in DOMAIN shown, NEW j \in DOMAIN channel', shown[i] \in Update
                   PROVE  shown[i] < channel'[j]
        BY <2>1 DEF ShownBefore
      <4>1. shown[i] <= sent /\ shown[i] \in Nat
        BY <1>0 DEF OrderInv
      <4>2. CASE j \in DOMAIN channel
        BY <4>2, <3>1 DEF OrderInv, ShownBefore
      <4>3. CASE j = Len(channel) + 1
        BY <4>1, <4>3, <3>1, <1>0
      <4> QED BY <4>2, <4>3, <3>1
    <3>6. ShownRises' /\ Rises(queue)' /\ ShownBefore(showing)' /\ ShownBefore(queue)'
          /\ Before(showing, queue)'
      BY <2>1 DEF OrderInv, ShownRises, Rises, ShownBefore, Before
    <3> QED BY <2>1, <2>2, <2>3, <3>2, <3>3, <3>4, <3>5, <3>6 DEF OrderInv
  <2> QED BY <2>1, <2>4, <2>5
<1>5. CASE Drain
  <2>1. /\ UNCHANGED <<pc, sent, showing, shown>> /\ channel # <<>> /\ channel' = Tail(channel)
        /\ queue' = queue \/ queue' = Append(queue, Head(channel))
        /\ pc # "ready"
    BY <1>5 DEF Drain, OrderInv
  <2>2. /\ DOMAIN channel = 1..Len(channel) /\ Len(channel) \in Nat \ {0}
        /\ Head(channel) = channel[1]
        /\ DOMAIN channel' = 1..(Len(channel) - 1)
        /\ \A i \in DOMAIN channel' : i + 1 \in DOMAIN channel /\ channel'[i] = channel[i + 1]
    BY <2>1, <1>12
  <2>3. Rises(channel)' /\ Before(showing, channel)'
    BY <2>1, <1>12, TailRises, HeadMoves DEF OrderInv
  <2>4. ShownBefore(channel)' /\ SentIn(channel)'
    BY <2>1, <2>2 DEF OrderInv, ShownBefore, SentIn
  <2>5. /\ ShownRises' /\ ShownBefore(showing)' /\ SentIn(showing)'
        /\ \A i \in DOMAIN shown' : shown'[i] \in Update => shown'[i] <= sent'
    BY <2>1 DEF OrderInv, ShownRises, ShownBefore, SentIn
  <2>6. CASE queue' = queue
    <3>1. Before(queue, channel)'
      BY <2>1, <2>6, <1>12, HeadMoves DEF OrderInv
    <3>2. Rises(queue)' /\ ShownBefore(queue)' /\ Before(showing, queue)' /\ SentIn(queue)'
      BY <2>1, <2>6 DEF OrderInv, Rises, ShownBefore, Before, SentIn
    <3> QED BY <2>1, <2>3, <2>4, <2>5, <3>1, <3>2 DEF OrderInv
  <2>7. CASE queue' = Append(queue, Head(channel))
    <3>1. Before(queue, channel)'
      BY <2>1, <2>7, <1>12, HeadMoves DEF OrderInv
    <3>2. Head(channel) \in Nat
      BY <2>1, <1>12
    <3>3. Rises(queue)'
      <4>1. \A i \in DOMAIN queue : queue[i] < Head(channel)
        BY <2>1, <1>12, HeadMoves DEF OrderInv
      <4> QED BY <4>1, <3>2, <2>7, <1>12, AppendRises DEF OrderInv
    <3>4. Before(showing, queue)'
      <4>1. \A i \in DOMAIN showing : showing[i] < Head(channel)
        BY <2>1, <1>12, HeadMoves DEF OrderInv
      <4> QED BY <4>1, <3>2, <2>1, <2>7, <1>12, AppendBehind DEF OrderInv
    <3>5. /\ DOMAIN queue' = 1..(Len(queue) + 1) /\ DOMAIN queue = 1..Len(queue)
          /\ Len(queue) \in Nat /\ queue'[Len(queue) + 1] = channel[1]
          /\ \A i \in DOMAIN queue : queue'[i] = queue[i]
      BY <2>2, <2>7, <1>12, <3>2
    <3>6. ShownBefore(queue)' /\ SentIn(queue)'
      BY <3>5, <2>1, <2>2 DEF OrderInv, ShownBefore, SentIn
    <3> QED BY <2>1, <2>3, <2>4, <2>5, <3>1, <3>3, <3>4, <3>6 DEF OrderInv
  <2> QED BY <2>1, <2>6, <2>7
<1>6. CASE FinishDrain
  BY <1>2, <1>6 DEF FinishDrain
<1>7. CASE Dispatch
  <2>1. /\ UNCHANGED <<pc, sent, channel, shown>> /\ queue # <<>> /\ queue' = Tail(queue)
        /\ showing' = <<Head(queue)>> /\ pc # "ready"
    BY <1>7 DEF Dispatch, OrderInv
  <2>2. /\ DOMAIN queue = 1..Len(queue) /\ Len(queue) \in Nat \ {0} /\ Head(queue) = queue[1]
        /\ DOMAIN queue' = 1..(Len(queue) - 1)
        /\ \A i \in DOMAIN queue' : i + 1 \in DOMAIN queue /\ queue'[i] = queue[i + 1]
        /\ DOMAIN showing' = {1} /\ showing'[1] = queue[1]
    BY <2>1, <1>12
  <2>3. Rises(queue)' /\ Before(queue, channel)' /\ Before(showing, channel)'
    BY <2>1, <1>12, TailRises, TailBehind DEF OrderInv
  <2>4. Before(showing, queue)'
    BY <2>2 DEF OrderInv, Before, Rises
  <2>5. ShownBefore(queue)' /\ ShownBefore(showing)' /\ SentIn(queue)' /\ SentIn(showing)'
    BY <2>1, <2>2 DEF OrderInv, ShownBefore, SentIn
  <2>6. /\ ShownRises' /\ ShownBefore(channel)' /\ SentIn(channel)' /\ Rises(channel)'
        /\ \A i \in DOMAIN shown' : shown'[i] \in Update => shown'[i] <= sent'
    BY <2>1 DEF OrderInv, ShownRises, ShownBefore, SentIn, Rises
  <2> QED BY <2>1, <2>3, <2>4, <2>5, <2>6 DEF OrderInv
<1>8. CASE Show
  <2>1. /\ UNCHANGED <<pc, sent, channel, queue>> /\ showing # <<>> /\ showing' = <<>>
        /\ shown' = Append(shown, Head(showing)) /\ pc # "ready"
    BY <1>8 DEF Show, OrderInv
  <2>2. /\ 1 \in DOMAIN showing /\ Head(showing) = showing[1] /\ showing[1] \in Update
        /\ DOMAIN showing' = {}
    BY <2>1 DEF TypeOK
  <2>3. /\ DOMAIN shown' = 1..(Len(shown) + 1) /\ DOMAIN shown = 1..Len(shown)
        /\ Len(shown) \in Nat /\ shown'[Len(shown) + 1] = showing[1]
        /\ \A i \in DOMAIN shown : shown'[i] = shown[i]
    BY <2>1, <2>2 DEF TypeOK
  <2>4. ShownRises'
    BY <2>2, <2>3, <1>0 DEF OrderInv, ShownRises, ShownBefore
  <2>5. ShownBefore(queue)' /\ ShownBefore(channel)'
    BY <2>1, <2>2, <2>3 DEF OrderInv, ShownBefore, Before
  <2>6. \A i \in DOMAIN shown' : shown'[i] \in Update => shown'[i] <= sent'
    BY <2>1, <2>2, <2>3 DEF OrderInv, SentIn
  <2>7. /\ ShownBefore(showing)' /\ Before(showing, queue)' /\ Before(showing, channel)'
        /\ SentIn(showing)'
    BY <2>2 DEF ShownBefore, Before, SentIn
  <2>8. /\ Rises(queue)' /\ Rises(channel)' /\ Before(queue, channel)'
        /\ SentIn(queue)' /\ SentIn(channel)'
    BY <2>1 DEF OrderInv, Rises, Before, SentIn
  <2>9. shown' # <<>> /\ shown'[1] = Start
    BY <2>1, <2>3 DEF OrderInv, TypeOK
  <2> QED BY <2>1, <2>4, <2>5, <2>6, <2>7, <2>8, <2>9 DEF OrderInv
<1>9. CASE GiveUp
  <2>1. /\ UNCHANGED <<sent, queue, showing, shown>> /\ channel' = <<>>
        /\ pc # "ready" /\ pc' # "ready"
    BY <1>9 DEF GiveUp
  <2> QED BY <2>1 DEF OrderInv, ShownRises, Rises, ShownBefore, Before, SentIn
<1>10. CASE End
  <2>1. /\ UNCHANGED <<sent, channel, queue, showing>> /\ shown' = Append(shown, Finish)
        /\ pc # "ready" /\ pc' # "ready"
    BY <1>10 DEF End, pipe
  <2>2. /\ DOMAIN shown' = 1..(Len(shown) + 1) /\ DOMAIN shown = 1..Len(shown)
        /\ Len(shown) \in Nat /\ shown'[Len(shown) + 1] = Finish
        /\ \A i \in DOMAIN shown : shown'[i] = shown[i]
    BY <2>1 DEF TypeOK, Event
  <2>3. ShownRises'
    BY <2>2, <1>0 DEF OrderInv, ShownRises
  <2>4. ShownBefore(queue)' /\ ShownBefore(channel)' /\ ShownBefore(showing)'
    BY <2>1, <2>2, <1>0 DEF OrderInv, ShownBefore
  <2>5. \A i \in DOMAIN shown' : shown'[i] \in Update => shown'[i] <= sent'
    BY <2>1, <2>2, <1>0 DEF OrderInv
  <2>6. shown' # <<>> /\ shown'[1] = Start
    BY SMTT(30), <2>1, <2>2 DEF OrderInv, TypeOK
  <2>7. /\ Rises(queue)' /\ Rises(channel)' /\ Before(queue, channel)'
        /\ SentIn(queue)' /\ SentIn(channel)' /\ SentIn(showing)'
        /\ Before(showing, queue)' /\ Before(showing, channel)'
    BY <2>1 DEF OrderInv, Rises, Before, SentIn
  <2> QED BY <2>1, <2>3, <2>4, <2>5, <2>6, <2>7 DEF OrderInv
<1>11. CASE UNCHANGED vars
  BY <1>11 DEF vars, OrderInv, ShownRises, Rises, ShownBefore, Before, SentIn
<1> QED
  BY <1>1, <1>3, <1>4, <1>5, <1>6, <1>7, <1>8, <1>9, <1>10, <1>11
     DEF Next, Executor, Drainer, Dispatcher, Ended

-----------------------------------------------------------------------------
(* Loss.                                                                     *)

\* The elements of a sequence that grew, one that shrank and an empty one.
LEMMA SetOfAppended ==
  ASSUME NEW S, NEW s \in Seq(S), NEW x \in S
  PROVE  ToSet(Append(s, x)) = ToSet(s) \cup {x}
<1> DEFINE t == Append(s, x)
<1>1. /\ DOMAIN t = 1..(Len(s) + 1) /\ DOMAIN s = 1..Len(s) /\ Len(s) \in Nat
      /\ t[Len(s) + 1] = x
      /\ \A i \in DOMAIN s : t[i] = s[i]
  OBVIOUS
<1> HIDE DEF t
<1>2. \A i \in DOMAIN t : i \in DOMAIN s \/ i = Len(s) + 1
  BY <1>1
<1>3. ToSet(t) \subseteq ToSet(s) \cup {x}
  BY <1>1, <1>2 DEF ToSet
<1>4. ToSet(s) \cup {x} \subseteq ToSet(t)
  BY <1>1 DEF ToSet
<1> QED BY <1>3, <1>4 DEF t

LEMMA SetOfTaken ==
  ASSUME NEW S, NEW s \in Seq(S), s # <<>>
  PROVE  ToSet(s) = ToSet(Tail(s)) \cup {Head(s)} /\ ToSet(<<Head(s)>>) = {Head(s)}
<1>1. /\ DOMAIN s = 1..Len(s) /\ Len(s) \in Nat \ {0} /\ Head(s) = s[1]
      /\ DOMAIN Tail(s) = 1..(Len(s) - 1)
      /\ \A i \in DOMAIN Tail(s) : i + 1 \in DOMAIN s /\ Tail(s)[i] = s[i + 1]
  OBVIOUS
<1>2. \A i \in DOMAIN s : i = 1 \/ i - 1 \in DOMAIN Tail(s)
  BY <1>1
<1>3. \A i \in DOMAIN s : i = 1 \/ s[i] = Tail(s)[i - 1]
  BY <1>1, <1>2
<1>4. ToSet(s) \subseteq ToSet(Tail(s)) \cup {Head(s)}
  BY <1>1, <1>2, <1>3 DEF ToSet
<1>5. ToSet(Tail(s)) \cup {Head(s)} \subseteq ToSet(s)
  BY <1>1 DEF ToSet
<1>6. ToSet(<<Head(s)>>) = {Head(s)}
  BY DEF ToSet
<1> QED BY <1>4, <1>5, <1>6

LEMMA SetOfEmpty == ToSet(<<>>) = {}
BY DEF ToSet

\* Everything that was sent and is not lost for one of the two reasons.
Kept == ToSet(channel) \cup ToSet(queue) \cup ToSet(showing) \cup ToSet(shown)

\* The initial states satisfy LossHasCause.
LEMMA LossInit == Init => LossHasCause
BY DEF Init, LossHasCause

\* Every step preserves LossHasCause.
LEMMA LossNext == TypeOK /\ LossHasCause /\ [Next]_vars => LossHasCause'
<1> SUFFICES ASSUME TypeOK, LossHasCause, [Next]_vars PROVE LossHasCause'
  OBVIOUS
<1> USE DEF pipe
<1>1. /\ \A update \in 1..sent : update \in Kept \/ update \in overflowed \/ update \in cut
      /\ cut # {} => draining = "aborted"
  BY DEF LossHasCause, Kept
<1>2. ASSUME sent' = sent, Kept \subseteq Kept', overflowed \subseteq overflowed',
             cut \subseteq cut', cut' # {} => draining' = "aborted"
      PROVE  LossHasCause'
  BY <1>1, <1>2 DEF LossHasCause, Kept
<1>3. Update \subseteq Event
  BY DEF Event
<1>4. CASE Invoke
  <2>1. ToSet(shown') = ToSet(shown) \cup {Start}
    <3>1. shown \in Seq(Event) /\ Start \in Event /\ shown' = Append(shown, Start)
      BY <1>4 DEF Invoke, TypeOK, Event
    <3> QED BY <3>1, SetOfAppended
  <2> QED BY <2>1, <1>1, <1>2, <1>4 DEF Invoke, Kept
<1>5. CASE Send
  <2>1. CASE draining = "aborted"
    <3>1. sent' = sent + 1 /\ Kept' = Kept /\ cut' = cut \cup {sent + 1}
          /\ overflowed' = overflowed /\ draining' = draining
      BY <1>5, <2>1 DEF Send, Kept
    <3>2. \A update \in 1..sent' : update \in 1..sent \/ update = sent + 1
      BY <3>1 DEF TypeOK
    <3> QED BY <3>1, <3>2, <1>1, <2>1 DEF LossHasCause, Kept
  <2>2. CASE draining # "aborted"
    <3>1. sent' = sent + 1 /\ cut' = cut /\ channel' = Append(channel, sent + 1)
          /\ overflowed' = overflowed /\ draining' = draining
          /\ UNCHANGED <<queue, showing, shown>> /\ sent + 1 \in Update
      <4>1. sent + 1 \in Update
        BY <1>5, UpdateAssumption DEF Send, TypeOK, Update
      <4> QED BY <4>1, <1>5, <2>2 DEF Send
    <3>2. ToSet(channel') = ToSet(channel) \cup {sent + 1}
      BY <3>1, SetOfAppended DEF TypeOK
    <3>3. \A update \in 1..sent' : update \in 1..sent \/ update = sent + 1
      BY <3>1 DEF TypeOK
    <3>4. Kept' = Kept \cup {sent + 1}
      BY <3>1, <3>2 DEF Kept
    <3> QED BY <3>1, <3>3, <3>4, <1>1 DEF LossHasCause, Kept
  <2> QED BY <2>1, <2>2
<1>6. CASE Drain
  <2>1. Head(channel) \in Update /\ ToSet(channel) = ToSet(channel') \cup {Head(channel)}
    <3>1. channel \in Seq(Update) /\ channel # <<>> /\ channel' = Tail(channel)
      BY <1>6 DEF Drain, TypeOK
    <3>2. Head(channel) \in Update
      BY <3>1
    <3> QED BY <3>1, <3>2, SetOfTaken
  <2>2. /\ UNCHANGED <<sent, cut, draining, showing, shown>>
        /\ \/ queue' = Append(queue, Head(channel)) /\ overflowed' = overflowed
           \/ queue' = queue /\ overflowed' = overflowed \cup {Head(channel)}
    BY <1>6 DEF Drain
  <2>3. CASE queue' = Append(queue, Head(channel)) /\ overflowed' = overflowed
    <3>1. ToSet(queue') = ToSet(queue) \cup {Head(channel)}
      BY <2>1, <2>3, SetOfAppended DEF TypeOK
    <3>2. Kept' = Kept
      BY <3>1, <2>1, <2>2 DEF Kept
    <3> QED BY <3>2, <2>2, <2>3, <1>1, <1>2
  <2>4. CASE queue' = queue /\ overflowed' = overflowed \cup {Head(channel)}
    <3>1. Kept \subseteq Kept' \cup {Head(channel)}
      BY <2>1, <2>2, <2>4 DEF Kept
    <3> QED BY <3>1, <2>2, <2>4, <1>1 DEF LossHasCause, Kept
  <2> QED BY <2>2, <2>3, <2>4
<1>7. CASE FinishDrain
  BY <1>1, <1>2, <1>7 DEF FinishDrain, Kept
<1>8. CASE Dispatch
  <2>1. ToSet(queue) = ToSet(queue') \cup {Head(queue)} /\ ToSet(showing') = {Head(queue)}
    BY <1>8, SetOfTaken DEF Dispatch, TypeOK
  <2>2. ToSet(showing) = {}
    BY <1>8, SetOfEmpty DEF Dispatch
  <2>3. Kept' = Kept
    BY <2>1, <2>2, <1>8 DEF Dispatch, Kept
  <2> QED BY <2>3, <1>1, <1>2, <1>8 DEF Dispatch
<1>9. CASE Show
  <2>1. showing = <<Head(showing)>> /\ Head(showing) \in Event
    <3>1. showing \in Seq(Update) /\ showing # <<>> /\ Len(showing) <= 1
      BY <1>9 DEF Show, TypeOK
    <3>2. Len(showing) = 1 /\ Head(showing) = showing[1] /\ Head(showing) \in Update
      <4>1. Len(showing) \in Nat /\ Len(showing) # 0 /\ Len(showing) <= 1
        BY <3>1
      <4>2. Len(showing) = 1
        BY <4>1
      <4> QED BY <4>2, <3>1
    <3>3. showing = <<Head(showing)>>
      BY <3>1, <3>2
    <3> QED BY <3>2, <3>3, <1>3
  <2>2. ToSet(showing) = {Head(showing)}
    BY <2>1, <1>9, SetOfTaken DEF Show, TypeOK
  <2>3. ToSet(shown') = ToSet(shown) \cup {Head(showing)}
    BY <2>1, <1>9, SetOfAppended DEF Show, TypeOK
  <2>4. Kept \subseteq Kept'
    BY <2>2, <2>3, <1>9 DEF Show, Kept
  <2> QED BY <2>4, <1>1, <1>2, <1>9 DEF Show
<1>10. CASE GiveUp
  <2>1. Kept \subseteq Kept' \cup ToSet(channel)
    BY <1>10 DEF GiveUp, Kept
  <2>2. sent' = sent /\ overflowed' = overflowed /\ cut' = cut \cup ToSet(channel)
        /\ draining' = "aborted"
    BY <1>10 DEF GiveUp
  <2> QED BY <2>1, <2>2, <1>1 DEF LossHasCause, Kept
<1>11. CASE End
  <2>1. ToSet(shown') = ToSet(shown) \cup {Finish}
    <3>1. shown \in Seq(Event) /\ Finish \in Event /\ shown' = Append(shown, Finish)
      BY <1>11 DEF End, TypeOK, Event
    <3> QED BY <3>1, SetOfAppended
  <2> QED BY <2>1, <1>1, <1>2, <1>11 DEF End, Kept
<1>12. ASSUME UNCHANGED <<sent, pipe, shown, overflowed, cut>> PROVE LossHasCause'
  BY <1>1, <1>2, <1>12 DEF Kept
<1>13. CASE LeaveTask \/ EndTask \/ ToolReturns \/ DropFuture \/ Settle
  BY <1>12, <1>13 DEF LeaveTask, EndTask, ToolReturns, DropFuture, Settle
<1>14. CASE UNCHANGED vars
  BY <1>12, <1>14 DEF vars
<1> QED
  BY <1>4, <1>5, <1>6, <1>7, <1>8, <1>9, <1>10, <1>11, <1>13, <1>14
     DEF Next, Executor, Drainer, Dispatcher, Ended

-----------------------------------------------------------------------------
(* The tail.                                                                 *)

\* From the moment the call is settled nothing enters the queue again: either
\* the drain task has finished, and then nobody can send, or it is gone.
TailInv ==
  /\ pc = "ready" => holding = {}
  /\ pc = "running" => "tool" \in holding
  /\ pc \in {"settled", "ended"} => draining # "alive"
  /\ draining = "finished" => holding = {} /\ pc # "ready"
  /\ draining # "alive" => channel = <<>>
  /\ pc # "ended" => \A i \in DOMAIN shown : shown[i] # Finish
  /\ pc = "ended" =>
       \E end \in DOMAIN shown :
         /\ shown[end] = Finish
         /\ \A i \in DOMAIN shown : shown[i] = Finish => i = end
         /\ (Len(shown) - end) + Len(showing) + Len(queue) <= Capacity + 1

\* The initial states satisfy TailInv.
LEMMA TailInit == Init => TailInv
BY DEF Init, TailInv

\* Every step preserves TailInv.
LEMMA TailNext == TypeOK /\ TailInv /\ [Next]_vars => TailInv'
<1> SUFFICES ASSUME TypeOK, TailInv, [Next]_vars PROVE TailInv'
  OBVIOUS
<1> USE DEF pipe
<1>0. /\ Start # Finish /\ Finish \notin Update /\ Start \in Event /\ Finish \in Event
      /\ Update \subseteq Event
  BY UpdateAssumption DEF Start, Finish, Update, Event
<1>1. CASE Invoke
  BY <1>0, <1>1 DEF Invoke, TailInv, TypeOK
<1>2. CASE LeaveTask \/ EndTask \/ ToolReturns \/ DropFuture \/ Settle
  BY <1>2 DEF LeaveTask, EndTask, ToolReturns, DropFuture, Settle, TailInv
<1>3. CASE Send
  BY <1>3 DEF Send, TailInv, TypeOK
<1>4. CASE Drain
  BY <1>4 DEF Drain, TailInv
<1>5. CASE FinishDrain
  BY <1>5 DEF FinishDrain, TailInv
<1>6. CASE Dispatch
  <2>1. Len(showing') = 1 /\ Len(showing) = 0 /\ Len(queue') = Len(queue) - 1 /\ Len(queue) \in Nat
    BY <1>6 DEF Dispatch, TypeOK
  <2>2. Len(shown) \in Nat /\ DOMAIN shown = 1..Len(shown)
    BY DEF TypeOK
  <2>3. UNCHANGED <<pc, holding, channel, draining, shown>>
    BY <1>6 DEF Dispatch
  <2> QED BY <2>1, <2>2, <2>3 DEF TailInv
<1>7. CASE Show
  <2>1. /\ DOMAIN shown' = 1..(Len(shown) + 1) /\ DOMAIN shown = 1..Len(shown)
        /\ Len(shown) \in Nat /\ Len(shown') = Len(shown) + 1 /\ shown'[Len(shown) + 1] # Finish
        /\ \A i \in DOMAIN shown : shown'[i] = shown[i]
        /\ Len(showing') = 0 /\ Len(showing) = 1 /\ Len(queue) \in Nat
    <3>1. showing \in Seq(Update) /\ showing # <<>> /\ Len(showing) <= 1 /\ showing' = <<>>
          /\ shown \in Seq(Event) /\ shown' = Append(shown, Head(showing))
          /\ queue \in Seq(Update)
      BY <1>7 DEF Show, TypeOK
    <3>2. Len(showing) = 1 /\ Head(showing) \in Update /\ Len(showing') = 0 /\ Len(queue) \in Nat
      <4>1. Len(showing) \in Nat /\ Len(showing) # 0 /\ Len(showing) <= 1
        BY <3>1
      <4>2. Len(showing) = 1
        BY <4>1
      <4> QED BY <4>2, <3>1
    <3>3. Head(showing) \in Event /\ Head(showing) # Finish
      BY <3>2, <1>0
    <3> QED BY <3>1, <3>2, <3>3
  <2>2. UNCHANGED <<pc, holding, channel, draining, queue>>
    BY <1>7 DEF Show
  <2> QED BY <2>1, <2>2 DEF TailInv
<1>8. CASE GiveUp
  BY <1>8 DEF GiveUp, TailInv
<1>9. CASE End
  <2>1. /\ DOMAIN shown' = 1..(Len(shown) + 1) /\ DOMAIN shown = 1..Len(shown)
        /\ Len(shown) \in Nat /\ Len(shown') = Len(shown) + 1 /\ shown'[Len(shown) + 1] = Finish
        /\ \A i \in DOMAIN shown : shown'[i] = shown[i]
        /\ Len(showing) \in Nat /\ Len(queue) \in Nat /\ Capacity \in Nat
        /\ Len(showing) <= 1 /\ Len(queue) <= Capacity
    BY <1>0, <1>9, UpdateAssumption DEF End, TypeOK
  <2>2. pc = "settled" /\ pc' = "ended" /\ UNCHANGED <<holding, channel, draining, queue, showing>>
    BY <1>9 DEF End
  <2>3. \A i \in DOMAIN shown' : i \in DOMAIN shown \/ i = Len(shown) + 1
    BY <2>1
  <2>4. \A i \in DOMAIN shown' : shown'[i] = Finish => i = Len(shown) + 1
    BY <2>1, <2>2, <2>3 DEF TailInv
  <2>5. (Len(shown') - (Len(shown) + 1)) + Len(showing') + Len(queue') <= Capacity + 1
    BY <2>1, <2>2
  <2> QED BY <2>1, <2>2, <2>4, <2>5 DEF TailInv
<1>10. CASE UNCHANGED vars
  BY <1>10 DEF vars, TailInv
<1> QED
  BY <1>1, <1>2, <1>3, <1>4, <1>5, <1>6, <1>7, <1>8, <1>9, <1>10
     DEF Next, Executor, Drainer, Dispatcher, Ended

-----------------------------------------------------------------------------
(* The theorems.                                                             *)

\* Types of all variables, the capacity of the queue included.
THEOREM TypeCorrect == Spec => []TypeOK
BY TypesInit, TypesNext, PTL DEF Spec

\* spawn_tool_update_dispatcher: listeners see a call's updates in the order in
\* which the tool sent them, after its start, and none twice.
THEOREM UpdatesInOrder == Spec => []ShownInOrder
<1>1. TypeOK /\ OrderInv => ShownInOrder
  BY DEF OrderInv, ShownInOrder, ShownRises
<1> QED BY <1>1, TypeCorrect, OrderInit, OrderNext, PTL DEF Spec

\* enqueue_tool_update_event, execute_prepared: an update is lost only to a full
\* queue or with a drain task that outlived its grace.
THEOREM NoOtherLoss == Spec => []LossHasCause
BY TypeCorrect, LossInit, LossNext, PTL DEF Spec

\* execute_prepared: at most a queue of updates, and the one being shown, trails
\* the end of a call, whatever the tool left running.
THEOREM TheTailIsBounded == Spec => []TailIsBounded
<1>1. TypeOK /\ TailInv => TailIsBounded
  <2> SUFFICES ASSUME TypeOK, TailInv, pc = "ended" PROVE TailIsBounded
    BY DEF TailIsBounded
  <2>1. PICK end \in DOMAIN shown :
          /\ shown[end] = Finish
          /\ \A i \in DOMAIN shown : shown[i] = Finish => i = end
          /\ (Len(shown) - end) + Len(showing) + Len(queue) <= Capacity + 1
    BY DEF TailInv
  <2>2. (CHOOSE i \in DOMAIN shown : shown[i] = Finish) = end
    BY <2>1
  <2>3. channel = <<>>
    BY DEF TailInv
  <2>4. Len(channel) = 0
    BY <2>3
  <2> QED BY <2>1, <2>2, <2>4, UpdateAssumption DEF TailIsBounded, TypeOK
<1> QED BY <1>1, TypeCorrect, TailInit, TailNext, PTL DEF Spec

-----------------------------------------------------------------------------
(* ToolArguments: the schema a tool advertises and what becomes of the      *)
(* arguments of a call.                                                     *)

\* A set of numbers with an element has a least one.
LEMMA LeastNumber ==
  ASSUME NEW S, S \subseteq Nat, S # {}
  PROVE  \E n \in S : \A m \in S : n <= m
<1>1. PICK n \in S : \A m \in S : ~(<<m, n>> \in OpToRel(<, Nat))
  BY NatLessThanWellFounded, WFMin
<1>2. \A m \in S : ~(m < n)
  BY <1>1 DEF OpToRel
<1>3. n \in Nat /\ \A m \in S : m \in Nat
  OBVIOUS
<1> QED BY <1>2, <1>3

\* A property is found by its name.
LEMMA PropertyFound ==
  ASSUME NEW t, IsToolType(t), NEW i \in DOMAIN t.variants, NEW name \in Names(t.variants[i])
  PROVE  \E j \in DOMAIN t.variants[i].props :
           t.variants[i].props[j].name = name /\ PropOf(t.variants[i], name) = t.variants[i].props[j]
<1>1. PICK variant : variant = t.variants[i]
  OBVIOUS
<1>2. \E j \in DOMAIN variant.props : variant.props[j].name = name
  BY <1>1 DEF Names
<1>3. PICK j : j = CHOOSE k \in DOMAIN variant.props : variant.props[k].name = name
  OBVIOUS
<1>4. j \in DOMAIN variant.props /\ variant.props[j].name = name
  BY <1>2, <1>3
<1>5. PropOf(variant, name) = variant.props[j]
  BY <1>3 DEF PropOf
<1> QED BY <1>1, <1>4, <1>5

\* A tag is a property, the one of its name.
LEMMA TagFound ==
  ASSUME NEW t, IsToolType(t), Dispatched(t), NEW i \in DOMAIN t.variants
  PROVE  /\ TagProp(t.variants[i]).name = Discriminator(t)
         /\ Discriminator(t) \in Names(t.variants[i])
         /\ PropOf(t.variants[i], Discriminator(t)) = TagProp(t.variants[i])
         /\ TagProp(t.variants[i]).only # NoTag
<1>1. PICK variant, props : variant = t.variants[i] /\ props = variant.props
  OBVIOUS
<1>2. props \in Seq(ToSet(props)) /\ \A j, k \in DOMAIN props : props[j].name = props[k].name => j = k
  <2>1. \A n \in DOMAIN t.variants :
          /\ t.variants[n].props \in Seq(ToSet(t.variants[n].props))
          /\ \A j, k \in DOMAIN t.variants[n].props :
               t.variants[n].props[j].name = t.variants[n].props[k].name => j = k
    BY DEF IsToolType
  <2> QED BY <1>1, <2>1
<1>3. PICK P : P = TagPositions(variant)
  OBVIOUS
<1>4. P # {} /\ P \subseteq DOMAIN props /\ \A j \in P : props[j].only # NoTag
  BY <1>1, <1>3 DEF TagPositions, Dispatched
<1>5. P \subseteq Nat
  BY <1>2, <1>4
<1>6. \E j \in P : \A k \in P : j <= k
  BY <1>4, <1>5, LeastNumber
<1>7. PICK j : j = CHOOSE k \in P : \A l \in P : k <= l
  OBVIOUS
<1>8. j \in P
  BY <1>6, <1>7
<1>9. TagProp(variant) = props[j]
  BY <1>1, <1>3, <1>7 DEF TagProp
<1>10. 1 \in DOMAIN t.variants
  BY DEF IsToolType
<1>11. props[j].name = Discriminator(t)
  BY <1>1, <1>9, <1>10 DEF Dispatched, Discriminator
<1>12. Discriminator(t) \in Names(variant)
  BY <1>1, <1>4, <1>8, <1>11 DEF Names
<1>13. PICK k \in DOMAIN props :
         /\ props[k].name = Discriminator(t)
         /\ PropOf(variant, Discriminator(t)) = props[k]
  BY <1>1, <1>12, PropertyFound
<1>14. k = j
  BY <1>2, <1>4, <1>8, <1>11, <1>13
<1> QED BY <1>1, <1>4, <1>8, <1>9, <1>11, <1>12, <1>13, <1>14

\* The merged properties are the variants' but for the discriminator.
LEMMA MergedNamesAre ==
  ASSUME NEW t, NEW name
  PROVE  name \in MergedNames(t) <=>
           name # Discriminator(t) /\ \E i \in DOMAIN t.variants : name \in Names(t.variants[i])
<1>1. PICK sets : sets = {Names(t.variants[i]) : i \in DOMAIN t.variants}
  OBVIOUS
<1>2. MergedNames(t) = (UNION sets) \ {Discriminator(t)}
  BY <1>1 DEF MergedNames
<1>3. name \in UNION sets <=> \E i \in DOMAIN t.variants : name \in Names(t.variants[i])
  BY <1>1
<1> QED BY <1>2, <1>3

\* What the flat schema says of a name is what each of its owners says.
LEMMA MergedFound ==
  ASSUME NEW t, IsToolType(t), Dispatched(t), Agreeing(t), NEW i \in DOMAIN t.variants,
         NEW name \in Names(t.variants[i]), name # Discriminator(t)
  PROVE  /\ name \in MergedNames(t)
         /\ Merged(t, name) = PropOf(t.variants[i], name)
<1>1. name \in MergedNames(t)
  BY MergedNamesAre
<1>2. PICK O : O = Owners(t, name)
  OBVIOUS
<1>3. i \in O /\ O \subseteq DOMAIN t.variants /\ \A j \in O : name \in Names(t.variants[j])
  BY <1>2 DEF Owners
<1>4. O \subseteq Nat
  BY <1>3 DEF IsToolType
<1>5. \E j \in O : \A k \in O : j <= k
  BY <1>3, <1>4, LeastNumber
<1>6. PICK j : j = CHOOSE k \in O : \A l \in O : k <= l
  OBVIOUS
<1>7. j \in O
  BY <1>5, <1>6
<1>8. Merged(t, name) = PropOf(t.variants[j], name)
  BY <1>2, <1>6 DEF Merged
<1> QED BY <1>1, <1>3, <1>7, <1>8 DEF Agreeing

\* A struct's schema passes through as it is.
LEMMA FlatStruct == ASSUME NEW t, PassedThrough(t).flat PROVE ~t.oneOf
BY DEF PassedThrough

\* A variant's properties in the flat schema: all, and the tag is apart.
LEMMA TopProperties ==
  ASSUME NEW t, IsToolType(t), NEW s, s = ParametersSchema(t), s.flat,
         Agreeing(t),
         NEW i \in DOMAIN t.variants, NEW name \in Names(t.variants[i])
  PROVE  /\ name \in DOMAIN s.props => s.props[name] = PropOf(t.variants[i], name)
         /\ name \notin DOMAIN s.props => PropOf(t.variants[i], name).only # NoTag
<1>1. CASE Dispatched(t)
  <2>1. s.props = [n \in MergedNames(t) |-> Merged(t, n)]
    BY <1>1 DEF ParametersSchema, Flattened
  <2>2. CASE name = Discriminator(t)
    <3>1. name \notin MergedNames(t)
      BY <2>2, MergedNamesAre
    <3>2. PropOf(t.variants[i], name).only # NoTag
      BY <1>1, <2>2, TagFound
    <3> QED BY <2>1, <3>1, <3>2
  <2>3. CASE name # Discriminator(t)
    <3>1. name \in MergedNames(t) /\ Merged(t, name) = PropOf(t.variants[i], name)
      BY <1>1, <2>3, MergedFound
    <3> QED BY <2>1, <3>1
  <2> QED BY <2>2, <2>3
<1>2. CASE ~Dispatched(t)
  <2>1. s = PassedThrough(t)
    BY <1>2 DEF ParametersSchema
  <2>2. ~t.oneOf
    BY <2>1, FlatStruct
  <2>3. i = 1
    BY <2>2 DEF IsToolType
  <2>4. s.props = [n \in Names(t.variants[1]) |-> PropOf(t.variants[1], n)]
    BY <2>1, <2>2 DEF PassedThrough
  <2> QED BY <2>3, <2>4
<1> QED BY <1>1, <1>2

\* Past the declaration the schema is the one that was advertised.
SchemaInv ==
  /\ type \in ToolTypes
  /\ stage # "declared" => schema = ParametersSchema(type)

\* SchemaInv is inductive.
LEMMA SchemaInvHolds == ArgSpec => []SchemaInv
<1>1. ArgInit => SchemaInv
  BY DEF ArgInit, SchemaInv
<1>2. SchemaInv /\ [ArgNext]_argVars => SchemaInv'
  <2> SUFFICES ASSUME SchemaInv, [ArgNext]_argVars PROVE SchemaInv'
    OBVIOUS
  <2>1. CASE Advertise
    BY <2>1 DEF Advertise, SchemaInv
  <2>2. CASE Call
    BY <2>2 DEF Call, SchemaInv
  <2>3. CASE Strip
    BY <2>3 DEF Strip, SchemaInv
  <2>4. CASE Coerce
    BY <2>4 DEF Coerce, SchemaInv
  <2>5. CASE Parse
    BY <2>5 DEF Parse, SchemaInv
  <2>6. CASE Answer
    BY <2>6 DEF Answer, SchemaInv
  <2>7. CASE UNCHANGED argVars
    BY <2>7 DEF argVars, SchemaInv
  <2> QED BY <2>1, <2>2, <2>3, <2>4, <2>5, <2>6, <2>7 DEF ArgNext
<1> QED BY <1>1, <1>2, PTL DEF ArgSpec

\* What a variant accepts, the schema admits.
LEMMA AdmitsWhatParses ==
  ASSUME SchemaInv, stage # "declared", Agreeing(type),
         NEW i \in ParsesAs(type, emitted)
  PROVE  /\ Admits(emitted)
         /\ \A name \in DOMAIN emitted \cap DOMAIN schema.applies :
              TagProp(type.variants[i]).only \in schema.applies[name]
<1>1. IsToolType(type) /\ schema = ParametersSchema(type)
  BY ToolTypeAssumption DEF SchemaInv
<1>2. PICK variant : variant = type.variants[i]
  OBVIOUS
<1>3. /\ i \in DOMAIN type.variants
      /\ DOMAIN emitted \subseteq Names(variant)
      /\ variant.required \subseteq DOMAIN emitted
      /\ \A name \in DOMAIN emitted : Fits(PropOf(variant, name), emitted[name])
  BY <1>2 DEF ParsesAs, Parses
<1>5. ASSUME schema.flat, NEW name \in DOMAIN emitted \cap DOMAIN schema.props
      PROVE  Fits(schema.props[name], emitted[name])
  <2>1. schema.props[name] = PropOf(variant, name)
    BY <1>1, <1>2, <1>3, <1>5, TopProperties
  <2> QED BY <1>3, <2>1
<1>6. CASE Dispatched(type)
  <2>1. /\ schema.flat = TRUE
        /\ schema.required = FlatRequired(type)
        /\ schema.kinds = Tags(type)
        /\ schema.applies = [name \in {n \in MergedNames(type) : Annotated(type, n)} |->
                               AppliesTo(type, name)]
    BY <1>1, <1>6 DEF ParametersSchema, Flattened
  <2>2. schema.required \subseteq DOMAIN emitted
    BY <1>2, <1>3, <2>1 DEF FlatRequired
  <2>3. PICK tag : tag = Discriminator(type)
    OBVIOUS
  <2>4. ASSUME tag \in DOMAIN emitted PROVE emitted[tag] \in Tags(type)
    <3>1. PropOf(variant, tag) = TagProp(variant) 
           /\ TagProp(variant).only # NoTag
      BY <1>1, <1>2, <1>3, <1>6, <2>3, TagFound
    <3>2. emitted[tag] = TagProp(variant).only
      BY <1>3, <2>4, <3>1 DEF Fits
    <3> QED BY <1>2, <1>3, <3>2 DEF Tags
  <2>5. Admits(emitted)
    BY <1>5, <2>1, <2>2, <2>3, <2>4 DEF Admits
  <2>6. ASSUME NEW name \in DOMAIN emitted \cap DOMAIN schema.applies
        PROVE  TagProp(type.variants[i]).only \in schema.applies[name]
    <3>1. schema.applies[name] = AppliesTo(type, name)
      BY <2>1
    <3>2. i \in Owners(type, name)
      BY <1>2, <1>3 DEF Owners
    <3> QED BY <3>1, <3>2 DEF AppliesTo
  <2> QED BY <2>5, <2>6
<1>7. CASE ~Dispatched(type)
  <2>1. schema = PassedThrough(type)
    BY <1>1, <1>7 DEF ParametersSchema
  <2>2. schema.applies = <<>> /\ schema.kinds = {}
    BY <2>1 DEF PassedThrough
  <2>3. Admits(emitted)
    <3>1. CASE ~schema.flat
      BY <3>1 DEF Admits
    <3>2. CASE schema.flat
      <4>1. ~type.oneOf
        BY <2>1, <3>2, FlatStruct
      <4>2. i = 1
        BY <1>1, <1>3, <4>1 DEF IsToolType
      <4>3. schema.required = variant.required
        BY <1>2, <2>1, <4>1, <4>2 DEF PassedThrough
      <4> QED BY <1>3, <1>5, <2>2, <3>2, <4>3 DEF Admits
    <3> QED BY <3>1, <3>2
  <2> QED BY <2>2, <2>3
<1> QED BY <1>6, <1>7

\* For every argument type: what a variant accepts, the flattened schema lets
\* the model send, and no annotation tells it not to.
THEOREM FlatteningCostsNothing == ArgSpec => []SchemaAdmitsVariants
<1>1. SchemaInv => SchemaAdmitsVariants
  BY AdmitsWhatParses DEF SchemaAdmitsVariants
<1> QED BY <1>1, SchemaInvHolds, PTL

\* The arguments of a call at every stage of it.
ArgsInv ==
  /\ stage = "called" => args = emitted
  /\ stage = "stripped" => args = StripNulls(emitted)
  /\ stage \in {"coerced", "ran", "rejected"} => args = Coerced(schema, StripNulls(emitted))
  /\ stage \in {"ran", "rejected"} => (stage = "ran" <=> ParsesAs(type, args) # {})

\* ArgsInv is inductive.
LEMMA ArgsInvHolds == ArgSpec => []ArgsInv
<1>1. ArgInit => ArgsInv
  BY DEF ArgInit, ArgsInv
<1>2. ArgsInv /\ [ArgNext]_argVars => ArgsInv'
  <2> SUFFICES ASSUME ArgsInv, [ArgNext]_argVars PROVE ArgsInv'
    OBVIOUS
  <2>1. CASE Advertise
    BY <2>1 DEF Advertise, ArgsInv
  <2>2. CASE Call
    BY <2>2 DEF Call, ArgsInv
  <2>3. CASE Strip
    BY <2>3 DEF Strip, ArgsInv
  <2>4. CASE Coerce
    BY <2>4 DEF Coerce, ArgsInv
  <2>5. CASE Parse
    <3>1. /\ stage' \in {"ran", "rejected"} /\ (stage' = "ran" <=> ParsesAs(type, args) # {})
          /\ args' = args /\ type' = type /\ schema' = schema /\ emitted' = emitted /\ stage = "coerced"
      BY <2>5 DEF Parse
    <3> QED BY <3>1 DEF ArgsInv
  <2>6. CASE Answer
    BY <2>6 DEF Answer, ArgsInv
  <2>7. CASE UNCHANGED argVars
    BY <2>7 DEF argVars, ArgsInv
  <2> QED BY <2>1, <2>2, <2>3, <2>4, <2>5, <2>6, <2>7 DEF ArgNext
<1> QED BY <1>1, <1>2, PTL DEF ArgSpec

\* Unquoting a value that is not null: the property takes the outcome exactly if
\* it took the value, or the value spells what it takes.
LEMMA UnquotingHelps ==
  ASSUME NEW prop, NEW v, v # "null", prop.only # NoTag => "string" \in prop.types
  PROVE  Fits(prop, Unquoted(v, Target(prop.types)))
           <=> Fits(prop, v) \/ (prop.only = NoTag /\ Spells(v, prop.types))
<1>1. PICK types : types = prop.types
  OBVIOUS
<1>2. PICK target : target = Target(types)
  OBVIOUS
<1>3. \A t : t \in target <=>
        t \in types /\ t \in {"integer", "number", "boolean"} /\ \A u \in types : u # "null" => u = t
  BY <1>2 DEF Target
<1>4. \A t \in {"integer", "number", "boolean"} :
        /\ target = {t} <=> t \in types /\ types \subseteq {t, "null"}
  <2> SUFFICES ASSUME NEW t \in {"integer", "number", "boolean"} 
               PROVE  target = {t} <=> t \in types /\ types \subseteq {t, "null"}
    OBVIOUS
  <2>1. ASSUME target = {t} PROVE t \in types /\ types \subseteq {t, "null"}
    BY <1>3, <2>1
  <2>2. ASSUME t \in types, types \subseteq {t, "null"} PROVE target = {t}
    BY <1>3, <2>2
  <2> QED BY <2>1, <2>2
<1>5. Spells(v, types) <=>
        \/ v = "'50'" /\ (target = {"integer"} \/ target = {"number"})
        \/ v = "'0.5'" /\ target = {"number"}
        \/ v = "'true'" /\ target = {"boolean"}
  BY <1>4 DEF Spells
<1>6. "string" \in types => target = {}
  BY <1>3
<1>7. /\ TypeOf("50") = "integer" /\ TypeOf("50.0") = "number" /\ TypeOf("0.5") = "number"
      /\ TypeOf("true") = "boolean"
      /\ TypeOf("'50'") = "string" /\ TypeOf("'0.5'") = "string" /\ TypeOf("'true'") = "string"
  BY DEF TypeOf
<1>8. CASE Spells(v, types)
  <2>1. "string" \notin types /\ prop.only = NoTag
    BY <1>1, <1>5, <1>6, <1>8
  <2>2. target # {} /\ \A t : target = {t} => t \in types
    BY <1>4, <1>5, <1>8, <1>3
  <2>3. TypeOf(Unquoted(v, target)) \in types
    BY <1>5, <1>7, <1>8, <2>2 DEF Unquoted
  <2> QED BY <1>1, <1>2, <1>8, <2>1, <2>3 DEF Fits
<1>9. CASE ~Spells(v, types)
  <2>1. Unquoted(v, target) = v
    BY <1>5, <1>9 DEF Unquoted
  <2> QED BY <1>1, <1>2, <1>9, <2>1
<1> QED BY <1>8, <1>9

\* The arguments parse as the variants they were meant for.
LEMMA ParsesWhatWasMeant ==
  ASSUME SchemaInv, stage # "declared", Agreeing(type),
         NEW i \in DOMAIN type.variants,
         args = Coerced(schema, StripNulls(emitted))
  PROVE  Parses(type.variants[i], args) <=> MeantFor(type.variants[i])
<1>1. IsToolType(type) /\ schema = ParametersSchema(type)
  BY ToolTypeAssumption DEF SchemaInv
<1>2. PICK variant, given :
        variant = type.variants[i] /\ given = {name \in DOMAIN emitted : emitted[name] # "null"}
  OBVIOUS
<1>4. /\ DOMAIN args = given
      /\ \A name \in given :
           args[name] = IF name \in DOMAIN schema.props
                        THEN Unquoted(emitted[name], Target(schema.props[name].types))
                        ELSE emitted[name]
  <2>1. PICK stripped : stripped = StripNulls(emitted)
    OBVIOUS
  <2>2. DOMAIN stripped = given /\ \A name \in given : stripped[name] = emitted[name]
    BY <1>2, <2>1 DEF StripNulls
  <2>3. args = [name \in DOMAIN stripped |->
                  IF name \in DOMAIN schema.props
                  THEN Unquoted(stripped[name], Target(schema.props[name].types))
                  ELSE stripped[name]]
    BY <2>1 DEF Coerced
  <2> QED BY <2>2, <2>3
<1>5. ASSUME NEW name \in given, name \in Names(variant)
      PROVE  Fits(PropOf(variant, name), args[name]) <=>
               \/ Fits(PropOf(variant, name), emitted[name])
               \/ /\ schema.flat /\ PropOf(variant, name).only = NoTag
                  /\ Spells(emitted[name], PropOf(variant, name).types)
  <2>1. PICK prop : prop = PropOf(variant, name)
    OBVIOUS
  <2>2. emitted[name] # "null" /\ (prop.only # NoTag => "string" \in prop.types)
    <3>1. \E j \in DOMAIN variant.props : prop = variant.props[j]
      BY <1>1, <1>2, <1>5, <2>1, PropertyFound
    <3>2. \A j \in DOMAIN variant.props :
            variant.props[j].only # NoTag => "string" \in variant.props[j].types
      BY <1>1, <1>2 DEF IsToolType
    <3> QED BY <1>2, <3>1, <3>2
  <2>3. CASE schema.flat
    <3>1. /\ name \in DOMAIN schema.props => schema.props[name] = prop
          /\ name \notin DOMAIN schema.props => prop.only # NoTag
      BY <1>1, <1>2, <1>5, <2>1, <2>3, TopProperties
    <3>2. CASE name \in DOMAIN schema.props
      <4>1. args[name] = Unquoted(emitted[name], Target(prop.types))
        BY <1>4, <3>1, <3>2
      <4> QED BY <2>1, <2>2, <2>3, <4>1, UnquotingHelps
    <3>3. CASE name \notin DOMAIN schema.props
      <4>1. args[name] = emitted[name] /\ prop.only # NoTag
        BY <1>4, <3>1, <3>3
      <4> QED BY <2>1, <4>1
    <3> QED BY <3>2, <3>3
  <2>4. CASE ~schema.flat
    <3>1. schema.props = <<>>
      <4>1. ~Dispatched(type)
        BY <1>1, <2>4 DEF ParametersSchema, Flattened
      <4>2. schema = PassedThrough(type)
        BY <1>1, <4>1 DEF ParametersSchema
      <4>3. type.oneOf
        BY <2>4, <4>2 DEF PassedThrough
      <4> QED BY <4>2, <4>3 DEF PassedThrough
    <3>2. name \notin DOMAIN schema.props
      BY <3>1
    <3>3. args[name] = emitted[name]
      BY <1>4, <3>2
    <3> QED BY <2>4, <3>3
  <2> QED BY <2>3, <2>4
<1>6. Parses(variant, args) <=>
        /\ given \subseteq Names(variant)
        /\ variant.required \subseteq given
        /\ \A name \in given : Fits(PropOf(variant, name), args[name])
  BY <1>4 DEF Parses
<1>7. MeantFor(variant) <=>
        /\ given \subseteq Names(variant)
        /\ variant.required \subseteq given
        /\ \A name \in given :
             \/ Fits(PropOf(variant, name), emitted[name])
             \/ /\ schema.flat /\ PropOf(variant, name).only = NoTag
                /\ Spells(emitted[name], PropOf(variant, name).types)
  BY <1>2 DEF MeantFor
<1>8. CASE given \subseteq Names(variant)
  BY <1>2, <1>5, <1>6, <1>7, <1>8
<1>9. CASE ~(given \subseteq Names(variant))
  BY <1>2, <1>6, <1>7, <1>9
<1> QED BY <1>8, <1>9

\* For every argument type and whatever the model sends: a call runs exactly
\* if it was meant for a variant.
THEOREM MeantCallsRun == ArgSpec => []RunsWhatWasMeant
<1>1. SchemaInv /\ ArgsInv => RunsWhatWasMeant
  <2> SUFFICES ASSUME SchemaInv, ArgsInv, stage \in {"ran", "rejected"}, Agreeing(type)
               PROVE  stage = "ran" <=> \E i \in DOMAIN type.variants : MeantFor(type.variants[i])
    BY DEF RunsWhatWasMeant
  <2>1. args = Coerced(schema, StripNulls(emitted)) /\ stage # "declared"
    BY DEF ArgsInv
  <2>2. \A i \in DOMAIN type.variants : Parses(type.variants[i], args) <=> MeantFor(type.variants[i])
    BY <2>1, ParsesWhatWasMeant
  <2>3. stage = "ran" <=> \E i \in DOMAIN type.variants : Parses(type.variants[i], args)
    BY DEF ArgsInv, ParsesAs
  <2> QED BY <2>2, <2>3
<1> QED BY <1>1, SchemaInvHolds, ArgsInvHolds, PTL
=============================================================================
