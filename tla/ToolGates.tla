------------------------------ MODULE ToolGates ------------------------------
(***************************************************************************)
(* Narrowing the tools of a turn (src/run.rs: collect_tool_allowlist_with_ *)
(* events, build_tool_schemas; src/plugins/opening_gate.rs) and enforcing  *)
(* it on the answer (src/exec.rs: prepare_call).                           *)
(*                                                                         *)
(* Every request polls every gate, in registration order.  A gate stands   *)
(* aside or names the tools it allows; the loop intersects the lists, after*)
(* setting aside advisory gates that a stronger owner suppresses, and when *)
(* nothing is left it follows one of the gates alone.  A turn may take     *)
(* several requests: the batch is judged by the list of the one answered.  *)
(***************************************************************************)
EXTENDS Integers, Sequences, FiniteSets

CONSTANTS
  Names,     \* tool names anybody may utter
  Setups,    \* configurations and contexts a run may start from
  MaxTurns,  \* bound: turns of a run
  Strongest  \* conflict priorities are integers of this magnitude at most

\* What a configuration says of a gate.  Plugin names are compared, so they
\* are numbers here.  An opening gate is OpeningGate with its list; any other
\* gate is free in what it answers, and an owner may suppress advisory gates.
Gate == [name : Nat, priority : -Strongest..Strongest, advisory : BOOLEAN,
         owner : BOOLEAN, opening : BOOLEAN, list : SUBSET Names]

\* The registry, the gates, and the assistant messages of the context.
Setup == [tools : SUBSET Names, gates : Seq(Gate), past : Nat]

ASSUME GateAssumption ==
  /\ IsFiniteSet(Names)
  /\ Strongest \in Nat /\ MaxTurns \in Nat
  /\ Setups \subseteq Setup

\* An optional list: no element where the code has None, one where it has Some.
Optional == {{}} \cup {{list} : list \in SUBSET Names}

\* What one gate answers.
Answer == [lists : Optional, suppresses : BOOLEAN]

VARIABLES
  pc,          \* what the loop does next
  setup,       \* what the run started from (never changes)
  iteration,   \* turns completed
  assistants,  \* assistant messages in the transcript
  answers,     \* what the gates polled so far for this request answered
  allow,       \* the list composed from them: an optional list
  advertised,  \* the tools the request carries
  conflict,    \* whether ToolGateConflictResolved was emitted for this request
  call,        \* the name the model calls
  ran,         \* calls of this turn that were let through
  denial       \* the iteration shown to a gate asked why it denies a call

turn == <<setup, iteration, assistants>>
request == <<answers, allow, advertised, conflict>>
batch == <<call, ran, denial>>
vars == <<pc, turn, request, batch>>

TypeOK ==
  /\ pc \in {"poll", "request", "batch", "judged", "over"}
  /\ setup \in Setups
  /\ iteration \in 0..MaxTurns
  /\ assistants \in Nat
  /\ answers \in Seq(Answer) /\ Len(answers) <= Len(setup.gates)
  /\ allow \in Optional
  /\ advertised \in SUBSET setup.tools
  /\ conflict \in BOOLEAN
  /\ call \in SUBSET Names
  /\ ran \in SUBSET Names
  /\ denial \in SUBSET Nat
-----------------------------------------------------------------------------
(* Composition, for gates and what each of them answered. *)

ListOf(answer) == UNION answer.lists

Decided(given) == {g \in DOMAIN given : given[g].lists # {}}

\* Gates that count: not advisory, or as strong as every suppressing owner.
Active(gates, given) ==
  {g \in Decided(given) :
     ~ /\ gates[g].advisory
       /\ \E h \in Decided(given) : /\ given[h].suppresses
                                    /\ gates[g].priority < gates[h].priority}

Common(gates, given) ==
  {t \in Names : \A g \in Active(gates, given) : t \in ListOf(given[g])}

Candidates(gates, given) == {g \in Active(gates, given) : ListOf(given[g]) # {}}

\* The elements of S with the least rank.
Least(S, rank) == {g \in S : \A h \in S : rank[g] <= rank[h]}

\* Mutant: the first of the candidates wins.
OwnerFirst(gates, given) ==
  LET S == Candidates(gates, given)
  IN  CHOOSE g \in S : \A h \in S : g <= h

\* The candidate that is followed alone: the strongest; of these the one with
\* the shortest list, then the first by name, then the last registered.
Owner(gates, given) ==
  LET S == Candidates(gates, given)
      strongest == Least(S, [g \in S |-> Strongest - gates[g].priority])
      narrowest == Least(strongest, [g \in S |-> Cardinality(ListOf(given[g]))])
      named == Least(narrowest, [g \in S |-> gates[g].name])
      latest == Least(named, [g \in S |-> Len(given) - g])
  IN  CHOOSE g \in latest : TRUE

Conflicting(gates, given) == Active(gates, given) # {} /\ Common(gates, given) = {}

\* No list at all when no gate counts, or when all that count allow nothing.
Compose(gates, given) ==
  IF Active(gates, given) = {} THEN {}
  ELSE IF Common(gates, given) # {} THEN {Common(gates, given)}
  ELSE IF Candidates(gates, given) = {} THEN {}
  ELSE {ListOf(given[Owner(gates, given)])}

\* What build_tool_schemas keeps of a registry.
Admitted(tools, lists) == {t \in tools : \A list \in lists : t \in list}
-----------------------------------------------------------------------------
Init ==
  /\ pc = "poll"
  /\ setup \in Setups
  /\ iteration = 0
  /\ assistants = setup.past
  /\ answers = <<>> /\ allow = {} /\ advertised = {} /\ conflict = FALSE
  /\ call = {} /\ ran = {} /\ denial = {}

\* OpeningGate narrows the first turn to its list, as far as it is registered.
OpeningAnswer(gate) ==
  [lists |-> IF iteration = 0 THEN {gate.list \cap setup.tools} ELSE {},
   suppresses |-> FALSE]

\* Only a gate that names a list is asked whether it suppresses others.
Answers(gate) ==
  IF gate.opening THEN {OpeningAnswer(gate)}
  ELSE {answer \in Answer : answer.suppresses => gate.owner /\ answer.lists # {}}

PollGate ==
  /\ pc = "poll"
  /\ Len(answers) < Len(setup.gates)
  /\ \E answer \in Answers(setup.gates[Len(answers) + 1]) :
       answers' = Append(answers, answer)
  /\ UNCHANGED <<pc, turn, allow, advertised, conflict, batch>>

Polled == pc = "poll" /\ Len(answers) = Len(setup.gates)

\* Mutant: the event is emitted only when there is a choice between lists.
SendQuietly ==
  /\ Polled
  /\ pc' = "request"
  /\ allow' = Compose(setup.gates, answers)
  /\ advertised' = Admitted(setup.tools, allow')
  /\ conflict' = ( /\ Conflicting(setup.gates, answers)
                   /\ Cardinality(Candidates(setup.gates, answers)) > 1 )
  /\ UNCHANGED <<turn, answers, batch>>

\* The lists are composed and the request is sent.
Send ==
  /\ Polled
  /\ pc' = "request"
  /\ allow' = Compose(setup.gates, answers)
  /\ advertised' = Admitted(setup.tools, allow')
  /\ conflict' = Conflicting(setup.gates, answers)
  /\ UNCHANGED <<turn, answers, batch>>

NoRequest == answers' = <<>> /\ allow' = {} /\ advertised' = {} /\ conflict' = FALSE

\* The attempt is thrown away; an overflow may have shortened the transcript.
\* The next one polls the gates anew, with the same iteration.
TryAgain ==
  /\ pc = "request"
  /\ pc' = "poll"
  /\ assistants' \in 0..assistants
  /\ NoRequest
  /\ UNCHANGED <<setup, iteration, batch>>

\* The model calls a tool, advertised or not.  Calls are judged one by one,
\* none by what happened to another: one stands for all.
CallTool ==
  /\ pc = "request"
  /\ pc' = "batch"
  /\ \E name \in Names : call' = {name}
  /\ assistants' = assistants + 1
  /\ UNCHANGED <<setup, iteration, request, ran, denial>>

\* The run ends with this turn, whatever the reason.
EndRun ==
  /\ pc \in {"request", "judged"}
  /\ pc' = "over"
  /\ UNCHANGED <<turn, request, batch>>

\* Mutant: a call is judged by the registry alone.
JudgeByRegistry ==
  /\ pc = "batch"
  /\ pc' = "judged"
  /\ ran' = call \cap setup.tools
  /\ UNCHANGED <<turn, request, call, denial>>

\* gate_attributed_denial counts the assistant messages of the transcript.
ShownIteration == assistants

\* A call runs if its tool is registered and on the list; a later check may
\* still refuse it.  The gates are asked why a registered tool was hidden.
Judge ==
  /\ pc = "batch"
  /\ pc' = "judged"
  /\ ran' \in {{}, call \cap Admitted(setup.tools, allow)}
  /\ denial' = IF call \subseteq setup.tools \ Admitted(setup.tools, allow) /\ setup.gates # <<>>
               THEN {ShownIteration} ELSE {}
  /\ UNCHANGED <<turn, request, call>>

\* The next turn has its own requests.
NextTurn ==
  /\ pc = "judged"
  /\ iteration + 1 < MaxTurns
  /\ pc' = "poll"
  /\ iteration' = iteration + 1
  /\ NoRequest
  /\ call' = {} /\ ran' = {} /\ denial' = {}
  /\ UNCHANGED <<setup, assistants>>

Ended == pc = "over" /\ UNCHANGED vars

Next ==
  \/ PollGate \/ Send \/ TryAgain \/ CallTool \/ Judge \/ NextTurn \/ EndRun
  \/ Ended

Spec == Init /\ [][Next]_vars
-----------------------------------------------------------------------------
(* Safety. *)

Sent == pc \in {"request", "batch", "judged"}

\* No call runs that the request the model answered did not advertise,
\* however many requests the turn took and whatever the gates said to each.
RanWasAdvertised == Sent => ran \subseteq advertised

\* A gate is overruled only in favour of a stronger one: an advisory gate by a
\* suppressing owner, any gate by one that is followed in its place; or because
\* it allows nothing.  Listeners are told whenever it was not suppressed.
OverruledByPriority ==
  Sent => \A g \in Decided(answers) :
    LET gates == setup.gates
        stronger(h) == gates[h].priority > gates[g].priority
        suppressed == /\ gates[g].advisory
                      /\ \E h \in Decided(answers) : answers[h].suppresses /\ stronger(h)
        replaced == \E h \in Decided(answers) :
                      /\ advertised \subseteq ListOf(answers[h])
                      /\ gates[h].priority >= gates[g].priority
    IN  \/ advertised \subseteq ListOf(answers[g])
        \/ suppressed
        \/ conflict /\ (ListOf(answers[g]) = {} \/ replaced)

\* Gates never leave the model without a tool: the catalog is empty only if
\* the registry is, or because a gate names tools that are not registered.
CatalogIsKept ==
  (Sent /\ advertised = {} /\ setup.tools # {}) =>
    \E g \in Decided(answers) : ~(ListOf(answers[g]) \subseteq setup.tools)

\* The outcome does not hang on the order in which gates were registered, as
\* long as their names differ.
OrderIsIrrelevant ==
  LET gates == setup.gates
      places == DOMAIN gates
      orders == {o \in [places -> places] : \A g, h \in places : g # h => o[g] # o[h]}
      distinct == \A g, h \in places : g # h => gates[g].name # gates[h].name
  IN  (pc = "request" /\ distinct) =>
        \A o \in orders :
          Compose([g \in places |-> gates[o[g]]], [g \in places |-> answers[o[g]]]) = allow
-----------------------------------------------------------------------------
(* What the repository says and the code does not do. *)

\* "On iteration 0 it advertises only the tools whose names are in the
\* configured allowlist (intersected with the tools the registry actually
\* has)" (opening_gate.rs:7-9), when the opening gate is the only one.
OpeningTurnIsNarrowed ==
  (Sent /\ iteration = 0 /\ Len(setup.gates) = 1 /\ setup.gates[1].opening) =>
    advertised \subseteq setup.gates[1].list
=============================================================================
