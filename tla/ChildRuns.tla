------------------------------- MODULE ChildRuns -------------------------------
(***************************************************************************)
(* How runs are configured and spawn children (src/config.rs AgentBuilder  *)
(* and child_builder, src/tool.rs ToolRegistry, src/types.rs RunIdentity   *)
(* and spawn_child). A host assembles one builder at a time, for a root or *)
(* on top of what a built run passes on, and builds it.                    *)
(*                                                                         *)
(* A plugin is [name, caps, heritable]. Options are functions from their   *)
(* names to values. own, touched and origin are history: what the host     *)
(* itself registered and set, and of the identity the run it derives from, *)
(* whether its id was generated for it (fresh), and whether the host named *)
(* its conversation.                                                       *)
(***************************************************************************)
EXTENDS Integers, Sequences, Subsequences

CONSTANTS
  Unset,      \* an option without a value
  Plugins,    \* the plugins there are
  Tools,      \* [name, version] of the tools there are
  Settings,   \* <<option, value>> the host may set
  Entries,    \* <<category, plugin>> the host may register one by one
  HostIds,    \* run ids the host may make up
  MaxRuns,    \* how many runs are built
  MaxCalls    \* how many builder calls the host makes for all of them

Categories == {"before_tool_call", "after_tool_call", "context_transform", "event_observer",
               "steering", "follow_up", "tool_gate"}

\* The options by what a child gets of them.
Plain == {"stream", "default_execution_mode", "reasoning", "token_estimator", "protocol"}
Optional == {"temperature", "max_output_tokens", "max_tool_calls_per_turn", "model_id"}
Fallback == {"fallback_tool", "fallback_eager", "fallback_eager_nudge"}
Personal == {"event_sink", "conversation_id", "provider_extras", "overflow_recovery"}
Options == Plain \cup Optional \cup Fallback \cup Personal

\* A plugin of some entry is a plugin, an option without a value has none, and
\* no id the host makes up is one that is generated (a number from 1 on).
ASSUME HostAssumption ==
  /\ Entries \subseteq Categories \X Plugins
  /\ Unset # 0
  /\ HostIds \cap Nat = {}

VARIABLES
  builder,   \* the builder in hand, or NoBuilder
  runs,      \* the runs built: configuration, context identity and spawner
  minted     \* how many run ids were generated

childVars == <<builder, runs, minted>>

NoBuilder == [spawner |-> -1]
-----------------------------------------------------------------------------
(* ToolRegistry: the tools by name, and the names in order. *)

EmptyRegistry == [order |-> <<>>, tools |-> <<>>]

\* A tool of a name that is taken replaces the other in its place.
Register(registry, tool) ==
  [order |-> IF tool.name \in DOMAIN registry.tools THEN registry.order
             ELSE Append(registry.order, tool.name),
   tools |-> [n \in DOMAIN registry.tools \cup {tool.name} |->
                IF n = tool.name THEN tool ELSE registry.tools[n]]]
-----------------------------------------------------------------------------
(* RunIdentity. *)

Anonymous == [run_id |-> 0]

Root(id) == [run_id |-> id, parent_run_id |-> 0, depth |-> 0, conversation_id |-> Unset]

\* Mutant: the parent that is named is the first of the lineage.
ChildOfFirst(parent, id) ==
  [parent EXCEPT !.run_id = id, !.depth = @ + 1,
                 !.parent_run_id = IF @ = 0 THEN parent.run_id ELSE @]

ChildOf(parent, id) ==
  [parent EXCEPT !.run_id = id, !.parent_run_id = parent.run_id, !.depth = @ + 1]

\* History: an identity of the library's making, for a child of run p or (0) for a root.
Generated(p) == [from |-> p, fresh |-> TRUE, named |-> FALSE]
-----------------------------------------------------------------------------
(* AgentBuilder. *)

\* A limit of no calls is a limit of one.
Clamp(option, value) ==
  IF option = "max_tool_calls_per_turn" /\ value = 0 THEN 1 ELSE value

Defaults ==
  [option \in Options |-> IF option \in {"fallback_eager", "fallback_eager_nudge"} THEN FALSE ELSE Unset]

NoPlugins == [c \in Categories |-> <<>>]

NewBuilder ==
  [spawner |-> 0, options |-> Defaults, registry |-> EmptyRegistry, plugins |-> NoPlugins,
   identity |-> Anonymous, own |-> NoPlugins, touched |-> {}, calls |-> 0,
   origin |-> [from |-> 0, fresh |-> FALSE, named |-> FALSE]]

\* Mutant: the eager flags are passed on for a parent without a fallback too,
\* but not the nudge.
PassedOnUnnudged(options) ==
  [option \in Options |->
     IF option \in (Plain \cup Optional \cup Fallback) \ {"fallback_eager_nudge"}
     THEN options[option] ELSE Defaults[option]]

\* What child_builder sets on a new builder: the fallback flags only with a
\* fallback.
PassedOn(options) ==
  [option \in Options |->
     IF \/ option \in Plain \cup Optional
        \/ option \in Fallback /\ options["fallback_tool"] # Unset
     THEN options[option] ELSE Defaults[option]]

OptedIn == {p \in Plugins : p.heritable}

\* Mutant: the observers are passed on as they are.
HeritableOrObserver(plugins) ==
  [c \in Categories |-> Kept(plugins[c], IF c = "event_observer" THEN Plugins ELSE OptedIn)]

Heritable(plugins) == [c \in Categories |-> Kept(plugins[c], OptedIn)]

ChildBuilder(parent) ==
  [NewBuilder EXCEPT !.options = PassedOn(parent.options),
                     !.registry = parent.registry,
                     !.plugins = Heritable(parent.plugins)]
-----------------------------------------------------------------------------
ChildInit ==
  /\ builder = NoBuilder
  /\ runs = <<>>
  /\ minted = 0

\* AgentBuilder::new and AgentContext::new. Bound: until a run is built or an
\* id generated the host may start over.
Begin ==
  /\ builder = NoBuilder
  /\ runs = <<>>
  /\ minted = 0
  /\ builder' = NewBuilder
  /\ UNCHANGED <<runs, minted>>

\* child_builder and spawn_child. An anonymous run is taken for a fresh root,
\* every time anew.
Spawn(p) ==
  /\ builder = NoBuilder
  /\ Len(runs) < MaxRuns
  /\ LET parent == runs[p]
         rootless == parent.identity = Anonymous
         self == IF rootless THEN Root(minted + 1) ELSE parent.identity
         id == IF rootless THEN minted + 2 ELSE minted + 1
     IN  /\ builder' = [ChildBuilder(parent) EXCEPT
                          !.spawner = p, !.identity = ChildOf(self, id), !.origin = Generated(p),
                          !.calls = runs[Len(runs)].calls]
         /\ minted' = id
  /\ UNCHANGED runs

Identified == {r \in DOMAIN runs : runs[r].identity # Anonymous}

Calling == builder # NoBuilder /\ builder.calls < MaxCalls

\* A setter.
SetOption(option, value) ==
  /\ Calling
  /\ builder' = [builder EXCEPT !.options[option] = Clamp(option, value),
                                !.touched = @ \cup {option}, !.calls = @ + 1]
  /\ UNCHANGED <<runs, minted>>

\* Another registry is installed: the builder's, with one tool more.
AddTool(tool) ==
  /\ Calling
  /\ builder' = [builder EXCEPT !.registry = Register(@, tool),
                                !.touched = @ \cup {"tools"}, !.calls = @ + 1]
  /\ UNCHANGED <<runs, minted>>

\* AgentBuilder::plugin: one entry for every capability.
AddPlugin(plugin) ==
  /\ Calling
  /\ LET added(lists) ==
           [c \in Categories |-> IF c \in plugin.caps THEN Append(lists[c], plugin) ELSE lists[c]]
     IN  builder' = [builder EXCEPT !.plugins = added(@), !.own = added(@), !.calls = @ + 1]
  /\ UNCHANGED <<runs, minted>>

\* The method of one category, whatever the plugin says it is capable of.
AddPluginAs(category, plugin) ==
  /\ Calling
  /\ builder' = [builder EXCEPT !.plugins[category] = Append(@, plugin),
                                !.own[category] = Append(@, plugin), !.calls = @ + 1]
  /\ UNCHANGED <<runs, minted>>

\* with_identity, on the context of any run to be: a new root, one derived from
\* the identity of a run, or that identity itself.
WithIdentity ==
  /\ Calling
  /\ \/ /\ builder' = [builder EXCEPT !.identity = Root(minted + 1), !.origin = Generated(0),
                                       !.calls = @ + 1]
        /\ minted' = minted + 1
     \/ \E q \in Identified :
          /\ builder' = [builder EXCEPT !.identity = ChildOf(runs[q].identity, minted + 1),
                                        !.origin = Generated(q), !.calls = @ + 1]
          /\ minted' = minted + 1
     \/ \E q \in Identified :
          /\ builder' = [builder EXCEPT !.identity = runs[q].identity,
                                        !.origin = [runs[q].origin EXCEPT !.fresh = FALSE],
                                        !.calls = @ + 1]
          /\ UNCHANGED minted
  /\ UNCHANGED runs

\* with_run_id: an id of the host's own, or one that was generated for another.
SupplyRunId ==
  /\ Calling
  /\ builder.identity # Anonymous
  /\ \E id \in HostIds \cup 1..minted :
       builder' = [builder EXCEPT !.identity.run_id = id, !.origin.fresh = FALSE, !.calls = @ + 1]
  /\ UNCHANGED <<runs, minted>>

\* with_conversation_id.
NameConversation ==
  /\ Calling
  /\ builder.identity # Anonymous
  /\ builder' = [builder EXCEPT !.identity.conversation_id = "other", !.origin.named = TRUE,
                                !.calls = @ + 1]
  /\ UNCHANGED <<runs, minted>>

\* Without a stream build fails, and the builder is gone.
Build ==
  /\ builder # NoBuilder
  /\ builder' = NoBuilder
  /\ runs' = IF builder.options["stream"] = Unset THEN runs ELSE Append(runs, builder)
  /\ UNCHANGED minted

ChildNext ==
  \/ Begin
  \/ \E p \in DOMAIN runs : Spawn(p)
  \/ \E s \in Settings : SetOption(s[1], s[2])
  \/ \E tool \in Tools : AddTool(tool)
  \/ \E plugin \in Plugins : AddPlugin(plugin)
  \/ \E e \in Entries : AddPluginAs(e[1], e[2])
  \/ WithIdentity \/ SupplyRunId \/ NameConversation
  \/ Build

ChildSpec == ChildInit /\ [][ChildNext]_childVars
-----------------------------------------------------------------------------
(* Safety. *)

\* A plain-text fallback takes effect only with a tool, and its nudge only if eager.
Effective(options) ==
  IF options["fallback_tool"] = Unset THEN <<>>
  ELSE <<options["fallback_tool"], options["fallback_eager"],
         options["fallback_eager"] /\ options["fallback_eager_nudge"]>>

IsChild(r) == runs[r].spawner > 0

\* A child runs as its parent does in everything the host left alone, through
\* any number of generations: same transport and limits, same tools, same
\* fallback behaviour; and no limit is ever zero (LoopConfig::child_builder).
\* (The eager flags have no effect without a tool, and those of a parent without
\* one are not passed on: a child that is given a tool starts without them.)
SameShape ==
  \A r \in DOMAIN runs :
    /\ runs[r].options["max_tool_calls_per_turn"] # 0
    /\ IsChild(r) =>
         LET parent == runs[runs[r].spawner]
             kept(set) == set \cap runs[r].touched = {}
         IN  /\ \A o \in Plain \cup Optional : kept({o}) => runs[r].options[o] = parent.options[o]
             /\ kept(Fallback) => Effective(runs[r].options) = Effective(parent.options)
             /\ kept({"tools"}) => runs[r].registry = parent.registry

\* What the plugins of a run's lineage come to for its children, oldest first.
PassedDown(c) ==
  LET of[r \in 0 .. Len(runs)] ==
        IF r = 0 THEN <<>> ELSE of[runs[r].spawner] \o Kept(runs[r].own[c], OptedIn)
  IN  of

\* A run is watched by its own plugins and by those of its ancestors that opted
\* in, and by no others: its own come last, the inherited ones in the order
\* their owners registered them, oldest ancestor first. And no run has a sink,
\* a conversation id, extras or a recovery that was set on another.
ParentOnlyStays ==
  \A r \in DOMAIN runs :
    /\ \A c \in Categories :
         runs[r].plugins[c] = PassedDown(c)[runs[r].spawner] \o runs[r].own[c]
    /\ \A o \in Personal \ runs[r].touched : runs[r].options[o] = Unset

\* The runs whose records bear an id.
Bearers(id) == {q \in Identified : runs[q].identity.run_id = id}

\* What a reader of the records finds who follows parent ids from run r.
Found(r) ==
  LET up[n \in 0 .. Len(runs)] ==
        IF n = 0 THEN {r}
        ELSE UNION {Bearers(runs[q].identity.parent_run_id) : q \in up[n - 1]}
  IN  up

\* The runs its identity comes from, one before the other.
Ancestor(r) ==
  LET up[n \in 0 .. Len(runs)] ==
        IF n = 0 THEN r ELSE IF up[n - 1] = 0 THEN 0 ELSE runs[up[n - 1]].origin.from
  IN  up

\* Who follows parent ids from a run meets its ancestors one after the other,
\* is at the first in as many steps as the run is deep (which no record bears
\* if that run was anonymous), and finds no other run on the way but through
\* an id the host supplied. And the conversation of an ancestor is the run's
\* own, unless the host named another in between.
LineageIsTraceable ==
  \A r \in Identified :
    LET depth == runs[r].identity.depth
        found == Found(r)
        ancestor == Ancestor(r)
    IN  /\ depth < Len(runs)
        /\ ancestor[depth] # 0 /\ runs[ancestor[depth]].origin.from = 0
        /\ \A n \in 0..depth :
             /\ ancestor[n] \in Identified => ancestor[n] \in found[n]
             /\ (\A m \in 0..n : \A q \in found[m] : runs[q].origin.fresh) => found[n] \subseteq {ancestor[n]}
             /\ /\ ancestor[n] \in Identified
                /\ \A m \in 0 .. n - 1 : ~runs[ancestor[m]].origin.named
                => runs[ancestor[n]].identity.conversation_id = runs[r].identity.conversation_id
-----------------------------------------------------------------------------
(* What the repository says and the code does not do. *)

\* parent_run_id is "Some(parent.run_id) when this run was spawned by another
\* run" (types.rs:434): the children of one run name one parent.
SiblingsShareParent ==
  \A r, q \in DOMAIN runs :
    runs[r].origin.from # 0 /\ runs[r].origin.from = runs[q].origin.from =>
      runs[r].identity.parent_run_id = runs[q].identity.parent_run_id
=============================================================================
