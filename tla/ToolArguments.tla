----------------------------- MODULE ToolArguments -----------------------------
(***************************************************************************)
(* The typed boundary of a tool (src/tool.rs, the blanket AgentTool of a   *)
(* TypedAgentTool): the schema of its arguments is flattened before it is  *)
(* advertised, and the arguments of a call lose their nulls and have their *)
(* quoted scalars unquoted, by that same schema, before serde parses them. *)
(*                                                                         *)
(* An argument type is a list of variants, each a list of properties in    *)
(* declaration order. A type of one variant without oneOf is a plain       *)
(* struct. prepare_arguments is its default, which changes nothing.        *)
(***************************************************************************)
EXTENDS Naturals, Sequences, SequencesExt

CONSTANTS
  ToolTypes,   \* the argument types there are
  Emitted      \* what a model may send: functions from names to values

\* Values, by what the pipeline tells apart. "'50'" is a string that spells 50.
TypeOf(v) ==
  CASE v = "null" -> "null"
    [] v = "50" -> "integer"
    [] v \in {"50.0", "0.5"} -> "number"
    [] v = "true" -> "boolean"
    [] v = "[]" -> "array"
    [] OTHER -> "string"

\* Property: its name, the types it allows, and the one value a tag has.
Property(name, types, only) == [name |-> name, types |-> types, only |-> only]

NoTag == "any"

\* ToolType: oneOf says the schema is a oneOf of its variants.
Names(variant) == {variant.props[i].name : i \in DOMAIN variant.props}

PropOf(variant, name) ==
  variant.props[CHOOSE i \in DOMAIN variant.props : variant.props[i].name = name]

\* The schema of an argument type is an object, so that its properties have
\* different names, and a tag is one string.
IsToolType(t) ==
  /\ t.variants \in Seq(ToSet(t.variants)) \ {<<>>}
  /\ t.oneOf \in BOOLEAN
  /\ ~t.oneOf => Len(t.variants) = 1
  /\ \A i \in DOMAIN t.variants :
       LET variant == t.variants[i]
           props == variant.props
       IN  /\ props \in Seq(ToSet(props))
           /\ \A j, k \in DOMAIN props : props[j].name = props[k].name => j = k
           /\ \A j \in DOMAIN props : props[j].only # NoTag => "string" \in props[j].types
           /\ variant.required \subseteq Names(variant)
           /\ \A name \in variant.required : "null" \notin PropOf(variant, name).types

ASSUME ToolTypeAssumption == \A t \in ToolTypes : IsToolType(t)

VARIABLES
  type,      \* the tool's argument type (never changes)
  schema,    \* parameters_schema
  emitted,   \* the arguments as the model sent them
  args,      \* the arguments on their way through execute
  stage      \* where they are

argVars == <<type, schema, emitted, args, stage>>
-----------------------------------------------------------------------------
(* serde, as derived for these types: tagged enums that deny unknown fields. *)

Fits(prop, v) ==
  /\ prop.only # NoTag => v = prop.only
  /\ \/ TypeOf(v) \in prop.types
     \/ TypeOf(v) = "integer" /\ "number" \in prop.types

Parses(variant, given) ==
  /\ DOMAIN given \subseteq Names(variant)
  /\ variant.required \subseteq DOMAIN given
  /\ \A name \in DOMAIN given : Fits(PropOf(variant, name), given[name])

ParsesAs(t, given) == {i \in DOMAIN t.variants : Parses(t.variants[i], given)}
-----------------------------------------------------------------------------
(* flatten_tagged_oneof_schema. *)

TagPositions(variant) == {i \in DOMAIN variant.props : variant.props[i].only # NoTag}

\* A variant's tag is its first property of a single value.
TagProp(variant) ==
  variant.props[CHOOSE i \in TagPositions(variant) :
                  \A j \in TagPositions(variant) : i <= j]

\* Every variant has a tag, of one name.
Dispatched(t) ==
  /\ t.oneOf
  /\ \A i \in DOMAIN t.variants : TagPositions(t.variants[i]) # {}
  /\ \A i, j \in DOMAIN t.variants :
       TagProp(t.variants[i]).name = TagProp(t.variants[j]).name

Discriminator(t) == TagProp(t.variants[1]).name

Tags(t) == {TagProp(t.variants[i]).only : i \in DOMAIN t.variants}

Owners(t, name) == {i \in DOMAIN t.variants : name \in Names(t.variants[i])}

MergedNames(t) ==
  (UNION {Names(t.variants[i]) : i \in DOMAIN t.variants}) \ {Discriminator(t)}

\* The first variant that has a property says what it is.
Merged(t, name) ==
  PropOf(t.variants[CHOOSE i \in Owners(t, name) : \A j \in Owners(t, name) : i <= j], name)

\* Mutant: what any variant requires is required.
FlatRequiredOfAny(t) == UNION {t.variants[i].required : i \in DOMAIN t.variants}

\* Only the tag can be required, and only if every variant requires it.
FlatRequired(t) ==
  {name \in {Discriminator(t)} : \A i \in DOMAIN t.variants : name \in t.variants[i].required}

\* The annotation of a property: the kinds it applies to. One that every
\* variant owns applies to all and is not annotated.
AppliesTo(t, name) == {TagProp(t.variants[i]).only : i \in Owners(t, name)}

Annotated(t, name) == Len(t.variants) > 1 /\ Owners(t, name) # DOMAIN t.variants

Flattened(t) ==
  [flat |-> TRUE,
   props |-> [name \in MergedNames(t) |-> Merged(t, name)],
   kinds |-> Tags(t),
   required |-> FlatRequired(t),
   applies |-> [name \in {n \in MergedNames(t) : Annotated(t, n)} |-> AppliesTo(t, name)]]

\* A struct is flat already; a oneOf without a common tag is left alone, and
\* then has no properties at its top.
PassedThrough(t) ==
  [flat |-> ~t.oneOf,
   props |-> IF t.oneOf THEN <<>>
             ELSE [name \in Names(t.variants[1]) |-> PropOf(t.variants[1], name)],
   kinds |-> {},
   required |-> IF t.oneOf THEN {} ELSE t.variants[1].required,
   applies |-> <<>>]

ParametersSchema(t) == IF Dispatched(t) THEN Flattened(t) ELSE PassedThrough(t)
-----------------------------------------------------------------------------
(* What execute does to the arguments. *)

StripNulls(given) ==
  [name \in {n \in DOMAIN given : given[n] # "null"} |-> given[name]]

\* scalar_target_from_schema: the one scalar type a property has beside null.
Target(types) ==
  {t \in types \cap {"integer", "number", "boolean"} : types \ {"null"} = {t}}

Unquoted(v, target) ==
  CASE v = "'50'" /\ target = {"integer"} -> "50"
    [] v = "'50'" /\ target = {"number"} -> "50.0"
    [] v = "'0.5'" /\ target = {"number"} -> "0.5"
    [] v = "'true'" /\ target = {"boolean"} -> "true"
    [] OTHER -> v

\* coerce_string_scalars_at_top_level.
Coerced(s, given) ==
  [name \in DOMAIN given |->
     IF name \in DOMAIN s.props THEN Unquoted(given[name], Target(s.props[name].types))
     ELSE given[name]]
-----------------------------------------------------------------------------
ArgInit ==
  /\ type \in ToolTypes
  /\ schema = PassedThrough(type)
  /\ emitted = <<>>
  /\ args = <<>>
  /\ stage = "declared"

\* parameters_schema, as the request and every execute compute it.
Advertise ==
  /\ stage = "declared"
  /\ stage' = "advertised"
  /\ schema' = ParametersSchema(type)
  /\ UNCHANGED <<type, emitted, args>>

\* The model calls the tool; it need not follow the schema.
Call ==
  /\ stage = "advertised"
  /\ stage' = "called"
  /\ emitted' \in Emitted
  /\ args' = emitted'
  /\ UNCHANGED <<type, schema>>

\* Mutant: nulls are left to serde.
StripNothing ==
  /\ stage = "called"
  /\ stage' = "stripped"
  /\ UNCHANGED <<type, schema, emitted, args>>

Strip ==
  /\ stage = "called"
  /\ stage' = "stripped"
  /\ args' = StripNulls(args)
  /\ UNCHANGED <<type, schema, emitted>>

Coerce ==
  /\ stage = "stripped"
  /\ stage' = "coerced"
  /\ args' = Coerced(schema, args)
  /\ UNCHANGED <<type, schema, emitted>>

\* Arguments that do not parse are answered, not failed: the model may repair
\* its call.
Parse ==
  /\ stage = "coerced"
  /\ stage' = IF ParsesAs(type, args) # {} THEN "ran" ELSE "rejected"
  /\ UNCHANGED <<type, schema, emitted, args>>

\* The call is over, one way or the other.
Answer ==
  /\ stage \in {"ran", "rejected"}
  /\ stage' = "advertised"
  /\ emitted' = <<>>
  /\ args' = <<>>
  /\ UNCHANGED <<type, schema>>

ArgNext == Advertise \/ Call \/ Strip \/ Coerce \/ Parse \/ Answer

ArgSpec == ArgInit /\ [][ArgNext]_argVars
-----------------------------------------------------------------------------
(* Safety. *)

\* The variants mean the same by every name they share but the tag.
Agreeing(t) ==
  Dispatched(t) =>
    \A i, j \in DOMAIN t.variants :
      \A name \in (Names(t.variants[i]) \cap Names(t.variants[j])) \ {Discriminator(t)} :
        PropOf(t.variants[i], name) = PropOf(t.variants[j], name)

\* What a provider that enforces the advertised schema lets a model send.
Admits(given) ==
  IF ~schema.flat THEN ParsesAs(type, given) # {}
  ELSE /\ schema.required \subseteq DOMAIN given
       /\ \A name \in DOMAIN given \cap DOMAIN schema.props : Fits(schema.props[name], given[name])
       /\ schema.kinds # {} /\ Discriminator(type) \in DOMAIN given
            => given[Discriminator(type)] \in schema.kinds

\* Flattening must not cost the model a call it could make before: whatever a
\* variant accepts, the advertised schema admits, and the annotations do not
\* warn against. (Only of variants that agree: of a name they differ on, the
\* schema keeps what the first variant says, and does cost the others calls.)
SchemaAdmitsVariants ==
  stage = "called" /\ Agreeing(type) =>
    \A i \in ParsesAs(type, emitted) :
      /\ Admits(emitted)
      /\ \A name \in DOMAIN emitted \cap DOMAIN schema.applies :
           TagProp(type.variants[i]).only \in schema.applies[name]

\* Reference: a call is meant for a variant if, nulls aside, it gives the
\* names the variant knows, all it requires, and values of their types or
\* strings that spell one, where the type is a single scalar.
Spells(v, types) ==
  \E t \in types : types \subseteq {t, "null"} /\
    \/ v = "'50'" /\ t \in {"integer", "number"}
    \/ v = "'0.5'" /\ t = "number"
    \/ v = "'true'" /\ t = "boolean"

MeantFor(variant) ==
  LET given == {name \in DOMAIN emitted : emitted[name] # "null"}
  IN  /\ given \subseteq Names(variant)
      /\ variant.required \subseteq given
      /\ \A name \in given :
           LET prop == PropOf(variant, name)
           IN  Fits(prop, emitted[name]) \/ (schema.flat /\ prop.only = NoTag /\ Spells(emitted[name], prop.types))

\* A call runs exactly if it is meant for some variant: no call is refused for
\* a null or a quoted scalar, and none is let through that leaves a variant
\* in doubt. (Only of variants that agree: of a name they differ on, a string
\* may be coerced for one variant that was meant for another; see
\* AmbiguousIsUntouched.)
RunsWhatWasMeant ==
  stage \in {"ran", "rejected"} /\ Agreeing(type) =>
    (stage = "ran" <=> \E i \in DOMAIN type.variants : MeantFor(type.variants[i]))
-----------------------------------------------------------------------------
(* What the repository says and the code does not do. *)

\* "any ambiguity (multi-type schemas, untyped properties, unparseable
\* strings) preserves the original value" (tool.rs:634-636), whatever the
\* variants say of a name they share.
AmbiguousIsUntouched ==
  stage = "ran" =>
    \A i \in ParsesAs(type, args) : \A name \in DOMAIN args :
      Fits(PropOf(type.variants[i], name), emitted[name]) => args[name] = emitted[name]
=============================================================================
