-------------------------- MODULE MC_ToolArguments --------------------------
(***************************************************************************)
(* Instances of ToolArguments for TLC: structs, enums tagged "kind" of two *)
(* variants that share a property x and may have a y of their own, with    *)
(* every combination of types and requirements, an enum whose variants     *)
(* carry a second constant, and enums without a common tag.                *)
(***************************************************************************)
EXTENDS ToolArguments

TypeSets == {{"integer"}, {"number", "null"}, {"boolean"}, {"string"}, {"string", "integer"}}

Plain(name, types) == Property(name, types, NoTag)
Const(name, value) == Property(name, {"string"}, value)

Variant(props, required) == [props |-> props, required |-> required]
Enum(a, b) == [oneOf |-> TRUE, variants |-> <<a, b>>]

\* What a variant may require of x and y.
Requirable(name, types) == IF "null" \in types THEN {{}} ELSE {{}, {name}}

Structs == UNION {{[oneOf |-> FALSE, variants |-> <<Variant(<<Plain("x", t)>>, r)>>]
                     : r \in Requirable("x", t)} : t \in TypeSets}

TaggedEnums ==
  UNION {{Enum(Variant(<<Const("kind", "a"), Plain("x", t)>>, {"kind"} \cup r),
               Variant(<<Const("kind", "b"), Plain("x", u), Plain("y", {"integer"})>>, {"kind"} \cup q))
            : r \in Requirable("x", t), q \in {{}, {"y"}}} : t \in TypeSets, u \in TypeSets}

DisjointEnums ==
  {Enum(Variant(<<Const("kind", "a"), Plain("x", t)>>, {"kind"}),
        Variant(<<Const("kind", "b"), Plain("y", u)>>, {"kind"})) : t \in TypeSets, u \in TypeSets}

OddEnums ==
  {\* the tag need not come first, and a second constant is a property like any
   Enum(Variant(<<Plain("x", {"integer"}), Const("kind", "a")>>, {"kind"}),
        Variant(<<Const("kind", "b"), Const("y", "v")>>, {"kind", "y"})),
   \* tags of different names, and no tag at all
   Enum(Variant(<<Const("kind", "a"), Plain("x", {"integer"})>>, {"kind"}),
        Variant(<<Const("y", "b")>>, {"y"})),
   Enum(Variant(<<Plain("x", {"integer"})>>, {"x"}), Variant(<<Plain("y", {"boolean"})>>, {"y"}))}

mc_ToolTypes == Structs \cup TaggedEnums \cup DisjointEnums \cup OddEnums

Some(values) == values \cup {"null", "50", "'50'", "'0.5'", "true", "'true'", "word"}

mc_Emitted ==
  UNION {[names -> Some({})] : names \in SUBSET {"x", "y"}}
  \cup UNION {{[n \in names \cup {"kind"} |-> IF n = "kind" THEN k ELSE f[n]]
                 : k \in {"a", "b", "null", "c"}, f \in [names -> Some({"0.5", "v"})]}
              : names \in SUBSET {"x", "y"}}
=============================================================================
