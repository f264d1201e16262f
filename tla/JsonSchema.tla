------------------------------ MODULE JsonSchema ------------------------------
(***************************************************************************)
(* What a JSON Schema document says of a value, independently of Tabby: the *)
(* reference its reading of Herdr's schema is held against.                 *)
(***************************************************************************)
EXTENDS HerdrClient

TypeNames(v) ==
    CASE v.kind # "number"     -> {v.kind}
      [] v.kind = "number" /\ v.size = "fraction" -> {"number"}
      [] OTHER                 -> {"number", "integer"}

(* Formats are those of Rust's integers, as Herdr prints and keeps them.    *)
FormatSizes(format) ==
    CASE format = "uint32"                -> {"u32"}
      [] format \in {"uint", "uint64"}    -> {"u32", "u64"}
      [] format = "int64"                 -> {"negative", "u32"}
      [] OTHER                            -> {"negative", "u32", "u64", "larger", "fraction"}

(* other: whether keywords Tabby does not know are taken to hold.           *)
RECURSIVE Validates(_, _, _, _)
Validates(d, n, v, other) ==
    LET s == d[n]
        Holds(m) == Validates(d, m, v, other)
        Held(variants) == {i \in DOMAIN variants : Holds(variants[i])}
        keys == IF v.kind = "object" THEN DOMAIN v.fields ELSE {}
    IN  /\ s.ref # None => s.ref \in DOMAIN d \ {n} /\ Holds(s.ref)
        /\ s.boolean \in {None, TRUE}
        /\ s.type = None \/ s.type \cap TypeNames(v) # {}
        /\ v.kind = "number" => v.size \in FormatSizes(s.format)
        /\ s.const = None \/ v = Text(s.const)
        /\ s.enum = None \/ v \in {Text(x) : x \in s.enum}
        /\ v.kind = "object" =>
             /\ s.required \subseteq keys
             /\ s.closed => keys \subseteq DOMAIN s.props
             /\ \A f \in keys \cap DOMAIN s.props : Validates(d, s.props[f], v.fields[f], other)
        /\ v.kind = "array" /\ s.items # None =>
             \A x \in Range(v.elements) : Validates(d, s.items, x, other)
        /\ Held(s.allOf) = DOMAIN s.allOf
        /\ s.anyOf = <<>> \/ Held(s.anyOf) # {}
        /\ s.oneOf = <<>> \/ Cardinality(Held(s.oneOf)) = 1
        /\ s.other => other
==============================================================================
