-------------------------------- MODULE Inputs --------------------------------
(***************************************************************************)
(* cua.replay.inputs: what an invocation's raw inputs become.  A value is  *)
(* [kind, text]: its Python type and what str() makes of it.               *)
(***************************************************************************)
EXTENDS Artifact

\* Mutant: a bool passes for the int it is.
BoolAcceptedAsInt(p, v) ==
  IF p.type = "enum" THEN v \in p.choices
  ELSE /\ v.kind \in CASE p.type = "string"  -> {"str"}
                       [] p.type = "integer" -> {"int", "bool"}
                       [] p.type = "number"  -> {"int", "float", "bool"}
                       [] p.type = "boolean" -> {"bool"}
       /\ p.pattern # None => v \in p.pattern

\* _coerce_and_validate.  A bool is an int to isinstance(), so the code rules
\* it out explicitly for every type but boolean.
ValueAccepted(p, v) ==
  IF p.type = "enum" THEN v \in p.choices
  ELSE /\ (v.kind = "bool") = (p.type = "boolean")
       /\ v.kind \in CASE p.type = "string"  -> {"str"}
                       [] p.type = "integer" -> {"int", "bool"}
                       [] p.type = "number"  -> {"int", "float", "bool"}
                       [] p.type = "boolean" -> {"bool"}
       /\ p.pattern # None => v \in p.pattern

\* The names that end up with a value: those supplied, and those with a
\* default.  A default is taken as it stands.
ResolvedInputs(a, raw) ==
  LET with == {p \in a.params : p.name \in DOMAIN raw \/ p.default # None}
  IN  [name \in {p.name : p \in with} |->
         IF name \in DOMAIN raw THEN raw[name]
         ELSE (CHOOSE p \in with : p.name = name).default]

\* _ensure_step_dependencies_satisfied
DependenciesSatisfied(a, resolved) == UsedParams(a) \subseteq DOMAIN resolved

\* validate_inputs returns (rather than raising ReplayInputError).
InputsAccepted(a, raw) ==
  /\ DOMAIN raw \subseteq ParamNames(a)
  /\ \A p \in a.params :
       /\ p.name \in DOMAIN raw => ValueAccepted(p, raw[p.name])
       /\ p.required /\ p.default = None => p.name \in DOMAIN raw
  /\ DependenciesSatisfied(a, ResolvedInputs(a, raw))

\* The steps whose action carries a value: those that navigate, type or select.
DrawsValue == ValueSourceActions \cup {"navigate"}

\* engine._resolve_value: the text a step types, selects or goes to.
ResolveValue(s, inputs) ==
  IF s.literal # None THEN s.literal
  ELSE LET v == inputs[s.param]
       IN  CASE v.kind = "bool" -> IF v.text = "True" THEN "true" ELSE "false"
             [] v.kind # "bool" -> v.text
=============================================================================
