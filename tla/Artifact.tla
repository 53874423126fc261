------------------------------- MODULE Artifact -------------------------------
(***************************************************************************)
(* The Capability Artifact of cua.artifact.models: what a recorded flow    *)
(* is, and what its validators accept.  Identifiers, names, values and     *)
(* texts are opaque; patterns that only constrain their spelling are left  *)
(* out.  A record's fields are the model's; None is an absent one.         *)
(***************************************************************************)
EXTENDS Integers, Sequences, FiniteSets, FiniteSetsExt

CONSTANT None

ActionType == {"navigate", "click", "type", "select", "wait_for", "extract",
               "assert_checkpoint", "dismiss"}
RiskLevel  == {"safe", "sensitive", "risky_irreversible"}
Category   == {"business_outcome", "recoverable", "hard_failure"}
ParamType  == {"string", "integer", "number", "boolean", "enum"}

TargetedActions    == ActionType \ {"navigate"}
ValueSourceActions == {"type", "select"}

(***************************************************************************)
(* ParamSpec._validate_shape.  A parameter is                              *)
(*   [name, type, required, default, sensitive, pattern, choices]          *)
(* where pattern and choices are sets of values, or None.  The parameters  *)
(* of an artifact are a set, and have distinct names: the code asks neither*)
(* (of two of one name it validates both and uses the last default).       *)
(***************************************************************************)
ParamShapeOK(p) ==
  /\ p.pattern # None => p.type = "string"
  /\ p.type = "enum" => p.choices \notin {None, {}}
  /\ p.type # "enum" => p.choices = None
  /\ ~(p.sensitive /\ p.default # None)

(***************************************************************************)
(* Step._validate_shape.  A step is                                        *)
(*   [id, action, target, param, literal, output, risk, rationale, retries]*)
(* and no validator looks at max_retries.  Whether a literal reads like an *)
(* SSN or a card number is _looks_like_pii's to say, from its digits; here *)
(* two texts stand for those that do.                                      *)
(***************************************************************************)
LooksLikePii == {"an SSN", "a card number"}

\* Mutant: nothing is asked of a TYPE or SELECT step's value.
StepShapeWithoutSource(s) ==
  /\ s.action = "navigate" => /\ s.literal # None \/ s.param # None
                              /\ s.target = None
  /\ s.action \in TargetedActions => s.target # None
  /\ s.action = "extract" => s.output # None
  /\ s.risk = "risky_irreversible" => s.rationale
  /\ s.literal \notin LooksLikePii

StepShapeOK(s) ==
  /\ s.action = "navigate" => /\ s.literal # None \/ s.param # None
                              /\ s.target = None
  /\ s.action \in TargetedActions => s.target # None
  /\ s.action \in ValueSourceActions => (s.param # None) # (s.literal # None)
  /\ s.action = "extract" => s.output # None
  /\ s.risk = "risky_irreversible" => s.rationale
  /\ s.literal \notin LooksLikePii

(***************************************************************************)
(* CapabilityArtifact._validate_contract, but for the content hash.  An    *)
(* artifact is [steps, params, outputs, outcomes, checkpoint, domains,     *)
(* actions, tenant, base]; outputs are [name, nullable, sensitive].        *)
(***************************************************************************)
StepsOf(a)  == {a.steps[i] : i \in DOMAIN a.steps}
ParamNames(a)  == {p.name : p \in a.params}
OutputNames(a) == {o.name : o \in a.outputs}

UsedParams(a)  == {s.param : s \in StepsOf(a)} \ {None}
UsedOutputs(a) == {s.output : s \in StepsOf(a)} \ {None}
RequiredOutputs(a) == {o.name : o \in {out \in a.outputs : ~out.nullable}}

NoDuplicateIds(a) ==
  \A i, j \in DOMAIN a.steps : a.steps[i].id = a.steps[j].id => i = j

\* Mutant: a required output need not be any step's.
ContractWithoutOutputs(a) ==
  /\ a.steps # <<>>
  /\ NoDuplicateIds(a)
  /\ UsedParams(a) = ParamNames(a)
  /\ UsedOutputs(a) \subseteq OutputNames(a)
  /\ {s.action : s \in StepsOf(a)} \subseteq a.actions
  /\ a.tenant # None => a.base # None

ContractOK(a) ==
  /\ a.steps # <<>>
  /\ NoDuplicateIds(a)
  /\ UsedParams(a) = ParamNames(a)            \* none undeclared, none unused
  /\ UsedOutputs(a) \subseteq OutputNames(a)
  /\ RequiredOutputs(a) \subseteq UsedOutputs(a)
  /\ {s.action : s \in StepsOf(a)} \subseteq a.actions
  /\ a.tenant # None => a.base # None

\* What model_validate accepts: every part, then the whole.
Valid(a) ==
  /\ \A p \in a.params : ParamShapeOK(p)
  /\ \A s \in StepsOf(a) : StepShapeOK(s)
  /\ ContractOK(a)
=============================================================================
