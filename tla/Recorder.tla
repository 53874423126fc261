------------------------------- MODULE Recorder -------------------------------
(***************************************************************************)
(* cua.agent.recorder: what a transcript of acted steps becomes.           *)
(*                                                                         *)
(* A transcript entry is [decision, observation, ok]; a decision is        *)
(*   [action, frame, ref, value, output], as parse_agent_decision lets it  *)
(* through.  What the human adds is a record                               *)
(*   [parameterize, params, outputs, outcomes, checkpoint, tenant, base]   *)
(* where parameterize maps literal values to parameter names.              *)
(***************************************************************************)
EXTENDS Locator

CONSTANT Colon      \* the word of a name that is its trailing colon

-----------------------------------------------------------------------------
(***************************************************************************)
(* infer_target, for the node at a position of an observation.             *)
(***************************************************************************)

\* The chain of ancestors _infer_label climbs, from the node itself; 0 is past
\* a node without a parent, or whose parent is not there.
Ancestors(obs, i) ==
  LET up[k \in 0..Len(obs.nodes)] ==
        IF k = 0 THEN i
        ELSE IF up[k - 1] = 0 \/ obs.nodes[up[k - 1]].parent = None THEN 0
             ELSE FindByRef(obs, obs.nodes[i].frame, obs.nodes[up[k - 1]].parent)
  IN  up

\* The levels it reaches: no parent twice ("seen").
Levels(obs, i) ==
  LET up == Ancestors(obs, i)
      parent(k) == obs.nodes[up[k]].parent
  IN  {k \in DOMAIN up : /\ up[k] # 0
                         /\ parent(k) # None
                         /\ \A j \in 0..(k - 1) : parent(j) # parent(k)}

NamedSiblings(obs, i, current) ==
  {j \in Positions(obs) :
     /\ obs.nodes[j].frame = obs.nodes[i].frame
     /\ obs.nodes[j].parent = obs.nodes[current].parent
     /\ obs.nodes[j].ref # obs.nodes[current].ref
     /\ obs.nodes[j].name # {}}

\* The node whose name becomes the label, 0 if there is none.
LabelNode(obs, i) ==
  LET up      == Ancestors(obs, i)
      labelled == {k \in Levels(obs, i) : NamedSiblings(obs, i, up[k]) # {}}
  IN  IF labelled = {} THEN 0 ELSE Min(NamedSiblings(obs, i, up[Min(labelled)]))

\* A target of one rung, with the default policy.
Only(tier) == [tiers |-> <<tier>>, policy |-> "escalate_on_ambiguous"]

SameRoleBefore(obs, i) ==
  {j \in Positions(obs) : /\ j < i
                          /\ obs.nodes[j].frame = obs.nodes[i].frame
                          /\ obs.nodes[j].role = obs.nodes[i].role}

\* Mutant: the name is used, data or not.
InferTargetByName(obs, i, nameIsData) ==
  LET node  == obs.nodes[i]
      label == LabelNode(obs, i)
  IN  CASE node.name # {} ->
             Only([strategy |-> "role_name", role |-> node.role, name |-> node.name])
        [] node.name = {} /\ label # 0 ->
             Only([strategy |-> "label_proximity", near |-> obs.nodes[label].name \ {Colon},
                   control |-> node.role])
        [] OTHER ->
             Only([strategy |-> "anchored_region", frame |-> node.frame, region |-> node.role,
                   index |-> Cardinality(SameRoleBefore(obs, i))])

\* Mutant: the position is counted from one.
InferTargetFromOne(obs, i, nameIsData) ==
  LET node  == obs.nodes[i]
      label == LabelNode(obs, i)
  IN  CASE node.name # {} /\ ~nameIsData ->
             Only([strategy |-> "role_name", role |-> node.role, name |-> node.name])
        [] (node.name = {} \/ nameIsData) /\ label # 0 ->
             Only([strategy |-> "label_proximity", near |-> obs.nodes[label].name \ {Colon},
                   control |-> node.role])
        [] OTHER ->
             Only([strategy |-> "anchored_region", frame |-> node.frame, region |-> node.role,
                   index |-> Cardinality(SameRoleBefore(obs, i)) + 1])

InferTarget(obs, i, nameIsData) ==
  LET node  == obs.nodes[i]
      label == LabelNode(obs, i)
  IN  CASE node.name # {} /\ ~nameIsData ->
             Only([strategy |-> "role_name", role |-> node.role, name |-> node.name])
        [] (node.name = {} \/ nameIsData) /\ label # 0 ->
             Only([strategy |-> "label_proximity", near |-> obs.nodes[label].name \ {Colon},
                   control |-> node.role])
        [] OTHER ->
             Only([strategy |-> "anchored_region", frame |-> node.frame, region |-> node.role,
                   index |-> Cardinality(SameRoleBefore(obs, i))])

-----------------------------------------------------------------------------
(***************************************************************************)
(* build_artifact_from_discovery, for a run that reached its goal.         *)
(***************************************************************************)

\* _parameterize_value
Parameterized(value, human) == value # None /\ value \in DOMAIN human.parameterize
ParamOf(value, human)   == IF Parameterized(value, human) THEN human.parameterize[value] ELSE None
LiteralOf(value, human) == IF Parameterized(value, human) THEN None ELSE value

\* The parameters of parameterize that the human did not declare.
ImpliedParams(human) ==
  {[name |-> name, type |-> "string", required |-> TRUE, default |-> None,
    sensitive |-> FALSE, pattern |-> None, choices |-> None] :
     name \in {human.parameterize[v] : v \in DOMAIN human.parameterize}
              \ {p.name : p \in human.params}}

TakesValue(action) == action \in {"navigate", "type", "select"}

ActedOn(entry) == FindByRef(entry.observation, entry.decision.frame, entry.decision.ref)

TargetOf(entry) ==
  IF entry.decision.action = "navigate" THEN None
  ELSE InferTarget(entry.observation, ActedOn(entry), entry.decision.action = "extract")

StepOf(entry, i, human) ==
  LET d == entry.decision
  IN  [id |-> i, action |-> d.action, target |-> TargetOf(entry),
       param   |-> IF TakesValue(d.action) THEN ParamOf(d.value, human) ELSE None,
       literal |-> IF TakesValue(d.action) THEN LiteralOf(d.value, human) ELSE None,
       output  |-> IF d.action = "extract" THEN d.output ELSE None,
       risk |-> "safe", rationale |-> FALSE, retries |-> 0]

\* Mutant: only the page the run ended on is looked at.
DomainsOfTheEnd(transcript, final) == {final.domain}

\* _all_observations: one an entry, and the last one.
DomainsOf(transcript, final) ==
  {transcript[k].observation.domain : k \in DOMAIN transcript} \cup {final.domain}

ArtifactOf(transcript, final, human) ==
  [steps      |-> [i \in DOMAIN transcript |-> StepOf(transcript[i], i, human)],
   params     |-> human.params \cup ImpliedParams(human),
   outputs    |-> human.outputs,
   outcomes   |-> human.outcomes,
   checkpoint |-> human.checkpoint,
   domains    |-> DomainsOf(transcript, final),
   actions    |-> {transcript[k].decision.action : k \in DOMAIN transcript},
   tenant     |-> human.tenant,
   base       |-> human.base]
=============================================================================
