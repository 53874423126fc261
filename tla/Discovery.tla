------------------------------ MODULE Discovery ------------------------------
(***************************************************************************)
(* The loop of cua.agent.discover: perceive, let the model decide, check   *)
(* that what it names was in the perception, act, and write the step down, *)
(* against a page that may change at any time, the model's thinking        *)
(* included.  What a run that reached its goal is recorded as is module    *)
(* Recorder's.                                                             *)
(*                                                                         *)
(* A reply of the model is the sequence of the JSON objects found in it,   *)
(* in the order parse_agent_decision tries them.                           *)
(***************************************************************************)
EXTENDS Recorder

CONSTANTS Pages,       \* the observations the surface may produce
          Replies,     \* what the model may answer
          Humans,      \* what the human may add to the recording (see Recorder)
          Limits       \* what max_steps may be; one that is not positive included

ASSUME DiscoveryAssumption == Limits \subseteq Int

\* An observation is what the parser makes of a page (AriaParser_proofs shows that
\* it does), and the targets inferred from it are targets.
ASSUME PagesAssumption ==
  /\ None \notin Pages
  /\ \A obs \in Pages :
       /\ InPreOrder(obs)
       /\ \A i \in Positions(obs), data \in BOOLEAN : InferTarget(obs, i, data) # None

\* What the model answers has the field's types, and the human maps values to names.
ASSUME DecisionsAssumption ==
  /\ \A reply \in Replies :
       /\ Len(reply) \in Nat /\ DOMAIN reply = 1..Len(reply)
       /\ \A i \in DOMAIN reply : reply[i].action \in ActionType \cup {"done", "stuck"}
  /\ \A human \in Humans : \A v \in DOMAIN human.parameterize : human.parameterize[v] # None

VARIABLES page,        \* what observe() would return now
          pc,          \* "perceive", "think", "check", "act", "over"
          turns,       \* iterations the for loop has left
          observation, \* the last perception, None at first
          decision,    \* the model's, None when there is none
          transcript,  \* the acted steps
          status       \* how the run ended

vars == <<page, pc, turns, observation, decision, transcript, status>>

Terminal == {"done", "stuck"}

\* Mutant: nothing asks for the value of a TYPE or SELECT.
DecisionShapeWithoutValue(d) ==
  /\ d.action = "navigate" => d.value # None /\ {d.frame, d.ref, d.output} = {None}
  /\ d.action \in TargetedActions =>
       /\ None \notin {d.frame, d.ref}
       /\ (d.output # None) <=> (d.action = "extract")
  /\ d.action \in Terminal => {d.frame, d.ref, d.value, d.output} = {None}
  /\ d.action = "stuck" => d.reason

\* AgentDecision._validate_shape.  A decision is
\* [action, frame, ref, value, output, reason].
DecisionShapeOK(d) ==
  /\ d.action = "navigate" => d.value # None /\ {d.frame, d.ref, d.output} = {None}
  /\ d.action \in TargetedActions =>
       /\ None \notin {d.frame, d.ref}
       /\ (d.value # None) <=> (d.action \in ValueSourceActions)
       /\ (d.output # None) <=> (d.action = "extract")
  /\ d.action \in Terminal => {d.frame, d.ref, d.value, d.output} = {None}
  /\ d.action = "stuck" => d.reason

\* parse_agent_decision: the first object that is a decision; None for
\* AgentDecisionError.
ParseDecision(reply) ==
  LET wellFormed == {i \in DOMAIN reply : DecisionShapeOK(reply[i])}
  IN  IF wellFormed = {} THEN None ELSE reply[Min(wellFormed)]

-----------------------------------------------------------------------------
Init == /\ page \in Pages
        /\ pc = "perceive"
        /\ turns \in Limits
        /\ observation = None /\ decision = None
        /\ transcript = <<>>
        /\ status = "running"

Return(end) == pc' = "over" /\ status' = end

Perceive ==
  /\ pc = "perceive"
  /\ turns > 0
  /\ turns' = turns - 1
  /\ observation' = page
  /\ pc' = "think"
  /\ UNCHANGED <<page, decision, transcript, status>>

\* The for loop runs out, at once if max_steps is not positive.
OutOfSteps ==
  /\ pc = "perceive"
  /\ turns <= 0
  /\ Return("max_steps_exceeded")
  /\ UNCHANGED <<page, turns, observation, decision, transcript>>

\* observe() or complete() raises, which discover does not catch.
Raise ==
  /\ \/ pc = "perceive" /\ turns > 0
     \/ pc = "think"
  /\ Return("raised")
  /\ UNCHANGED <<page, turns, observation, decision, transcript>>

\* llm.complete answers with a decision the loop goes on with.
Decide(reply) ==
  LET d == ParseDecision(reply)
  IN  /\ pc = "think"
      /\ d # None
      /\ d.action \notin Terminal
      /\ decision' = d
      /\ pc' = IF d.action = "navigate" THEN "act" ELSE "check"
      /\ UNCHANGED <<page, turns, observation, transcript, status>>

\* It answers with one that ends the run, or with none that can be parsed.
Conclude(reply) ==
  LET d == ParseDecision(reply)
  IN  /\ pc = "think"
      /\ \/ d = None /\ Return("stuck")
         \/ d # None /\ d.action = "stuck" /\ Return("stuck")
         \/ d # None /\ d.action = "done" /\ Return("goal_reached")
      /\ UNCHANGED <<page, turns, observation, decision, transcript>>

Named == FindByRef(observation, decision.frame, decision.ref)

\* Mutant: a model that names what is not there is asked again.
CheckTargetAskAgain ==
  /\ pc = "check"
  /\ \/ Named # 0 /\ pc' = "act"
     \/ Named = 0 /\ pc' = "think"
  /\ UNCHANGED <<page, turns, observation, decision, transcript, status>>

\* The (frame, ref) is looked up in the perception the model was given.
CheckTarget ==
  /\ pc = "check"
  /\ \/ Named # 0 /\ pc' = "act" /\ UNCHANGED status
     \/ Named = 0 /\ Return("stuck")
  /\ UNCHANGED <<page, turns, observation, decision, transcript>>

\* surface.act, which says whether it worked; a step is written down either way.
Act(ok) ==
  /\ pc = "act"
  /\ ok /\ decision.action # "navigate" => FindByRef(page, decision.frame, decision.ref) # 0
  /\ transcript' = Append(transcript, [decision |-> decision, observation |-> observation,
                                       ok |-> ok])
  /\ decision' = None
  /\ IF ok THEN pc' = "perceive" /\ UNCHANGED status ELSE Return("stuck")
  /\ UNCHANGED <<page, turns, observation>>

\* The page becomes another one, by what was done to it or by itself.
PageChanges ==
  /\ pc # "over"
  /\ page' \in Pages \ {page}
  /\ UNCHANGED <<pc, turns, observation, decision, transcript, status>>

Loop == \/ Perceive \/ OutOfSteps \/ Raise \/ CheckTarget
        \/ \E reply \in Replies : Decide(reply) \/ Conclude(reply)
        \/ \E ok \in BOOLEAN : Act(ok)

Next == Loop \/ PageChanges

\* The loop waits for the surface and the model only, and each of their calls
\* is bounded by a time-out.
Spec == Init /\ [][Next]_vars /\ WF_vars(Loop)

-----------------------------------------------------------------------------
\* "The LLM's claim that an element exists is checked against the same
\* Observation it was given": whatever the page has become, each act is of an
\* element the model was shown; and the target it is recorded as matches that
\* element where it was recorded, and resolves to it unless it matches several.
RecordedTargetsAreTheirElements ==
  \A k \in DOMAIN transcript :
    transcript[k].decision.action # "navigate" =>
      /\ ActedOn(transcript[k]) # 0
      /\ status = "goal_reached" =>
           LET obs   == transcript[k].observation
               tier  == TargetOf(transcript[k]).tiers[1]
               found == ResolveTarget(obs, TargetOf(transcript[k]))
           IN  /\ \E hit \in TierMatches(obs, tier) : hit[2] = ActedOn(transcript[k])
               /\ IF HitCount(obs, tier) = 1
                  THEN found.status = "resolved" /\ found.node = ActedOn(transcript[k])
                  ELSE found.status = "ambiguous"

\* Two pages of one shape: the same controls, whatever their names.
SameShape(p, q) ==
  /\ Positions(p) = Positions(q)
  /\ \A i \in Positions(p) :
       [p.nodes[i] EXCEPT !.name = {}] = [q.nodes[i] EXCEPT !.name = {}]

\* "It would only ever match this one member's balance again, never the next
\* one's": an extracted field whose text is another on another member's page is
\* found on that page too.
ExtractFollowsTheField ==
  status = "goal_reached" =>
    \A k \in DOMAIN transcript, other \in Pages :
      LET here == transcript[k].observation
          i    == ActedOn(transcript[k])
      IN  (/\ transcript[k].decision.action = "extract"
           /\ SameShape(here, other)
           /\ here.nodes[i].name # other.nodes[i].name
           /\ IsResolved(here, TargetOf(transcript[k]))) =>
              ResolveTarget(other, TargetOf(transcript[k])).node = i

\* "A decision that survives validation here already looks like a Step": what
\* the artifact's validators refuse of a recording is the human's to mend, and
\* never the shape of a step.
RefusalsAreTheHumans ==
  status = "goal_reached" =>
    \A human \in Humans :
      LET artifact == ArtifactOf(transcript, observation, human)
      IN  Valid(artifact) \/
            \/ transcript = <<>>
            \/ \E step \in StepsOf(artifact) : step.literal \in LooksLikePii
            \/ \E p \in artifact.params : p.name \notin UsedParams(artifact) \/ ~ParamShapeOK(p)
            \/ {o.name : o \in {out \in human.outputs : ~out.nullable}} # UsedOutputs(artifact)
            \/ human.tenant # None /\ human.base = None

\* Whatever the model says and the page does, the run ends.
Ends == <>(pc = "over")
=============================================================================
