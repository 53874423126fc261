--------------------------- MODULE Invocation_proofs ---------------------------
(***************************************************************************)
(* Theorems about Invocation, for every set of documents, whatever is      *)
(* revised into what, and every caller's inputs.                           *)
(***************************************************************************)
EXTENDS Invocation, TLAPS

\* A step that a valid document lets draw a value has a text or a parameter.
LEMMA ShapedStepHasASource ==
  ASSUME NEW s, StepShapeOK(s), s.action \in DrawsValue, s.literal = None
  PROVE  s.param # None
<1>1. CASE s.action = "navigate"
  BY <1>1 DEF StepShapeOK
<1>2. CASE s.action \in ValueSourceActions
  BY <1>2 DEF StepShapeOK
<1> QED
  BY <1>1, <1>2 DEF DrawsValue

\* A supplied value is the value, whatever the defaults.
LEMMA SuppliedResolves ==
  ASSUME NEW a, NEW given, NEW p \in a.params, p.name \in DOMAIN given
  PROVE  ResolvedInputs(a, given)[p.name] = given[p.name]
<1> DEFINE with  == {q \in a.params : q.name \in DOMAIN given \/ q.default # None}
           names == {q.name : q \in with}
<1>1. p.name \in names
  OBVIOUS
<1>2. ResolvedInputs(a, given) =
        [name \in names |-> IF name \in DOMAIN given THEN given[name]
                            ELSE (CHOOSE q \in with : q.name = name).default]
  BY DEF ResolvedInputs
<1> HIDE DEF names
<1> QED
  BY <1>1, <1>2

\* What _coerce_and_validate lets through is of the declared type.
LEMMA AcceptedIsTyped ==
  ASSUME NEW p, NEW v, p.type \in ParamType, ValueAccepted(p, v)
  PROVE  CASE p.type = "string"  -> v.kind = "str"
           [] p.type = "integer" -> v.kind = "int"
           [] p.type = "number"  -> v.kind \in {"int", "float"}
           [] p.type = "boolean" -> v.kind = "bool"
           [] p.type = "enum"    -> v \in p.choices
<1>1. CASE p.type = "string"
  BY <1>1 DEF ValueAccepted
<1>2. CASE p.type = "integer"
  BY <1>2 DEF ValueAccepted
<1>3. CASE p.type = "number"
  BY <1>3 DEF ValueAccepted
<1>4. CASE p.type = "boolean"
  BY <1>4 DEF ValueAccepted
<1>5. CASE p.type = "enum"
  BY <1>5 DEF ValueAccepted
<1> QED
  BY <1>1, <1>2, <1>3, <1>4, <1>5 DEF ParamType

\* No name declared sensitive keeps its value under the mask.
LEMMA MaskHides ==
  ASSUME NEW values, NEW name \in DOMAIN Mask(values) \cap SensitiveNames
  PROVE  Mask(values)[name] = Redacted
BY DEF Mask

-----------------------------------------------------------------------------
(***************************************************************************)
(* The inductive invariant: what each gate has let through.                *)
(***************************************************************************)

\* The values sent so far are a list.
Sending == \E S : sent \in Seq(S)

\* No step has acted before the inputs are accepted.
NothingSentYet == stage \in {"read", "loaded"} => sent = <<>>

\* Past model_validate_json the document is a valid one.
OnlyValidRuns ==
  /\ artifact \in Drafts
  /\ stage \notin {"read", "rejected"} => Valid(artifact)

\* The inputs are those of validate_inputs, and every step has what it uses.
OnlyAcceptedInputs ==
  /\ stage = "accepted" => /\ InputsAccepted(artifact, raw)
                           /\ inputs = ResolvedInputs(artifact, raw)
  /\ inputs # <<>> => /\ InputsAccepted(artifact, raw)
                      /\ inputs = ResolvedInputs(artifact, raw)

\* An EXTRACT that acted has left its output, and a success has all steps behind it.
Extracted ==
  (stage = "accepted" \/ (stage = "returned" /\ result.status = "success")) =>
    \A i \in 1..Len(sent) :
      artifact.steps[i].action = "extract" => artifact.steps[i].output \in DOMAIN outputs

SuccessIsComplete ==
  (stage = "returned" /\ result.status = "success") => Len(sent) = Len(artifact.steps)

\* A verdict with a value in its reason is that of the step it names.
ReasonIsTheSteps ==
  stage = "returned" =>
    \A text \in result.reason :
      /\ result.status = "unrecognized"
      /\ \E s \in StepsOf(artifact) :
           s.id = result.failed_step_id /\ s.action \in DrawsValue
             /\ text = ResolveValue(s, inputs)

InvocationInv == /\ Sending
                 /\ NothingSentYet
                 /\ OnlyValidRuns
                 /\ OnlyAcceptedInputs
                 /\ EveryValueResolves
                 /\ Extracted
                 /\ SuccessIsComplete
                 /\ ReasonIsTheSteps

\* The next step is one of the document's, and if it draws a value finds one.
LEMMA NextStepHasItsValue ==
  ASSUME InvocationInv, stage = "accepted", Len(sent) < Len(artifact.steps)
  PROVE  NextStep \in StepsOf(artifact) /\ HasValue(NextStep)
<1> DEFINE s == NextStep
<1> USE DEF InvocationInv
<1>1. PICK S : sent \in Seq(S)
  BY DEF Sending
<1>2. s \in StepsOf(artifact)
  <2>1. Len(sent) + 1 \in DOMAIN artifact.steps
    BY <1>1, InvocationAssumption DEF OnlyValidRuns
  <2> QED
    BY <2>1 DEF StepsOf, NextStep
<1>3. StepShapeOK(s)
  BY <1>2 DEF OnlyValidRuns, Valid
<1>4. ASSUME s.action \in DrawsValue, s.literal = None
      PROVE  s.param \in DOMAIN inputs
  <2>1. s.param # None
    BY <1>3, <1>4, ShapedStepHasASource
  <2>2. s.param \in UsedParams(artifact)
    BY <1>2, <2>1 DEF UsedParams
  <2>3. UsedParams(artifact) \subseteq DOMAIN ResolvedInputs(artifact, raw)
    BY DEF OnlyAcceptedInputs, InputsAccepted, DependenciesSatisfied
  <2> QED
    BY <2>2, <2>3 DEF OnlyAcceptedInputs
<1> QED
  BY <1>2, <1>4 DEF HasValue

\* One more text is sent.
LEMMA SendingGoesOn ==
  ASSUME Sending, NEW v, sent' = Append(sent, v)
  PROVE  /\ Sending'
         /\ Len(sent) \in Nat /\ Len(sent') = Len(sent) + 1
<1>1. PICK S : sent \in Seq(S)
  BY DEF Sending
<1>2. sent \in Seq(S \cup {v})
  BY <1>1
<1>3. sent' \in Seq(S \cup {v})
  BY <1>2
<1>4. Len(sent) \in Nat /\ Len(sent') = Len(sent) + 1
  BY <1>2
<1> QED
  BY <1>3, <1>4 DEF Sending

\* A step that draws a value finds one, and an EXTRACT leaves its output.
LEMMA BuildActionStep ==
  ASSUME InvocationInv, BuildAction
  PROVE  InvocationInv'
<1> USE DEF InvocationInv
<1>1. /\ stage = "accepted" /\ Len(sent) < Len(artifact.steps)
      /\ artifact' = artifact /\ raw' = raw /\ inputs' = inputs /\ result' = result
  BY DEF BuildAction
<1>2. HasValue(NextStep)
  BY <1>1, NextStepHasItsValue
<1>3. stage' = stage /\ sent' = Append(sent, SentBy(NextStep))
  BY <1>2 DEF BuildAction
<1>4. Sending' /\ Len(sent) \in Nat /\ Len(sent') = Len(sent) + 1
  BY <1>3, SendingGoesOn
<1>5. Extracted'
  <2>1. DOMAIN outputs' = DOMAIN outputs \cup
          (IF NextStep.action = "extract" THEN {NextStep.output} ELSE {})
    BY DEF BuildAction
  <2> SUFFICES ASSUME NEW i \in 1..(Len(sent) + 1), artifact.steps[i].action = "extract"
               PROVE  artifact.steps[i].output \in DOMAIN outputs'
    BY <1>1, <1>4 DEF Extracted
  <2>2. CASE i \in 1..Len(sent)
    <3>1. \A k \in 1..Len(sent) :
            artifact.steps[k].action = "extract" => artifact.steps[k].output \in DOMAIN outputs
      BY <1>1 DEF Extracted
    <3> QED
      BY <1>1, <2>1, <2>2, <3>1
  <2>3. CASE i = Len(sent) + 1
    BY <2>1, <2>3 DEF NextStep
  <2> QED
    BY <1>4, <2>2, <2>3
<1> QED
  BY <1>1, <1>3, <1>4, <1>5 DEF OnlyValidRuns, OnlyAcceptedInputs, EveryValueResolves,
                                NothingSentYet, SuccessIsComplete, ReasonIsTheSteps

\* A failed step is the one its verdict names.
LEMMA ActionFailsStep ==
  ASSUME InvocationInv, NEW quotes \in BOOLEAN, ActionFails(quotes)
  PROVE  InvocationInv'
<1> USE DEF InvocationInv
<1>1. /\ stage = "accepted" /\ Len(sent) < Len(artifact.steps) /\ stage' = "returned"
      /\ artifact' = artifact /\ raw' = raw /\ inputs' = inputs
      /\ sent' = Append(sent, SentBy(NextStep))
  BY DEF ActionFails
<1>2. /\ result'.status = "unrecognized" /\ result'.failed_step_id = NextStep.id
      /\ result'.reason = {text \in {SentBy(NextStep)} \ {None} : quotes}
  BY DEF ActionFails
<1>3. Sending'
  BY <1>1, SendingGoesOn
<1>4. NextStep \in StepsOf(artifact)
  BY <1>1, NextStepHasItsValue
<1>5. ReasonIsTheSteps'
  <2> SUFFICES ASSUME NEW text \in result'.reason
               PROVE  \E s \in StepsOf(artifact) :
                        s.id = result'.failed_step_id /\ s.action \in DrawsValue
                          /\ text = ResolveValue(s, inputs)
    BY <1>1, <1>2 DEF ReasonIsTheSteps
  <2>1. text = SentBy(NextStep) /\ text # None
    BY <1>2
  <2>2. NextStep.action \in DrawsValue /\ text = ResolveValue(NextStep, inputs)
    BY <2>1 DEF SentBy
  <2> QED
    BY <1>2, <1>4, <2>2
<1>6. Extracted' /\ SuccessIsComplete'
  BY <1>1, <1>2 DEF Extracted, SuccessIsComplete
<1> QED
  BY <1>1, <1>3, <1>5, <1>6 DEF OnlyValidRuns, OnlyAcceptedInputs, EveryValueResolves,
                                NothingSentYet

\* Any other verdict quotes nothing, and success is the end's.
LEMMA ReturnStep ==
  ASSUME InvocationInv, NEW verdict, NEW code, Return(verdict, code)
  PROVE  InvocationInv'
<1> USE DEF InvocationInv
<1>1. /\ stage = "accepted" /\ stage' = "returned"
      /\ artifact' = artifact /\ raw' = raw /\ inputs' = inputs /\ sent' = sent
      /\ outputs' = outputs
      /\ result'.status = verdict /\ result'.reason = {}
      /\ verdict = "success" => Len(sent) = Len(artifact.steps)
  BY DEF Return
<1>2. Sending' /\ ReasonIsTheSteps' /\ SuccessIsComplete'
  BY <1>1 DEF Sending, ReasonIsTheSteps, SuccessIsComplete
<1>3. \A i \in 1..Len(sent) :
        artifact.steps[i].action = "extract" => artifact.steps[i].output \in DOMAIN outputs
  BY <1>1 DEF Extracted
<1>4. Extracted'
  <2> SUFFICES ASSUME NEW i \in 1..Len(sent'), artifact'.steps[i].action = "extract"
               PROVE  artifact'.steps[i].output \in DOMAIN outputs'
    BY DEF Extracted
  <2> QED
    BY <1>1, <1>3
<1> QED
  BY <1>1, <1>2, <1>4 DEF OnlyValidRuns, OnlyAcceptedInputs, EveryValueResolves,
                          NothingSentYet

\* The other steps of a command, and the human's.
LEMMA GateStep ==
  ASSUME InvocationInv, [Next]_vars
  PROVE  InvocationInv'
<1> USE DEF InvocationInv
<1> USE DEF Sending, NothingSentYet, OnlyValidRuns, OnlyAcceptedInputs, EveryValueResolves,
            Extracted, SuccessIsComplete, ReasonIsTheSteps
<1>1. CASE LoadArtifact
  BY <1>1 DEF LoadArtifact
<1>2. CASE Raise
  BY <1>2 DEF Raise
<1>3. CASE ValidateInputs
  <2>1. sent' = sent /\ sent = <<>> /\ Len(sent) = 0
    BY <1>3 DEF ValidateInputs
  <2> QED
    BY <1>3, <2>1 DEF ValidateInputs
<1>4. CASE BuildAction
  BY <1>4, BuildActionStep
<1>5. CASE \E quotes \in BOOLEAN : ActionFails(quotes)
  BY <1>5, ActionFailsStep
<1>6. CASE \E verdict \in ReplayStatus, code \in {None} \cup OutcomeCodes : Return(verdict, code)
  BY <1>6, ReturnStep
<1>7. CASE ScreenshotRaises
  BY <1>7 DEF ScreenshotRaises
<1>8. CASE SaveEvidence
  BY <1>8 DEF SaveEvidence
<1>9. CASE \E document \in Revisions, cleared \in BOOLEAN : Revise(document, cleared)
  <2>1. PICK document \in Revisions, cleared \in BOOLEAN : Revise(document, cleared)
    BY <1>9
  <2>2. artifact' \in Drafts /\ stage' = "read" /\ inputs' = <<>> /\ sent' = <<>>
    BY <2>1, InvocationAssumption DEF Revise
  <2>3. sent' \in Seq({})
    BY <2>2
  <2> QED
    BY <2>2, <2>3
<1>10. CASE UNCHANGED vars
  BY <1>10 DEF vars
<1> QED
  BY <1>1, <1>2, <1>3, <1>4, <1>5, <1>6, <1>7, <1>8, <1>9, <1>10 DEF Next, Command

\* What a gate has let through stays let through, whoever revises the file.
THEOREM InvocationInvariance == Spec => []InvocationInv
<1>1. Init => InvocationInv
  <2> SUFFICES ASSUME Init PROVE InvocationInv
    OBVIOUS
  <2>1. sent \in Seq({})
    BY DEF Init
  <2> QED
    BY <2>1 DEF Init, InvocationInv, Sending, NothingSentYet, OnlyValidRuns,
                OnlyAcceptedInputs, EveryValueResolves, Extracted, SuccessIsComplete,
                ReasonIsTheSteps
<1> QED
  BY <1>1, GateStep, PTL DEF Spec

-----------------------------------------------------------------------------
\* A replay never stops half-way for want of a value.
THEOREM StepsHaveTheirValues == Spec => []EveryValueResolves
<1>1. InvocationInv => EveryValueResolves
  BY DEF InvocationInv
<1> QED
  BY <1>1, InvocationInvariance, PTL

\* A value that reaches the steps from outside is of the type declared for it.
THEOREM InputsAreTyped == Spec => []SuppliedInputsAreTyped
<1>1. InvocationInv => SuppliedInputsAreTyped
  <2> SUFFICES ASSUME InvocationInv, inputs # <<>>, NEW p \in artifact.params,
                      p.name \in DOMAIN raw
               PROVE  CASE p.type = "string"  -> inputs[p.name].kind = "str"
                        [] p.type = "integer" -> inputs[p.name].kind = "int"
                        [] p.type = "number"  -> inputs[p.name].kind \in {"int", "float"}
                        [] p.type = "boolean" -> inputs[p.name].kind = "bool"
                        [] p.type = "enum"    -> inputs[p.name] \in p.choices
    BY DEF SuppliedInputsAreTyped
  <2>1. InputsAccepted(artifact, raw) /\ inputs = ResolvedInputs(artifact, raw)
    BY DEF InvocationInv, OnlyAcceptedInputs
  <2>2. inputs[p.name] = raw[p.name]
    BY <2>1, SuppliedResolves
  <2>3. ValueAccepted(p, inputs[p.name])
    BY <2>1, <2>2 DEF InputsAccepted
  <2>4. p.type \in ParamType
    BY InvocationAssumption DEF InvocationInv, OnlyValidRuns
  <2> QED
    BY <2>3, <2>4, AcceptedIsTyped
<1> QED
  BY <1>1, InvocationInvariance, PTL

\* As long as a seal is kept, nothing runs but what was sealed.
THEOREM SealsHold == Spec => []TamperingIsNoticed
<1>1. Init => TamperingIsNoticed
  BY DEF Init, TamperingIsNoticed
<1>2. TamperingIsNoticed /\ [Next]_vars => TamperingIsNoticed'
  <2> SUFFICES ASSUME TamperingIsNoticed, [Next]_vars PROVE TamperingIsNoticed'
    OBVIOUS
  <2> USE DEF TamperingIsNoticed
  <2>1. CASE LoadArtifact
    BY <2>1 DEF LoadArtifact
  <2>2. CASE \/ Raise \/ ValidateInputs \/ BuildAction \/ ScreenshotRaises \/ SaveEvidence
             \/ \E quotes \in BOOLEAN : ActionFails(quotes)
             \/ \E verdict \in ReplayStatus, code \in {None} \cup OutcomeCodes :
                  Return(verdict, code)
    <3>1. artifact' = artifact /\ hash' = hash /\ stage \notin {"read", "rejected"}
      BY <2>2 DEF Raise, ValidateInputs, BuildAction, ActionFails, ScreenshotRaises,
                  SaveEvidence, Return
    <3> QED
      BY <3>1
  <2>3. CASE \E document \in Revisions, cleared \in BOOLEAN : Revise(document, cleared)
    BY <2>3 DEF Revise
  <2>4. CASE UNCHANGED vars
    BY <2>4 DEF vars
  <2> QED
    BY <2>1, <2>2, <2>3, <2>4 DEF Next, Command
<1> QED
  BY <1>1, <1>2, PTL DEF Spec

\* What a command writes is what SaveEvidence makes of the replay's result, and
\* stays so until the file is revised for another command.
LEMMA EvidenceStep ==
  ASSUME [Next]_vars
  PROVE  \/ SaveEvidence
         \/ folder'.result = None
         \/ /\ artifact' = artifact /\ folder' = folder
            /\ inputs' = inputs \/ ValidateInputs
<1>1. CASE \E document \in Revisions, cleared \in BOOLEAN : Revise(document, cleared)
  BY <1>1 DEF Revise
<1> QED
  BY <1>1 DEF Next, Command, LoadArtifact, Raise, ValidateInputs, BuildAction, ActionFails,
              ScreenshotRaises, Return, vars

\* Nothing is in the evidence before the command is over.
LEMMA EvidenceComesLast == Spec => [](folder.result # None => stage = "over")
<1>1. Init => (folder.result # None => stage = "over")
  BY DEF Init
<1>2. (folder.result # None => stage = "over") /\ [Next]_vars
        => (folder.result # None => stage = "over")'
  <2> SUFFICES ASSUME folder.result # None => stage = "over", [Next]_vars,
                      folder'.result # None
               PROVE  stage' = "over"
    OBVIOUS
  <2>1. CASE SaveEvidence
    BY <2>1 DEF SaveEvidence
  <2>2. CASE folder' = folder /\ UNCHANGED vars
    BY <2>2 DEF vars
  <2>3. CASE folder' = folder /\ stage # "over"
    BY <2>3
  <2>4. \/ SaveEvidence
        \/ folder'.result = None
        \/ folder' = folder /\ UNCHANGED vars
        \/ folder' = folder /\ stage # "over"
    <3>1. CASE \E document \in Revisions, cleared \in BOOLEAN : Revise(document, cleared)
      BY <3>1 DEF Revise
    <3>2. CASE BuildAction \/ \E quotes \in BOOLEAN : ActionFails(quotes)
      BY <3>2 DEF BuildAction, ActionFails
    <3>3. CASE \E verdict \in ReplayStatus, code \in {None} \cup OutcomeCodes :
                 Return(verdict, code)
      BY <3>3 DEF Return
    <3>4. CASE LoadArtifact \/ Raise \/ ValidateInputs \/ ScreenshotRaises \/ UNCHANGED vars
      BY <3>4 DEF LoadArtifact, Raise, ValidateInputs, ScreenshotRaises, vars
    <3> QED
      BY <3>1, <3>2, <3>3, <3>4 DEF Next, Command
  <2> QED
    BY <2>1, <2>2, <2>3, <2>4
<1> QED
  BY <1>1, <1>2, PTL DEF Spec

\* Under the names the document that was run declares sensitive, the evidence
\* holds no value; its reason holds one at most, and of the failed step.
THEOREM OnlyErrorsMayTell == Spec => []SensitiveOnlyInTheError
<1> DEFINE Last == folder.result # None => stage = "over"
<1>1. Init => SensitiveOnlyInTheError
  BY DEF Init, SensitiveOnlyInTheError
<1>2. SensitiveOnlyInTheError /\ InvocationInv /\ Last /\ [Next]_vars => SensitiveOnlyInTheError'
  <2> SUFFICES ASSUME SensitiveOnlyInTheError, InvocationInv, Last, [Next]_vars,
                      folder'.result # None
               PROVE  SensitiveOnlyInTheError'
    BY DEF SensitiveOnlyInTheError
  <2>1. CASE SaveEvidence
    <3>1. /\ artifact' = artifact /\ inputs' = inputs /\ stage = "returned"
          /\ folder'.result = RedactedResult
      BY <2>1 DEF SaveEvidence
    <3>2. /\ folder'.result.inputs = Mask(raw) /\ folder'.result.outputs = Mask(outputs)
          /\ folder'.result.reason = result.reason /\ folder'.result.status = result.status
          /\ folder'.result.failed_step_id = result.failed_step_id
      BY <3>1 DEF RedactedResult
    <3>3. SensitiveNames' = SensitiveNames /\ StepsOf(artifact)' = StepsOf(artifact)
      BY <3>1 DEF SensitiveNames
    <3>4. Masked(Mask(raw)) /\ Masked(Mask(outputs))
      BY MaskHides DEF Masked
    <3>5. Masked(folder.result.inputs)' /\ Masked(folder.result.outputs)'
      BY <3>2, <3>3, <3>4 DEF Masked
    <3>6. ReasonIsTheSteps
      BY DEF InvocationInv
    <3> QED
      BY <3>1, <3>2, <3>3, <3>5, <3>6 DEF SensitiveOnlyInTheError, ReasonIsTheSteps
  <2>2. CASE artifact' = artifact /\ folder' = folder /\ (inputs' = inputs \/ ValidateInputs)
    <3>1. inputs' = inputs
      BY <2>2 DEF ValidateInputs
    <3>2. SensitiveNames' = SensitiveNames
      BY <2>2 DEF SensitiveNames
    <3> QED
      BY <2>2, <3>1, <3>2 DEF SensitiveOnlyInTheError, Masked
  <2> QED
    BY <2>1, <2>2, EvidenceStep
<1> QED
  BY <1>1, <1>2, InvocationInvariance, EvidenceComesLast, PTL DEF Spec

\* A success is written with every required output an EXTRACT was recorded for.
THEOREM SuccessIsWholeWhereExtracted == Spec => []SuccessBringsItsOutputs
<1>1. Init => SuccessBringsItsOutputs
  BY DEF Init, SuccessBringsItsOutputs
<1>2. SuccessBringsItsOutputs /\ InvocationInv /\ [Next]_vars => SuccessBringsItsOutputs'
  <2> SUFFICES ASSUME SuccessBringsItsOutputs, InvocationInv, [Next]_vars,
                      folder'.result # None, folder'.result.status = "success",
                      NEW name \in RequiredOutputs(artifact')
               PROVE  \/ name \in DOMAIN folder'.result.outputs
                      \/ \E s \in StepsOf(artifact') : s.output = name /\ s.action # "extract"
    BY DEF SuccessBringsItsOutputs
  <2>1. CASE SaveEvidence
    <3>1. /\ artifact' = artifact /\ stage = "returned" /\ folder'.result = RedactedResult
      BY <2>1 DEF SaveEvidence
    <3>2. /\ DOMAIN folder'.result.outputs = DOMAIN outputs
          /\ result.status = "success"
      BY <3>1 DEF RedactedResult, Mask
    <3>3. name \in UsedOutputs(artifact)
      BY <3>1 DEF InvocationInv, OnlyValidRuns, Valid, ContractOK
    <3>4. PICK i \in DOMAIN artifact.steps : artifact.steps[i].output = name
      BY <3>3 DEF UsedOutputs, StepsOf
    <3>5. CASE artifact.steps[i].action # "extract"
      BY <3>1, <3>4, <3>5 DEF StepsOf
    <3>6. CASE artifact.steps[i].action = "extract"
      <4>1. i \in 1..Len(sent)
        BY <3>1, <3>2, <3>4, InvocationAssumption DEF InvocationInv, SuccessIsComplete, OnlyValidRuns
      <4> QED
        BY <3>1, <3>2, <3>4, <3>6, <4>1 DEF InvocationInv, Extracted
    <3> QED
      BY <3>5, <3>6
  <2>2. CASE artifact' = artifact /\ folder' = folder
    BY <2>2 DEF SuccessBringsItsOutputs
  <2> QED
    BY <2>1, <2>2, EvidenceStep
<1> QED
  BY <1>1, <1>2, InvocationInvariance, PTL DEF Spec
=============================================================================
