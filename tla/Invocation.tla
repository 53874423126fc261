------------------------------ MODULE Invocation ------------------------------
(***************************************************************************)
(* python -m cua.replay.cli run: the gates an invocation passes before any *)
(* step of it acts (model_validate_json, validate_inputs), the values the  *)
(* steps send to the surface, and the evidence that is left behind; and    *)
(* the artifact file, which a human may revise between two commands.       *)
(*                                                                         *)
(* What the replay makes of its steps is module Replay's: here it may come *)
(* back with any verdict, or raise, at any of them.  A digest is           *)
(* represented by the payload it is of: SHA-256 tells any two apart.       *)
(***************************************************************************)
EXTENDS Inputs

CONSTANTS Drafts,     \* the documents an artifact file may hold
          Revisions,  \* bound: those a human goes on to revise, and into which
          RawInputs,  \* what callers of guarded_replay may pass
          Arguments   \* the --param options of a command: [name, text] in order

ASSUME InvocationAssumption ==
  /\ Revisions \subseteq Drafts
  /\ \A d \in Drafts : /\ Len(d.steps) \in Nat /\ DOMAIN d.steps = 1..Len(d.steps)
                      /\ \A p \in d.params : p.type \in ParamType

Redacted == [kind |-> "str", text |-> "<redacted>"]

VARIABLES artifact, hash,   \* the file: its document, and the seal it bears or None
          raw,              \* this invocation's raw inputs
          stage,            \* "read", "loaded", "accepted", "returned", "over"; or
                            \* "rejected", "refused", "raised", "crashed"
          inputs,           \* what validate_inputs returned
          sent,             \* what each step acted with: the text it sent, or None
          outputs,          \* what the steps have extracted
          result,           \* the ReplayResult, or None
          folder,           \* the files under --out: [result, screenshot], each None
                            \* while it is what an earlier command left, if any
          exit              \* the exit code, or None

vars == <<artifact, hash, raw, stage, inputs, sent, outputs, result, folder, exit>>

ReplayStatus == {"success", "business_outcome", "recoverable", "hard_failure",
                 "unrecognized", "policy_blocked"}
NeedsEscalation(s) == s \in ReplayStatus \ {"success", "business_outcome"}

\* _parse_params: every value is a text, and the last of a name wins.
ParseParams(args) ==
  [name \in {args[i].name : i \in DOMAIN args} |->
     [kind |-> "str",
      text |-> args[Max({i \in DOMAIN args : args[i].name = name})].text]]

OutcomeCodes == {artifact.outcomes[k].code : k \in DOMAIN artifact.outcomes}

Commands == RawInputs \cup {ParseParams(args) : args \in Arguments}

\* A document that its validators let through has been sealed by them.
Init == /\ artifact \in Drafts
        /\ hash = IF Valid(artifact) THEN artifact ELSE None
        /\ raw \in Commands
        /\ stage = "read"
        /\ inputs = <<>> /\ sent = <<>> /\ outputs = <<>>
        /\ result = None
        /\ folder = [result |-> None, screenshot |-> None]
        /\ exit = None

-----------------------------------------------------------------------------
\* Mutant: a seal that is there is not compared.
LoadUnverified ==
  /\ stage = "read"
  /\ stage' = IF Valid(artifact) THEN "loaded" ELSE "rejected"
  /\ UNCHANGED <<artifact, hash, raw, inputs, sent, outputs, result, folder, exit>>

\* model_validate_json.  A missing seal is computed, but not written back.
LoadArtifact ==
  /\ stage = "read"
  /\ stage' = IF Valid(artifact) /\ hash \in {None, artifact} THEN "loaded" ELSE "rejected"
  /\ UNCHANGED <<artifact, hash, raw, inputs, sent, outputs, result, folder, exit>>

\* page.goto() of the start path, or observe() in the middle of a replay, raises.
Raise ==
  /\ stage \in {"loaded", "accepted"}
  /\ stage' = "raised"
  /\ UNCHANGED <<artifact, hash, raw, inputs, sent, outputs, result, folder, exit>>

ValidateInputs ==
  /\ stage = "loaded"
  /\ IF InputsAccepted(artifact, raw)
     THEN stage' = "accepted" /\ inputs' = ResolvedInputs(artifact, raw)
     ELSE stage' = "refused" /\ UNCHANGED inputs
  /\ UNCHANGED <<artifact, hash, raw, sent, outputs, result, folder, exit>>

NextStep == artifact.steps[Len(sent) + 1]
HasValue(s) == s.action \in DrawsValue => s.literal # None \/ s.param \in DOMAIN inputs
SentBy(s) == IF s.action \in DrawsValue THEN ResolveValue(s, inputs) ELSE None

\* The next step's SurfaceAction is built: _resolve_value asserts that there is
\* a parameter, and looks it up; either may raise.  The act works, and an
\* EXTRACT's brings a text.
BuildAction ==
  /\ stage = "accepted"
  /\ Len(sent) < Len(artifact.steps)
  /\ IF HasValue(NextStep)
     THEN sent' = Append(sent, SentBy(NextStep)) /\ UNCHANGED stage
     ELSE stage' = "crashed" /\ UNCHANGED sent
  /\ outputs' = [f \in DOMAIN outputs \cup
                         (IF NextStep.action = "extract" THEN {NextStep.output} ELSE {})
                   |-> [kind |-> "str", text |-> "of the page"]]
  /\ UNCHANGED <<artifact, hash, raw, inputs, result, folder, exit>>

\* Or its last try fails, and the verdict's reason is the surface's error: that
\* of a page that cannot be reached, or of a control that cannot be filled, may
\* quote what was sent (the URL, Playwright's log of the call), or not.
ActionFails(quotes) ==
  /\ stage = "accepted"
  /\ Len(sent) < Len(artifact.steps)
  /\ HasValue(NextStep)
  /\ stage' = "returned"
  /\ sent' = Append(sent, SentBy(NextStep))
  /\ result' = [status |-> "unrecognized", outcome_code |-> None,
                failed_step_id |-> NextStep.id,
                reason |-> {text \in {SentBy(NextStep)} \ {None} : quotes}]
  /\ UNCHANGED <<artifact, hash, raw, inputs, outputs, folder, exit>>

\* replay() comes back otherwise: successfully only at its end, from the guard
\* only before it, and from a NAVIGATE with nothing else.  The reason is then
\* text of the artifact or the engine, which quotes none of the values.
Return(verdict, code) ==
  LET ended == Len(sent) = Len(artifact.steps)
      last  == IF ended THEN artifact.steps[Len(sent)] ELSE NextStep
  IN  /\ stage = "accepted"
      /\ verdict = "success" => ended
      /\ verdict = "policy_blocked" => ~ended
      /\ verdict \in Category \cup {"unrecognized"} => ended \/ last.action # "navigate"
      /\ IF verdict \in Category
         THEN \E k \in DOMAIN artifact.outcomes :
                artifact.outcomes[k].category = verdict /\ artifact.outcomes[k].code = code
         ELSE code = None
      /\ stage' = "returned"
      /\ result' = [status |-> verdict, outcome_code |-> code,
                    failed_step_id |-> IF verdict = "success" THEN None ELSE last.id,
                    reason |-> {}]
      /\ UNCHANGED <<artifact, hash, raw, inputs, sent, outputs, folder, exit>>

-----------------------------------------------------------------------------
SensitiveNames == {x.name : x \in {y \in artifact.params \cup artifact.outputs : y.sensitive}}

\* Mutant: the sensitive inputs are looked up, the outputs are not.
MaskInputsOnly(values) ==
  [name \in DOMAIN values |->
     IF name \in {p.name : p \in {q \in artifact.params : q.sensitive}}
     THEN Redacted ELSE values[name]]

Mask(values) ==
  [name \in DOMAIN values |-> IF name \in SensitiveNames THEN Redacted ELSE values[name]]

\* redact_result: last_observation is dropped, and reason is copied as it is.
RedactedResult ==
  [status |-> result.status, outcome_code |-> result.outcome_code,
   failed_step_id |-> result.failed_step_id, reason |-> result.reason,
   inputs |-> Mask(raw), outputs |-> Mask(outputs)]

\* screenshot() is an argument of save_replay_evidence's: when it raises, on a
\* page that is gone, nothing has been written, whatever the replay did.
ScreenshotRaises ==
  /\ stage = "returned"
  /\ stage' = "raised"
  /\ UNCHANGED <<artifact, hash, raw, inputs, sent, outputs, result, folder, exit>>

\* Two files are written, one after the other, and the caller is told.
SaveEvidence ==
  /\ stage = "returned"
  /\ stage' = "over"
  /\ folder' = [result |-> RedactedResult, screenshot |-> "of this page"]
  /\ exit' = IF NeedsEscalation(result.status) THEN 1 ELSE 0
  /\ UNCHANGED <<artifact, hash, raw, inputs, sent, outputs, result>>

Command == \/ LoadArtifact \/ Raise \/ ValidateInputs \/ BuildAction
           \/ \E quotes \in BOOLEAN : ActionFails(quotes)
           \/ \E verdict \in ReplayStatus, code \in {None} \cup OutcomeCodes :
                Return(verdict, code)
           \/ ScreenshotRaises \/ SaveEvidence

\* A human edits the file, with or without clearing its seal, and the command
\* is run again, into the same directory.
Revise(document, cleared) ==
  /\ stage \in {"over", "rejected", "refused", "raised", "crashed"}
  /\ artifact \in Revisions
  /\ artifact' = document
  /\ hash' = IF cleared THEN None ELSE hash
  /\ raw' \in Commands
  /\ stage' = "read"
  /\ inputs' = <<>> /\ sent' = <<>> /\ outputs' = <<>>
  /\ result' = None
  /\ folder' = [result |-> None, screenshot |-> None]
  /\ exit' = None

Next == Command \/ \E document \in Revisions, cleared \in BOOLEAN : Revise(document, cleared)

Spec == Init /\ [][Next]_vars

-----------------------------------------------------------------------------
\* No KeyError and no failed assertion mid-flow, with half the steps done: the
\* shape of the steps, the artifact's cross-checks and the check on optional
\* inputs together leave every step that needs a value with one.
EveryValueResolves == stage # "crashed"

\* What the caller supplied and the validators let through is of the declared
\* type: True never stands for a number, nor 1 for a boolean, and the texts a
\* command line supplies stand for neither.
SuppliedInputsAreTyped ==
  inputs # <<>> =>
    \A p \in artifact.params :
      p.name \in DOMAIN raw =>
        CASE p.type = "string"  -> inputs[p.name].kind = "str"
          [] p.type = "integer" -> inputs[p.name].kind = "int"
          [] p.type = "number"  -> inputs[p.name].kind \in {"int", "float"}
          [] p.type = "boolean" -> inputs[p.name].kind = "bool"
          [] p.type = "enum"    -> inputs[p.name] \in p.choices

\* "A tampered or partially-edited JSON on disk fails validation rather than
\* silently replaying as if nothing changed": however often a sealed document
\* is revised, nothing but what was sealed runs until its seal is cleared.
TamperingIsNoticed ==
  (hash # None /\ artifact # hash) => stage \in {"read", "rejected"}

Masked(part) == \A name \in DOMAIN part \cap SensitiveNames : part[name] = Redacted

\* Of what either schema of the document that was run (not the one recorded
\* first) declares sensitive, the evidence holds no value under its name; and in
\* the reason of a failed step at most the value of that step.
SensitiveOnlyInTheError ==
  folder.result # None =>
    /\ Masked(folder.result.inputs) /\ Masked(folder.result.outputs)
    /\ \A text \in folder.result.reason :
         /\ folder.result.status = "unrecognized"
         /\ \E s \in StepsOf(artifact) :
              s.id = folder.result.failed_step_id /\ s.action \in DrawsValue
                /\ text = ResolveValue(s, inputs)

\* "A sensitive value never reaches a log/evidence sink in the clear just because
\* it came from a live run": not under its name, and not in the reason either.
SensitiveValuesStayOut ==
  folder.result # None =>
    /\ Masked(folder.result.inputs) /\ Masked(folder.result.outputs)
    /\ \A s \in StepsOf(artifact) :
         (s.action \in DrawsValue /\ s.literal = None /\ s.param \in SensitiveNames) =>
           ResolveValue(s, inputs) \notin folder.result.reason

\* A success that is written down comes with every required output, unless the
\* document lets a step that extracts nothing claim it: the validators count
\* that step (models.py:483), the engine takes nothing from it.
SuccessBringsItsOutputs ==
  (folder.result # None /\ folder.result.status = "success") =>
    \A name \in RequiredOutputs(artifact) :
      name \in DOMAIN folder.result.outputs
        \/ \E s \in StepsOf(artifact) : s.output = name /\ s.action # "extract"
=============================================================================
