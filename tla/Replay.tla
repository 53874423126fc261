-------------------------------- MODULE Replay --------------------------------
(***************************************************************************)
(* cua.replay.engine.replay walking one artifact against a surface, with   *)
(* the guard of cua.policy.guard when the call goes through                *)
(* guarded_replay.                                                         *)
(*                                                                         *)
(* Everything the engine does between two calls of the surface is one      *)
(* step, and each call (observe, act) is one: between them the page may    *)
(* become any other one, whether as the belated effect of an act, by a     *)
(* redirect, or by a time-out of the session.  A ref obtained from one     *)
(* page may therefore be acted on when another is showing.                 *)
(***************************************************************************)
EXTENDS Locator, Inputs

CONSTANTS Capability,     \* the artifact
          Observations,   \* what the surface may show
          Calls           \* the invocations: [raw, guarded, authorized]

Steps == Capability.steps
N == Len(Steps)

ASSUME CapabilityAssumption ==
  /\ Valid(Capability)
  /\ N \in Nat \ {0}
  /\ DOMAIN Steps = 1..N
  /\ \A i \in 1..N : Steps[i].retries \in Int
  /\ DOMAIN Capability.outcomes = 1..Len(Capability.outcomes)
  /\ Len(Capability.outcomes) \in Nat
  /\ \A k \in DOMAIN Capability.outcomes : Capability.outcomes[k].category \in Category

ASSUME CallsAssumption == \A c \in Calls : c.guarded \in BOOLEAN

\* ReplayStatus, and the three ways replay() may raise instead.
Statuses == Category \cup {"success", "unrecognized", "policy_blocked",
                           "input_error", "assertion_error", "surface_error"}

Results == [status : Statuses, outcome : 0..Len(Capability.outcomes), failed : 0..N,
            last : Observations \cup {None}]

ASSUME NoneAssumption == None \notin Observations /\ None \notin Results

VARIABLES call,       \* the arguments of this invocation
          inputs,     \* what validate_inputs returned
          page,       \* what the surface is showing
          pc,         \* the engine's next call: see Entry
          step,       \* the step being carried out; N + 1 past the last
          attempt,    \* tries of it that have failed
          seen,       \* the last observation taken, or None
          aim,        \* the (frame, ref) the target resolved to, or None
          outputs,    \* values extracted so far, by output field
          result,     \* what replay() handed back or raised, or None
          acts,       \* history: calls of Surface.act() for each step
          taken       \* history: those that reported success

vars == <<call, inputs, page, pc, step, attempt, seen, aim, outputs, result, acts, taken>>

-----------------------------------------------------------------------------
\* _match_known_outcome: the first declared outcome with a match; 0 is None.
KnownOutcome(obs) ==
  LET shown == {k \in DOMAIN Capability.outcomes :
                  TierMatches(obs, Capability.outcomes[k].detection) # {}}
  IN  IF shown = {} THEN 0 ELSE Min(shown)

\* Mutant: the wrong level needs the authorization.
RiskPermittedIfSafe(i) == Steps[i].risk = "sensitive" => Steps[i].id \in call.authorized

\* build_default_guard's guard: the domain first, then the risk.
DomainAllowed(obs) == "*" \in Capability.domains \/ obs.domain \in Capability.domains
RiskPermitted(i) ==
  Steps[i].risk = "risky_irreversible" => Steps[i].id \in call.authorized

\* Mutant: the risk check is dropped.
GuardIgnoresRisk(i, obs) == DomainAllowed(obs)

GuardAllows(i, obs) == DomainAllowed(obs) /\ RiskPermitted(i)

\* Mutant: the loop runs past the last step.
EntryPastTheLast(i, guarded) ==
  CASE i > N + 1 -> "final"
    [] i <= N /\ guarded -> "guard"
    [] i <= N /\ ~guarded /\ Steps[i].action = "navigate" -> "navigate"
    [] OTHER -> "attempt"

\* Where the loop body begins for step i, and where it goes past the last.
Entry(i, guarded) ==
  CASE i > N -> "final"
    [] i <= N /\ guarded -> "guard"
    [] i <= N /\ ~guarded /\ Steps[i].action = "navigate" -> "navigate"
    [] i <= N /\ ~guarded /\ Steps[i].action # "navigate" -> "attempt"

LastAttempt == attempt = Steps[step].retries

Target(i) == ResolveTarget(seen', Steps[i].target)

Return(status, outcome, last) ==
  /\ result' = [status |-> status, outcome |-> outcome,
                failed |-> IF status = "success" THEN 0 ELSE IF step > N THEN N ELSE step,
                last |-> last]
  /\ pc' = "done"

Observe == seen' = page

-----------------------------------------------------------------------------
Init ==
  /\ call \in Calls
  /\ page \in Observations
  /\ inputs = <<>>
  /\ pc = "start"
  /\ step = 1
  /\ attempt = 0
  /\ seen = None
  /\ aim = None
  /\ outputs = <<>>
  /\ result = None
  /\ acts = [i \in 1..N |-> 0]
  /\ taken = [i \in 1..N |-> 0]

\* validate_inputs, before any surface is touched.
ValidateInputs ==
  /\ pc = "start"
  /\ InputsAccepted(Capability, call.raw)
  /\ inputs' = ResolvedInputs(Capability, call.raw)
  /\ pc' = Entry(1, call.guarded)
  /\ UNCHANGED <<call, page, step, attempt, seen, aim, outputs, result, acts, taken>>

RefuseInputs ==
  /\ pc = "start"
  /\ ~InputsAccepted(Capability, call.raw)
  /\ Return("input_error", 0, None)
  /\ UNCHANGED <<call, inputs, page, step, attempt, seen, aim, outputs, acts, taken>>

\* _check_guard, on an observation of its own.
CheckGuard ==
  /\ pc = "guard"
  /\ Observe
  /\ IF GuardAllows(step, seen')
     THEN pc' = Entry(step, FALSE) /\ UNCHANGED result
     ELSE Return("policy_blocked", 0, seen')
  /\ UNCHANGED <<call, inputs, page, step, attempt, aim, outputs, acts, taken>>

(***************************************************************************)
(* One pass of _run_targeted_step's loop, up to its call of act().         *)
(***************************************************************************)

Attempting == pc = "attempt" /\ attempt <= Steps[step].retries

FindOutcome ==
  /\ Attempting
  /\ Observe
  /\ KnownOutcome(seen') # 0
  /\ Return(Capability.outcomes[KnownOutcome(seen')].category, KnownOutcome(seen'), seen')
  /\ UNCHANGED <<call, inputs, page, step, attempt, aim, outputs, acts, taken>>

\* Mutant: the resolution of an earlier page is reused.
FindTargetOnce ==
  /\ Attempting
  /\ Observe
  /\ KnownOutcome(seen') = 0
  /\ Target(step).status = "resolved"
  /\ LET from == IF seen # None /\ IsResolved(seen, Steps[step].target) THEN seen ELSE seen'
         node == from.nodes[ResolveTarget(from, Steps[step].target).node]
     IN  aim' = [frame |-> node.frame, ref |-> node.ref]
  /\ pc' = "act"
  /\ UNCHANGED <<call, inputs, page, step, attempt, outputs, result, acts, taken>>

FindTarget ==
  /\ Attempting
  /\ Observe
  /\ KnownOutcome(seen') = 0
  /\ Target(step).status = "resolved"
  /\ aim' = [frame |-> seen'.nodes[Target(step).node].frame,
             ref   |-> seen'.nodes[Target(step).node].ref]
  /\ pc' = "act"
  /\ UNCHANGED <<call, inputs, page, step, attempt, outputs, result, acts, taken>>

\* Mutant: a declared outcome is not looked for before the target is given up.
MissTargetFirst ==
  /\ Attempting
  /\ Observe
  /\ Target(step).status # "resolved"
  /\ IF LastAttempt
     THEN Return("unrecognized", 0, seen') /\ UNCHANGED attempt
     ELSE attempt' = attempt + 1 /\ UNCHANGED <<pc, result>>
  /\ UNCHANGED <<call, inputs, page, step, aim, outputs, acts, taken>>

\* Mutant: a miss does not use up an attempt.
MissTargetUncounted ==
  /\ Attempting
  /\ Observe
  /\ KnownOutcome(seen') = 0
  /\ Target(step).status # "resolved"
  /\ UNCHANGED <<call, inputs, page, pc, step, attempt, aim, outputs, result, acts, taken>>

MissTarget ==
  /\ Attempting
  /\ Observe
  /\ KnownOutcome(seen') = 0
  /\ Target(step).status # "resolved"
  /\ IF LastAttempt
     THEN Return("unrecognized", 0, seen') /\ UNCHANGED attempt
     ELSE attempt' = attempt + 1 /\ UNCHANGED <<pc, result>>
  /\ UNCHANGED <<call, inputs, page, step, aim, outputs, acts, taken>>

\* The loop ran out (or never ran): "unreachable".
RaiseUnreachable ==
  /\ pc = "attempt"
  /\ attempt > Steps[step].retries
  /\ Return("assertion_error", 0, None)
  /\ UNCHANGED <<call, inputs, page, step, attempt, seen, aim, outputs, acts, taken>>

(***************************************************************************)
(* Calls of Surface.act().  The surface may report failure whatever it     *)
(* did, and can report success only if what was aimed at has a ref and is  *)
(* there.                                                                  *)
(***************************************************************************)

Tried == acts' = [acts EXCEPT ![step] = @ + 1]

Proceed ==
  /\ taken' = [taken EXCEPT ![step] = @ + 1]
  /\ step' = step + 1
  /\ attempt' = 0
  /\ aim' = None
  /\ pc' = Entry(step + 1, call.guarded)

ActSucceeds ==
  LET node == FindByRef(page, aim.frame, aim.ref)
      s    == Steps[step]
  IN  /\ pc = "act"
      /\ aim.ref # None
      /\ node # 0
      /\ Tried
      /\ outputs' = IF s.action = "extract"
                    THEN [f \in DOMAIN outputs \cup {s.output} |->
                            IF f = s.output THEN page.nodes[node].name ELSE outputs[f]]
                    ELSE outputs
      /\ Proceed
      /\ UNCHANGED <<call, inputs, page, seen, result>>

\* Mutant: each retry asks the guard again.
ActFailsAsksAgain ==
  /\ pc = "act"
  /\ Tried
  /\ aim' = None
  /\ IF LastAttempt
     THEN Return("unrecognized", 0, seen) /\ UNCHANGED attempt
     ELSE attempt' = attempt + 1 /\ pc' = Entry(step, call.guarded) /\ UNCHANGED result
  /\ UNCHANGED <<call, inputs, page, step, seen, outputs, taken>>

ActFails ==
  /\ pc = "act"
  /\ Tried
  /\ aim' = None
  /\ IF LastAttempt
     THEN Return("unrecognized", 0, seen) /\ UNCHANGED attempt
     ELSE attempt' = attempt + 1 /\ pc' = "attempt" /\ UNCHANGED result
  /\ UNCHANGED <<call, inputs, page, step, seen, outputs, taken>>

\* _act_with_retries, for a NAVIGATE step.
NavigateSucceeds ==
  /\ pc = "navigate"
  /\ Tried
  /\ Proceed
  /\ UNCHANGED <<call, inputs, page, seen, outputs, result>>

\* Mutant: one try too many.
NavigateFailsOnceMore ==
  /\ pc = "navigate"
  /\ Tried
  /\ IF attempt <= Steps[step].retries
     THEN attempt' = attempt + 1 /\ UNCHANGED <<pc, result>>
     ELSE Return("unrecognized", 0, None) /\ UNCHANGED attempt
  /\ UNCHANGED <<call, inputs, page, step, seen, aim, outputs, taken>>

\* Mutant: whether the last try succeeded is not looked at.
NavigateFailsUnnoticed ==
  /\ pc = "navigate"
  /\ Tried
  /\ IF attempt < Steps[step].retries
     THEN attempt' = attempt + 1 /\ UNCHANGED <<pc, step>>
     ELSE step' = step + 1 /\ attempt' = 0 /\ pc' = Entry(step + 1, call.guarded)
  /\ UNCHANGED <<call, inputs, page, seen, aim, outputs, result, taken>>

NavigateFails ==
  /\ pc = "navigate"
  /\ Tried
  /\ IF attempt < Steps[step].retries
     THEN attempt' = attempt + 1 /\ UNCHANGED <<pc, result>>
     ELSE Return("unrecognized", 0, None) /\ UNCHANGED attempt
  /\ UNCHANGED <<call, inputs, page, step, seen, aim, outputs, taken>>

\* Mutant: the checkpoint is not looked for.
FinishUnconfirmed ==
  /\ pc = "final"
  /\ Observe
  /\ IF KnownOutcome(seen') # 0
     THEN Return(Capability.outcomes[KnownOutcome(seen')].category, KnownOutcome(seen'), seen')
     ELSE Return("success", 0, seen')
  /\ UNCHANGED <<call, inputs, page, step, attempt, aim, outputs, acts, taken>>

\* Every step has succeeded: a declared outcome, the checkpoint, or neither.
Finish ==
  /\ pc = "final"
  /\ Observe
  /\ IF KnownOutcome(seen') # 0
     THEN Return(Capability.outcomes[KnownOutcome(seen')].category, KnownOutcome(seen'), seen')
     ELSE IF IsResolved(seen', [tiers  |-> <<Capability.checkpoint>>,
                                policy |-> "escalate_on_ambiguous"])
          THEN Return("success", 0, seen')
          ELSE Return("unrecognized", 0, seen')
  /\ UNCHANGED <<call, inputs, page, step, attempt, aim, outputs, acts, taken>>

\* observe() raises (the page is closed, or being replaced) and so replay() does.
ObserveRaises ==
  /\ pc \in {"guard", "attempt", "final"}
  /\ pc = "attempt" => Attempting
  /\ Return("surface_error", 0, None)
  /\ UNCHANGED <<call, inputs, page, step, attempt, seen, aim, outputs, acts, taken>>

\* The environment: the page becomes another one.
PageChanges ==
  /\ pc # "done"
  /\ page' \in Observations \ {page}
  /\ UNCHANGED <<call, inputs, pc, step, attempt, seen, aim, outputs, result, acts, taken>>

-----------------------------------------------------------------------------
Engine == \/ ValidateInputs \/ RefuseInputs
          \/ CheckGuard
          \/ FindOutcome \/ FindTarget \/ MissTarget \/ RaiseUnreachable
          \/ ActSucceeds \/ ActFails \/ NavigateSucceeds \/ NavigateFails
          \/ Finish \/ ObserveRaises

Next == Engine \/ PageChanges

\* replay() runs to its return: the engine waits for nothing but a call of the
\* surface, and each of those is bounded by its time-out.
Spec == Init /\ [][Next]_vars /\ WF_vars(Engine)

-----------------------------------------------------------------------------
\* Type correctness: there is a result exactly when the call is over, and until
\* the last step is done the cursor is on a step of the artifact.
TypeOK ==
  /\ call \in Calls
  /\ page \in Observations
  /\ pc \in {"start", "guard", "navigate", "attempt", "act", "final", "done"}
  /\ step \in 1..(N + 1)
  /\ pc \in {"start", "guard", "navigate", "attempt", "act"} => step \in 1..N
  /\ attempt \in Nat
  /\ seen \in Observations \cup {None}
  /\ result \in Results \cup {None}
  /\ (result # None) = (pc = "done")
  /\ acts \in [1..N -> Nat]
  /\ taken \in [1..N -> Nat]

\* The step list is carried out in order and once: at most one act of a step
\* succeeds, none is made of a step before every earlier one has succeeded,
\* and a step that succeeded is not acted on again, whatever failed, was
\* retried or was interrupted on the way.
StepsInOrderOnce ==
  /\ \A i \in 1..N : taken[i] = IF i < step THEN 1 ELSE 0
  /\ \A i \in 1..N : acts[i] > 0 => i <= step

\* max_retries bounds what the surface is asked to do: a step is acted on at
\* most that many times over the first, counting across the retries that an
\* unresolved target and a failed act share.
AttemptsBounded ==
  \A i \in 1..N : acts[i] <= IF Steps[i].retries < 0 THEN 1 ELSE Steps[i].retries + 1

\* guarded_replay never lets an irreversible step that this invocation did not
\* authorize reach the surface, on a first attempt or a retry.
RiskyNeedsAuthorization ==
  \A i \in 1..N :
    (acts[i] > 0 /\ call.guarded /\ Steps[i].risk = "risky_irreversible")
      => Steps[i].id \in call.authorized

\* "A guard that declines stops the step's action from ever reaching the
\* Surface": a blocked step was not acted on at all, not even by an attempt
\* that failed before the guard was asked.
BlockedStepNeverActed ==
  (result # None /\ result.status = "policy_blocked") =>
    /\ call.guarded
    /\ acts[result.failed] = 0

\* "Finishing the step list is not itself proof the goal was reached": SUCCESS
\* means every step succeeded, every EXTRACT's value is there, and one last
\* observation shows the checkpoint, uniquely, and no declared outcome.
SuccessIsConfirmed ==
  (result # None /\ result.status = "success") =>
    /\ \A i \in 1..N : taken[i] = 1
    /\ \A i \in 1..N : Steps[i].action = "extract" => Steps[i].output \in DOMAIN outputs
    /\ HitCount(result.last, Capability.checkpoint) = 1
    /\ KnownOutcome(result.last) = 0

\* "A declared outcome always wins outright": no verdict of the engine's own
\* hands back an observation on which a declared outcome shows, and a declared
\* verdict is that of the first outcome its observation shows.
DeclaredOutcomeWins ==
  (result # None /\ result.last # None /\ result.status # "policy_blocked") =>
    /\ result.outcome = KnownOutcome(result.last)
    /\ result.outcome # 0 => result.status = Capability.outcomes[result.outcome].category

\* A retry acts on a fresh resolution: every act of a targeted step aims at
\* what its target resolves to, uniquely, on the observation the engine took
\* last, and that observation shows no declared outcome.
ActsOnlyOnWhatItSaw ==
  [][\A i \in 1..N :
       (acts'[i] # acts[i] /\ Steps[i].action # "navigate") =>
         LET found == ResolveTarget(seen, Steps[i].target)
         IN  /\ KnownOutcome(seen) = 0
             /\ found.status = "resolved"
             /\ aim.ref = seen.nodes[found.node].ref
             /\ aim.frame = seen.nodes[found.node].frame]_vars

\* replay() always comes back with a result, whatever the page does.
Terminates == <>(pc = "done")

-----------------------------------------------------------------------------
\* The engine keeps the promise of ReplayContract: its bookkeeping of loops,
\* attempts and observations amounts to a cursor and a verdict.
Contract == INSTANCE ReplayContract WITH
  Length    <- N,
  Verdicts  <- Statuses,
  permitted <- {i \in 1..N : call.guarded => RiskPermitted(i)},
  tried     <- IF step \in 1..N /\ acts[step] > 0 THEN step ELSE step - 1,
  complete  <- step - 1,
  verdict   <- IF result = None THEN "none" ELSE result.status

KeepsContract == Contract!Spec

-----------------------------------------------------------------------------
\* A reading of the documentation the engine does not live up to.

\* "every single step, re-checked against a fresh Observation.url right before
\* it would act": no act is aimed from an observation off the allowlist.
EveryActOnAllowedDomain ==
  [][\A i \in 1..N :
       (acts'[i] # acts[i] /\ call.guarded /\ seen # None) => DomainAllowed(seen)]_vars
=============================================================================
