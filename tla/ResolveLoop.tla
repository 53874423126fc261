----------------------------- MODULE ResolveLoop -----------------------------
(***************************************************************************)
(* The loop of cua.locator.resolve.resolve_target, one rung a step.        *)
(***************************************************************************)
EXTENDS Locator

CONSTANTS Observations,   \* what the loop may be called with
          Targets

ASSUME TargetsAssumption ==
  \A target \in Targets :
    /\ Len(target.tiers) \in Nat \ {0}
    /\ DOMAIN target.tiers = 1..Len(target.tiers)
    /\ target.policy \in {"escalate_on_ambiguous", "first_unique_match"}
    /\ \A t \in DOMAIN target.tiers :
         target.tiers[t].strategy \in {"role_name", "label_proximity", "anchored_region",
                                      "visual_template"}

\* An observation is a list.
ASSUME ObservationsAssumption ==
  \A obs \in Observations : IsFiniteSet(Positions(obs))

VARIABLES obs, target,      \* the arguments
          tierIndex,        \* the rung enumerate() is about to yield
          firstAmbiguous,   \* position of the first ambiguous rung, 0 for None
          resolution        \* None until the function returns

vars == <<obs, target, tierIndex, firstAmbiguous, resolution>>

Tier == target.tiers[tierIndex]

Init == /\ obs \in Observations
        /\ target \in Targets
        /\ tierIndex = 1
        /\ firstAmbiguous = 0
        /\ resolution = None

Trying == resolution = None /\ tierIndex \in DOMAIN target.tiers

\* Mutant: the first of several matches is taken.
ReturnFirst ==
  /\ Trying
  /\ HitCount(obs, Tier) >= 1
  /\ resolution' = Resolved(obs, target.tiers, tierIndex)
  /\ UNCHANGED <<obs, target, tierIndex, firstAmbiguous>>

ReturnUnique ==
  /\ Trying
  /\ HitCount(obs, Tier) = 1
  /\ resolution' = Resolved(obs, target.tiers, tierIndex)
  /\ UNCHANGED <<obs, target, tierIndex, firstAmbiguous>>

ReturnAmbiguous ==
  /\ Trying
  /\ HitCount(obs, Tier) > 1
  /\ target.policy = "escalate_on_ambiguous"
  /\ resolution' = Ambiguous(tierIndex)
  /\ UNCHANGED <<obs, target, tierIndex, firstAmbiguous>>

\* Mutant: each ambiguous rung overwrites the one noted before.
NoteLastAmbiguous ==
  /\ Trying
  /\ HitCount(obs, Tier) > 1
  /\ target.policy # "escalate_on_ambiguous"
  /\ firstAmbiguous' = tierIndex
  /\ tierIndex' = tierIndex + 1
  /\ UNCHANGED <<obs, target, resolution>>

NoteAmbiguous ==
  /\ Trying
  /\ HitCount(obs, Tier) > 1
  /\ target.policy # "escalate_on_ambiguous"
  /\ firstAmbiguous' = IF firstAmbiguous = 0 THEN tierIndex ELSE firstAmbiguous
  /\ tierIndex' = tierIndex + 1
  /\ UNCHANGED <<obs, target, resolution>>

SkipEmpty ==
  /\ Trying
  /\ HitCount(obs, Tier) = 0
  /\ tierIndex' = tierIndex + 1
  /\ UNCHANGED <<obs, target, firstAmbiguous, resolution>>

Exhausted ==
  /\ resolution = None
  /\ tierIndex \notin DOMAIN target.tiers
  /\ resolution' = IF firstAmbiguous # 0 THEN Ambiguous(firstAmbiguous) ELSE NotFound
  /\ UNCHANGED <<obs, target, tierIndex, firstAmbiguous>>

Next == ReturnUnique \/ ReturnAmbiguous \/ NoteAmbiguous \/ SkipEmpty \/ Exhausted

Spec == Init /\ [][Next]_vars

-----------------------------------------------------------------------------
\* What the early returns and the noted first ambiguity amount to: the loop
\* returns exactly the verdict the engine's reading of a target relies on.
LoopComputesResolveTarget ==
  resolution # None => resolution = ResolveTarget(obs, target)

\* "Ambiguity is never silently resolved by picking the first match": a
\* resolved target names a node its rung hit and no rung hit twice, whatever
\* the rungs before it saw; under escalate_on_ambiguous those saw nothing.
NeverAGuess ==
  (resolution # None /\ resolution.status = "resolved") =>
    /\ \A hit \in TierMatches(obs, target.tiers[resolution.tier]) : hit[2] = resolution.node
    /\ \A t \in 1..(resolution.tier - 1) :
         HitCount(obs, target.tiers[t]) # 1
         /\ (target.policy = "escalate_on_ambiguous" => HitCount(obs, target.tiers[t]) = 0)
=============================================================================
