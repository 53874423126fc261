--------------------------- MODULE ResolveLoop_proofs ---------------------------
(***************************************************************************)
(* Theorems about the loop of resolve_target, for every set of             *)
(* observations and every set of targets.                                  *)
(***************************************************************************)
EXTENDS ResolveLoop, FiniteSetTheorems, TLAPS

\* The least element of a set of natural numbers is its Min.
LEMMA MinIs ==
  ASSUME NEW S \in SUBSET Nat, NEW m \in S, \A n \in S : m <= n
  PROVE  Min(S) = m
<1>1. \A k \in S : (\A n \in S : k <= n) => k = m
  <2> TAKE k \in S
  <2> HAVE \A n \in S : k <= n
  <2>1. k <= m /\ m <= k /\ k \in Nat /\ m \in Nat
    OBVIOUS
  <2> QED
    BY <2>1
<1> QED
  BY <1>1 DEF Min

\* Of a list of nodes, a rung hits finitely many pairs.
LEMMA HitsAreFinite ==
  ASSUME NEW o, IsFiniteSet(Positions(o)), NEW tier,
         tier.strategy \in {"role_name", "label_proximity", "anchored_region",
                            "visual_template"}
  PROVE  IsFiniteSet(TierMatches(o, tier))
<1>1. IsFiniteSet(Positions(o) \X Positions(o))
  BY FS_Product
<1>2. RoleNameHits(o, tier) \subseteq Positions(o) \X Positions(o)
  BY DEF RoleNameHits
<1>3. LabelProximityHits(o, tier) \subseteq Positions(o) \X Positions(o)
  BY DEF LabelProximityHits, ByTextNear
<1>4. AnchoredRegionHits(o, tier) \subseteq Positions(o) \X Positions(o)
  <2> DEFINE P == Positions(o)
             region == {i \in P : o.nodes[i].frame = tier.frame /\ o.nodes[i].role = tier.region}
             chosen == {j \in region : Cardinality({k \in region : k < j}) = tier.index}
  <2>1. AnchoredRegionHits(o, tier) = {<<i, i>> : i \in chosen}
    BY DEF AnchoredRegionHits
  <2>2. chosen \subseteq P
    OBVIOUS
  <2> HIDE DEF chosen, P
  <2>3. {<<i, i>> : i \in chosen} \subseteq P \X P
    BY <2>2
  <2> QED
    BY <2>1, <2>3 DEF P
<1>5. TierMatches(o, tier) \subseteq Positions(o) \X Positions(o)
  <2>1. CASE tier.strategy = "role_name"
    BY <1>2, <2>1 DEF TierMatches
  <2>2. CASE tier.strategy = "label_proximity"
    BY <1>3, <2>2 DEF TierMatches
  <2>3. CASE tier.strategy = "anchored_region"
    BY <1>4, <2>3 DEF TierMatches
  <2>4. CASE tier.strategy = "visual_template"
    BY <2>4 DEF TierMatches
  <2> QED
    BY <2>1, <2>2, <2>3, <2>4
<1> QED
  BY <1>1, <1>5, FS_Subset

-----------------------------------------------------------------------------
(***************************************************************************)
(* The loop invariant: what the rungs passed so far said.                  *)
(***************************************************************************)

\* The arguments and the cursors are what they are declared to be.
Cursors ==
  /\ obs \in Observations
  /\ target \in Targets
  /\ tierIndex \in 1..(Len(target.tiers) + 1)
  /\ firstAmbiguous \in 0..(tierIndex - 1)

\* No rung passed was decisive.
Undecided ==
  \A t \in 1..(tierIndex - 1) :
    /\ HitCount(obs, target.tiers[t]) # 1
    /\ target.policy = "escalate_on_ambiguous" => ~(HitCount(obs, target.tiers[t]) > 1)

\* The ambiguity noted is the first there was.
FirstNoted ==
  /\ firstAmbiguous # 0 => HitCount(obs, target.tiers[firstAmbiguous]) > 1
  /\ \A t \in 1..(tierIndex - 1) :
       HitCount(obs, target.tiers[t]) > 1 => firstAmbiguous # 0 /\ firstAmbiguous <= t

LoopInv == Cursors /\ Undecided /\ FirstNoted /\ LoopComputesResolveTarget

\* A rung that says something after rungs that said nothing decisive is the
\* one resolve_target goes by.
LEMMA DecisiveRung ==
  ASSUME Cursors, Undecided, tierIndex \in DOMAIN target.tiers,
         \/ HitCount(obs, Tier) = 1
         \/ HitCount(obs, Tier) > 1 /\ target.policy = "escalate_on_ambiguous"
  PROVE  ResolveTarget(obs, target) = Verdict(obs, target.tiers, tierIndex)
<1> DEFINE tiers     == target.tiers
           unique    == {t \in DOMAIN tiers : HitCount(obs, tiers[t]) = 1}
           ambiguous == {t \in DOMAIN tiers : HitCount(obs, tiers[t]) > 1}
           decisive  == IF target.policy = "escalate_on_ambiguous"
                        THEN unique \cup ambiguous ELSE unique
<1>1. DOMAIN tiers = 1..Len(tiers) /\ Len(tiers) \in Nat
  BY TargetsAssumption DEF Cursors
<1>2. tierIndex \in decisive
  BY DEF Tier
<1>3. ASSUME NEW t \in decisive
      PROVE  tierIndex <= t
  <2>1. t \in DOMAIN tiers /\ t \in Nat /\ t >= 1
    BY <1>1
  <2>2. CASE t \in 1..(tierIndex - 1)
    BY <2>2, <1>3 DEF Undecided
  <2>3. CASE t \notin 1..(tierIndex - 1)
    BY <2>3, <2>1, <1>1 DEF Cursors
  <2> QED
    BY <2>2, <2>3
<1>4. decisive \in SUBSET Nat
  BY <1>1
<1> HIDE DEF decisive
<1>5. Min(decisive) = tierIndex
  BY <1>2, <1>3, <1>4, MinIs
<1>6. ResolveTarget(obs, target) = Verdict(obs, tiers, Min(decisive))
  BY <1>2 DEF ResolveTarget, decisive
<1> QED
  BY <1>5, <1>6

\* Past the last rung resolve_target goes by the first ambiguous one, if any.
LEMMA NoDecisiveRung ==
  ASSUME Cursors, Undecided, FirstNoted, tierIndex \notin DOMAIN target.tiers
  PROVE  ResolveTarget(obs, target)
           = IF firstAmbiguous # 0 THEN Ambiguous(firstAmbiguous) ELSE NotFound
<1> DEFINE tiers     == target.tiers
           unique    == {t \in DOMAIN tiers : HitCount(obs, tiers[t]) = 1}
           ambiguous == {t \in DOMAIN tiers : HitCount(obs, tiers[t]) > 1}
           decisive  == IF target.policy = "escalate_on_ambiguous"
                        THEN unique \cup ambiguous ELSE unique
<1>1. DOMAIN tiers = 1..Len(tiers) /\ Len(tiers) \in Nat
  BY TargetsAssumption DEF Cursors
<1>2. DOMAIN tiers = 1..(tierIndex - 1)
  BY <1>1 DEF Cursors
<1>3. decisive = {}
  BY <1>2 DEF Undecided
<1>4. CASE firstAmbiguous = 0
  <2>1. ambiguous = {}
    BY <1>2, <1>4 DEF FirstNoted
  <2> QED
    BY <1>3, <1>4, <2>1 DEF ResolveTarget
<1>5. CASE firstAmbiguous # 0
  <2>1. firstAmbiguous \in ambiguous
    BY <1>2, <1>5 DEF FirstNoted, Cursors
  <2>2. \A t \in ambiguous : firstAmbiguous <= t
    BY <1>2 DEF FirstNoted
  <2>3. ambiguous \in SUBSET Nat
    BY <1>1
  <2>4. HitCount(obs, tiers[firstAmbiguous]) # 1
    BY <1>2, <2>1 DEF Undecided
  <2> HIDE DEF ambiguous
  <2>5. Min(ambiguous) = firstAmbiguous
    BY <2>1, <2>2, <2>3, MinIs
  <2>6. ResolveTarget(obs, target) = Verdict(obs, tiers, Min(ambiguous))
    BY <1>3, <2>1 DEF ResolveTarget, ambiguous
  <2> QED
    BY <1>5, <2>4, <2>5, <2>6 DEF Verdict
<1> QED
  BY <1>4, <1>5

\* Between the two, the loop body keeps its invariant.
LEMMA LoopStep ==
  ASSUME LoopInv, [Next]_vars
  PROVE  LoopInv'
<1> USE DEF LoopInv
<1>1. DOMAIN target.tiers = 1..Len(target.tiers) /\ Len(target.tiers) \in Nat
  BY TargetsAssumption DEF Cursors
<1>2. CASE ReturnUnique
  <2>1. tierIndex \in DOMAIN target.tiers /\ HitCount(obs, Tier) = 1
    BY <1>2 DEF ReturnUnique, Trying
  <2>2. ResolveTarget(obs, target) = Resolved(obs, target.tiers, tierIndex)
    BY <2>1, DecisiveRung DEF Verdict, Tier
  <2> QED
    BY <1>2, <2>2
       DEF ReturnUnique, Cursors, Undecided, FirstNoted, LoopComputesResolveTarget
<1>3. CASE ReturnAmbiguous
  <2>1. /\ tierIndex \in DOMAIN target.tiers /\ HitCount(obs, Tier) > 1
        /\ target.policy = "escalate_on_ambiguous"
    BY <1>3 DEF ReturnAmbiguous, Trying
  <2>2. ResolveTarget(obs, target) = Verdict(obs, target.tiers, tierIndex)
    BY <2>1, DecisiveRung
  <2>3. HitCount(obs, Tier) # 1
    BY <2>1
  <2>4. ResolveTarget(obs, target) = Ambiguous(tierIndex)
    BY <2>2, <2>3 DEF Verdict, Tier
  <2> QED
    BY <1>3, <2>4
       DEF ReturnAmbiguous, Cursors, Undecided, FirstNoted, LoopComputesResolveTarget
<1>4. CASE NoteAmbiguous
  <2>1. /\ tierIndex \in DOMAIN target.tiers /\ HitCount(obs, Tier) > 1
        /\ target.policy # "escalate_on_ambiguous" /\ resolution = None
        /\ HitCount(obs, Tier) # 1
    BY <1>4 DEF NoteAmbiguous, Trying
  <2>2. /\ obs' = obs /\ target' = target /\ resolution' = resolution
        /\ tierIndex' = tierIndex + 1
        /\ firstAmbiguous' = IF firstAmbiguous = 0 THEN tierIndex ELSE firstAmbiguous
    BY <1>4 DEF NoteAmbiguous
  <2>3. Cursors'
    BY <1>1, <2>1, <2>2 DEF Cursors
  <2>4. \A t \in 1..(tierIndex' - 1) : t \in 1..(tierIndex - 1) \/ t = tierIndex
    BY <2>2 DEF Cursors
  <2>5. Undecided'
    BY <2>1, <2>2, <2>4 DEF Undecided, Tier
  <2>6. FirstNoted'
    BY <2>1, <2>2, <2>4 DEF FirstNoted, Tier, Cursors
  <2> QED
    BY <2>1, <2>2, <2>3, <2>5, <2>6 DEF LoopComputesResolveTarget
<1>5. CASE SkipEmpty
  <2>1. /\ tierIndex \in DOMAIN target.tiers /\ HitCount(obs, Tier) = 0
        /\ resolution = None
    BY <1>5 DEF SkipEmpty, Trying
  <2>2. /\ obs' = obs /\ target' = target /\ resolution' = resolution
        /\ tierIndex' = tierIndex + 1 /\ firstAmbiguous' = firstAmbiguous
    BY <1>5 DEF SkipEmpty
  <2>3. Cursors'
    BY <1>1, <2>1, <2>2 DEF Cursors
  <2>4. \A t \in 1..(tierIndex' - 1) : t \in 1..(tierIndex - 1) \/ t = tierIndex
    BY <2>2 DEF Cursors
  <2>5. Undecided'
    BY <2>1, <2>2, <2>4 DEF Undecided, Tier
  <2>6. FirstNoted'
    BY <2>1, <2>2, <2>4 DEF FirstNoted, Tier, Cursors
  <2> QED
    BY <2>1, <2>2, <2>3, <2>5, <2>6 DEF LoopComputesResolveTarget
<1>6. CASE Exhausted
  <2>1. tierIndex \notin DOMAIN target.tiers
    BY <1>6 DEF Exhausted
  <2>2. ResolveTarget(obs, target)
          = IF firstAmbiguous # 0 THEN Ambiguous(firstAmbiguous) ELSE NotFound
    BY <2>1, NoDecisiveRung
  <2> QED
    BY <1>6, <2>2
       DEF Exhausted, Cursors, Undecided, FirstNoted, LoopComputesResolveTarget
<1>7. CASE UNCHANGED vars
  BY <1>7 DEF vars, Cursors, Undecided, FirstNoted, LoopComputesResolveTarget
<1> QED
  BY <1>2, <1>3, <1>4, <1>5, <1>6, <1>7 DEF Next

\* The rungs passed, the ambiguity noted and the arguments stay as LoopInv says.
THEOREM LoopInvariance == Spec => []LoopInv
<1>1. Init => LoopInv
  <2> SUFFICES ASSUME Init PROVE LoopInv
    OBVIOUS
  <2>1. Len(target.tiers) \in Nat \ {0}
    BY TargetsAssumption DEF Init
  <2> QED
    BY <2>1 DEF Init, LoopInv, Cursors, Undecided, FirstNoted, LoopComputesResolveTarget
<1> QED
  BY <1>1, LoopStep, PTL DEF Spec

\* The early returns and the noted first ambiguity of the loop amount to the
\* verdict its docstring promises, on every page and for every ladder.
THEOREM LoopIsResolveTarget == Spec => []LoopComputesResolveTarget
<1>1. LoopInv => LoopComputesResolveTarget
  BY DEF LoopInv
<1> QED
  BY <1>1, LoopInvariance, PTL

\* The step that returns a resolution takes the only hit of its rung.
LEMMA UniqueStep ==
  ASSUME LoopInv, ReturnUnique
  PROVE  NeverAGuess'
<1> DEFINE hits == TierMatches(obs, Tier)
<1>1. /\ DOMAIN target.tiers = 1..Len(target.tiers) /\ Len(target.tiers) \in Nat
      /\ tierIndex \in DOMAIN target.tiers /\ HitCount(obs, Tier) = 1
      /\ \A t \in DOMAIN target.tiers :
           IsFiniteSet(TierMatches(obs, target.tiers[t]))
  BY HitsAreFinite, TargetsAssumption, ObservationsAssumption
     DEF LoopInv, Cursors, ReturnUnique, Trying
<1>2. /\ obs' = obs /\ target' = target
      /\ resolution' = [status |-> "resolved", tier |-> tierIndex,
                        node |-> (CHOOSE hit \in hits : TRUE)[2]]
  BY DEF ReturnUnique, Resolved, Tier
<1>3. \A hit \in hits : hit[2] = resolution'.node
  <2>1. PICK only : hits = {only}
    BY <1>1, FS_Singleton DEF HitCount, Tier
  <2>2. (CHOOSE hit \in hits : TRUE) = only
    BY <2>1
  <2> QED
    BY <1>2, <2>1, <2>2
<1>4. ASSUME NEW t \in 1..(tierIndex - 1)
      PROVE  /\ HitCount(obs, target.tiers[t]) # 1
             /\ target.policy = "escalate_on_ambiguous" => HitCount(obs, target.tiers[t]) = 0
  <2>1. HitCount(obs, target.tiers[t]) \in Nat
    BY <1>1, FS_CardinalityType DEF HitCount
  <2> QED
    BY <2>1 DEF LoopInv, Undecided
<1> HIDE DEF hits
<1>5. resolution'.tier = tierIndex
  BY <1>2
<1>6. \A hit \in TierMatches(obs, target.tiers[tierIndex]) : hit[2] = resolution'.node
  BY <1>3 DEF hits, Tier
<1> QED
  BY <1>2, <1>4, <1>5, <1>6 DEF NeverAGuess

\* A target the loop resolves is the one thing its rung hits, and no rung
\* before it had an answer that was passed over.
THEOREM LoopNeverGuesses == Spec => []NeverAGuess
<1>1. Init => NeverAGuess
  BY DEF Init, NeverAGuess
<1>2. ASSUME LoopInv, NeverAGuess, [Next]_vars
      PROVE  NeverAGuess'
  <2>1. CASE ReturnUnique
    BY <1>2, <2>1, UniqueStep
  <2>2. CASE ReturnAmbiguous
    BY <2>2 DEF ReturnAmbiguous, NeverAGuess, Ambiguous
  <2>3. CASE NoteAmbiguous
    BY <2>3 DEF NoteAmbiguous, Trying, NeverAGuess
  <2>4. CASE SkipEmpty
    BY <2>4 DEF SkipEmpty, Trying, NeverAGuess
  <2>5. CASE Exhausted
    BY <2>5 DEF Exhausted, NeverAGuess, Ambiguous, NotFound
  <2>6. CASE UNCHANGED vars
    BY <1>2, <2>6 DEF vars, NeverAGuess
  <2> QED
    BY <1>2, <2>1, <2>2, <2>3, <2>4, <2>5, <2>6 DEF Next
<1> QED
  BY <1>1, <1>2, LoopInvariance, PTL DEF Spec
=============================================================================
