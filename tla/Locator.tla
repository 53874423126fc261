------------------------------- MODULE Locator -------------------------------
(***************************************************************************)
(* What a target means: cua.locator.resolve and the lookups of             *)
(* cua.surface.models.Observation it is built from.                        *)
(*                                                                         *)
(* An observation is a record [nodes, domain]; nodes is the document-order *)
(* sequence observe() returns.  A node is a record                         *)
(*   [ref, frame, role, name, depth, parent]                               *)
(* whose accessible name is the set of words it contains: equal names are  *)
(* equal sets, a substring is a subset, and {} is the missing name.  A     *)
(* node is designated by its position in the sequence.                     *)
(***************************************************************************)
EXTENDS Artifact

ResolutionStatus == {"resolved", "ambiguous", "not_found"}

Positions(obs) == DOMAIN obs.nodes

(***************************************************************************)
(* Lookups.                                                                *)
(***************************************************************************)

\* Observation.find_by_ref: the first node with that key; 0 stands for None.
FindByRef(obs, frame, ref) ==
  LET hits == {i \in Positions(obs) :
                 obs.nodes[i].frame = frame /\ obs.nodes[i].ref = ref}
  IN  IF hits = {} THEN 0 ELSE Min(hits)

\* The dict of _index_by_key and by_key: of two nodes with one key, the later
\* overwrites the earlier, and a node without a ref has no entry.
LastByKey(obs, frame, ref) ==
  LET hits == {i \in Positions(obs) :
                 /\ obs.nodes[i].frame = frame
                 /\ obs.nodes[i].ref = ref
                 /\ ref # None}
  IN  IF hits = {} THEN 0 ELSE Max(hits)

\* Observation.by_text_near: an absent name is near nothing.
ByTextNear(obs, near) ==
  {i \in Positions(obs) : obs.nodes[i].name # {} /\ near \subseteq obs.nodes[i].name}

\* Mutant: a sibling does not end the subtree.
InSubtreeOrSibling(obs, root, j) ==
  /\ root <= j
  /\ \A k \in (root + 1)..j :
       /\ obs.nodes[k].frame = obs.nodes[root].frame
       /\ obs.nodes[k].depth >= obs.nodes[root].depth

\* _subtree: the root and what follows it, until a node of another frame or
\* one no deeper than the root.
InSubtree(obs, root, j) ==
  /\ root <= j
  /\ \A k \in (root + 1)..j :
       /\ obs.nodes[k].frame = obs.nodes[root].frame
       /\ obs.nodes[k].depth > obs.nodes[root].depth

Subtree(obs, root) == {j \in Positions(obs) : InSubtree(obs, root, j)}

\* What observe() returns: a list of nodes in pre-order.  No two nodes of a frame
\* have one ref, and a node's parent is above it, with the node in its subtree.
InPreOrder(obs) ==
  /\ Len(obs.nodes) \in Nat /\ Positions(obs) = 1..Len(obs.nodes)
  /\ \A i \in Positions(obs) :
       /\ DOMAIN obs.nodes[i] = {"ref", "frame", "role", "name", "depth", "parent"}
       /\ obs.nodes[i].depth \in Nat
  /\ \A i, j \in Positions(obs) :
       (/\ obs.nodes[i].frame = obs.nodes[j].frame
        /\ obs.nodes[i].ref = obs.nodes[j].ref
        /\ obs.nodes[i].ref # None) => i = j
  /\ \A i \in Positions(obs) : obs.nodes[i].parent # None =>
       \E above \in Positions(obs) : /\ obs.nodes[above].frame = obs.nodes[i].frame
                                     /\ obs.nodes[above].ref = obs.nodes[i].parent
                                     /\ InSubtree(obs, above, i)

(***************************************************************************)
(* One rung of the ladder.  The code collects a list in which a control    *)
(* found through two labels stands twice, so a hit is a pair <<label,      *)
(* control>> of positions: the list's length is the number of hits.        *)
(***************************************************************************)

RoleNameHits(obs, tier) ==
  {<<i, i>> : i \in {j \in Positions(obs) :
                       obs.nodes[j].role = tier.role /\ obs.nodes[j].name = tier.name}}

LabelProximityHits(obs, tier) ==
  {hit \in ByTextNear(obs, tier.near) \X Positions(obs) :
     LET label   == obs.nodes[hit[1]]
         control == obs.nodes[hit[2]]
         row     == LastByKey(obs, label.frame, label.parent)
     IN  /\ row # 0
         /\ control.role = tier.control
         /\ control.ref # label.ref
         /\ InSubtree(obs, row, hit[2])}

AnchoredRegionHits(obs, tier) ==
  LET region == {i \in Positions(obs) :
                   obs.nodes[i].frame = tier.frame /\ obs.nodes[i].role = tier.region}
  IN  {<<i, i>> : i \in {j \in region : Cardinality({k \in region : k < j}) = tier.index}}

\* _match_tier / tier_matches: a visual template never matches anything.
TierMatches(obs, tier) ==
  CASE tier.strategy = "role_name"       -> RoleNameHits(obs, tier)
    [] tier.strategy = "label_proximity" -> LabelProximityHits(obs, tier)
    [] tier.strategy = "anchored_region" -> AnchoredRegionHits(obs, tier)
    [] tier.strategy = "visual_template" -> {}

(***************************************************************************)
(* resolve_target, as its docstring and its callers read it: the verdict   *)
(* of the first decisive rung; failing that, of the first ambiguous one.   *)
(* The loop that computes it is module ResolveLoop.                        *)
(***************************************************************************)

HitCount(obs, tier) == Cardinality(TierMatches(obs, tier))

NotFound == [status |-> "not_found", tier |-> 0, node |-> 0]
Ambiguous(t) == [status |-> "ambiguous", tier |-> t, node |-> 0]
Resolved(obs, tiers, t) ==
  [status |-> "resolved", tier |-> t,
   node |-> (CHOOSE hit \in TierMatches(obs, tiers[t]) : TRUE)[2]]

\* What the rung t says, if it says something.
Verdict(obs, tiers, t) ==
  IF HitCount(obs, tiers[t]) = 1 THEN Resolved(obs, tiers, t) ELSE Ambiguous(t)

\* A target is [tiers |-> <<primary, fallback, ...>>, policy |-> ...].
ResolveTarget(obs, target) ==
  LET tiers     == target.tiers
      unique    == {t \in DOMAIN tiers : HitCount(obs, tiers[t]) = 1}
      ambiguous == {t \in DOMAIN tiers : HitCount(obs, tiers[t]) > 1}
      decisive  == IF target.policy = "escalate_on_ambiguous"
                   THEN unique \cup ambiguous ELSE unique
      telling   == IF decisive # {} THEN decisive ELSE ambiguous
  IN  IF telling = {} THEN NotFound ELSE Verdict(obs, tiers, Min(telling))

IsResolved(obs, target) == ResolveTarget(obs, target).status = "resolved"
=============================================================================
