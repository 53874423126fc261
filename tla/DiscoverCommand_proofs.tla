------------------------- MODULE DiscoverCommand_proofs -------------------------
(***************************************************************************)
(* Theorems about Recorder, Discovery and DiscoverCommand, for every set   *)
(* of pages, whatever the model may answer and the human may add.          *)
(***************************************************************************)
EXTENDS DiscoverCommand, FiniteSetTheorems, WellFoundedInduction, TLAPS

(***************************************************************************)
(* Facts about numbers and lists of nodes.                                 *)
(***************************************************************************)

\* A set of natural numbers has a least element, which Min names.
LEMMA LeastOf ==
  ASSUME NEW S \in SUBSET Nat, S # {}
  PROVE  Min(S) \in S /\ \A n \in S : Min(S) <= n
<1> DEFINE less == OpToRel(<, Nat)
<1>1. IsWellFoundedOn(less, Nat)
  BY NatLessThanWellFounded
<1>2. \A m, n \in Nat : n < m => <<n, m>> \in less
  BY DEF OpToRel
<1> HIDE DEF less
<1>3. PICK m \in S : \A n \in S : ~ (<<n, m>> \in less)
  BY <1>1, WFMin
<1>4. \A n \in S : m <= n
  <2> TAKE n \in S
  <2>1. m \in Nat /\ n \in Nat /\ ~ (n < m)
    BY <1>2, <1>3
  <2> QED
    BY <2>1
<1> QED
  BY <1>4 DEF Min

\* The element that alone fits is the first and the last that fits.
LEMMA MinMaxOfOne ==
  ASSUME NEW S, NEW k \in S, \A j \in S : j = k, k \in Nat
  PROVE  Min(S) = k /\ Max(S) = k
<1>1. S = {k}
  OBVIOUS
<1> QED
  BY <1>1 DEF Min, Max

\* find_by_ref finds a node with the key, if there is one.
LEMMA FoundByRef ==
  ASSUME NEW obs \in Pages, NEW frame, NEW ref
  PROVE  LET found == FindByRef(obs, frame, ref)
         IN  /\ found \in Nat
             /\ found # 0 => /\ found \in Positions(obs)
                             /\ obs.nodes[found].frame = frame
                             /\ obs.nodes[found].ref = ref
<1> DEFINE hits == {i \in Positions(obs) :
                      obs.nodes[i].frame = frame /\ obs.nodes[i].ref = ref}
<1>1. hits \in SUBSET Nat
  BY PagesAssumption DEF InPreOrder
<1>2. FindByRef(obs, frame, ref) = IF hits = {} THEN 0 ELSE Min(hits)
  BY DEF FindByRef
<1>3. hits # {} => Min(hits) \in hits
  <2> HIDE DEF hits
  <2> QED
    BY <1>1, LeastOf
<1>4. CASE hits = {}
  BY <1>2, <1>4
<1>5. CASE hits # {}
  <2>1. FindByRef(obs, frame, ref) \in hits
    BY <1>2, <1>3, <1>5
  <2> QED
    BY <1>1, <2>1
<1> QED
  BY <1>4, <1>5

\* A node's parent is found under its ref, by either look-up, and it is above.
LEMMA ParentIsAbove ==
  ASSUME NEW obs \in Pages, NEW i \in Positions(obs), obs.nodes[i].parent # None
  PROVE  LET above == FindByRef(obs, obs.nodes[i].frame, obs.nodes[i].parent)
         IN  /\ above \in Positions(obs)
             /\ obs.nodes[above].frame = obs.nodes[i].frame
             /\ InSubtree(obs, above, i)
             /\ LastByKey(obs, obs.nodes[i].frame, obs.nodes[i].parent) = above
<1> DEFINE frame == obs.nodes[i].frame
           ref   == obs.nodes[i].parent
           hits  == {j \in Positions(obs) :
                       obs.nodes[j].frame = frame /\ obs.nodes[j].ref = ref}
           last  == {j \in Positions(obs) :
                       /\ obs.nodes[j].frame = frame
                       /\ obs.nodes[j].ref = ref
                       /\ ref # None}
<1>1. PICK above \in Positions(obs) : /\ obs.nodes[above].frame = frame
                                      /\ obs.nodes[above].ref = ref
                                      /\ InSubtree(obs, above, i)
  BY PagesAssumption DEF InPreOrder
<1>2. above \in Nat
  BY PagesAssumption DEF InPreOrder
<1>3. above \in hits /\ last = hits
  BY <1>1
<1>4. \A j \in hits : j = above
  BY <1>1, PagesAssumption DEF InPreOrder
<1>5. FindByRef(obs, frame, ref) = Min(hits)
  BY <1>3 DEF FindByRef
<1>6. LastByKey(obs, frame, ref) = Max(last)
  BY <1>3 DEF LastByKey
<1> HIDE DEF hits, last
<1>7. Min(hits) = above /\ Max(hits) = above
  BY <1>2, <1>3, <1>4, MinMaxOfOne
<1> QED
  BY <1>1, <1>3, <1>5, <1>6, <1>7

\* The subtree of a node in a subtree is part of it.
LEMMA SubtreeOfSubtree ==
  ASSUME NEW obs \in Pages, NEW a \in Positions(obs), NEW b \in Positions(obs),
         NEW c \in Positions(obs), InSubtree(obs, a, b), InSubtree(obs, b, c)
  PROVE  InSubtree(obs, a, c)
<1>1. a \in Nat /\ b \in Nat /\ c \in Nat /\ a <= b /\ b <= c
  BY PagesAssumption DEF InPreOrder, InSubtree
<1>2. ASSUME NEW k \in (a + 1)..c
      PROVE  /\ obs.nodes[k].frame = obs.nodes[a].frame
             /\ obs.nodes[k].depth > obs.nodes[a].depth
  <2>1. CASE k <= b
    BY <1>1, <2>1 DEF InSubtree
  <2>2. CASE k > b
    <3>1. /\ obs.nodes[k].frame = obs.nodes[b].frame
          /\ obs.nodes[k].depth > obs.nodes[b].depth
      BY <1>1, <2>2 DEF InSubtree
    <3>2. \/ a = b
          \/ /\ obs.nodes[b].frame = obs.nodes[a].frame
             /\ obs.nodes[b].depth > obs.nodes[a].depth
      BY <1>1 DEF InSubtree
    <3>3. k \in Positions(obs)
      BY <1>1, PagesAssumption DEF InPreOrder
    <3>4. /\ obs.nodes[a].depth \in Nat /\ obs.nodes[b].depth \in Nat
          /\ obs.nodes[k].depth \in Nat
      BY <3>3, PagesAssumption DEF InPreOrder
    <3> QED
      BY <3>1, <3>2, <3>4
  <2> QED
    BY <1>1, <2>1, <2>2
<1> QED
  BY <1>1, <1>2 DEF InSubtree

-----------------------------------------------------------------------------
(***************************************************************************)
(* infer_target.                                                           *)
(***************************************************************************)

\* What one level of _infer_label's climb makes of the level below it.
Climb(obs, i, up, k) ==
  IF k = 0 THEN i
  ELSE IF up[k - 1] = 0 \/ obs.nodes[up[k - 1]].parent = None THEN 0
       ELSE FindByRef(obs, obs.nodes[i].frame, obs.nodes[up[k - 1]].parent)

\* The climb is what its recursive definition says.
LEMMA ClimbExists ==
  ASSUME NEW obs \in Pages, NEW i
  PROVE  Ancestors(obs, i) =
           [k \in 0..Len(obs.nodes) |-> Climb(obs, i, Ancestors(obs, i), k)]
<1> DEFINE Fits(up, n) == up = [k \in 0..n |-> Climb(obs, i, up, k)]
           missing == {n \in Nat : ~ \E up : Fits(up, n)}
<1>1. missing = {}
  <2> SUFFICES ASSUME missing # {} PROVE FALSE
    OBVIOUS
  <2>1. missing \in SUBSET Nat
    OBVIOUS
  <2>2. PICK m \in missing : \A n \in missing : m <= n
    <3> HIDE DEF missing
    <3> QED
      BY <2>1, LeastOf
  <2>3. CASE m = 0
    <3>1. Fits([k \in 0..0 |-> i], 0)
      BY DEF Climb
    <3> QED
      BY <2>2, <2>3, <3>1
  <2>4. CASE m # 0
    <3>1. m \in Nat /\ m - 1 \in Nat
      BY <2>4
    <3> HIDE DEF Fits
    <3>0. m - 1 \notin missing
      BY <2>2, <3>1
    <3>2. PICK below : Fits(below, m - 1)
      BY <3>0, <3>1
    <3> USE DEF Fits
    <3> DEFINE up == [k \in 0..m |-> IF k = m THEN Climb(obs, i, below, m) ELSE below[k]]
    <3>3. \A k \in 0..(m - 1) : up[k] = below[k] /\ below[k] = Climb(obs, i, below, k)
      BY <3>1, <3>2
    <3>4. up[m] = Climb(obs, i, below, m)
      BY <3>1
    <3>5. DOMAIN up = 0..m /\ up = [k \in 0..m |-> up[k]]
      OBVIOUS
    <3> HIDE DEF up
    <3>6. ASSUME NEW k \in 0..m
          PROVE  up[k] = Climb(obs, i, up, k)
      <4>1. k = 0 \/ (k - 1 \in 0..(m - 1) /\ up[k - 1] = below[k - 1])
        BY <3>1, <3>3
      <4>2. Climb(obs, i, up, k) = Climb(obs, i, below, k)
        BY <4>1 DEF Climb
      <4>3. k = m \/ k \in 0..(m - 1)
        BY <3>1
      <4> QED
        BY <3>3, <3>4, <4>2, <4>3
    <3>7. Fits(up, m)
      BY <3>5, <3>6
    <3> QED
      BY <2>2, <3>7
  <2> QED
    BY <2>3, <2>4
<1>2. Len(obs.nodes) \in Nat
  BY PagesAssumption DEF InPreOrder
<1>3. \E up : Fits(up, Len(obs.nodes))
  BY <1>1, <1>2
<1>4. Ancestors(obs, i) = CHOOSE up : Fits(up, Len(obs.nodes))
  BY DEF Ancestors, Climb
<1> QED
  BY <1>3, <1>4

\* Whatever the climb reaches has the node it began at in its subtree.
LEMMA ClimbStaysAbove ==
  ASSUME NEW obs \in Pages, NEW i \in Positions(obs), NEW k \in 0..Len(obs.nodes),
         Ancestors(obs, i)[k] # 0
  PROVE  LET current == Ancestors(obs, i)[k]
         IN  /\ current \in Positions(obs)
             /\ obs.nodes[current].frame = obs.nodes[i].frame
             /\ InSubtree(obs, current, i)
<1> DEFINE up       == Ancestors(obs, i)
           Above(c) == /\ c \in Positions(obs)
                       /\ obs.nodes[c].frame = obs.nodes[i].frame
                       /\ InSubtree(obs, c, i)
           stray    == {l \in 0..Len(obs.nodes) : up[l] # 0 /\ ~Above(up[l])}
<1>1. \A l \in 0..Len(obs.nodes) : up[l] = Climb(obs, i, up, l)
  BY ClimbExists
<1>2. stray = {}
  <2> SUFFICES ASSUME stray # {} PROVE FALSE
    OBVIOUS
  <2>1. Len(obs.nodes) \in Nat
    BY PagesAssumption DEF InPreOrder
  <2>2. stray \in SUBSET Nat
    BY <2>1
  <2>3. PICK m \in stray : \A n \in stray : m <= n
    <3> HIDE DEF stray
    <3> QED
      BY <2>2, LeastOf
  <2>4. up[m] = Climb(obs, i, up, m) /\ m \in 0..Len(obs.nodes)
    BY <1>1, <2>3
  <2> HIDE DEF up
  <2>5. CASE m = 0
    <3>1. up[m] = i
      BY <2>4, <2>5 DEF Climb
    <3>2. Above(i)
      BY PagesAssumption DEF InPreOrder, InSubtree
    <3> QED
      BY <2>3, <3>1, <3>2
  <2>6. CASE m # 0
    <3> DEFINE below == up[m - 1]
    <3>1. m - 1 \in 0..Len(obs.nodes) /\ m - 1 \notin stray
      <4>1. m - 1 \in 0..Len(obs.nodes) /\ ~(m <= m - 1)
        BY <2>1, <2>4, <2>6
      <4> HIDE DEF stray
      <4> QED
        BY <2>3, <4>1
    <3>2. below # 0 /\ obs.nodes[below].parent # None
          /\ up[m] = FindByRef(obs, obs.nodes[i].frame, obs.nodes[below].parent)
      BY <2>3, <2>4, <2>6 DEF Climb
    <3>3. Above(below)
      BY <3>1, <3>2
    <3>4. /\ up[m] \in Positions(obs)
          /\ obs.nodes[up[m]].frame = obs.nodes[below].frame
          /\ InSubtree(obs, up[m], below)
      <4>1. up[m] = FindByRef(obs, obs.nodes[below].frame, obs.nodes[below].parent)
        BY <3>2, <3>3
      <4>2. below \in Positions(obs) /\ obs.nodes[below].parent # None
        BY <3>2, <3>3
      <4> HIDE DEF below
      <4> QED
        BY <4>1, <4>2, ParentIsAbove
    <3>5. InSubtree(obs, up[m], i)
      BY <3>3, <3>4, SubtreeOfSubtree
    <3> QED
      BY <2>3, <3>3, <3>4, <3>5
  <2> QED
    BY <2>5, <2>6
<1> QED
  BY <1>2

\* A target of one rung that has a node among what it matches, and resolves to it
\* unless it matches several.
MeansTheElement(obs, target, i) ==
  LET tier  == target.tiers[1]
      found == ResolveTarget(obs, target)
  IN  /\ \E hit \in TierMatches(obs, tier) : hit[2] = i
      /\ IF HitCount(obs, tier) = 1 THEN found.status = "resolved" /\ found.node = i
         ELSE found.status = "ambiguous"

\* A ladder of one rung that hits a node means it.
LEMMA OneRung ==
  ASSUME NEW obs \in Pages, NEW tier, NEW label, NEW i, <<label, i>> \in TierMatches(obs, tier),
         tier.strategy \in {"role_name", "label_proximity", "anchored_region"}
  PROVE  MeansTheElement(obs, Only(tier), i)
<1> DEFINE hits   == TierMatches(obs, tier)
           target == Only(tier)
           tiers  == target.tiers
           unique    == {t \in DOMAIN tiers : HitCount(obs, tiers[t]) = 1}
           ambiguous == {t \in DOMAIN tiers : HitCount(obs, tiers[t]) > 1}
<1>1. tiers = <<tier>> /\ target.policy = "escalate_on_ambiguous"
  BY DEF Only
<1>2. IsFiniteSet(hits)
  <2>1. IsFiniteSet(Positions(obs) \X Positions(obs))
    <3>1. Positions(obs) = 1..Len(obs.nodes) /\ Len(obs.nodes) \in Int
      BY PagesAssumption DEF InPreOrder
    <3>2. IsFiniteSet(Positions(obs))
      BY <3>1, FS_Interval
    <3> QED
      BY <3>2, FS_Product
  <2>2. hits \subseteq Positions(obs) \X Positions(obs)
    <3> DEFINE P == Positions(obs)
               region == {k \in P : obs.nodes[k].frame = tier.frame
                                     /\ obs.nodes[k].role = tier.region}
               chosen == {j \in region : Cardinality({k \in region : k < j}) = tier.index}
               named  == {j \in P : obs.nodes[j].role = tier.role /\ obs.nodes[j].name = tier.name}
    <3>1. CASE tier.strategy = "role_name"
      <4>1. hits = {<<k, k>> : k \in named}
        BY <3>1 DEF TierMatches, RoleNameHits
      <4>2. named \subseteq P
        OBVIOUS
      <4> HIDE DEF named, P
      <4>3. {<<k, k>> : k \in named} \subseteq P \X P
        BY <4>2
      <4> QED
        BY <4>1, <4>3 DEF P
    <3>2. CASE tier.strategy = "label_proximity"
      BY <3>2 DEF TierMatches, LabelProximityHits, ByTextNear
    <3>3. CASE tier.strategy = "anchored_region"
      <4>1. hits = {<<k, k>> : k \in chosen}
        BY <3>3 DEF TierMatches, AnchoredRegionHits
      <4>2. chosen \subseteq P
        OBVIOUS
      <4> HIDE DEF chosen, P
      <4>3. {<<k, k>> : k \in chosen} \subseteq P \X P
        BY <4>2
      <4> QED
        BY <4>1, <4>3 DEF P
    <3> QED
      BY <3>1, <3>2, <3>3
  <2> QED
    BY <2>1, <2>2, FS_Subset
<1> DEFINE n == Cardinality(hits)
<1>3. n \in Nat /\ n # 0
  BY <1>2, FS_CardinalityType, FS_EmptySet
<1>4. DOMAIN tiers = {1} /\ HitCount(obs, tiers[1]) = n
  BY <1>1 DEF HitCount
<1> HIDE DEF hits, n, tiers, target
<1>5. Min(unique \cup ambiguous) = 1
  <2>1. unique \cup ambiguous = {1}
    BY <1>3, <1>4
  <2> HIDE DEF unique, ambiguous
  <2> QED
    BY <2>1, MinMaxOfOne
<1>6. ResolveTarget(obs, target) = Verdict(obs, tiers, 1)
  <2>1. 1 \in unique \cup ambiguous
    BY <1>3, <1>4
  <2> QED
    BY <1>1, <1>5, <2>1 DEF ResolveTarget, tiers
<1>7. ASSUME n = 1
      PROVE  ResolveTarget(obs, target).status = "resolved" /\ ResolveTarget(obs, target).node = i
  <2>1. PICK only : hits = {only}
    BY <1>2, <1>7, FS_Singleton DEF n
  <2>2. only = <<label, i>>
    BY <2>1 DEF hits
  <2>3. TierMatches(obs, tiers[1]) = {<<label, i>>}
    BY <1>1, <2>1, <2>2 DEF hits
  <2>4. (CHOOSE hit \in TierMatches(obs, tiers[1]) : TRUE) = <<label, i>>
    BY <2>3
  <2> QED
    <3>1. Resolved(obs, tiers, 1).status = "resolved" /\ Resolved(obs, tiers, 1).node = i
      <4> DEFINE hit == CHOOSE h \in TierMatches(obs, tiers[1]) : TRUE
      <4>1. hit[2] = i
        <5>1. hit = <<label, i>>
          BY <2>4
        <5> HIDE DEF hit
        <5> QED
          BY <5>1
      <4>2. Resolved(obs, tiers, 1) = [status |-> "resolved", tier |-> 1, node |-> hit[2]]
        BY DEF Resolved
      <4> HIDE DEF hit
      <4> QED
        BY <4>1, <4>2
    <3>2. Verdict(obs, tiers, 1) = Resolved(obs, tiers, 1)
      BY <1>4, <1>7 DEF Verdict
    <3> QED
      BY <1>6, <3>1, <3>2 DEF target
<1>8. ASSUME n # 1
      PROVE  ResolveTarget(obs, target).status = "ambiguous"
  BY <1>4, <1>6, <1>8 DEF Verdict, Ambiguous, target
<1>9. \E hit \in TierMatches(obs, tier) : hit[2] = i
  <2>1. <<label, i>>[2] = i
    OBVIOUS
  <2> QED
    BY <2>1
<1>10. target.tiers[1] = tier /\ HitCount(obs, tier) = n
  BY <1>1, <1>4 DEF target, tiers
<1> QED
  BY <1>7, <1>8, <1>9, <1>10 DEF MeansTheElement, target

\* The label that infer_target finds is next to the node or one of its
\* ancestors, in a row that has both.
LEMMA LabelledRow ==
  ASSUME NEW obs \in Pages, NEW i \in Positions(obs), obs.nodes[i].ref # None,
         LabelNode(obs, i) # 0
  PROVE  LET label == LabelNode(obs, i)
             row   == LastByKey(obs, obs.nodes[label].frame, obs.nodes[label].parent)
         IN  /\ label \in Positions(obs)
             /\ obs.nodes[label].name # {}
             /\ row # 0
             /\ obs.nodes[i].ref # obs.nodes[label].ref
             /\ InSubtree(obs, row, i)
<1> DEFINE up       == Ancestors(obs, i)
           parent(k) == obs.nodes[up[k]].parent
           labelled == {k \in Levels(obs, i) : NamedSiblings(obs, i, up[k]) # {}}
           label    == LabelNode(obs, i)
<1>1. /\ DOMAIN up = 0..Len(obs.nodes) /\ Len(obs.nodes) \in Nat
      /\ up[0] = i
  <2>1. Len(obs.nodes) \in Nat
    BY PagesAssumption DEF InPreOrder
  <2>2. up = [k \in 0..Len(obs.nodes) |-> Climb(obs, i, up, k)]
    BY ClimbExists
  <2> HIDE DEF up
  <2>3. DOMAIN up = 0..Len(obs.nodes) /\ up[0] = Climb(obs, i, up, 0)
    BY <2>1, <2>2
  <2> QED
    BY <2>1, <2>3 DEF Climb
<1>2. \A k \in Levels(obs, i) : /\ k \in 0..Len(obs.nodes) /\ up[k] # 0 /\ parent(k) # None
                               /\ \A j \in 0..(k - 1) : parent(j) # parent(k)
  BY <1>1 DEF Levels
<1>3. label = IF labelled = {} THEN 0 ELSE Min(NamedSiblings(obs, i, up[Min(labelled)]))
  BY DEF LabelNode
<1>4. labelled # {}
  BY <1>3
<1>5. PICK k \in labelled : label = Min(NamedSiblings(obs, i, up[k]))
  <2>1. labelled \in SUBSET Nat
    BY <1>1, <1>2
  <2>2. Min(labelled) \in labelled
    <3> HIDE DEF labelled
    <3> QED
      BY <1>4, <2>1, LeastOf
  <2> QED
    BY <1>3, <1>4, <2>2
<1> DEFINE current == up[k]
<1>6. /\ k \in 0..Len(obs.nodes) /\ current # 0 /\ obs.nodes[current].parent # None
      /\ \A j \in 0..(k - 1) : parent(j) # parent(k)
      /\ NamedSiblings(obs, i, current) # {}
  BY <1>2, <1>5
<1>7. /\ current \in Positions(obs)
      /\ obs.nodes[current].frame = obs.nodes[i].frame
      /\ InSubtree(obs, current, i)
  BY <1>6, ClimbStaysAbove
<1>8. /\ label \in Positions(obs)
      /\ obs.nodes[label].frame = obs.nodes[i].frame
      /\ obs.nodes[label].parent = obs.nodes[current].parent
      /\ obs.nodes[label].ref # obs.nodes[current].ref
      /\ obs.nodes[label].name # {}
  <2> DEFINE siblings == NamedSiblings(obs, i, current)
  <2>1. siblings \in SUBSET Nat
    BY PagesAssumption DEF InPreOrder, NamedSiblings
  <2>2. siblings # {} /\ label = Min(siblings)
    BY <1>5, <1>6
  <2>3. label \in siblings
    <3> HIDE DEF siblings, label
    <3> QED
      BY <2>1, <2>2, LeastOf
  <2> HIDE DEF label, current
  <2> QED
    BY <2>3 DEF NamedSiblings
<1> DEFINE row == LastByKey(obs, obs.nodes[label].frame, obs.nodes[label].parent)
<1>9. row \in Positions(obs) /\ InSubtree(obs, row, current)
  <2>1. row = LastByKey(obs, obs.nodes[current].frame, obs.nodes[current].parent)
    BY <1>7, <1>8
  <2> HIDE DEF row, current, label
  <2> QED
    BY <1>6, <1>7, <2>1, ParentIsAbove
<1>10. InSubtree(obs, row, i)
  <2> HIDE DEF row, current, label
  <2> QED
    BY <1>7, <1>9, SubtreeOfSubtree
<1>11. row # 0
  <2> HIDE DEF row
  <2> QED
    BY <1>9, PagesAssumption DEF InPreOrder
<1>12. obs.nodes[i].ref # obs.nodes[label].ref
  <2> SUFFICES ASSUME obs.nodes[i].ref = obs.nodes[label].ref PROVE FALSE
    OBVIOUS
  <2> HIDE DEF label
  <2>1. label = i
    BY <1>8, PagesAssumption DEF InPreOrder
  <2>2. CASE k = 0
    BY <1>1, <1>8, <2>1, <2>2
  <2>3. CASE k # 0
    <3>1. 0 \in 0..(k - 1)
      BY <1>1, <1>6, <2>3
    <3>2. parent(0) = obs.nodes[i].parent
      BY <1>1
    <3>3. parent(0) # parent(k)
      BY <1>6, <3>1
    <3> QED
      BY <1>8, <2>1, <3>2, <3>3
  <2> QED
    BY <2>2, <2>3
<1> HIDE DEF label, row
<1> QED
  BY <1>8, <1>10, <1>11, <1>12 DEF label, row

\* What infer_target makes of a node of a perception means, in that perception,
\* that node.
LEMMA InferredIsTheElement ==
  ASSUME NEW obs \in Pages, NEW i \in Positions(obs), obs.nodes[i].ref # None,
         NEW data \in BOOLEAN
  PROVE  MeansTheElement(obs, InferTarget(obs, i, data), i)
<1> DEFINE node  == obs.nodes[i]
           label == LabelNode(obs, i)
<1>1. CASE node.name # {} /\ ~data
  <2> DEFINE tier == [strategy |-> "role_name", role |-> node.role, name |-> node.name]
  <2>1. InferTarget(obs, i, data) = Only(tier)
    BY <1>1 DEF InferTarget
  <2>2. <<i, i>> \in RoleNameHits(obs, tier)
    BY DEF RoleNameHits
  <2>3. <<i, i>> \in TierMatches(obs, tier) /\ tier.strategy = "role_name"
    BY <2>2 DEF TierMatches
  <2> HIDE DEF tier
  <2> QED
    BY <2>1, <2>3, OneRung
<1>2. CASE (node.name = {} \/ data) /\ label # 0
  <2> DEFINE near == obs.nodes[label].name \ {Colon}
             tier == [strategy |-> "label_proximity", near |-> near, control |-> node.role]
  <2>1. InferTarget(obs, i, data) = Only(tier)
    BY <1>2 DEF InferTarget
  <2> DEFINE row == LastByKey(obs, obs.nodes[label].frame, obs.nodes[label].parent)
  <2>2. /\ label \in Positions(obs) /\ obs.nodes[label].name # {} /\ row # 0
        /\ obs.nodes[i].ref # obs.nodes[label].ref /\ InSubtree(obs, row, i)
    BY <1>2, LabelledRow
  <2>3. label \in ByTextNear(obs, near)
    BY <2>2 DEF ByTextNear
  <2>4. tier.near = near /\ tier.control = node.role /\ tier.strategy = "label_proximity"
    OBVIOUS
  <2> HIDE DEF tier, near, label
  <2>5. <<label, i>> \in LabelProximityHits(obs, tier)
    BY <2>2, <2>3, <2>4 DEF LabelProximityHits
  <2>6. <<label, i>> \in TierMatches(obs, tier)
    BY <2>4, <2>5 DEF TierMatches
  <2> QED
    BY <2>1, <2>4, <2>6, OneRung
<1>3. CASE (node.name = {} \/ data) /\ label = 0
  <2> DEFINE tier == [strategy |-> "anchored_region", frame |-> node.frame,
                      region |-> node.role, index |-> Cardinality(SameRoleBefore(obs, i))]
             region == {j \in Positions(obs) :
                          obs.nodes[j].frame = tier.frame /\ obs.nodes[j].role = tier.region}
  <2>1. InferTarget(obs, i, data) = Only(tier)
    BY <1>3 DEF InferTarget
  <2>2. {j \in region : j < i} = SameRoleBefore(obs, i)
    BY DEF SameRoleBefore
  <2>3. i \in region /\ Cardinality({j \in region : j < i}) = tier.index
    BY <2>2
  <2>4. i \in {j \in region : Cardinality({k \in region : k < j}) = tier.index}
    BY <2>3
  <2>5. <<i, i>> \in AnchoredRegionHits(obs, tier)
    BY <2>4 DEF AnchoredRegionHits
  <2>6. <<i, i>> \in TierMatches(obs, tier) /\ tier.strategy = "anchored_region"
    BY <2>5 DEF TierMatches
  <2> HIDE DEF tier
  <2> QED
    BY <2>1, <2>6, OneRung
<1> QED
  BY <1>1, <1>2, <1>3

-----------------------------------------------------------------------------
(***************************************************************************)
(* parse_agent_decision and build_artifact_from_discovery.                 *)
(***************************************************************************)

\* A decision that is parsed has the shape of one.
LEMMA ParsedIsShaped ==
  ASSUME NEW reply \in Replies, ParseDecision(reply) # None
  PROVE  LET d == ParseDecision(reply)
         IN  DecisionShapeOK(d) /\ d.action \in ActionType \cup Terminal
<1> DEFINE wellFormed == {i \in DOMAIN reply : DecisionShapeOK(reply[i])}
<1>1. wellFormed # {} /\ ParseDecision(reply) = reply[Min(wellFormed)]
  BY DEF ParseDecision
<1>2. wellFormed \in SUBSET Nat
  BY DecisionsAssumption
<1>3. Min(wellFormed) \in wellFormed
  <2> HIDE DEF wellFormed
  <2> QED
    BY <1>1, <1>2, LeastOf
<1> QED
  BY <1>1, <1>3, DecisionsAssumption DEF Terminal

\* What an entry of the transcript has been through: its decision was parsed,
\* and what it names was in the perception.
EntryOK(entry) ==
  /\ entry.observation \in Pages
  /\ entry.decision.action \in ActionType
  /\ DecisionShapeOK(entry.decision)
  /\ entry.decision.action # "navigate" => ActedOn(entry) # 0

\* What is acted on is in the perception, and has a ref.
LEMMA ActedOnIsThere ==
  ASSUME NEW entry, EntryOK(entry), entry.decision.action # "navigate"
  PROVE  /\ ActedOn(entry) \in Positions(entry.observation)
         /\ entry.observation.nodes[ActedOn(entry)].ref # None
<1>1. entry.decision.action \in TargetedActions
  BY DEF EntryOK, TargetedActions
<1>2. entry.decision.ref # None
  BY <1>1 DEF EntryOK, DecisionShapeOK
<1> QED
  BY <1>2, FoundByRef DEF EntryOK, ActedOn

\* An acted decision makes a step the artifact's schema takes, but for what its
\* value reads like.
LEMMA EntryMakesAStep ==
  ASSUME NEW entry, EntryOK(entry), NEW k, NEW human \in Humans,
         StepOf(entry, k, human).literal \notin LooksLikePii
  PROVE  StepShapeOK(StepOf(entry, k, human))
<1> DEFINE d == entry.decision
           s == StepOf(entry, k, human)
<1>1. /\ s.action = d.action /\ s.target = TargetOf(entry)
      /\ s.param = (IF TakesValue(d.action) THEN ParamOf(d.value, human) ELSE None)
      /\ s.literal = (IF TakesValue(d.action) THEN LiteralOf(d.value, human) ELSE None)
      /\ s.output = (IF d.action = "extract" THEN d.output ELSE None)
      /\ s.risk = "safe"
  BY DEF StepOf
<1>2. d.action \in ActionType /\ DecisionShapeOK(d)
  BY DEF EntryOK
<1>3. (d.action = "navigate") <=> (s.target = None)
  <2>1. CASE d.action = "navigate"
    BY <1>1, <2>1 DEF TargetOf
  <2>2. CASE d.action # "navigate"
    <3>1. ActedOn(entry) \in Positions(entry.observation)
      BY <2>2, ActedOnIsThere
    <3>2. entry.observation \in Pages /\ (d.action = "extract") \in BOOLEAN
      BY DEF EntryOK
    <3>3. TargetOf(entry) # None
      BY <2>2, <3>1, <3>2, PagesAssumption DEF InPreOrder, TargetOf
    <3> QED
      BY <1>1, <2>2, <3>3
  <2> QED
    BY <2>1, <2>2
<1>4. TakesValue(d.action) => (d.value # None /\ (s.param # None) # (s.literal # None))
  <2> SUFFICES ASSUME TakesValue(d.action)
               PROVE  d.value # None /\ (s.param # None) # (s.literal # None)
    OBVIOUS
  <2>1. d.value # None
    BY <1>2 DEF TakesValue, DecisionShapeOK, TargetedActions, ValueSourceActions, ActionType
  <2>2. CASE Parameterized(d.value, human)
    <3>1. s.param = human.parameterize[d.value] /\ s.literal = None
      BY <1>1, <2>2 DEF ParamOf, LiteralOf
    <3>2. s.param # None
      BY <2>2, <3>1, DecisionsAssumption DEF Parameterized
    <3> QED
      BY <2>1, <3>1, <3>2
  <2>3. CASE ~Parameterized(d.value, human)
    BY <1>1, <2>1, <2>3 DEF ParamOf, LiteralOf
  <2> QED
    BY <2>2, <2>3
<1>5. d.action = "extract" => s.output # None
  BY <1>1, <1>2 DEF DecisionShapeOK, TargetedActions, ActionType
<1> HIDE DEF d, s
<1>6. /\ s.action = "navigate" => (s.literal # None \/ s.param # None) /\ s.target = None
      /\ s.action \in TargetedActions => s.target # None
      /\ s.action \in ValueSourceActions => (s.param # None) # (s.literal # None)
      /\ s.action = "extract" => s.output # None
  BY <1>1, <1>3, <1>4, <1>5 DEF TakesValue, TargetedActions, ValueSourceActions
<1> QED
  BY <1>1, <1>6 DEF StepShapeOK, s

\* What the validators can refuse of a recording.
LEMMA OnlyTheHumansFaults ==
  ASSUME NEW entries, \A k \in DOMAIN entries : EntryOK(entries[k]), NEW final,
         NEW human \in Humans, entries # <<>>,
         DOMAIN entries = 1..Len(entries), Len(entries) \in Nat,
         \A step \in StepsOf(ArtifactOf(entries, final, human)) : step.literal \notin LooksLikePii,
         \A p \in ArtifactOf(entries, final, human).params :
           /\ p.name \in UsedParams(ArtifactOf(entries, final, human))
           /\ ParamShapeOK(p),
         {o.name : o \in {out \in human.outputs : ~out.nullable}}
           = UsedOutputs(ArtifactOf(entries, final, human)),
         ~ (human.tenant # None /\ human.base = None)
  PROVE  Valid(ArtifactOf(entries, final, human))
<1> DEFINE a == ArtifactOf(entries, final, human)
<1>1. /\ a.steps = [k \in DOMAIN entries |-> StepOf(entries[k], k, human)]
      /\ a.params = human.params \cup ImpliedParams(human)
      /\ a.outputs = human.outputs
      /\ a.actions = {entries[k].decision.action : k \in DOMAIN entries}
      /\ a.tenant = human.tenant /\ a.base = human.base
  BY DEF ArtifactOf
<1> HIDE DEF a
<1>2. \A s \in StepsOf(a) : \E k \in DOMAIN entries : s = StepOf(entries[k], k, human)
  BY <1>1 DEF StepsOf
<1>3. \A s \in StepsOf(a) : StepShapeOK(s)
  <2> TAKE s \in StepsOf(a)
  <2>1. PICK k \in DOMAIN entries : s = StepOf(entries[k], k, human)
    BY <1>2
  <2>2. s.literal \notin LooksLikePii
    BY DEF a
  <2> QED
    BY <2>1, <2>2, EntryMakesAStep
<1>4. a.steps # <<>> /\ NoDuplicateIds(a)
  <2>1. DOMAIN a.steps = DOMAIN entries
    BY <1>1
  <2>2. 1 \in DOMAIN entries
    <3>1. Len(entries) # 0
      <4> SUFFICES ASSUME Len(entries) = 0 PROVE FALSE
        OBVIOUS
      <4>1. DOMAIN entries = {}
        OBVIOUS
      <4> QED
        OBVIOUS
    <3> QED
      BY <3>1
  <2>3. \A k \in DOMAIN a.steps : a.steps[k].id = k
    BY <1>1 DEF StepOf
  <2> QED
    BY <2>1, <2>2, <2>3 DEF NoDuplicateIds
<1>5. UsedParams(a) = ParamNames(a)
  <2>1. ParamNames(a) \subseteq UsedParams(a)
    BY DEF ParamNames, a
  <2>2. ASSUME NEW s \in StepsOf(a), s.param # None
        PROVE  s.param \in ParamNames(a)
    <3>1. PICK k \in DOMAIN entries : s = StepOf(entries[k], k, human)
      BY <1>2
    <3> DEFINE v == entries[k].decision.value
    <3>2. v \in DOMAIN human.parameterize /\ s.param = human.parameterize[v]
      BY <2>2, <3>1 DEF StepOf, ParamOf, Parameterized
    <3> HIDE DEF v
    <3>3. \/ s.param \in {p.name : p \in human.params}
          \/ \E p \in ImpliedParams(human) : p.name = s.param
      <4> DEFINE implied(name) ==
            [name |-> name, type |-> "string", required |-> TRUE, default |-> None,
             sensitive |-> FALSE, pattern |-> None, choices |-> None]
      <4>1. s.param \in {p.name : p \in human.params} \/ implied(s.param) \in ImpliedParams(human)
        BY <3>2 DEF ImpliedParams
      <4>2. implied(s.param).name = s.param
        OBVIOUS
      <4> QED
        BY <4>1, <4>2
    <3> QED
      BY <1>1, <3>3 DEF ParamNames
  <2>3. UsedParams(a) \subseteq ParamNames(a)
    BY <2>2 DEF UsedParams
  <2> QED
    BY <2>1, <2>3
<1>6. /\ UsedOutputs(a) \subseteq OutputNames(a)
      /\ RequiredOutputs(a) \subseteq UsedOutputs(a)
  <2>1. RequiredOutputs(a) = UsedOutputs(a)
    BY <1>1 DEF RequiredOutputs, a
  <2>2. RequiredOutputs(a) \subseteq OutputNames(a)
    BY DEF RequiredOutputs, OutputNames
  <2> QED
    BY <2>1, <2>2
<1>7. {s.action : s \in StepsOf(a)} \subseteq a.actions
  BY <1>1, <1>2 DEF StepOf
<1>8. a.tenant # None => a.base # None
  BY <1>1
<1>9. \A p \in a.params : ParamShapeOK(p)
  BY DEF a
<1> QED
  BY <1>3, <1>4, <1>5, <1>6, <1>7, <1>8, <1>9 DEF Valid, ContractOK, a

-----------------------------------------------------------------------------
(***************************************************************************)
(* The discovery loop.                                                     *)
(***************************************************************************)

\* Where the loop is, and what it holds there.
Perceived ==
  /\ page \in Pages
  /\ pc \in {"perceive", "think", "check", "act", "over"}
  /\ turns \in Int
  /\ observation \in Pages \cup {None}
  /\ pc \in {"think", "check", "act"} => observation \in Pages
  /\ observation = None =>
       transcript = <<>> /\ status \in {"running", "max_steps_exceeded", "raised"}

\* How a run may have ended.
Ended ==
  /\ status \in {"running", "stuck", "goal_reached", "max_steps_exceeded", "raised"}
  /\ (status = "running") <=> (pc # "over")

\* What the model decided and has not been acted on yet.
Decided ==
  /\ pc \in {"check", "act"} =>
       decision.action \in ActionType /\ DecisionShapeOK(decision)
  /\ pc = "check" => decision.action # "navigate"
  /\ pc = "act" /\ decision.action # "navigate" => Named # 0

\* Every entry has been through the checks, and worked while the run goes well.
Transcribed ==
  /\ \E S : transcript \in Seq(S)
  /\ \A k \in DOMAIN transcript :
       /\ EntryOK(transcript[k])
       /\ status \in {"running", "goal_reached"} => transcript[k].ok

\* There is an observation or there is none.
LEMMA NoneIsNoPage == None \notin Pages
BY PagesAssumption

DiscoveryInv == Perceived /\ Ended /\ Decided /\ Transcribed

\* An act is of what was checked, and is written down.
LEMMA ActStep ==
  ASSUME DiscoveryInv, NEW ok \in BOOLEAN, Act(ok)
  PROVE  DiscoveryInv'
<1> DEFINE entry == [decision |-> decision, observation |-> observation, ok |-> ok]
<1> USE DEF DiscoveryInv
<1>1. /\ pc = "act" /\ transcript' = Append(transcript, entry)
      /\ page' = page /\ turns' = turns /\ observation' = observation
      /\ \/ ok /\ pc' = "perceive" /\ status' = status
         \/ ~ok /\ pc' = "over" /\ status' = "stuck"
  BY DEF Act, Return
<1>2. status = "running" /\ observation \in Pages
  BY <1>1 DEF Ended, Perceived
<1>3. EntryOK(entry) /\ entry.ok = ok
  <2>1. /\ decision.action \in ActionType /\ DecisionShapeOK(decision)
        /\ decision.action # "navigate" => Named # 0
    BY <1>1 DEF Decided
  <2>2. ActedOn(entry) = Named
    BY DEF ActedOn, Named
  <2> QED
    BY <1>2, <2>1, <2>2 DEF EntryOK
<1> HIDE DEF entry
<1>4. PICK S : transcript \in Seq(S)
  BY DEF Transcribed
<1>5. /\ DOMAIN transcript' = DOMAIN transcript \cup {Len(transcript) + 1}
      /\ transcript'[Len(transcript) + 1] = entry
      /\ \A k \in DOMAIN transcript : transcript'[k] = transcript[k]
  BY <1>1, <1>4
<1>6. Transcribed'
  <2>1. transcript' \in Seq(S \cup {entry})
    <3>1. transcript \in Seq(S \cup {entry})
      BY <1>4
    <3> QED
      BY <1>1, <3>1
  <2>2. \A k \in DOMAIN transcript' :
          /\ EntryOK(transcript'[k])
          /\ status' \in {"running", "goal_reached"} => transcript'[k].ok
    BY <1>1, <1>2, <1>3, <1>5 DEF Transcribed
  <2> QED
    BY <2>1, <2>2 DEF Transcribed
<1>7. Perceived'
  BY <1>1, <1>2, NoneIsNoPage DEF Perceived
<1>8. Ended'
  BY <1>1, <1>2 DEF Ended
<1>9. Decided'
  BY <1>1 DEF Decided
<1> QED
  BY <1>6, <1>7, <1>8, <1>9

\* The other steps leave the transcript alone.
LEMMA LoopStep ==
  ASSUME DiscoveryInv, Loop \/ PageChanges \/ UNCHANGED vars
  PROVE  DiscoveryInv'
<1> USE DEF DiscoveryInv
<1>1. CASE Perceive
  <2>1. /\ pc = "perceive" /\ turns' = turns - 1 /\ observation' = page /\ pc' = "think"
        /\ page' = page /\ transcript' = transcript /\ status' = status
    BY <1>1 DEF Perceive
  <2>2. status = "running"
    BY <2>1 DEF Ended
  <2> QED
    BY <2>1, <2>2, NoneIsNoPage DEF Perceived, Ended, Decided, Transcribed
<1>2. CASE OutOfSteps
  BY <1>2 DEF OutOfSteps, Return, Perceived, Ended, Decided, Transcribed
<1>3. CASE Raise
  BY <1>3 DEF Raise, Return, Perceived, Ended, Decided, Transcribed
<1>4. CASE CheckTarget
  <2>1. /\ pc = "check" /\ page' = page /\ turns' = turns /\ observation' = observation
        /\ decision' = decision /\ transcript' = transcript
        /\ \/ Named # 0 /\ pc' = "act" /\ status' = status
           \/ pc' = "over" /\ status' = "stuck"
    BY <1>4 DEF CheckTarget, Return
  <2>2. status = "running" /\ Named' = Named
    BY <2>1 DEF Ended, Named
  <2> QED
    BY <2>1, <2>2, NoneIsNoPage DEF Perceived, Ended, Decided, Transcribed
<1>5. CASE \E reply \in Replies : Decide(reply)
  <2>1. PICK reply \in Replies : Decide(reply)
    BY <1>5
  <2>2. /\ pc = "think" /\ page' = page /\ turns' = turns /\ observation' = observation
        /\ transcript' = transcript /\ status' = status
        /\ decision' = ParseDecision(reply) /\ ParseDecision(reply) # None
        /\ decision'.action \notin Terminal
        /\ pc' = IF decision'.action = "navigate" THEN "act" ELSE "check"
    BY <2>1 DEF Decide
  <2>3. DecisionShapeOK(decision') /\ decision'.action \in ActionType
    BY <2>2, ParsedIsShaped
  <2>4. Decided'
    BY <2>2, <2>3 DEF Decided
  <2> QED
    BY <2>2, <2>4, NoneIsNoPage DEF Perceived, Ended, Transcribed
<1>6. CASE \E reply \in Replies : Conclude(reply)
  <2>1. /\ pc = "think" /\ page' = page /\ turns' = turns /\ observation' = observation
        /\ transcript' = transcript /\ pc' = "over"
        /\ status' \in {"stuck", "goal_reached"}
    BY <1>6 DEF Conclude, Return
  <2> QED
    BY <2>1, NoneIsNoPage DEF Perceived, Ended, Decided, Transcribed
<1>7. CASE \E ok \in BOOLEAN : Act(ok)
  BY <1>7, ActStep
<1>8. CASE PageChanges
  BY <1>8 DEF PageChanges, Perceived, Ended, Decided, Named, Transcribed
<1>9. CASE UNCHANGED vars
  BY <1>9 DEF vars, Perceived, Ended, Decided, Named, Transcribed
<1> QED
  BY <1>1, <1>2, <1>3, <1>4, <1>5, <1>6, <1>7, <1>8, <1>9 DEF Loop

\* The loop begins with nothing decided, acted on or perceived.
LEMMA LoopBegins ==
  ASSUME Init
  PROVE  DiscoveryInv
<1>1. transcript \in Seq({})
  BY DEF Init
<1> QED
  BY <1>1, DiscoveryAssumption DEF Init, DiscoveryInv, Perceived, Ended, Decided, Transcribed

-----------------------------------------------------------------------------
(***************************************************************************)
(* The command.                                                            *)
(***************************************************************************)

Files == {"run", "transcript", "observation", "screenshot", "artifact"}

\* What the command has written so far, in which order, and how it may have ended.
Written ==
  /\ DOMAIN folder = Files
  /\ exit \in {"none", "0", "1", "raised", "disk"}
  /\ folder.run # {} => pc = "over" /\ status # "raised"
  /\ folder.run = {} => \A file \in Files : folder[file] = {}
  /\ folder.artifact # {} => ToWrite = {}
  /\ ToWrite = {} /\ exit = "none" => status = "goal_reached"
  /\ exit \in {"0", "1"} => ToWrite = {}
  /\ exit = "raised" => folder.run = {} \/ ToWrite = {}
  /\ observation = None => folder.observation = {}

CommandInv == DiscoveryInv /\ Written /\ OnlyGoodRunsAreRecorded

\* Nothing happens in the loop once it is over.
LEMMA OverIsOver ==
  ASSUME Loop \/ PageChanges
  PROVE  pc # "over"
BY DEF Loop, Perceive, OutOfSteps, Raise, CheckTarget, Decide, Conclude, Act, PageChanges

\* Until its run is written there are files to write, and the run is the first.
LEMMA RunIsFirst ==
  ASSUME folder.run = {}
  PROVE  1 \in ToWrite /\ \A k \in ToWrite : 1 <= k
<1>1. DOMAIN Evidence = 1..4 /\ Evidence[1] = "run"
  BY DEF Evidence
<1> QED
  BY <1>1 DEF ToWrite

\* Until all is written, something of what was to be written is not; and then only
\* an observation that was never made is missing.
LEMMA WholeWhenWritten ==
  ToWrite = {} <=> /\ folder.run # {} /\ folder.transcript # {} /\ folder.screenshot # {}
                   /\ folder.observation # {} \/ observation = None
<1>1. /\ DOMAIN Evidence = 1..4
      /\ Evidence[1] = "run" /\ Evidence[2] = "transcript"
      /\ Evidence[3] = "observation" /\ Evidence[4] = "screenshot"
  BY DEF Evidence
<1>2. /\ 1 \in ToWrite <=> folder.run = {}
      /\ 2 \in ToWrite <=> folder.transcript = {}
      /\ 3 \in ToWrite <=> folder.observation = {} /\ observation # None
      /\ 4 \in ToWrite <=> folder.screenshot = {}
  BY <1>1 DEF ToWrite
<1>3. ToWrite \subseteq {1, 2, 3, 4}
  BY <1>1 DEF ToWrite
<1> QED
  BY <1>2, <1>3

\* One more file is written.
LEMMA WriteStep ==
  ASSUME CommandInv, WriteEvidence, DiscoveryInv'
  PROVE  CommandInv'
<1>1. PICK k \in ToWrite :
        /\ \A other \in ToWrite : k <= other
        /\ folder' = [folder EXCEPT ![Evidence[k]] =
                         CASE Evidence[k] = "run"         -> {status}
                           [] Evidence[k] = "transcript"  -> {transcript}
                           [] Evidence[k] = "observation" -> {observation}
                           [] Evidence[k] = "screenshot"  -> {"of this page"}]
        /\ exit' = IF ToWrite = {k} /\ status # "goal_reached" THEN "1" ELSE "none"
  BY DEF WriteEvidence
<1>2. /\ pc = "over" /\ exit = "none" /\ status # "raised"
      /\ pc' = pc /\ status' = status
      /\ transcript' = transcript /\ observation' = observation
  BY DEF WriteEvidence, Returned, vars
<1>3. DOMAIN folder = Files /\ folder.artifact = {}
  <2>1. ToWrite # {}
    BY <1>1
  <2> QED
    BY <2>1 DEF CommandInv, Written
<1>4. /\ k \in 1..4 /\ folder[Evidence[k]] = {} /\ Evidence[k] \in Files \ {"artifact"}
      /\ Evidence[k] = "observation" => observation # None
  <2>1. /\ DOMAIN Evidence = 1..4
        /\ \A j \in 1..4 : Evidence[j] \in Files \ {"artifact"}
    BY DEF Evidence, Files
  <2> QED
    BY <1>1, <2>1 DEF ToWrite
<1>5. /\ DOMAIN folder' = Files
      /\ folder'[Evidence[k]] # {}
      /\ \A file \in Files : file # Evidence[k] => folder'[file] = folder[file]
  <2>1. PICK content : content # {} /\ folder' = [folder EXCEPT ![Evidence[k]] = content]
    <3> DEFINE content == CASE Evidence[k] = "run"         -> {status}
                            [] Evidence[k] = "transcript"  -> {transcript}
                            [] Evidence[k] = "observation" -> {observation}
                            [] Evidence[k] = "screenshot"  -> {"of this page"}
    <3>1. content # {}
      BY <1>4 DEF Files
    <3>2. folder' = [folder EXCEPT ![Evidence[k]] = content]
      BY <1>1
    <3> HIDE DEF content
    <3> QED
      BY <3>1, <3>2
  <2> DEFINE file == Evidence[k]
  <2>2. file \in DOMAIN folder /\ folder' = [folder EXCEPT ![file] = content]
    BY <1>3, <1>4, <2>1
  <2> HIDE DEF file
  <2>3. /\ DOMAIN folder' = DOMAIN folder /\ folder'[file] = content
        /\ \A other \in DOMAIN folder : other # file => folder'[other] = folder[other]
    BY <2>2
  <2> QED
    BY <1>3, <2>1, <2>3 DEF file
<1>6. folder'.artifact = {}
  <2>1. "artifact" \in Files /\ Evidence[k] # "artifact"
    BY <1>4 DEF Files
  <2> QED
    BY <1>3, <1>5, <2>1
<1>7. folder'.run # {}
  <2>1. CASE folder.run = {}
    <3>1. k = 1
      <4>1. 1 \in ToWrite
        BY <2>1, RunIsFirst
      <4>2. k <= 1
        BY <1>1, <4>1
      <4> QED
        BY <1>4, <4>2
    <3> QED
      BY <1>5, <3>1 DEF Evidence
  <2>2. CASE folder.run # {}
    <3>1. Evidence[k] # "run"
      BY <1>4, <2>2
    <3> QED
      BY <1>5, <2>2, <3>1 DEF Files
  <2> QED
    BY <2>1, <2>2
<1>8. ToWrite' = ToWrite \ {k}
  <2>1. \A j \in DOMAIN Evidence : Evidence[j] \in Files /\ (Evidence[j] = Evidence[k] => j = k)
    BY <1>4 DEF Evidence, Files
  <2> QED
    BY <1>2, <1>5, <2>1 DEF ToWrite
<1>9. /\ exit' \in {"none", "1"}
      /\ exit' = "1" => ToWrite' = {}
      /\ ToWrite' = {} /\ exit' = "none" => status' = "goal_reached"
  BY <1>1, <1>2, <1>8
<1>10. observation' = None => folder'.observation = {}
  BY <1>2, <1>4, <1>5 DEF CommandInv, Written, Files
<1>11. Written'
  BY <1>2, <1>3, <1>5, <1>6, <1>7, <1>9, <1>10 DEF CommandInv, Written
<1> QED
  BY <1>6, <1>9, <1>11 DEF CommandInv, OnlyGoodRunsAreRecorded

\* A recording is written next to the whole of its evidence, or refused.
LEMMA RecordStep ==
  ASSUME CommandInv, NEW human \in Humans, Record(human), DiscoveryInv'
  PROVE  CommandInv'
<1> DEFINE artifact == ArtifactOf(transcript, observation, human)
<1>1. /\ pc = "over" /\ exit = "none" /\ ToWrite = {}
      /\ pc' = pc /\ status' = status
      /\ transcript' = transcript /\ observation' = observation
      /\ \/ /\ Valid(artifact) /\ exit' = "0"
            /\ folder' = [folder EXCEPT !.artifact = {artifact}]
         \/ exit' = "raised" /\ folder' = folder
  BY DEF Record, Returned, vars
<1> HIDE DEF artifact
<1>2. status = "goal_reached" /\ \A k \in DOMAIN transcript : transcript[k].ok
  BY <1>1 DEF CommandInv, Written, DiscoveryInv, Transcribed
<1>3. folder.run # {}
  BY <1>1, WholeWhenWritten
<1>4. CASE folder' = [folder EXCEPT !.artifact = {artifact}] /\ Valid(artifact) /\ exit' = "0"
  <2>1. /\ folder'.artifact = {artifact} /\ DOMAIN folder' = Files
        /\ \A file \in Files \ {"artifact"} : folder'[file] = folder[file]
    BY <1>4 DEF CommandInv, Written, Files
  <2>2. ToWrite' = ToWrite
    <3>1. \A j \in DOMAIN Evidence : Evidence[j] \in Files \ {"artifact"}
      BY DEF Evidence, Files
    <3> QED
      BY <1>1, <2>1, <3>1 DEF ToWrite
  <2>3. folder'.run # {} /\ folder'.observation = folder.observation
    BY <1>3, <2>1 DEF Files
  <2>4. Written'
    BY <1>1, <1>2, <1>4, <2>1, <2>2, <2>3 DEF CommandInv, Written
  <2> QED
    BY <1>1, <1>2, <1>4, <2>1, <2>4 DEF CommandInv, OnlyGoodRunsAreRecorded
<1>5. CASE exit' = "raised" /\ folder' = folder
  <2>1. ToWrite' = ToWrite
    BY <1>1, <1>5 DEF ToWrite
  <2>2. Written'
    BY <1>1, <1>2, <1>5, <2>1 DEF CommandInv, Written
  <2> QED
    BY <1>1, <1>2, <1>5, <2>2 DEF CommandInv, OnlyGoodRunsAreRecorded
<1> QED
  BY <1>1, <1>4, <1>5

\* A step of the command, while it discovers or after.
LEMMA CommandStep ==
  ASSUME CommandInv, [CommandNext]_commandVars
  PROVE  CommandInv'
<1>1. CASE Discovers \/ PageMoves
  <2>1. /\ Loop \/ PageChanges
        /\ folder' = folder /\ exit' = exit /\ exit = "none"
    BY <1>1 DEF Discovers, PageMoves
  <2>2. DiscoveryInv'
    BY <2>1, LoopStep DEF CommandInv
  <2>3. folder.run = {} /\ \A file \in Files : folder[file] = {}
    BY <2>1, OverIsOver DEF CommandInv, Written
  <2>4. ToWrite' # {} /\ folder'.artifact = {} /\ folder'.observation = {}
    <3>1. (1 \in ToWrite)'
      BY <2>1, <2>3 DEF ToWrite, Evidence
    <3> QED
      BY <2>1, <2>3, <3>1 DEF Files
  <2>5. Written'
    BY <2>1, <2>3, <2>4 DEF CommandInv, Written
  <2> QED
    BY <2>1, <2>2, <2>4, <2>5 DEF CommandInv, OnlyGoodRunsAreRecorded
<1>2. CASE Conclusion
  <2>1. UNCHANGED vars
    BY <1>2 DEF Conclusion, DiscoverRaises, ScreenshotRaises, WriteEvidence, WriteFails, Record
  <2>2. DiscoveryInv'
    BY <2>1, LoopStep DEF CommandInv
  <2>3. CASE DiscoverRaises \/ ScreenshotRaises \/ WriteFails
    <3>1. /\ folder' = folder /\ exit' \in {"raised", "disk"} /\ exit = "none"
          /\ pc' = pc /\ status' = status
          /\ transcript' = transcript /\ observation' = observation
      BY <2>1, <2>3 DEF DiscoverRaises, ScreenshotRaises, WriteFails, Returned, vars
    <3>2. ToWrite' = ToWrite
      BY <3>1 DEF ToWrite
    <3>3. exit' = "raised" => folder.run = {}
      <4>1. CASE DiscoverRaises
        <5>1. status = "raised" /\ exit = "none"
          BY <4>1 DEF DiscoverRaises
        <5> QED
          BY <5>1, <2>3 DEF CommandInv, Written
      <4>2. CASE ScreenshotRaises
        BY <4>2 DEF ScreenshotRaises
      <4>3. CASE WriteFails
        BY <4>3 DEF WriteFails
      <4> QED
        BY <2>3, <4>1, <4>2, <4>3
    <3>4. Written'
      BY <3>1, <3>2, <3>3 DEF CommandInv, Written
    <3> QED
      BY <2>2, <3>1, <3>4 DEF CommandInv, OnlyGoodRunsAreRecorded
  <2> QED
    BY <1>2, <2>2, <2>3, WriteStep, RecordStep DEF Conclusion
<1>3. CASE UNCHANGED commandVars
  <2>1. UNCHANGED vars /\ folder' = folder /\ exit' = exit
    BY <1>3 DEF commandVars
  <2>2. DiscoveryInv'
    BY <2>1, LoopStep DEF CommandInv
  <2>3. /\ pc' = pc /\ status' = status /\ transcript' = transcript
        /\ observation' = observation
    BY <2>1 DEF vars
  <2>4. ToWrite' = ToWrite
    BY <2>1, <2>3 DEF ToWrite
  <2>5. Written'
    BY <2>1, <2>3, <2>4 DEF CommandInv, Written
  <2> QED
    BY <2>1, <2>2, <2>3, <2>5 DEF CommandInv, OnlyGoodRunsAreRecorded
<1> QED
  BY <1>1, <1>2, <1>3 DEF CommandNext

\* What the loop and the command hold and have written stays as CommandInv says.
THEOREM CommandInvariance == CommandSpec => []CommandInv
<1>1. CommandInit => CommandInv
  <2> SUFFICES ASSUME CommandInit PROVE CommandInv
    OBVIOUS
  <2>1. DiscoveryInv
    BY LoopBegins DEF CommandInit
  <2>2. folder = Untouched /\ exit = "none"
    BY DEF CommandInit
  <2> QED
    <3>1. /\ DOMAIN folder = Files
          /\ \A file \in Files : folder[file] = {}
      BY <2>2 DEF Untouched, Files
    <3>2. folder.run = {} /\ folder.artifact = {} /\ folder.observation = {}
      BY <3>1 DEF Files
    <3>3. ToWrite # {}
      BY <3>2, RunIsFirst
    <3> QED
      BY <2>1, <2>2, <3>1, <3>2, <3>3 DEF CommandInv, Written, OnlyGoodRunsAreRecorded
<1> QED
  BY <1>1, CommandStep, PTL DEF CommandSpec

\* An artifact in the directory is valid and of a run whose every act worked.
THEOREM RecordingsAreGood == CommandSpec => []OnlyGoodRunsAreRecorded
<1>1. CommandInv => OnlyGoodRunsAreRecorded
  BY DEF CommandInv
<1> QED
  BY <1>1, CommandInvariance, PTL

\* Each act is of an element of the perception it was chosen in, and what it is
\* recorded as has that element there among what it matches, and resolves to it
\* unless it matches several.
THEOREM TargetsAreTheirElements == CommandSpec => []RecordedTargetsAreTheirElements
<1>1. ASSUME CommandInv, NEW k \in DOMAIN transcript,
             transcript[k].decision.action # "navigate"
      PROVE  /\ ActedOn(transcript[k]) # 0
             /\ MeansTheElement(transcript[k].observation, TargetOf(transcript[k]),
                                ActedOn(transcript[k]))
  <2> DEFINE entry == transcript[k]
             data  == entry.decision.action = "extract"
  <2>1. EntryOK(entry)
    BY <1>1 DEF CommandInv, DiscoveryInv, Transcribed
  <2> HIDE DEF entry
  <2>2. entry.decision.action # "navigate"
    BY <1>1 DEF entry
  <2>3. /\ ActedOn(entry) \in Positions(entry.observation)
        /\ entry.observation.nodes[ActedOn(entry)].ref # None
        /\ ActedOn(entry) # 0 /\ entry.observation \in Pages
    BY <2>1, <2>2, ActedOnIsThere DEF EntryOK
  <2>4. TargetOf(entry) = InferTarget(entry.observation, ActedOn(entry), data)
    BY <2>2 DEF TargetOf
  <2>5. data \in BOOLEAN
    OBVIOUS
  <2> HIDE DEF data
  <2>6. MeansTheElement(entry.observation, TargetOf(entry), ActedOn(entry))
    BY <2>3, <2>4, <2>5, InferredIsTheElement
  <2> QED
    BY <2>3, <2>6 DEF entry
<1>2. CommandInv => RecordedTargetsAreTheirElements
  BY <1>1 DEF RecordedTargetsAreTheirElements, MeansTheElement
<1> QED
  BY <1>2, CommandInvariance, PTL

\* What the validators refuse of a recording is never the shape of a step.
THEOREM RefusalsAreNotTheLoops == CommandSpec => []RefusalsAreTheHumans
<1>1. ASSUME CommandInv, NEW human \in Humans
      PROVE  LET artifact == ArtifactOf(transcript, observation, human)
             IN  Valid(artifact) \/
                   \/ transcript = <<>>
                   \/ \E step \in StepsOf(artifact) : step.literal \in LooksLikePii
                   \/ \E p \in artifact.params :
                        p.name \notin UsedParams(artifact) \/ ~ParamShapeOK(p)
                   \/ {o.name : o \in {out \in human.outputs : ~out.nullable}}
                        # UsedOutputs(artifact)
                   \/ human.tenant # None /\ human.base = None
  <2>1. PICK S : transcript \in Seq(S)
    BY <1>1 DEF CommandInv, DiscoveryInv, Transcribed
  <2>2. DOMAIN transcript = 1..Len(transcript) /\ Len(transcript) \in Nat
    BY <2>1
  <2>3. \A k \in DOMAIN transcript : EntryOK(transcript[k])
    BY <1>1 DEF CommandInv, DiscoveryInv, Transcribed
  <2> QED
    BY <2>2, <2>3, OnlyTheHumansFaults
<1>2. CommandInv => RefusalsAreTheHumans
  BY <1>1 DEF RefusalsAreTheHumans
<1> QED
  BY <1>2, CommandInvariance, PTL

-----------------------------------------------------------------------------
\* The evidence in a directory is of one run, as far as the disk lets it.
THEOREM EvidenceIsWhole == CommandSpec => []EvidenceIsOfOneRun
<1>1. ASSUME CommandInv
      PROVE  EvidenceIsOfOneRun
  <2> DEFINE Ours(file) == folder[file] # {}
             Never(file) == file = "observation" /\ observation = None
             files == {"run", "transcript", "observation", "screenshot"}
  <2>1. CASE folder.run = {}
    <3>1. \A file \in Files : folder[file] = {}
      BY <1>1, <2>1 DEF CommandInv, Written
    <3> QED
      BY <3>1 DEF EvidenceIsOfOneRun, Files
  <2>2. CASE folder.run # {}
    <3>1. exit \notin {"none", "disk"} => ToWrite = {}
      BY <1>1, <2>2 DEF CommandInv, Written
    <3>2. ToWrite = {} => \A file \in files : Never(file) \/ Ours(file)
      BY WholeWhenWritten
    <3>3. Ours("artifact") => ToWrite = {} /\ status = "goal_reached"
      BY <1>1 DEF CommandInv, Written, OnlyGoodRunsAreRecorded
    <3>4. status = "goal_reached" => observation # None
      BY <1>1 DEF CommandInv, DiscoveryInv, Perceived
    <3>5. observation = None => transcript = <<>> /\ status = "max_steps_exceeded"
      BY <1>1, <2>2 DEF CommandInv, DiscoveryInv, Perceived, Ended, Written
    <3> QED
      BY <2>2, <3>1, <3>2, <3>3, <3>4, <3>5 DEF EvidenceIsOfOneRun
  <2> QED
    BY <2>1, <2>2
<1> QED
  BY <1>1, CommandInvariance, PTL

-----------------------------------------------------------------------------
(***************************************************************************)
(* The replay of a recording.                                              *)
(***************************************************************************)

\* What a human declares takes any text.
TextsWillDo ==
  \A human \in Humans : \A p \in human.params : p.type = "string" /\ p.pattern = None

\* The values that were recorded as the parameters of an artifact.
Given(a, human) ==
  [name \in ParamNames(a) |->
     [kind |-> "str", text |-> CHOOSE v \in DOMAIN human.parameterize :
                                 human.parameterize[v] = name]]

\* They are accepted, as they are.
LEMMA GivenIsAccepted ==
  ASSUME TextsWillDo, NEW entries, NEW final, NEW human \in Humans,
         Valid(ArtifactOf(entries, final, human))
  PROVE  LET a     == ArtifactOf(entries, final, human)
             given == Given(a, human)
         IN  /\ InputsAccepted(a, given)
             /\ ResolvedInputs(a, given) = given
<1> DEFINE a     == ArtifactOf(entries, final, human)
           given == Given(a, human)
<1>1. DOMAIN given = ParamNames(a) /\ \A name \in ParamNames(a) : given[name].kind = "str"
  BY DEF Given
<1>2. \A p \in a.params : p.type = "string" /\ p.pattern = None
  <2>1. \A p \in ImpliedParams(human) : p.type = "string" /\ p.pattern = None
    BY DEF ImpliedParams
  <2>2. a.params = human.params \cup ImpliedParams(human)
    BY DEF ArtifactOf
  <2> HIDE DEF a
  <2> QED
    BY <2>1, <2>2 DEF TextsWillDo
<1>3. UsedParams(a) = ParamNames(a)
  BY DEF Valid, ContractOK
<1> HIDE DEF a, given
<1>4. \A p \in a.params : p.name \in DOMAIN given
  BY <1>1 DEF ParamNames
<1>5. ResolvedInputs(a, given) = given
  <2> DEFINE with == {p \in a.params : p.name \in DOMAIN given \/ p.default # None}
  <2>1. {p.name : p \in with} = ParamNames(a)
    BY <1>4 DEF ParamNames
  <2>2. ResolvedInputs(a, given) =
          [name \in {p.name : p \in with} |->
             IF name \in DOMAIN given THEN given[name]
             ELSE (CHOOSE p \in with : p.name = name).default]
    BY DEF ResolvedInputs
  <2> HIDE DEF with
  <2>3. ResolvedInputs(a, given) = [name \in ParamNames(a) |-> given[name]]
    BY <1>1, <2>1, <2>2
  <2>4. given = [name \in ParamNames(a) |-> given[name]]
    BY <1>1 DEF given, Given
  <2> QED
    BY <2>3, <2>4
<1>6. \A p \in a.params : ValueAccepted(p, given[p.name])
  <2> TAKE p \in a.params
  <2>1. given[p.name].kind = "str" /\ p.type = "string" /\ p.pattern = None
    BY <1>1, <1>2, <1>4
  <2> QED
    BY <2>1 DEF ValueAccepted
<1>7. DependenciesSatisfied(a, ResolvedInputs(a, given))
  BY <1>1, <1>3, <1>5 DEF DependenciesSatisfied
<1>8. InputsAccepted(a, given)
  BY <1>1, <1>4, <1>6, <1>7 DEF InputsAccepted
<1> QED
  BY <1>5, <1>8 DEF a, given

\* With them, each step sends what the model sent.
LEMMA GivenResolves ==
  ASSUME NEW entries, NEW final, NEW human \in Humans, IsInjective(human.parameterize),
         NEW k \in DOMAIN entries, EntryOK(entries[k]),
         entries[k].decision.action \in DrawsValue
  PROVE  LET a == ArtifactOf(entries, final, human)
         IN  ResolveValue(a.steps[k], Given(a, human)) = entries[k].decision.value
<1> DEFINE a == ArtifactOf(entries, final, human)
           d == entries[k].decision
           s == a.steps[k]
<1>1. /\ s.action = d.action /\ s.param = ParamOf(d.value, human)
      /\ s.literal = LiteralOf(d.value, human)
  BY DEF ArtifactOf, StepOf, TakesValue, DrawsValue, ValueSourceActions
<1>2. d.value # None
  BY DEF EntryOK, DecisionShapeOK, DrawsValue, TargetedActions, ValueSourceActions, ActionType
<1>3. CASE Parameterized(d.value, human)
  <2> DEFINE name == human.parameterize[d.value]
             v    == CHOOSE w \in DOMAIN human.parameterize : human.parameterize[w] = name
  <2>1. d.value \in DOMAIN human.parameterize /\ s.param = name /\ s.literal = None
    BY <1>1, <1>3 DEF ParamOf, LiteralOf, Parameterized
  <2>2. v = d.value
    <3>1. v \in DOMAIN human.parameterize /\ human.parameterize[v] = name
      BY <2>1
    <3> HIDE DEF v
    <3> QED
      BY <2>1, <3>1 DEF IsInjective
  <2>3. name \in ParamNames(a)
    <3>1. a.steps[k] \in StepsOf(a)
      BY DEF StepsOf, ArtifactOf
    <3>2. a.params = human.params \cup ImpliedParams(human)
      BY DEF ArtifactOf
    <3> DEFINE implied(x) ==
          [name |-> x, type |-> "string", required |-> TRUE, default |-> None,
           sensitive |-> FALSE, pattern |-> None, choices |-> None]
    <3>3. name \in {p.name : p \in human.params} \/ implied(name) \in ImpliedParams(human)
      BY <2>1 DEF ImpliedParams
    <3>4. implied(name).name = name
      OBVIOUS
    <3> HIDE DEF a, name, implied
    <3> QED
      BY <3>2, <3>3, <3>4 DEF ParamNames
  <2>4. Given(a, human)[name] = [kind |-> "str", text |-> v]
    BY <2>3 DEF Given
  <2> HIDE DEF a, name, v, s
  <2>5. Given(a, human)[s.param].kind = "str" /\ Given(a, human)[s.param].text = v
    BY <2>1, <2>4
  <2> QED
    BY <2>1, <2>2, <2>5 DEF ResolveValue, a, s
<1>4. CASE ~Parameterized(d.value, human)
  <2>1. s.literal = d.value
    BY <1>1, <1>4 DEF LiteralOf
  <2> QED
    BY <1>2, <2>1 DEF ResolveValue
<1> QED
  BY <1>3, <1>4

\* Where what the human declares takes any text, a recording replays as the run
\* went: nothing is refused, and the same values go to the same domains.
THEOREM RecordingsReplay ==
  ASSUME TextsWillDo
  PROVE  CommandSpec => []ReplayRetracesTheRun
<1>1. ASSUME CommandInv, NEW human \in Humans, IsInjective(human.parameterize),
             Valid(ArtifactOf(transcript, observation, human))
      PROVE  LET artifact == ArtifactOf(transcript, observation, human)
                 given == [name \in ParamNames(artifact) |->
                             [kind |-> "str",
                              text |-> CHOOSE v \in DOMAIN human.parameterize :
                                         human.parameterize[v] = name]]
             IN  /\ InputsAccepted(artifact, given)
                 /\ \A k \in DOMAIN transcript :
                      /\ transcript[k].observation.domain \in artifact.domains
                      /\ transcript[k].decision.action \in DrawsValue =>
                           ResolveValue(artifact.steps[k], ResolvedInputs(artifact, given))
                             = transcript[k].decision.value
  <2> DEFINE artifact == ArtifactOf(transcript, observation, human)
  <2>1. /\ InputsAccepted(artifact, Given(artifact, human))
        /\ ResolvedInputs(artifact, Given(artifact, human)) = Given(artifact, human)
    BY <1>1, GivenIsAccepted
  <2>2. ASSUME NEW k \in DOMAIN transcript
        PROVE  transcript[k].observation.domain \in artifact.domains
    BY DEF ArtifactOf, DomainsOf
  <2>3. ASSUME NEW k \in DOMAIN transcript, transcript[k].decision.action \in DrawsValue
        PROVE  ResolveValue(artifact.steps[k], Given(artifact, human))
                 = transcript[k].decision.value
    <3>1. EntryOK(transcript[k])
      BY <1>1 DEF CommandInv, DiscoveryInv, Transcribed
    <3> QED
      BY <1>1, <2>3, <3>1, GivenResolves
  <2> HIDE DEF artifact
  <2>4. Given(artifact, human) =
          [name \in ParamNames(artifact) |->
             [kind |-> "str", text |-> CHOOSE v \in DOMAIN human.parameterize :
                                         human.parameterize[v] = name]]
    BY DEF Given
  <2> QED
    BY <2>1, <2>2, <2>3, <2>4 DEF artifact
<1>2. CommandInv => ReplayRetracesTheRun
  BY <1>1 DEF ReplayRetracesTheRun
<1> QED
  BY <1>2, CommandInvariance, PTL

-----------------------------------------------------------------------------
(***************************************************************************)
(* The field an EXTRACT step is recorded with, on another page.            *)
(***************************************************************************)

\* The words that label a field that differs between two pages of one shape are
\* on the same nodes of both.
LabelsStay ==
  \A here, other \in Pages : \A i \in Positions(here) :
    (/\ SameShape(here, other)
     /\ here.nodes[i].name # other.nodes[i].name
     /\ LabelNode(here, i) # 0) =>
        LET near == here.nodes[LabelNode(here, i)].name \ {Colon}
        IN  ByTextNear(other, near) = ByTextNear(here, near)

\* Two pages of one shape have the same nodes, but for their names.
LEMMA OneShape ==
  ASSUME NEW here \in Pages, NEW other \in Pages, SameShape(here, other),
         NEW i \in Positions(here)
  PROVE  /\ i \in Positions(other)
         /\ other.nodes[i].ref = here.nodes[i].ref
         /\ other.nodes[i].frame = here.nodes[i].frame
         /\ other.nodes[i].role = here.nodes[i].role
         /\ other.nodes[i].depth = here.nodes[i].depth
         /\ other.nodes[i].parent = here.nodes[i].parent
<1> DEFINE p == here.nodes[i]
           q == other.nodes[i]
<1>1. i \in Positions(other) /\ [p EXCEPT !.name = {}] = [q EXCEPT !.name = {}]
  BY DEF SameShape
<1>2. /\ DOMAIN p = {"ref", "frame", "role", "name", "depth", "parent"}
      /\ DOMAIN q = {"ref", "frame", "role", "name", "depth", "parent"}
  BY <1>1, PagesAssumption DEF InPreOrder
<1> HIDE DEF p, q
<1>3. \A f \in {"ref", "frame", "role", "depth", "parent"} :
        [p EXCEPT !.name = {}][f] = p[f] /\ [q EXCEPT !.name = {}][f] = q[f]
  BY <1>2
<1>4. \A f \in {"ref", "frame", "role", "depth", "parent"} : p[f] = q[f]
  BY <1>1, <1>3
<1> QED
  BY <1>1, <1>4 DEF p, q

\* On them, what a field is recorded as hits the same nodes.
LEMMA SameHits ==
  ASSUME LabelsStay, NEW here \in Pages, NEW other \in Pages, SameShape(here, other),
         NEW i \in Positions(here), here.nodes[i].name # other.nodes[i].name
  PROVE  LET target == InferTarget(here, i, TRUE)
         IN  ResolveTarget(other, target) = ResolveTarget(here, target)
<1> DEFINE label  == LabelNode(here, i)
           near   == here.nodes[label].name \ {Colon}
           beside == [strategy |-> "label_proximity", near |-> near,
                      control |-> here.nodes[i].role]
           placed == [strategy |-> "anchored_region", frame |-> here.nodes[i].frame,
                      region |-> here.nodes[i].role,
                      index |-> Cardinality(SameRoleBefore(here, i))]
<1>1. Positions(other) = Positions(here)
  BY DEF SameShape
<1>2. ASSUME NEW tier, TierMatches(other, tier) = TierMatches(here, tier)
      PROVE  ResolveTarget(other, Only(tier)) = ResolveTarget(here, Only(tier))
  <2>1. Only(tier).tiers = <<tier>>
    BY DEF Only
  <2> DEFINE tiers == Only(tier).tiers
  <2>2. \A t \in DOMAIN tiers : TierMatches(other, tiers[t]) = TierMatches(here, tiers[t])
    BY <1>2, <2>1
  <2>3. \A t \in DOMAIN tiers : HitCount(other, tiers[t]) = HitCount(here, tiers[t])
    BY <2>2 DEF HitCount
  <2> DEFINE unique(obs)    == {t \in DOMAIN tiers : HitCount(obs, tiers[t]) = 1}
             ambiguous(obs) == {t \in DOMAIN tiers : HitCount(obs, tiers[t]) > 1}
  <2>4. unique(other) = unique(here) /\ ambiguous(other) = ambiguous(here)
    BY <2>3
  <2>5. \A t \in DOMAIN tiers : Verdict(other, tiers, t) = Verdict(here, tiers, t)
    BY <2>2, <2>3 DEF Verdict, Resolved
  <2>6. DOMAIN tiers = {1}
    BY <2>1
  <2>7. \A S \in SUBSET {1} : S # {} => Min(S) = 1
    <3> TAKE S \in SUBSET {1}
    <3> HAVE S # {}
    <3>1. 1 \in S /\ (\A j \in S : j = 1) /\ 1 \in Nat
      OBVIOUS
    <3> QED
      BY <3>1, MinMaxOfOne
  <2> HIDE DEF tiers
  <2> QED
    BY <2>4, <2>5, <2>6, <2>7 DEF ResolveTarget, tiers
<1>3. CASE label # 0
  <2>1. InferTarget(here, i, TRUE) = Only(beside)
    BY <1>3 DEF InferTarget
  <2>2. ByTextNear(other, near) = ByTextNear(here, near)
    BY <1>3 DEF LabelsStay
  <2>3. /\ beside.strategy = "label_proximity" /\ beside.near = near
        /\ beside.control = here.nodes[i].role
    OBVIOUS
  <2> HIDE DEF beside, near
  <2>4. ASSUME NEW frame, NEW ref
        PROVE  LastByKey(other, frame, ref) = LastByKey(here, frame, ref)
    <3> DEFINE hits(obs) == {j \in Positions(obs) : /\ obs.nodes[j].frame = frame
                                                   /\ obs.nodes[j].ref = ref
                                                   /\ ref # None}
    <3>1. hits(other) = hits(here)
      BY <1>1, OneShape
    <3> QED
      BY <3>1 DEF LastByKey
  <2>5. \A root, j \in Positions(here) : InSubtree(other, root, j) <=> InSubtree(here, root, j)
    <3> TAKE root, j \in Positions(here)
    <3>1. \A k \in (root + 1)..j : k \in Positions(here)
      BY PagesAssumption DEF InPreOrder
    <3> QED
      BY <3>1, OneShape DEF InSubtree
  <2>6. \A frame, ref : LastByKey(here, frame, ref) # 0 =>
          LastByKey(here, frame, ref) \in Positions(here)
    <3> SUFFICES ASSUME NEW frame, NEW ref, LastByKey(here, frame, ref) # 0
                 PROVE  LastByKey(here, frame, ref) \in Positions(here)
      OBVIOUS
    <3> DEFINE hits == {j \in Positions(here) : /\ here.nodes[j].frame = frame
                                                /\ here.nodes[j].ref = ref
                                                /\ ref # None}
    <3>1. hits # {} /\ LastByKey(here, frame, ref) = Max(hits)
      BY DEF LastByKey
    <3>2. PICK one \in hits : TRUE
      BY <3>1
    <3>3. one \in Nat /\ \A j \in hits : j = one
      BY <3>2, PagesAssumption DEF InPreOrder
    <3> HIDE DEF hits
    <3>4. Max(hits) = one
      BY <3>2, <3>3, MinMaxOfOne
    <3> QED
      BY <3>1, <3>2, <3>4 DEF hits
  <2>7. LabelProximityHits(other, beside) = LabelProximityHits(here, beside)
    <3>1. ASSUME NEW hit \in ByTextNear(here, near) \X Positions(here)
          PROVE  hit \in LabelProximityHits(other, beside) <=>
                   hit \in LabelProximityHits(here, beside)
      <4>1. hit[1] \in Positions(here) /\ hit[2] \in Positions(here)
        BY DEF ByTextNear
      <4> DEFINE row(obs) == LastByKey(obs, obs.nodes[hit[1]].frame, obs.nodes[hit[1]].parent)
      <4>2. row(other) = row(here)
        BY <2>4, <4>1, OneShape
      <4>3. row(here) # 0 => (InSubtree(other, row(here), hit[2]) <=>
                                InSubtree(here, row(here), hit[2]))
        BY <2>5, <2>6, <4>1
      <4>4. /\ other.nodes[hit[2]].role = here.nodes[hit[2]].role
            /\ other.nodes[hit[2]].ref = here.nodes[hit[2]].ref
            /\ other.nodes[hit[1]].ref = here.nodes[hit[1]].ref
        BY <4>1, OneShape
      <4>5. ASSUME NEW obs \in {here, other}
            PROVE  hit \in LabelProximityHits(obs, beside) <=>
                     /\ row(obs) # 0
                     /\ obs.nodes[hit[2]].role = beside.control
                     /\ obs.nodes[hit[2]].ref # obs.nodes[hit[1]].ref
                     /\ InSubtree(obs, row(obs), hit[2])
        BY <1>1, <2>2, <2>3 DEF LabelProximityHits
      <4> HIDE DEF row
      <4> QED
        BY <4>2, <4>3, <4>4, <4>5
    <3>2. /\ LabelProximityHits(here, beside) \subseteq ByTextNear(here, near) \X Positions(here)
          /\ LabelProximityHits(other, beside) \subseteq ByTextNear(here, near) \X Positions(here)
      BY <1>1, <2>2, <2>3 DEF LabelProximityHits
    <3> QED
      BY <3>1, <3>2
  <2>8. TierMatches(other, beside) = TierMatches(here, beside)
    BY <2>3, <2>7 DEF TierMatches
  <2> QED
    BY <1>2, <2>1, <2>8
<1>4. CASE label = 0
  <2>1. InferTarget(here, i, TRUE) = Only(placed)
    BY <1>4 DEF InferTarget
  <2>2. placed.strategy = "anchored_region"
    OBVIOUS
  <2> HIDE DEF placed
  <2> DEFINE region(obs) == {j \in Positions(obs) : obs.nodes[j].frame = placed.frame
                                                   /\ obs.nodes[j].role = placed.region}
  <2>3. region(other) = region(here)
    BY <1>1, OneShape
  <2>4. AnchoredRegionHits(other, placed) = AnchoredRegionHits(here, placed)
    <3>1. ASSUME NEW obs
          PROVE  AnchoredRegionHits(obs, placed) =
                   {<<j, j>> : j \in {l \in region(obs) :
                      Cardinality({m \in region(obs) : m < l}) = placed.index}}
      BY DEF AnchoredRegionHits
    <3> HIDE DEF region
    <3> QED
      BY <2>3, <3>1
  <2>5. TierMatches(other, placed) = TierMatches(here, placed)
    BY <2>2, <2>4 DEF TierMatches
  <2> QED
    BY <1>2, <2>1, <2>5
<1> QED
  BY <1>3, <1>4

\* Where labels stay what they are, an extracted field is found again on every
\* page of its shape that shows something else in it.
THEOREM FieldsAreFollowed ==
  ASSUME LabelsStay
  PROVE  CommandSpec => []ExtractFollowsTheField
<1>1. ASSUME CommandInv, NEW k \in DOMAIN transcript, NEW other \in Pages,
             transcript[k].decision.action = "extract",
             SameShape(transcript[k].observation, other),
             transcript[k].observation.nodes[ActedOn(transcript[k])].name
               # other.nodes[ActedOn(transcript[k])].name,
             IsResolved(transcript[k].observation, TargetOf(transcript[k]))
      PROVE  ResolveTarget(other, TargetOf(transcript[k])).node = ActedOn(transcript[k])
  <2> DEFINE entry == transcript[k]
             here  == entry.observation
             i     == ActedOn(entry)
  <2>1. EntryOK(entry)
    BY <1>1 DEF CommandInv, DiscoveryInv, Transcribed
  <2>2. /\ i \in Positions(here) /\ here.nodes[i].ref # None /\ here \in Pages
    BY <1>1, <2>1, ActedOnIsThere DEF EntryOK
  <2>3. TargetOf(entry) = InferTarget(here, i, TRUE)
    BY <1>1 DEF TargetOf
  <2> HIDE DEF i, here
  <2>4. SameShape(here, other) /\ here.nodes[i].name # other.nodes[i].name
        /\ IsResolved(here, TargetOf(entry))
    BY <1>1 DEF here, i
  <2>5. ResolveTarget(other, TargetOf(entry)) = ResolveTarget(here, TargetOf(entry))
    BY <2>2, <2>3, <2>4, SameHits
  <2>6. ResolveTarget(here, TargetOf(entry)).node = i
    <3> DEFINE found == ResolveTarget(here, InferTarget(here, i, TRUE))
    <3>1. TRUE \in BOOLEAN
      OBVIOUS
    <3>2. found.status = "ambiguous" \/ (found.status = "resolved" /\ found.node = i)
      <4>1. MeansTheElement(here, InferTarget(here, i, TRUE), i)
        BY <2>2, <3>1, InferredIsTheElement
      <4> QED
        BY <4>1 DEF MeansTheElement
    <3>3. found.status = "resolved"
      BY <2>3, <2>4 DEF IsResolved
    <3> HIDE DEF found
    <3>4. found.node = i
      BY <3>2, <3>3
    <3> QED
      BY <2>3, <3>4 DEF found
  <2> QED
    BY <2>5, <2>6 DEF i
<1>2. CommandInv => ExtractFollowsTheField
  BY <1>1 DEF ExtractFollowsTheField
<1> QED
  BY <1>2, CommandInvariance, PTL

-----------------------------------------------------------------------------
(***************************************************************************)
(* That it ends: what is left to do, which every step makes less.          *)
(***************************************************************************)

Less == OpToRel(<, Nat)

\* Fewer turns left; or as many, and less to be done in this one.
Before == LexPairOrdering(Less, Less, Nat, Nat)

LEMMA BeforeIsWellFounded == IsWellFoundedOn(Before, Nat \X Nat)
<1>1. IsWellFoundedOn(Less, Nat)
  BY NatLessThanWellFounded DEF Less
<1> QED
  BY <1>1, WFLexPairOrdering DEF Before

LEMMA BeforeIs ==
  ASSUME NEW a \in Nat, NEW b \in Nat, NEW x \in Nat, NEW y \in Nat,
         a < x \/ (a = x /\ b < y)
  PROVE  <<<<a, b>>, <<x, y>>>> \in Before
<1>1. \A m, n \in Nat : m < n => <<m, n>> \in Less
  BY DEF Less, OpToRel
<1> QED
  BY <1>1 DEF Before, LexPairOrdering

TurnsLeft == IF turns > 0 THEN turns ELSE 0

PlaceInTurn ==
  CASE pc = "think"    -> 4
    [] pc = "check"    -> 3
    [] pc = "act"      -> 2
    [] pc = "perceive" -> 1
    [] OTHER           -> 0

Rank == <<TurnsLeft, PlaceInTurn>>

\* A step of the loop takes a turn, or comes further in it.
LEMMA LoopAdvances ==
  ASSUME turns \in Int, Loop
  PROVE  \/ turns > 0 /\ turns' = turns - 1
         \/ turns' = turns /\ PlaceInTurn' < PlaceInTurn
<1>1. CASE Perceive
  BY <1>1 DEF Perceive
<1>2. CASE OutOfSteps \/ Raise \/ CheckTarget
  BY <1>2 DEF OutOfSteps, Raise, CheckTarget, Return, PlaceInTurn
<1>3. CASE \E reply \in Replies : Decide(reply) \/ Conclude(reply)
  BY <1>3 DEF Decide, Conclude, Return, PlaceInTurn
<1>4. CASE \E ok \in BOOLEAN : Act(ok)
  BY <1>4 DEF Act, Return, PlaceInTurn
<1> QED
  BY <1>1, <1>2, <1>3, <1>4 DEF Loop

\* A discovery always ends: whatever the model answers, its refusals and its
\* mistakes included, a step of the loop leaves less to be done, in an order without
\* infinite descent.  No reply buys another turn (discover.py, the for loop of
\* discover).
THEOREM LoopRunsOut == CommandSpec => [][Loop => <<Rank', Rank>> \in Before]_vars
<1>1. ASSUME turns \in Int, Loop
      PROVE  <<Rank', Rank>> \in Before
  <2>1. PlaceInTurn \in Nat /\ PlaceInTurn' \in Nat
    BY DEF PlaceInTurn
  <2>2. \/ turns > 0 /\ turns' = turns - 1
        \/ turns' = turns /\ PlaceInTurn' < PlaceInTurn
    BY <1>1, LoopAdvances
  <2>3. TurnsLeft \in Nat /\ TurnsLeft' \in Nat
    BY <1>1, <2>2 DEF TurnsLeft
  <2>4. \/ TurnsLeft' < TurnsLeft
        \/ TurnsLeft' = TurnsLeft /\ PlaceInTurn' < PlaceInTurn
    BY <1>1, <2>2 DEF TurnsLeft
  <2>5. <<<<TurnsLeft', PlaceInTurn'>>, <<TurnsLeft, PlaceInTurn>>>> \in Before
    BY <2>1, <2>3, <2>4, BeforeIs
  <2> QED
    BY <2>5 DEF Rank
<1>2. CommandInv /\ [CommandNext]_commandVars => [Loop => <<Rank', Rank>> \in Before]_vars
  BY <1>1 DEF CommandInv, DiscoveryInv, Perceived
<1> QED
  BY <1>2, CommandInvariance, PTL DEF CommandSpec
=============================================================================
