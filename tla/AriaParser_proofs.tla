--------------------------- MODULE AriaParser_proofs ---------------------------
(***************************************************************************)
(* Theorems about AriaParser, for any number of frames, any indents and    *)
(* snapshots of any length.                                                *)
(***************************************************************************)
EXTENDS AriaParser, WellFoundedInduction, FiniteSetTheorems, TLAPS

(***************************************************************************)
(* Facts about sets of numbers.                                            *)
(***************************************************************************)

\* A set of natural numbers has a least element.
LEMMA LeastElement ==
  ASSUME NEW S \in SUBSET Nat, S # {}
  PROVE  \E m \in S : \A n \in S : m <= n
<1> DEFINE less == OpToRel(<, Nat)
<1>1. IsWellFoundedOn(less, Nat)
  BY NatLessThanWellFounded
<1>2. \A m, n \in Nat : n < m => <<n, m>> \in less
  BY DEF OpToRel
<1> HIDE DEF less
<1>3. PICK m \in S : \A n \in S : ~ (<<n, m>> \in less)
  BY <1>1, WFMin
<1>4. ASSUME NEW n \in S PROVE m <= n
  <2>1. m \in Nat /\ n \in Nat /\ ~ (n < m)
    BY <1>2, <1>3
  <2> QED
    BY <2>1
<1> QED
  BY <1>4

\* A set of numbers up to a bound has a greatest element, which Max names.
LEMMA MaxUpTo ==
  ASSUME NEW b \in Nat, NEW S \in SUBSET (1..b), S # {}
  PROVE  Max(S) \in S /\ \A n \in S : n <= Max(S)
<1> DEFINE below == {n \in Nat : \A s \in S : s <= n}
<1>1. b \in below
  OBVIOUS
<1>2. PICK m \in below : \A n \in below : m <= n
  <2> HIDE DEF below
  <2>1. below \in SUBSET Nat
    BY DEF below
  <2> QED
    BY <1>1, <2>1, LeastElement
<1>3. m \in S
  <2> SUFFICES ASSUME m \notin S PROVE FALSE
    OBVIOUS
  <2>1. \A t \in S : t <= m /\ t # m /\ t \in Nat /\ t >= 1
    BY <1>2
  <2>2. m \in Nat /\ m # 0
    <3>1. PICK t \in S : TRUE
      OBVIOUS
    <3> QED
      BY <1>2, <2>1, <3>1
  <2>3. m - 1 \in Nat /\ \A t \in S : t <= m - 1
    BY <2>1, <2>2
  <2> QED
    BY <1>2, <2>2, <2>3
<1>4. \A n \in S : n <= m
  BY <1>2
<1>5. \A k \in S : (\A n \in S : k >= n) => k = m
  <2> TAKE k \in S
  <2> HAVE \A n \in S : k >= n
  <2>1. k >= m /\ k <= m /\ k \in Nat /\ m \in Nat
    BY <1>3, <1>4
  <2> QED
    BY <2>1
<1>6. \A n \in S : m >= n
  BY <1>3, <1>4
<1> QED
  BY <1>3, <1>4, <1>5, <1>6 DEF Max

-----------------------------------------------------------------------------
(***************************************************************************)
(* The inductive invariant.                                                *)
(***************************************************************************)

Refs == (Nat \X Nat) \cup {None}

Node == [ref : Refs, frame : STRING, role : Roles, name : {{}}, depth : Nat, parent : Refs]

Objects ==
  /\ frameNo \in 1..(Len(Frames) + 1) /\ lineNo \in Nat
  /\ nodes \in Seq(Node)
  /\ indents \in Seq(Nat) /\ Len(indents) = Len(nodes)
  /\ origin \in Seq(Nat) /\ Len(origin) = Len(nodes)
  /\ stack \in Seq(Nat) /\ \A k \in DOMAIN stack : stack[k] \in DOMAIN nodes
  /\ skipBelow \in Nat \cup {None} /\ embedded \in Nat \cup {None}

\* The parser discards exactly what is nested under an iframe line.
SkipsTheEmbedded == embedded # None => skipBelow = embedded

\* The refs handed out so far come from the lines read so far.
RefsOfLines ==
  \A i \in DOMAIN nodes : nodes[i].ref # None =>
    \E f, l \in Nat : /\ nodes[i].ref = <<f, l>>
                      /\ f < frameNo \/ (f = frameNo /\ l < lineNo)

\* The nodes are those of the frames in their order, under the frames' labels.
InFrameOrder ==
  /\ \A i \in DOMAIN nodes : origin[i] \in DOMAIN Frames /\ origin[i] <= frameNo
                             /\ nodes[i].frame = Frames[origin[i]]
  /\ \A i, j \in DOMAIN nodes : i <= j => origin[i] <= origin[j]

Here(i) == i \in DOMAIN nodes /\ frameNo \in DOMAIN Frames /\ origin[i] = frameNo

\* The stack is the branch from a root of the frame's tree to the last node:
\* each entry is deeper by one and indented more than the one under it, and
\* every node that no later one closes is on it.
OpenBranch ==
  /\ \A k \in DOMAIN stack : Here(stack[k]) /\ nodes[stack[k]].depth = k - 1
  /\ \A k, l \in DOMAIN stack : k < l =>
       stack[k] < stack[l] /\ indents[stack[k]] < indents[stack[l]]
  /\ \A j \in DOMAIN nodes :
       Here(j) /\ (\A k \in DOMAIN nodes : k > j => indents[k] > indents[j]) =>
         \E l \in DOMAIN stack : stack[l] = j


RefInv == Objects /\ SkipsTheEmbedded /\ RefsOfLines /\ NoControlTwice
TreeInv == InFrameOrder /\ OpenBranch /\ ParentIsTheEnclosingLine

\* Every node has its indent and its frame.
LEMMA Lined ==
  ASSUME Objects
  PROVE  /\ Len(nodes) \in Nat /\ DOMAIN nodes = 1..Len(nodes)
         /\ DOMAIN indents = DOMAIN nodes /\ DOMAIN origin = DOMAIN nodes
         /\ \A i \in DOMAIN nodes : /\ indents[i] \in Nat /\ origin[i] \in Nat
                                    /\ nodes[i].depth \in Nat
<1>1. /\ Len(nodes) \in Nat /\ DOMAIN nodes = 1..Len(nodes)
      /\ \A i \in DOMAIN nodes : nodes[i] \in Node
  BY DEF Objects
<1>2. DOMAIN indents = 1..Len(nodes) /\ \A i \in DOMAIN indents : indents[i] \in Nat
  BY DEF Objects
<1>3. DOMAIN origin = 1..Len(nodes) /\ \A i \in DOMAIN origin : origin[i] \in Nat
  BY DEF Objects
<1>4. \A i \in DOMAIN nodes : nodes[i].depth \in Nat
  BY <1>1 DEF Node
<1> QED
  BY <1>1, <1>2, <1>3, <1>4

-----------------------------------------------------------------------------
(***************************************************************************)
(* A line that becomes a node.                                             *)
(***************************************************************************)

\* A line that is not discarded is the frame's own, and bears a ref of its own
\* or none.
LEMMA NodeAdded ==
  ASSUME Objects, SkipsTheEmbedded, NEW indent \in Indents, NEW role \in Roles,
         NEW hasRef \in BOOLEAN, NodeLine(indent, role, hasRef)
  PROVE  /\ frameNo \in DOMAIN Frames /\ frameNo' = frameNo /\ lineNo' = lineNo + 1
         /\ Len(nodes) \in Nat /\ DOMAIN nodes = 1..Len(nodes) /\ DOMAIN indents = DOMAIN nodes
         /\ Len(nodes') = Len(nodes) + 1 /\ DOMAIN nodes' = 1..(Len(nodes) + 1)
         /\ \A i \in DOMAIN nodes : /\ nodes'[i] = nodes[i]
                                    /\ indents'[i] = indents[i] /\ origin'[i] = origin[i]
         /\ indents'[Len(nodes) + 1] = indent /\ origin'[Len(nodes) + 1] = frameNo
         /\ LET open == OpenAbove(indent)
            IN  nodes'[Len(nodes) + 1] =
                  [ref    |-> IF hasRef THEN <<frameNo, lineNo>> ELSE None,
                   frame  |-> Frames[frameNo],
                   role   |-> role,
                   name   |-> {},
                   depth  |-> Len(open),
                   parent |-> IF open = <<>> THEN None ELSE nodes[open[Len(open)]].ref]
<1> DEFINE open == OpenAbove(indent)
           node == [ref    |-> IF hasRef THEN <<frameNo, lineNo>> ELSE None,
                    frame  |-> Frames[frameNo],
                    role   |-> role,
                    name   |-> {},
                    depth  |-> Len(open),
                    parent |-> IF open = <<>> THEN None ELSE nodes[open[Len(open)]].ref]
<1>1. Ref(indent) = <<frameNo, lineNo>>
  <2>1. indent \in Nat
    BY ParserAssumption
  <2>2. ~Nested(indent)
    BY <2>1, ParserAssumption DEF NodeLine, Skipped, Nested, SkipsTheEmbedded, Objects
  <2> QED
    BY <2>2 DEF Ref
<1>2. /\ frameNo \in DOMAIN Frames /\ frameNo' = frameNo /\ lineNo' = lineNo + 1
      /\ nodes' = Append(nodes, node) /\ indents' = Append(indents, indent)
      /\ origin' = Append(origin, frameNo) /\ frameNo \in Nat
  BY <1>1 DEF NodeLine, Line, Reading, Objects
<1> HIDE DEF node
<1>3. /\ Len(nodes) \in Nat /\ DOMAIN nodes = 1..Len(nodes) /\ DOMAIN indents = DOMAIN nodes
      /\ Len(nodes') = Len(nodes) + 1 /\ DOMAIN nodes' = 1..(Len(nodes) + 1)
      /\ \A i \in DOMAIN nodes : /\ nodes'[i] = nodes[i]
                                 /\ indents'[i] = indents[i] /\ origin'[i] = origin[i]
      /\ indents'[Len(nodes) + 1] = indent /\ origin'[Len(nodes) + 1] = frameNo
      /\ nodes'[Len(nodes) + 1] = node
  <2>1. /\ Len(nodes) \in Nat /\ DOMAIN nodes = 1..Len(nodes)
        /\ Len(nodes') = Len(nodes) + 1 /\ DOMAIN nodes' = 1..(Len(nodes) + 1)
        /\ \A i \in DOMAIN nodes : nodes'[i] = nodes[i]
        /\ nodes'[Len(nodes) + 1] = node
    BY <1>2 DEF Objects
  <2>2. /\ DOMAIN indents = 1..Len(indents) /\ Len(indents) = Len(nodes)
        /\ \A i \in DOMAIN indents : indents'[i] = indents[i]
        /\ indents'[Len(nodes) + 1] = indent
    BY <1>2, ParserAssumption DEF Objects
  <2>3. /\ DOMAIN origin = 1..Len(origin) /\ Len(origin) = Len(nodes)
        /\ \A i \in DOMAIN origin : origin'[i] = origin[i]
        /\ origin'[Len(nodes) + 1] = frameNo
    BY <1>2 DEF Objects
  <2> QED
    BY <2>1, <2>2, <2>3
<1> QED
  BY <1>2, <1>3 DEF node

\* The entries as deep as the line are popped and no others: the indents along
\* the stack increase.
LEMMA Popped ==
  ASSUME Objects, OpenBranch, NEW indent \in Nat
  PROVE  \E c \in 0..Len(stack) :
           /\ OpenAbove(indent) = SubSeq(stack, 1, c)
           /\ \A k \in DOMAIN stack : k <= c <=> indents[stack[k]] < indent
<1> DEFINE over == {k \in DOMAIN stack : ~(indents[stack[k]] < indent)}
           kept == {k \in DOMAIN stack : \A l \in 1..k : indents[stack[l]] < indent}
<1>1. /\ DOMAIN stack = 1..Len(stack) /\ Len(stack) \in Nat
      /\ \A k \in DOMAIN stack : indents[stack[k]] \in Nat
      /\ \A k, l \in DOMAIN stack : k < l => indents[stack[k]] < indents[stack[l]]
  <2>1. \A k \in DOMAIN stack : stack[k] \in DOMAIN nodes
    BY DEF OpenBranch, Here
  <2>2. DOMAIN nodes = DOMAIN indents /\ \A i \in DOMAIN indents : indents[i] \in Nat
    BY DEF Objects
  <2>3. DOMAIN stack = 1..Len(stack) /\ Len(stack) \in Nat
    BY DEF Objects
  <2> QED
    BY <2>1, <2>2, <2>3 DEF OpenBranch
<1>2. PICK c \in 0..Len(stack) : \A k \in DOMAIN stack : k <= c <=> indents[stack[k]] < indent
  <2>1. CASE over = {}
    <3>1. \A k \in DOMAIN stack : k <= Len(stack) /\ indents[stack[k]] < indent
      BY <1>1, <2>1
    <3> QED
      BY <1>1, <3>1
  <2>2. CASE over # {}
    <3>1. over \in SUBSET Nat
      BY <1>1
    <3> HIDE DEF over
    <3>2. PICK m \in over : \A n \in over : m <= n
      BY <2>2, <3>1, LeastElement
    <3>3. m \in DOMAIN stack /\ ~(indents[stack[m]] < indent)
      BY <3>2 DEF over
    <3>4. ASSUME NEW k \in DOMAIN stack PROVE k <= m - 1 <=> indents[stack[k]] < indent
      <4>1. CASE k <= m - 1
        BY <1>1, <3>2, <3>3, <4>1 DEF over
      <4>2. CASE k = m
        BY <1>1, <3>3, <4>2
      <4>3. CASE k > m
        BY <1>1, <3>3, <4>3
      <4> QED
        BY <1>1, <3>3, <4>1, <4>2, <4>3
    <3>5. m - 1 \in 0..Len(stack)
      BY <1>1, <3>3
    <3> QED
      BY <3>4, <3>5
  <2> QED
    BY <2>1, <2>2
<1>3. kept = 1..c
  BY <1>1, <1>2
<1>4. Cardinality(kept) = c
  <2>1. c \in Nat
    BY <1>1, <1>2
  <2> HIDE DEF kept
  <2>2. Cardinality(1..c) = IF 1 > c THEN 0 ELSE c - 1 + 1
    BY <2>1, FS_Interval
  <2>3. Cardinality(1..c) = c
    BY <2>1, <2>2
  <2> QED
    BY <1>3, <2>3
<1>5. OpenAbove(indent) = SubSeq(stack, 1, c)
  BY <1>4 DEF OpenAbove
<1> QED
  BY <1>2, <1>5

\* What is left of the stack is the bottom of it.
LEMMA OpenIsPrefix ==
  ASSUME Objects, NEW indent
  PROVE  \E c \in 0..Len(stack) : OpenAbove(indent) = SubSeq(stack, 1, c)
<1> DEFINE kept == {k \in DOMAIN stack : \A l \in 1..k : indents[stack[l]] < indent}
<1>1. DOMAIN stack = 1..Len(stack) /\ Len(stack) \in Nat
  BY DEF Objects
<1>2. Cardinality(kept) \in 0..Len(stack)
  <2>1. kept \subseteq 1..Len(stack)
    BY <1>1
  <2> HIDE DEF kept
  <2>2. /\ IsFiniteSet(1..Len(stack))
        /\ Cardinality(1..Len(stack)) = IF 1 > Len(stack) THEN 0 ELSE Len(stack) - 1 + 1
    BY <1>1, FS_Interval
  <2>3. Cardinality(1..Len(stack)) = Len(stack)
    BY <1>1, <2>2
  <2>4. IsFiniteSet(kept) /\ Cardinality(kept) <= Cardinality(1..Len(stack))
    BY <2>1, <2>2, FS_Subset
  <2>5. Cardinality(kept) \in Nat
    BY <2>4, FS_CardinalityType
  <2> QED
    BY <1>1, <2>3, <2>4, <2>5
<1> QED
  BY <1>2 DEF OpenAbove

\* The new node is on top of what is left.
LEMMA Pushed ==
  ASSUME Objects, NEW indent, NEW role, NEW hasRef, NodeLine(indent, role, hasRef),
         NEW c \in 0..Len(stack), OpenAbove(indent) = SubSeq(stack, 1, c)
  PROVE  /\ Len(OpenAbove(indent)) = c
         /\ \A k \in 1..c : OpenAbove(indent)[k] = stack[k]
         /\ stack' \in Seq(Nat) /\ DOMAIN stack' = 1..(c + 1)
         /\ \A k \in 1..c : k \in DOMAIN stack /\ stack'[k] = stack[k]
         /\ stack'[c + 1] = Len(nodes) + 1
<1> DEFINE open == OpenAbove(indent)
<1>1. /\ open \in Seq(Nat) /\ Len(open) = c
      /\ \A k \in 1..c : k \in DOMAIN stack /\ open[k] = stack[k]
  <2>1. stack \in Seq(Nat) /\ Len(stack) \in Nat /\ DOMAIN stack = 1..Len(stack)
    BY DEF Objects
  <2> QED
    BY <2>1
<1>2. stack' = Append(open, Len(nodes) + 1) /\ Len(nodes) + 1 \in Nat
  BY DEF NodeLine, Objects
<1> HIDE DEF open
<1>3. /\ stack' \in Seq(Nat) /\ DOMAIN stack' = 1..(c + 1)
      /\ \A k \in 1..c : stack'[k] = open[k]
      /\ stack'[c + 1] = Len(nodes) + 1
  BY <1>1, <1>2
<1> QED
  BY <1>1, <1>3 DEF open

-----------------------------------------------------------------------------
(***************************************************************************)
(* Types and refs.                                                         *)
(***************************************************************************)

LEMMA RefStep == RefInv /\ [Next]_vars => RefInv'
<1> SUFFICES ASSUME RefInv, [Next]_vars PROVE RefInv'
  OBVIOUS
<1> USE DEF RefInv
<1>0. /\ Len(Frames) \in Nat /\ DOMAIN Frames = 1..Len(Frames)
      /\ \A n \in DOMAIN Frames : Frames[n] \in STRING
      /\ Indents \subseteq Nat /\ None \notin Nat
  BY ParserAssumption
<1>1. ASSUME NEW indent \in Indents, NEW role \in Roles, NEW hasRef \in BOOLEAN,
             NodeLine(indent, role, hasRef)
      PROVE  RefInv'
  <2> DEFINE m == Len(nodes)
             node == nodes'[m + 1]
  <2>1. PICK c \in 0..Len(stack) : OpenAbove(indent) = SubSeq(stack, 1, c)
    BY OpenIsPrefix
  <2>2. /\ frameNo \in DOMAIN Frames /\ frameNo' = frameNo /\ lineNo' = lineNo + 1
        /\ m \in Nat /\ DOMAIN nodes = 1..m /\ DOMAIN nodes' = 1..(m + 1)
        /\ \A i \in DOMAIN nodes : nodes'[i] = nodes[i]
        /\ node.ref = IF hasRef THEN <<frameNo, lineNo>> ELSE None
    <3> DEFINE open == OpenAbove(indent)
               d == Len(open)
               p == IF open = <<>> THEN None ELSE nodes[open[Len(open)]].ref
    <3>1. node = [ref    |-> IF hasRef THEN <<frameNo, lineNo>> ELSE None,
                  frame  |-> Frames[frameNo],
                  role   |-> role,
                  name   |-> {},
                  depth  |-> d,
                  parent |-> p]
      BY <1>1, NodeAdded
    <3> HIDE DEF d, p
    <3>2. node.ref = IF hasRef THEN <<frameNo, lineNo>> ELSE None
      <4> HIDE DEF node
      <4> QED
        BY <3>1
    <3> QED
      BY <1>1, <3>2, NodeAdded
  <2>3. node \in Node
    <3>1. OpenAbove(indent) # <<>> =>
            nodes[OpenAbove(indent)[Len(OpenAbove(indent))]].ref \in Refs
      <4> SUFFICES ASSUME OpenAbove(indent) # <<>>
                   PROVE  nodes[OpenAbove(indent)[Len(OpenAbove(indent))]].ref \in Refs
        OBVIOUS
      <4>1. c \in 1..c
        BY <2>1 DEF Objects
      <4>2. /\ Len(OpenAbove(indent)) = c /\ OpenAbove(indent)[c] = stack[c]
            /\ c \in DOMAIN stack
        BY <1>1, <2>1, <4>1, Pushed
      <4>3. stack[c] \in DOMAIN nodes
        BY <4>2 DEF Objects
      <4>4. nodes[stack[c]] \in Node
        BY <4>3 DEF Objects
      <4>5. nodes[stack[c]].ref \in Refs
        BY <4>4 DEF Node
      <4> QED
        BY <4>2, <4>5
    <3>2. Len(OpenAbove(indent)) \in Nat
      BY <1>1, <2>1, Pushed
    <3>3. <<frameNo, lineNo>> \in Refs /\ None \in Refs /\ Frames[frameNo] \in STRING
      BY <1>0, <2>2 DEF Refs, Objects
    <3>4. LET open == OpenAbove(indent)
          IN  node = [ref    |-> IF hasRef THEN <<frameNo, lineNo>> ELSE None,
                      frame  |-> Frames[frameNo],
                      role   |-> role,
                      name   |-> {},
                      depth  |-> Len(open),
                      parent |-> IF open = <<>> THEN None ELSE nodes[open[Len(open)]].ref]
      BY <1>1, NodeAdded
    <3> HIDE DEF node
    <3> QED
      BY <3>1, <3>2, <3>3, <3>4 DEF Node
  <2>4. Objects'
    <3>1. nodes' \in Seq(Node) /\ Len(nodes') = m + 1
      <4>1. nodes' = Append(nodes, node)
        BY <1>1, <2>2 DEF NodeLine, Objects
      <4> HIDE DEF node
      <4> QED
        BY <2>3, <4>1 DEF Objects
    <3>2. /\ indents' \in Seq(Nat) /\ Len(indents') = m + 1
          /\ origin' \in Seq(Nat) /\ Len(origin') = m + 1
      BY <1>0, <1>1 DEF NodeLine, Objects
    <3>3. stack' \in Seq(Nat) /\ \A k \in DOMAIN stack' : stack'[k] \in DOMAIN nodes'
      <4>1. /\ stack' \in Seq(Nat) /\ DOMAIN stack' = 1..(c + 1)
            /\ \A k \in 1..c : k \in DOMAIN stack /\ stack'[k] = stack[k]
            /\ stack'[c + 1] = m + 1
        BY <1>1, <2>1, Pushed
      <4>2. \A k \in DOMAIN stack : stack[k] \in DOMAIN nodes'
        BY <2>2 DEF Objects
      <4>3. c \in Nat /\ \A k \in 1..(c + 1) : k \in 1..c \/ k = c + 1
        BY <2>1 DEF Objects
      <4> QED
        BY <2>2, <4>1, <4>2, <4>3
    <3>4. /\ skipBelow' \in Nat \cup {None} /\ embedded' \in Nat \cup {None}
          /\ frameNo' \in 1..(Len(Frames) + 1) /\ lineNo' \in Nat
      BY <1>0, <1>1, <2>2 DEF NodeLine, Line, Objects
    <3> QED
      BY <3>1, <3>2, <3>3, <3>4 DEF Objects
  <2>5. SkipsTheEmbedded'
    BY <1>0, <1>1 DEF NodeLine, Line, Skipped, Nested, SkipsTheEmbedded, Objects
  <2>6. RefsOfLines' /\ NoControlTwice'
    <3> HIDE DEF node, m
    <3>1. lineNo \in Nat /\ frameNo \in Nat
      BY <1>0 DEF Objects
    <3>2. ASSUME NEW i \in DOMAIN nodes', nodes'[i].ref # None
          PROVE  /\ \/ i \in DOMAIN nodes /\ nodes'[i].ref = nodes[i].ref
                    \/ i = m + 1 /\ nodes'[i].ref = <<frameNo, lineNo>>
                 /\ \E f, l \in Nat : /\ nodes'[i].ref = <<f, l>>
                                      /\ f < frameNo \/ (f = frameNo /\ l < lineNo + 1)
      <4>1. CASE i \in DOMAIN nodes
        <5>1. nodes'[i] = nodes[i]
          BY <2>2, <4>1
        <5>2. PICK f \in Nat, l \in Nat : /\ nodes[i].ref = <<f, l>>
                                          /\ f < frameNo \/ (f = frameNo /\ l < lineNo)
          BY <3>2, <4>1, <5>1 DEF RefsOfLines
        <5>3. f < frameNo \/ (f = frameNo /\ l < lineNo + 1)
          BY <3>1, <5>2
        <5>4. nodes'[i].ref = <<f, l>>
          BY <5>1, <5>2
        <5> QED
          BY <4>1, <5>1, <5>3, <5>4
      <4>2. CASE i = m + 1
        <5>1. nodes'[i].ref = <<frameNo, lineNo>>
          BY <2>2, <3>2, <4>2 DEF node
        <5> QED
          BY <3>1, <4>2, <5>1
      <4>3. i \in DOMAIN nodes \/ i = m + 1
        BY <2>2, <3>2
      <4> QED
        BY <4>1, <4>2, <4>3
    <3>3. RefsOfLines'
      BY <2>2, <3>2 DEF RefsOfLines
    <3>4. \A i \in DOMAIN nodes : nodes[i].ref # <<frameNo, lineNo>> \/ nodes[i].ref = None
      <4> SUFFICES ASSUME NEW i \in DOMAIN nodes, nodes[i].ref = <<frameNo, lineNo>>,
                          nodes[i].ref # None
                   PROVE  FALSE
        OBVIOUS
      <4>1. PICK f, l \in Nat : /\ nodes[i].ref = <<f, l>>
                                /\ f < frameNo \/ (f = frameNo /\ l < lineNo)
        BY DEF RefsOfLines
      <4>2. f = frameNo /\ l = lineNo
        BY <4>1
      <4> QED
        BY <3>1, <4>1, <4>2
    <3>5. NoControlTwice'
      <4> SUFFICES ASSUME NEW i \in DOMAIN nodes', NEW j \in DOMAIN nodes',
                          nodes'[i].ref = nodes'[j].ref, nodes'[i].ref # None
                   PROVE  i = j
        BY DEF NoControlTwice
      <4> QED
        BY <3>2, <3>4 DEF NoControlTwice
    <3> QED
      BY <3>3, <3>5
  <2> QED
    BY <2>4, <2>5, <2>6
<1>2. ASSUME NEW indent \in Indents, SkippedLine(indent) \/ OtherLine(indent)
      PROVE  RefInv'
  <2>1. /\ UNCHANGED <<frameNo, nodes, stack, indents, origin>> /\ lineNo' = lineNo + 1
    BY <1>2 DEF SkippedLine, OtherLine, Line
  <2>2. Objects'
    BY <1>0, <1>2, <2>1 DEF SkippedLine, OtherLine, Line, Objects
  <2>3. SkipsTheEmbedded'
    BY <1>0, <1>2 DEF SkippedLine, OtherLine, Line, Skipped, Nested, SkipsTheEmbedded, Objects
  <2>4. RefsOfLines'
    <3>1. lineNo \in Nat /\ \A l \in Nat : l < lineNo => l < lineNo + 1
      BY DEF Objects
    <3> QED
      BY <2>1, <3>1 DEF RefsOfLines
  <2>5. NoControlTwice'
    BY <2>1 DEF NoControlTwice
  <2> QED
    BY <2>2, <2>3, <2>4, <2>5
<1>3. CASE NextFrame
  <2>1. /\ UNCHANGED <<nodes, indents, origin>> /\ stack' = <<>> /\ lineNo' = 0
        /\ frameNo' = frameNo + 1 /\ frameNo \in DOMAIN Frames
        /\ skipBelow' = None /\ embedded' = None
    BY <1>3 DEF NextFrame
  <2>2. Objects'
    BY <1>0, <2>1 DEF Objects
  <2>3. RefsOfLines'
    <3>1. frameNo \in Nat /\ \A f \in Nat : f < frameNo \/ f = frameNo => f < frameNo + 1
      BY DEF Objects
    <3> QED
      BY <2>1, <3>1 DEF RefsOfLines
  <2> QED
    BY <2>1, <2>2, <2>3 DEF SkipsTheEmbedded, NoControlTwice
<1>4. CASE UNCHANGED vars
  BY <1>4 DEF vars, Objects, SkipsTheEmbedded, RefsOfLines, NoControlTwice
<1> QED
  BY <1>1, <1>2, <1>3, <1>4 DEF Next

LEMMA RefInit == Init => RefInv
  BY ParserAssumption DEF Init, RefInv, Objects, SkipsTheEmbedded, RefsOfLines, NoControlTwice

-----------------------------------------------------------------------------
(***************************************************************************)
(* The tree.                                                               *)
(***************************************************************************)

\* What TreeParent says of two lines.
LEMMA NearestAbove ==
  ASSUME Objects, NEW i \in DOMAIN nodes
  PROVE  /\ TreeParent(i) # 0 =>
              /\ TreeParent(i) \in 1..(i - 1)
              /\ origin[TreeParent(i)] = origin[i]
              /\ indents[TreeParent(i)] < indents[i]
         /\ \A j \in 1..(i - 1) : (j > TreeParent(i) /\ origin[j] = origin[i]) =>
              indents[j] >= indents[i]
         /\ TreeParent(i) \in Nat
<1> DEFINE above == {j \in 1..(i - 1) : origin[j] = origin[i] /\ indents[j] < indents[i]}
<1>1. TreeParent(i) = IF above = {} THEN 0 ELSE Max(above)
  BY DEF TreeParent
<1>2. /\ i \in Nat /\ i - 1 \in Nat
      /\ \A j \in 1..i : indents[j] \in Nat
  <2>1. /\ DOMAIN nodes = 1..Len(nodes) /\ DOMAIN indents = DOMAIN nodes /\ Len(nodes) \in Nat
        /\ \A k \in DOMAIN indents : indents[k] \in Nat
    BY Lined
  <2>2. i \in Nat /\ i >= 1 /\ \A j \in 1..i : j \in DOMAIN indents
    BY <2>1
  <2> QED
    BY <2>1, <2>2
<1>3. CASE above = {}
  <2>1. \A j \in 1..(i - 1) : origin[j] = origin[i] => ~(indents[j] < indents[i])
    BY <1>3
  <2>2. \A j \in 1..(i - 1) : j \in 1..i
    BY <1>2
  <2> QED
    BY <1>1, <1>2, <1>3, <2>1, <2>2
<1>4. CASE above # {}
  <2>1. above \in SUBSET (1..(i - 1))
    OBVIOUS
  <2> HIDE DEF above
  <2>2. Max(above) \in above /\ \A n \in above : n <= Max(above)
    BY <1>2, <1>4, <2>1, MaxUpTo
  <2>3. TreeParent(i) = Max(above)
    BY <1>1, <1>4
  <2>4. ASSUME NEW j \in 1..(i - 1), j > TreeParent(i), origin[j] = origin[i]
        PROVE  indents[j] >= indents[i]
    <3>1. j \notin above
      <4> SUFFICES ASSUME j \in above PROVE FALSE
        OBVIOUS
      <4>1. j <= TreeParent(i) /\ j \in 1..(i - 1) /\ TreeParent(i) \in 1..(i - 1)
        BY <2>1, <2>2, <2>3
      <4> QED
        BY <1>2, <2>4, <4>1
    <3>2. indents[j] \in Nat /\ indents[i] \in Nat
      BY <1>2
    <3> QED
      BY <2>4, <3>1, <3>2 DEF above
  <2> QED
    BY <2>2, <2>3, <2>4 DEF above
<1> QED
  BY <1>3, <1>4

\* A new line takes no line's parent away.
LEMMA ParentsKept ==
  ASSUME Objects, SkipsTheEmbedded, NEW indent \in Indents, NEW role \in Roles,
         NEW hasRef \in BOOLEAN, NodeLine(indent, role, hasRef), NEW i \in DOMAIN nodes
  PROVE  TreeParent(i)' = TreeParent(i)
<1> DEFINE above == {j \in 1..(i - 1) : origin[j] = origin[i] /\ indents[j] < indents[i]}
           later == {j \in 1..(i - 1) : /\ origin'[j] = origin'[i]
                                        /\ indents'[j] < indents'[i]}
<1>1. \A j \in 1..i : origin'[j] = origin[j] /\ indents'[j] = indents[j]
  <2>1. /\ Len(nodes) \in Nat /\ DOMAIN nodes = 1..Len(nodes)
        /\ \A j \in DOMAIN nodes : origin'[j] = origin[j] /\ indents'[j] = indents[j]
    BY NodeAdded
  <2> QED
    BY <2>1
<1>2. i \in 1..i /\ \A j \in 1..(i - 1) : j \in 1..i
  <2>1. DOMAIN nodes = 1..Len(nodes) /\ Len(nodes) \in Nat
    BY DEF Objects
  <2> QED
    BY <2>1
<1>3. above = later
  BY <1>1, <1>2
<1>4. /\ TreeParent(i) = IF above = {} THEN 0 ELSE Max(above)
      /\ TreeParent(i)' = IF later = {} THEN 0 ELSE Max(later)
  BY DEF TreeParent
<1> HIDE DEF above, later
<1> QED
  BY <1>3, <1>4

\* The top of what is left of the stack is the line that encloses the new one.
LEMMA TopEncloses ==
  ASSUME Objects, SkipsTheEmbedded, InFrameOrder, OpenBranch, NEW indent \in Indents,
         NEW role \in Roles, NEW hasRef \in BOOLEAN, NodeLine(indent, role, hasRef),
         NEW c \in 0..Len(stack),
         \A k \in DOMAIN stack : k <= c <=> indents[stack[k]] < indent,
         NEW m, m = Len(nodes)
  PROVE  TreeParent(m + 1)' = IF c = 0 THEN 0 ELSE stack[c]
<1> DEFINE A == {j \in 1..((m + 1) - 1) : /\ origin'[j] = origin'[m + 1]
                                          /\ indents'[j] < indents'[m + 1]}
<1>1. TreeParent(m + 1)' = IF A = {} THEN 0 ELSE Max(A)
  BY DEF TreeParent
<1>2. /\ m \in Nat /\ DOMAIN nodes = 1..m /\ frameNo \in DOMAIN Frames
      /\ origin'[m + 1] = frameNo /\ indents'[m + 1] = indent
      /\ \A i \in 1..m : origin'[i] = origin[i] /\ indents'[i] = indents[i]
  BY NodeAdded
<1>3. A = {j \in 1..m : Here(j) /\ indents[j] < indent}
  <2>1. (m + 1) - 1 = m
    BY <1>2
  <2> QED
    BY <1>2, <2>1 DEF Here
<1>4. /\ DOMAIN stack = 1..Len(stack) /\ Len(stack) \in Nat /\ c \in Nat
      /\ \A i \in 1..m : indents[i] \in Nat
      /\ indent \in Nat
  <2>1. DOMAIN indents = 1..m /\ \A i \in DOMAIN indents : indents[i] \in Nat
    BY <1>2 DEF Objects
  <2> QED
    BY <2>1, ParserAssumption DEF Objects
<1> HIDE DEF A
<1>5. c # 0 => c \in DOMAIN stack /\ stack[c] \in A
  <2> SUFFICES ASSUME c # 0 PROVE c \in DOMAIN stack /\ stack[c] \in A
    OBVIOUS
  <2>1. c \in DOMAIN stack /\ indents[stack[c]] < indent
    BY <1>4
  <2>2. Here(stack[c]) /\ stack[c] \in 1..m
    BY <1>2, <2>1 DEF OpenBranch, Here
  <2> QED
    BY <1>3, <2>1, <2>2
<1>6. CASE A = {}
  BY <1>1, <1>5, <1>6
<1>7. CASE A # {}
  <2>1. A \in SUBSET (1..m)
    BY <1>3
  <2>2. PICK top : top = Max(A)
    OBVIOUS
  <2>3. top \in A /\ \A n \in A : n <= top
    BY <1>2, <1>7, <2>1, <2>2, MaxUpTo
  <2>4. top \in 1..m /\ Here(top) /\ indents[top] < indent
    BY <1>3, <2>3
  <2>5. ASSUME NEW k \in DOMAIN nodes, k > top PROVE indents[k] > indents[top]
    <3>1. Here(k)
      <4>1. top <= k /\ top \in DOMAIN nodes
        BY <1>2, <2>4, <2>5
      <4>2. frameNo <= origin[k] /\ origin[k] <= frameNo
        BY <2>4, <4>1 DEF InFrameOrder, Here
      <4>3. origin[k] \in Nat /\ frameNo \in Nat
        BY Lined DEF Objects
      <4> QED
        BY <1>2, <4>2, <4>3 DEF Here
    <3>2. k \notin A
      BY <1>2, <2>3, <2>4, <2>5
    <3>3. ~(indents[k] < indent)
      BY <1>2, <1>3, <3>1, <3>2
    <3> QED
      BY <1>2, <1>4, <2>4, <3>3
  <2>6. PICK l \in DOMAIN stack : stack[l] = top
    BY <1>2, <2>4, <2>5 DEF OpenBranch
  <2>7. l <= c
    BY <2>4, <2>6
  <2>8. c # 0
    BY <1>4, <2>6, <2>7
  <2>9. ~(l < c)
    <3> SUFFICES ASSUME l < c PROVE FALSE
      OBVIOUS
    <3>1. stack[l] < stack[c] /\ stack[c] <= top
      BY <1>5, <2>3, <2>6, <2>8 DEF OpenBranch
    <3>2. stack[c] \in 1..m
      BY <1>5, <2>1, <2>8
    <3> QED
      BY <1>2, <2>4, <2>6, <3>1, <3>2
  <2>10. l = c
    BY <1>4, <2>7, <2>9
  <2> QED
    BY <1>1, <1>7, <2>2, <2>6, <2>8, <2>10
<1> QED
  BY <1>6, <1>7

\* A node goes to its place in the tree.
LEMMA NodeInTree ==
  ASSUME RefInv, TreeInv, NEW indent \in Indents, NEW role \in Roles,
         NEW hasRef \in BOOLEAN, NodeLine(indent, role, hasRef)
  PROVE  TreeInv'
<1> DEFINE open == OpenAbove(indent)
<1>1. PICK m : m = Len(nodes)
  OBVIOUS
<1>2. /\ frameNo \in DOMAIN Frames /\ frameNo' = frameNo
      /\ m \in Nat /\ DOMAIN nodes = 1..m /\ DOMAIN nodes' = 1..(m + 1)
      /\ \A i \in 1..m : /\ nodes'[i] = nodes[i]
                         /\ indents'[i] = indents[i] /\ origin'[i] = origin[i]
      /\ indents'[m + 1] = indent /\ origin'[m + 1] = frameNo
  BY <1>1, NodeAdded DEF RefInv
<1>3. /\ indent \in Nat /\ \A i \in 1..m : indents[i] \in Nat
      /\ DOMAIN stack = 1..Len(stack) /\ Len(stack) \in Nat
  <2>1. /\ indents \in Seq(Nat) /\ Len(indents) = m
        /\ stack \in Seq(Nat)
    BY <1>1 DEF RefInv, Objects
  <2>2. \A i \in 1..m : indents[i] \in Nat
    BY <2>1, <1>2
  <2>3. indent \in Nat
    BY ParserAssumption
  <2>4. DOMAIN stack = 1..Len(stack) /\ Len(stack) \in Nat
    BY <2>1
  <2> QED
    BY <2>2, <2>3, <2>4
<1>4. PICK c \in 0..Len(stack) :
        /\ OpenAbove(indent) = SubSeq(stack, 1, c)
        /\ \A k \in DOMAIN stack : k <= c <=> indents[stack[k]] < indent
  BY <1>3, Popped DEF RefInv, TreeInv
<1>5. /\ Len(open) = c /\ \A k \in 1..c : open[k] = stack[k]
      /\ DOMAIN stack' = 1..(c + 1)
      /\ \A k \in 1..c : k \in DOMAIN stack /\ stack'[k] = stack[k]
      /\ stack'[c + 1] = m + 1
  BY <1>1, <1>4, Pushed DEF RefInv
<1>6. /\ nodes'[m + 1].frame = Frames[frameNo]
      /\ nodes'[m + 1].depth = c
      /\ nodes'[m + 1].parent = IF c = 0 THEN None ELSE nodes[stack[c]].ref
  <2> DEFINE d == Len(open)
             p == IF open = <<>> THEN None ELSE nodes[open[Len(open)]].ref
             ref == IF hasRef THEN <<frameNo, lineNo>> ELSE None
  <2>1. nodes'[m + 1] = [ref |-> ref, frame |-> Frames[frameNo], role |-> role,
                         name |-> {}, depth |-> d, parent |-> p]
    BY <1>1, NodeAdded DEF RefInv
  <2>2. /\ nodes'[m + 1].frame = Frames[frameNo] /\ nodes'[m + 1].depth = d
        /\ nodes'[m + 1].parent = p
    <3> HIDE DEF d, p, ref
    <3> QED
      BY <2>1
  <2>3. d = c
    BY <1>5
  <2>4. open = <<>> <=> c = 0
    <3>1. stack \in Seq(Nat)
      BY DEF RefInv, Objects
    <3>2. open \in Seq(Nat)
      BY <1>3, <1>4, <3>1
    <3> HIDE DEF open
    <3> QED
      BY <1>5, <3>2
  <2>5. p = IF c = 0 THEN None ELSE nodes[stack[c]].ref
    <3>1. CASE c = 0
      BY <2>4, <3>1
    <3>2. CASE c # 0
      <4>1. open[Len(open)] = stack[c]
        BY <1>3, <1>4, <1>5, <3>2
      <4> QED
        BY <2>4, <3>2, <4>1
    <3> QED
      BY <3>1, <3>2
  <2> QED
    BY <2>2, <2>3, <2>5
<1> HIDE DEF open
<1>7. \A k \in DOMAIN stack : Here(stack[k]) /\ stack[k] \in 1..m
                              /\ nodes[stack[k]].depth = k - 1
  BY <1>2 DEF TreeInv, OpenBranch, Here
<1>8. InFrameOrder'
  <2>1. ASSUME NEW i \in DOMAIN nodes'
        PROVE  /\ origin'[i] \in DOMAIN Frames /\ origin'[i] <= frameNo
               /\ nodes'[i].frame = Frames[origin'[i]]
    <3>1. CASE i \in 1..m
      BY <1>2, <3>1 DEF TreeInv, InFrameOrder
    <3>2. CASE i = m + 1
      <4>1. frameNo <= frameNo
        BY DEF RefInv, Objects
      <4> QED
        BY <1>2, <1>6, <3>2, <4>1
    <3> QED
      BY <1>2, <3>1, <3>2
  <2>2. ASSUME NEW i \in DOMAIN nodes', NEW j \in DOMAIN nodes', i <= j
        PROVE  origin'[i] <= origin'[j]
    <3>1. CASE j \in 1..m
      <4>1. i \in 1..m
        BY <1>2, <2>2, <3>1
      <4> QED
        BY <1>2, <2>2, <3>1, <4>1 DEF TreeInv, InFrameOrder
    <3>2. CASE j = m + 1
      BY <1>2, <2>1, <3>2
    <3> QED
      BY <1>2, <3>1, <3>2
  <2> QED
    BY <1>2, <2>1, <2>2 DEF InFrameOrder
<1>9. OpenBranch'
  <2>1. ASSUME NEW k \in DOMAIN stack'
        PROVE  /\ stack'[k] \in DOMAIN nodes' /\ origin'[stack'[k]] = frameNo
               /\ nodes'[stack'[k]].depth = k - 1
    <3>1. CASE k \in 1..c
      <4>1. /\ stack'[k] = stack[k] /\ stack[k] \in 1..m /\ Here(stack[k])
            /\ nodes[stack[k]].depth = k - 1
        BY <1>5, <1>7, <3>1
      <4> QED
        BY <1>2, <4>1 DEF Here
    <3>2. CASE k = c + 1
      <4>1. k - 1 = c /\ m + 1 \in DOMAIN nodes'
        BY <1>2, <1>3, <1>4, <3>2
      <4> QED
        BY <1>2, <1>5, <1>6, <3>2, <4>1
    <3> QED
      BY <1>3, <1>4, <1>5, <3>1, <3>2
  <2>2. ASSUME NEW k \in DOMAIN stack', NEW l \in DOMAIN stack', k < l
        PROVE  stack'[k] < stack'[l] /\ indents'[stack'[k]] < indents'[stack'[l]]
    <3>1. k \in 1..c /\ stack'[k] = stack[k] /\ k \in DOMAIN stack /\ stack[k] \in 1..m
      BY <1>3, <1>4, <1>5, <1>7, <2>2
    <3>2. CASE l \in 1..c
      <4>1. stack'[l] = stack[l] /\ l \in DOMAIN stack /\ stack[l] \in 1..m
        BY <1>5, <1>7, <3>2
      <4>2. stack[k] < stack[l] /\ indents[stack[k]] < indents[stack[l]]
        BY <2>2, <3>1, <4>1 DEF TreeInv, OpenBranch
      <4> QED
        BY <1>2, <3>1, <4>1, <4>2
    <3>3. CASE l = c + 1
      <4>1. indents[stack[k]] < indent
        BY <1>4, <3>1
      <4> QED
        BY <1>2, <1>5, <3>1, <3>3, <4>1
    <3> QED
      BY <1>3, <1>4, <1>5, <3>2, <3>3
  <2>3. ASSUME NEW j \in DOMAIN nodes', origin'[j] = frameNo,
               \A k \in DOMAIN nodes' : k > j => indents'[k] > indents'[j]
        PROVE  \E l \in DOMAIN stack' : stack'[l] = j
    <3>1. CASE j = m + 1
      <4>1. c + 1 \in DOMAIN stack'
        BY <1>3, <1>4, <1>5
      <4> QED
        BY <1>5, <3>1, <4>1
    <3>2. CASE j \in 1..m
      <4>1. Here(j)
        BY <1>2, <2>3, <3>2 DEF Here
      <4>2. ASSUME NEW k \in DOMAIN nodes, k > j PROVE indents[k] > indents[j]
        <5>1. k \in 1..m /\ k \in DOMAIN nodes'
          BY <1>2
        <5>2. indents'[k] > indents'[j]
          BY <2>3, <4>2, <5>1
        <5> QED
          BY <1>2, <3>2, <5>1, <5>2
      <4>3. PICK l \in DOMAIN stack : stack[l] = j
        BY <1>2, <3>2, <4>1, <4>2 DEF TreeInv, OpenBranch
      <4>4. indents[j] < indent
        <5>1. m + 1 \in DOMAIN nodes' /\ m + 1 > j
          BY <1>2, <3>2
        <5>2. indents'[m + 1] > indents'[j]
          BY <2>3, <5>1
        <5>3. indents[j] \in Nat /\ indents'[j] = indents[j]
          BY <1>2, <1>3, <3>2
        <5> QED
          BY <1>2, <1>3, <5>2, <5>3
      <4>5. l <= c
        BY <1>4, <4>3, <4>4
      <4>6. l \in 1..c /\ l \in DOMAIN stack'
        BY <1>3, <1>4, <1>5, <4>5
      <4> QED
        BY <1>5, <4>3, <4>6
    <3> QED
      BY <1>2, <3>1, <3>2
  <2> QED
    BY <1>2, <2>1, <2>2, <2>3 DEF OpenBranch, Here
<1>10. ParentIsTheEnclosingLine'
  <2> SUFFICES ASSUME NEW i \in DOMAIN nodes'
               PROVE  IF TreeParent(i)' = 0
                      THEN nodes'[i].parent = None /\ nodes'[i].depth = 0
                      ELSE /\ nodes'[i].parent = nodes'[TreeParent(i)'].ref
                           /\ nodes'[i].depth = nodes'[TreeParent(i)'].depth + 1
    BY DEF ParentIsTheEnclosingLine
  <2>1. CASE i \in 1..m
    <3>1. TreeParent(i)' = TreeParent(i)
      BY <1>2, <2>1, ParentsKept DEF RefInv
    <3>2. TreeParent(i) # 0 => TreeParent(i) \in 1..m
      <4>1. TreeParent(i) # 0 => TreeParent(i) \in 1..(i - 1)
        BY <1>2, <2>1, NearestAbove DEF RefInv
      <4> QED
        BY <1>2, <2>1, <4>1
    <3>3. IF TreeParent(i) = 0
          THEN nodes[i].parent = None /\ nodes[i].depth = 0
          ELSE /\ nodes[i].parent = nodes[TreeParent(i)].ref
               /\ nodes[i].depth = nodes[TreeParent(i)].depth + 1
      BY <1>2, <2>1 DEF TreeInv, ParentIsTheEnclosingLine
    <3> QED
      BY <1>2, <2>1, <3>1, <3>2, <3>3
  <2>2. CASE i = m + 1
    <3>1. TreeParent(m + 1)' = IF c = 0 THEN 0 ELSE stack[c]
      BY <1>1, <1>4, TopEncloses DEF RefInv, TreeInv
    <3>2. c # 0 => /\ stack[c] \in 1..m /\ nodes'[stack[c]] = nodes[stack[c]]
                   /\ nodes[stack[c]].depth + 1 = c
      <4> SUFFICES ASSUME c # 0
                   PROVE  /\ stack[c] \in 1..m /\ nodes'[stack[c]] = nodes[stack[c]]
                          /\ nodes[stack[c]].depth + 1 = c
        OBVIOUS
      <4>1. c \in DOMAIN stack /\ c \in Nat
        BY <1>3, <1>4
      <4>2. stack[c] \in 1..m /\ nodes[stack[c]].depth = c - 1
        BY <1>7, <4>1
      <4> QED
        BY <1>2, <4>1, <4>2
    <3>3. CASE c = 0
      BY <1>6, <2>2, <3>1, <3>3
    <3>4. CASE c # 0
      BY <1>2, <1>6, <2>2, <3>1, <3>2, <3>4
    <3> QED
      BY <3>3, <3>4
  <2> QED
    BY <1>2, <2>1, <2>2
<1> QED
  BY <1>8, <1>9, <1>10 DEF TreeInv

LEMMA TreeStep ==
  ASSUME RefInv, TreeInv, [Next]_vars
  PROVE  TreeInv'
<1>1. ASSUME UNCHANGED <<frameNo, nodes, stack, indents, origin>> PROVE TreeInv'
  <2>1. InFrameOrder'
    BY <1>1 DEF TreeInv, InFrameOrder
  <2>2. OpenBranch'
    BY <1>1 DEF TreeInv, OpenBranch, Here
  <2>3. ParentIsTheEnclosingLine'
    BY <1>1 DEF TreeInv, ParentIsTheEnclosingLine, TreeParent
  <2> QED
    BY <2>1, <2>2, <2>3 DEF TreeInv
<1>2. ASSUME NEW indent, SkippedLine(indent) \/ OtherLine(indent) PROVE TreeInv'
  BY <1>1, <1>2 DEF SkippedLine, OtherLine
<1>3. CASE NextFrame
  <2>1. /\ UNCHANGED <<nodes, indents, origin>> /\ stack' = <<>>
        /\ frameNo' = frameNo + 1 /\ frameNo \in DOMAIN Frames
    BY <1>3 DEF NextFrame
  <2>2. /\ frameNo \in Nat /\ frameNo' \in Nat /\ frameNo < frameNo'
        /\ \A i \in DOMAIN nodes : origin[i] \in Nat /\ origin[i] <= frameNo
    <3>1. frameNo \in Nat /\ \A i \in DOMAIN nodes : origin[i] \in Nat
      BY Lined DEF RefInv, Objects
    <3> QED
      BY <2>1, <3>1 DEF TreeInv, InFrameOrder
  <2>3. \A i \in DOMAIN nodes : origin[i] <= frameNo' /\ origin[i] # frameNo'
    BY <2>2
  <2>4. InFrameOrder'
    BY <2>1, <2>3 DEF TreeInv, InFrameOrder
  <2>5. OpenBranch'
    BY <2>1, <2>3 DEF OpenBranch, Here
  <2>6. ParentIsTheEnclosingLine'
    BY <2>1 DEF TreeInv, ParentIsTheEnclosingLine, TreeParent
  <2> QED
    BY <2>4, <2>5, <2>6 DEF TreeInv
<1>4. CASE UNCHANGED vars
  BY <1>1, <1>4 DEF vars
<1> QED
  BY <1>2, <1>3, <1>4, NodeInTree DEF Next

LEMMA TreeInit == Init => TreeInv
  BY DEF Init, TreeInv, InFrameOrder, OpenBranch, Here, ParentIsTheEnclosingLine

-----------------------------------------------------------------------------
(***************************************************************************)
(* The subtree that is cut out of the flat list.                           *)
(***************************************************************************)

\* What lies between a line and its parent is of their frame and below the
\* parent.
LEMMA BelowTheParent ==
  ASSUME Objects, TreeInv, NEW i \in DOMAIN nodes, TreeParent(i) # 0,
         NEW k \in (TreeParent(i) + 1)..i
  PROVE  origin[k] = origin[i] /\ nodes[k].depth > nodes[TreeParent(i)].depth
<1> DEFINE p == TreeParent(i)
<1>1. /\ DOMAIN nodes = 1..Len(nodes) /\ Len(nodes) \in Nat
      /\ \A j \in 1..Len(nodes) : indents[j] \in Nat /\ nodes[j].depth \in Nat
  BY Lined
<1>2. /\ p \in 1..(i - 1) /\ origin[p] = origin[i] /\ indents[p] < indents[i]
      /\ \A j \in 1..(i - 1) : (j > p /\ origin[j] = origin[i]) =>
           indents[j] >= indents[i]
  BY NearestAbove
<1> HIDE DEF p
<1>3. p \in DOMAIN nodes /\ p < i /\ p \in Nat /\ i \in Nat
  BY <1>1, <1>2
<1>4. \A j \in p..i : origin[j] = origin[i]
  <2>1. ASSUME NEW j \in p..i PROVE origin[j] = origin[i]
    <3>1. j \in DOMAIN nodes /\ p <= j /\ j <= i
      BY <1>1, <1>2, <1>3, <2>1
    <3>2. origin[p] <= origin[j] /\ origin[j] <= origin[i]
      BY <1>3, <3>1 DEF TreeInv, InFrameOrder
    <3>3. origin[j] \in Nat /\ origin[i] \in Nat
      BY <3>1, Lined
    <3> QED
      BY <1>2, <3>2, <3>3
  <2> QED
    BY <2>1
<1> DEFINE bad == {j \in (p + 1)..i : ~(nodes[j].depth > nodes[p].depth)}
<1>5. bad = {}
  <2> SUFFICES ASSUME bad # {} PROVE FALSE
    OBVIOUS
  <2>1. bad \in SUBSET Nat
    BY <1>3
  <2> HIDE DEF bad
  <2>2. PICK j \in bad : \A n \in bad : j <= n
    BY <2>1, LeastElement
  <2>3. /\ j \in (p + 1)..i /\ ~(nodes[j].depth > nodes[p].depth)
        /\ \A n \in (p + 1)..i : n < j => nodes[n].depth > nodes[p].depth
    <3>1. j \in (p + 1)..i /\ ~(nodes[j].depth > nodes[p].depth)
      BY <2>2 DEF bad
    <3>2. ASSUME NEW n \in (p + 1)..i, n < j PROVE nodes[n].depth > nodes[p].depth
      <4>1. n \notin bad
        BY <1>3, <2>1, <2>2, <3>2
      <4> QED
        BY <4>1 DEF bad
    <3> QED
      BY <3>1, <3>2
  <2>4. /\ j \in DOMAIN nodes /\ j \in Nat /\ p < j /\ j <= i /\ p \in 1..(j - 1)
        /\ j \in p..i
    BY <1>1, <1>2, <1>3, <2>3
  <2>5. indents[p] < indents[j]
    <3>1. CASE j = i
      BY <1>2, <3>1
    <3>2. CASE j # i
      <4>1. j \in 1..(i - 1) /\ j > p
        BY <1>3, <2>4, <3>2
      <4>2. indents[j] >= indents[i]
        BY <1>2, <1>4, <2>4, <4>1
      <4>3. /\ indents[p] \in Nat /\ indents[i] \in Nat /\ indents[j] \in Nat
        BY <1>1, <1>3, <2>4
      <4> QED
        BY <1>2, <4>2, <4>3
    <3> QED
      BY <3>1, <3>2
  <2> DEFINE q == TreeParent(j)
  <2>6. /\ q \in Nat
        /\ q # 0 => q \in 1..(j - 1)
        /\ \A l \in 1..(j - 1) : (l > q /\ origin[l] = origin[j]) =>
             indents[l] >= indents[j]
    BY <2>4, NearestAbove
  <2>7. q # 0 => nodes[j].depth = nodes[q].depth + 1
    BY <2>4 DEF TreeInv, ParentIsTheEnclosingLine
  <2> HIDE DEF q
  <2>8. q >= p
    <3> SUFFICES ASSUME q < p PROVE FALSE
      BY <1>3, <2>6
    <3>1. origin[p] = origin[j]
      BY <1>2, <1>4, <2>4
    <3>2. indents[p] >= indents[j]
      BY <2>4, <2>6, <3>1
    <3> QED
      BY <1>1, <1>3, <2>4, <2>5, <3>2
  <2>9. q # 0 /\ q \in 1..(j - 1) /\ q \in DOMAIN nodes
    BY <1>1, <1>2, <1>3, <2>4, <2>6, <2>8
  <2>10. CASE q = p
    BY <1>1, <1>3, <2>3, <2>7, <2>9, <2>10
  <2>11. CASE q # p
    <3>1. q \in (p + 1)..i /\ q < j
      BY <1>3, <2>4, <2>8, <2>9, <2>11
    <3>2. nodes[q].depth > nodes[p].depth
      BY <2>3, <3>1
    <3>3. /\ nodes[q].depth \in Nat /\ nodes[p].depth \in Nat
          /\ nodes[j].depth = nodes[q].depth + 1
      BY <1>1, <1>3, <2>7, <2>9
    <3> QED
      BY <2>3, <3>2, <3>3
  <2> QED
    BY <2>10, <2>11
<1>6. k \in (p + 1)..i
  BY DEF p
<1>7. nodes[k].depth > nodes[p].depth
  BY <1>5, <1>6
<1>8. k \in p..i
  BY <1>3, <1>6
<1> QED
  BY <1>4, <1>7, <1>8 DEF p

\* To be in the subtree is to be the root of it or to have one's parent in it.
LEMMA SubtreeByParents ==
  ASSUME Objects, TreeInv, NEW root \in DOMAIN nodes, NEW i \in DOMAIN nodes
  PROVE  InSubtree(Observed, root, i) <=>
           \/ i = root
           \/ TreeParent(i) # 0 /\ InSubtree(Observed, root, TreeParent(i))
<1> DEFINE p == TreeParent(i)
<1>1. /\ DOMAIN nodes = 1..Len(nodes) /\ Len(nodes) \in Nat
      /\ \A j \in 1..Len(nodes) : nodes[j].depth \in Nat
  BY Lined
<1>2. \A j : InSubtree(Observed, root, j) <=>
        /\ root <= j
        /\ \A k \in (root + 1)..j : /\ nodes[k].frame = nodes[root].frame
                                    /\ nodes[k].depth > nodes[root].depth
  BY DEF InSubtree, Observed
<1>3. /\ p # 0 => p \in 1..(i - 1) /\ nodes[i].depth = nodes[p].depth + 1
      /\ p = 0 => nodes[i].depth = 0
  BY NearestAbove DEF TreeInv, ParentIsTheEnclosingLine
<1>4. p # 0 => \A k \in (p + 1)..i : /\ nodes[k].frame = nodes[i].frame
                                     /\ nodes[k].depth > nodes[p].depth
  <2>1. ASSUME p # 0, NEW k \in (p + 1)..i
        PROVE  nodes[k].frame = nodes[i].frame /\ nodes[k].depth > nodes[p].depth
    <3>1. origin[k] = origin[i] /\ nodes[k].depth > nodes[p].depth
      BY <2>1, BelowTheParent
    <3>2. k \in DOMAIN nodes
      BY <1>1, <1>3, <2>1
    <3> QED
      BY <3>1, <3>2 DEF TreeInv, InFrameOrder
  <2> QED
    BY <2>1
<1>5. p # 0 => nodes[p].frame = nodes[i].frame
  <2>1. p # 0 => origin[p] = origin[i] /\ p \in DOMAIN nodes
    BY <1>1, <1>3, NearestAbove
  <2> QED
    BY <2>1 DEF TreeInv, InFrameOrder
<1> HIDE DEF p
<1>6. ASSUME i = root PROVE InSubtree(Observed, root, i)
  BY <1>1, <1>2, <1>6
<1>7. ASSUME p # 0, InSubtree(Observed, root, p) PROVE InSubtree(Observed, root, i)
  <2>1. root <= p /\ p \in 1..(i - 1) /\ p \in 1..Len(nodes) /\ i \in Nat /\ root \in Nat
    BY <1>1, <1>2, <1>3, <1>7
  <2>2. nodes[p].frame = nodes[root].frame /\ nodes[p].depth >= nodes[root].depth
    <3>1. CASE p = root
      BY <1>1, <2>1, <3>1
    <3>2. CASE p # root
      <4>1. p \in (root + 1)..p
        BY <2>1, <3>2
      <4>2. nodes[p].frame = nodes[root].frame /\ nodes[p].depth > nodes[root].depth
        BY <1>2, <1>7, <4>1
      <4> QED
        BY <1>1, <2>1, <4>2
    <3> QED
      BY <3>1, <3>2
  <2>3. ASSUME NEW k \in (root + 1)..i
        PROVE  nodes[k].frame = nodes[root].frame /\ nodes[k].depth > nodes[root].depth
    <3>1. CASE k <= p
      <4>1. k \in (root + 1)..p
        BY <2>1, <3>1
      <4> QED
        BY <1>2, <1>7, <4>1
    <3>2. CASE k > p
      <4>1. k \in (p + 1)..i /\ k \in 1..Len(nodes)
        BY <1>1, <2>1, <3>2
      <4>2. nodes[k].frame = nodes[i].frame /\ nodes[k].depth > nodes[p].depth
        BY <1>4, <1>7, <4>1
      <4> QED
        BY <1>1, <1>5, <1>7, <2>1, <2>2, <4>1, <4>2
    <3> QED
      BY <2>1, <3>1, <3>2
  <2> QED
    BY <1>2, <2>1, <2>3
<1>8. ASSUME InSubtree(Observed, root, i), i # root
      PROVE  p # 0 /\ InSubtree(Observed, root, p)
  <2>1. root < i /\ i \in (root + 1)..i /\ i \in Nat /\ root \in Nat
    BY <1>1, <1>2, <1>8
  <2>2. nodes[i].depth > nodes[root].depth
    BY <1>2, <1>8, <2>1
  <2>3. p # 0
    BY <1>1, <1>3, <2>2
  <2>4. p \in 1..(i - 1) /\ p \in 1..Len(nodes) /\ nodes[i].depth = nodes[p].depth + 1
    BY <1>1, <1>3, <2>3
  <2>5. root <= p
    <3> SUFFICES ASSUME p < root PROVE FALSE
      BY <2>1, <2>4
    <3>1. root \in (p + 1)..i
      BY <2>1, <2>4
    <3>2. nodes[root].depth > nodes[p].depth
      BY <1>4, <2>3, <3>1
    <3> QED
      BY <1>1, <2>2, <2>4, <3>2
  <2>6. \A k \in (root + 1)..p : k \in (root + 1)..i
    BY <2>1, <2>4
  <2> QED
    BY <1>2, <1>8, <2>3, <2>5, <2>6
<1> QED
  BY <1>6, <1>7, <1>8 DEF p

\* The walk up the parents that Descendants is.
Walk(root) ==
  CHOOSE f : f = [i \in DOMAIN nodes |->
                    i = root \/ (TreeParent(i) # 0 /\ f[TreeParent(i)])]

LEMMA DescendantsAreWalked ==
  ASSUME NEW root
  PROVE  Descendants(root) = {i \in DOMAIN nodes : Walk(root)[i]}
BY DEF Descendants, Walk

\* There is one such walk, the subtree test, for it goes up.
LEMMA WalkIsSubtree ==
  ASSUME Objects, TreeInv, NEW root \in DOMAIN nodes, NEW i \in DOMAIN nodes
  PROVE  Walk(root)[i] <=> InSubtree(Observed, root, i)
<1> DEFINE Up(f) == [j \in DOMAIN nodes |->
                       j = root \/ (TreeParent(j) # 0 /\ f[TreeParent(j)])]
           In(j) == InSubtree(Observed, root, j)
           g == [j \in DOMAIN nodes |-> In(j)]
           w == Walk(root)
<1>1. /\ DOMAIN nodes = 1..Len(nodes) /\ Len(nodes) \in Nat
  BY DEF Objects
<1>2. \A j \in DOMAIN nodes :
        TreeParent(j) # 0 => TreeParent(j) \in DOMAIN nodes /\ TreeParent(j) < j
  <2>1. ASSUME NEW j \in DOMAIN nodes, TreeParent(j) # 0
        PROVE  TreeParent(j) \in DOMAIN nodes /\ TreeParent(j) < j
    <3>1. TreeParent(j) \in 1..(j - 1)
      BY <2>1, NearestAbove
    <3> QED
      BY <1>1, <3>1
  <2> QED
    BY <2>1
<1>3. \A j \in DOMAIN nodes : In(j) <=> j = root \/ (TreeParent(j) # 0 /\ In(TreeParent(j)))
  BY SubtreeByParents
<1>4. \A j : In(j) \in BOOLEAN
  BY DEF InSubtree
<1> HIDE DEF In
<1>5. g = Up(g)
  <2>1. \A j \in DOMAIN nodes :
          In(j) = (j = root \/ (TreeParent(j) # 0 /\ g[TreeParent(j)]))
    BY <1>2, <1>3, <1>4
  <2> QED
    BY <2>1
<1>6. w = Up(w)
  <2>1. w = CHOOSE f : f = Up(f)
    BY DEF Walk
  <2> HIDE DEF Up, g, w
  <2>2. \E f : f = Up(f)
    BY <1>5
  <2> QED
    BY <2>1, <2>2
<1>7. \A j \in DOMAIN nodes :
        w[j] = (j = root \/ (TreeParent(j) # 0 /\ w[TreeParent(j)]))
  BY <1>6
<1> DEFINE bad == {j \in DOMAIN nodes : ~(w[j] <=> In(j))}
<1>8. bad = {}
  <2> SUFFICES ASSUME bad # {} PROVE FALSE
    OBVIOUS
  <2>1. bad \in SUBSET Nat
    BY <1>1
  <2> HIDE DEF bad, w
  <2>2. PICK j \in bad : \A n \in bad : j <= n
    BY <2>1, LeastElement
  <2>3. j \in DOMAIN nodes /\ ~(w[j] <=> In(j))
    BY <2>2 DEF bad
  <2>4. TreeParent(j) # 0 => (w[TreeParent(j)] <=> In(TreeParent(j)))
    <3> SUFFICES ASSUME TreeParent(j) # 0 PROVE w[TreeParent(j)] <=> In(TreeParent(j))
      OBVIOUS
    <3>1. TreeParent(j) \in DOMAIN nodes /\ TreeParent(j) < j
      BY <1>2, <2>3
    <3>2. TreeParent(j) \notin bad
      BY <1>1, <2>2, <2>3, <3>1
    <3> QED
      BY <3>1, <3>2 DEF bad
  <2> QED
    BY <1>3, <1>7, <2>3, <2>4
<1> QED
  BY <1>8 DEF In

-----------------------------------------------------------------------------
(***************************************************************************)
(* The theorems.                                                           *)
(***************************************************************************)

LEMMA ParserInvariance == Spec => []RefInv
  BY RefInit, RefStep, PTL DEF Spec

\* A control of an embedded page is observed once: parse_aria_snapshot discards
\* what is nested under an iframe line up to the line where the iframe really
\* ends, so no two nodes of an observation bear the same ref, however deep the
\* frames nest, and whatever they are called.
THEOREM ControlsAreSeenOnce == Spec => []NoControlTwice
<1>1. RefInv => NoControlTwice
  BY DEF RefInv
<1> QED
  BY <1>1, ParserInvariance, PTL

LEMMA TreeInvariance == Spec => []TreeInv
<1>1. RefInv /\ TreeInv /\ [Next]_vars => TreeInv'
  BY TreeStep
<1> QED
  BY <1>1, TreeInit, ParserInvariance, PTL DEF Spec

\* The stack walk of parse_aria_snapshot recovers the tree the indents draw:
\* each node's parent_ref is the ref of the line it is indented under, and its
\* depth one more than that line's, for snapshots of any length and frames of
\* any labels.
THEOREM ParentsAreTheEnclosingLines == Spec => []ParentIsTheEnclosingLine
<1>1. TreeInv => ParentIsTheEnclosingLine
  BY DEF TreeInv
<1> QED
  BY <1>1, TreeInvariance, PTL

\* _subtree (locator/resolve.py) "relies on Observation.nodes being in the
\* pre-order the parser produced", and may: cutting the flat list where the depth
\* returns to the root's gives the root and all its descendants.
THEOREM SubtreesAreDescendants == Spec => []SubtreeIsDescendants
<1>1. RefInv /\ TreeInv => SubtreeIsDescendants
  <2> SUFFICES ASSUME RefInv, TreeInv, NEW root \in DOMAIN nodes
               PROVE  Subtree(Observed, root) = Descendants(root)
    BY DEF SubtreeIsDescendants
  <2>1. \A i \in DOMAIN nodes : Walk(root)[i] <=> InSubtree(Observed, root, i)
    BY WalkIsSubtree DEF RefInv
  <2>2. Subtree(Observed, root) = {i \in DOMAIN nodes : InSubtree(Observed, root, i)}
    BY DEF Subtree, Positions, Observed
  <2> QED
    BY <2>1, <2>2, DescendantsAreWalked
<1> QED
  BY <1>1, ParserInvariance, TreeInvariance, PTL

\* What observe() returns is a list in pre-order with a key for every control: what
\* the locator and the recorder take an observation to be, and Discovery assumes of
\* its pages.
THEOREM ObservationsAreInPreOrder == Spec => []InPreOrder(Observed)
<1>1. ASSUME RefInv, TreeInv PROVE InPreOrder(Observed)
  <2>1. /\ Len(nodes) \in Nat /\ DOMAIN nodes = 1..Len(nodes)
        /\ \A i \in DOMAIN nodes : nodes[i].depth \in Nat /\ nodes[i] \in Node
    BY <1>1, Lined DEF RefInv, Objects
  <2>2. \A i \in DOMAIN nodes :
          DOMAIN nodes[i] = {"ref", "frame", "role", "name", "depth", "parent"}
    BY <2>1 DEF Node
  <2>3. \A i, j \in DOMAIN nodes : nodes[i].ref = nodes[j].ref /\ nodes[i].ref # None => i = j
    BY <1>1 DEF RefInv, NoControlTwice
  <2>4. ASSUME NEW i \in DOMAIN nodes, nodes[i].parent # None
        PROVE  \E above \in DOMAIN nodes : /\ nodes[above].frame = nodes[i].frame
                                           /\ nodes[above].ref = nodes[i].parent
                                           /\ InSubtree(Observed, above, i)
    <3> DEFINE p == TreeParent(i)
    <3>1. p # 0 /\ nodes[i].parent = nodes[p].ref
      BY <1>1, <2>4 DEF TreeInv, ParentIsTheEnclosingLine
    <3>2. p \in 1..(i - 1) /\ origin[p] = origin[i]
      BY <1>1, <3>1, NearestAbove DEF RefInv
    <3>3. p \in DOMAIN nodes
      BY <2>1, <3>2
    <3>4. nodes[p].frame = nodes[i].frame
      BY <1>1, <3>2, <3>3 DEF TreeInv, InFrameOrder
    <3>5. InSubtree(Observed, p, p)
      BY <2>1, <3>3 DEF InSubtree
    <3>6. InSubtree(Observed, p, i)
      BY <1>1, <3>1, <3>3, <3>5, SubtreeByParents DEF RefInv
    <3> QED
      BY <3>1, <3>3, <3>4, <3>6
  <2>5. Observed.nodes = nodes /\ Positions(Observed) = DOMAIN nodes
    BY DEF Observed, Positions
  <2> QED
    BY <2>1, <2>2, <2>3, <2>4, <2>5 DEF InPreOrder
<1> QED
  BY <1>1, ParserInvariance, TreeInvariance, PTL

=============================================================================
