------------------------------ MODULE AriaParser ------------------------------
(***************************************************************************)
(* How an observation is read off the browser: WebSurface.observe walks    *)
(* the page's frames and parse_aria_snapshot turns the indented lines of   *)
(* each frame's snapshot into nodes, keeping the open branch on a stack.   *)
(*                                                                         *)
(* The browser is external.  It decides what the next line is: its indent, *)
(* its role, whether it bears a ref, and the element it stands for.  An    *)
(* iframe's own elements are shown a second time, nested under the iframe  *)
(* line of the frame around it.                                            *)
(***************************************************************************)
EXTENDS Locator

CONSTANTS Frames,       \* the labels of page.frames, in order
          Indents,      \* the indents lines may have
          Roles,        \* the roles they may have; "iframe" is the special one
          MaxLines,     \* bound: lines of one frame's snapshot
          MaxNodes      \* bound: nodes of the whole observation

ASSUME ParserAssumption ==
  /\ Frames \in Seq(STRING) /\ Len(Frames) \in Nat
  /\ Indents \subseteq Nat
  /\ MaxLines \in Nat /\ MaxNodes \in Nat
  /\ None \notin Nat

VARIABLES frameNo,      \* the frame being snapshot; past the last when done
          lineNo,       \* lines read from it so far
          nodes,        \* the nodes of the observation so far
          stack,        \* positions in nodes, the innermost open node last
          skipBelow,    \* indent of the iframe whose subtree is discarded, or None
          indents,      \* the indent each node's line had (the stack holds it too)
          origin,       \* history: the frame each node's line is from
          embedded      \* the browser's: indent of the iframe line the next
                        \* deeper line is a copy under, or None

vars == <<frameNo, lineNo, nodes, stack, skipBelow, indents, origin, embedded>>

Init == /\ frameNo = 1
        /\ lineNo = 0
        /\ nodes = <<>>
        /\ stack = <<>>
        /\ skipBelow = None
        /\ indents = <<>>
        /\ origin = <<>>
        /\ embedded = None

Reading == frameNo \in DOMAIN Frames /\ lineNo < MaxLines /\ Len(nodes) < MaxNodes

(***************************************************************************)
(* The browser's next line, and the ref it bears: a line under an iframe   *)
(* bears the ref its element has in the next frame's own snapshot.         *)
(***************************************************************************)

Nested(indent) == embedded # None /\ indent > embedded

Ref(indent) == IF Nested(indent) THEN <<frameNo + 1, lineNo - 1>> ELSE <<frameNo, lineNo>>

Line(indent, isIframe) ==
  /\ Reading
  /\ lineNo' = lineNo + 1
  /\ embedded' = CASE Nested(indent)               -> embedded
                   [] ~Nested(indent) /\ isIframe  -> indent
                   [] ~Nested(indent) /\ ~isIframe -> None

(***************************************************************************)
(* The parser's loop body.                                                 *)
(***************************************************************************)

\* Mutant: embedded copies are not discarded.
SkippedNever(indent) == FALSE

\* The test at the top of the loop: is the line inside a discarded subtree?
Skipped(indent) == skipBelow # None /\ indent > skipBelow

\* Mutant: an entry as deep as the line stays open.
OpenBeside(indent) ==
  LET kept == {k \in DOMAIN stack : \A l \in 1..k : indents[stack[l]] <= indent}
  IN  SubSeq(stack, 1, Cardinality(kept))

\* What is left of the stack once every entry as deep as the line is popped.
OpenAbove(indent) ==
  LET kept == {k \in DOMAIN stack : \A l \in 1..k : indents[stack[l]] < indent}
  IN  SubSeq(stack, 1, Cardinality(kept))

\* A line _NODE_RE recognises.
NodeLine(indent, role, hasRef) ==
  LET open == OpenAbove(indent)
      node == [ref    |-> IF hasRef THEN Ref(indent) ELSE None,
               frame  |-> Frames[frameNo],
               role   |-> role,
               name   |-> {},
               depth  |-> Len(open),
               parent |-> IF open = <<>> THEN None ELSE nodes[open[Len(open)]].ref]
  IN  /\ Line(indent, role = "iframe")
      /\ ~Skipped(indent)
      /\ nodes' = Append(nodes, node)
      /\ indents' = Append(indents, indent)
      /\ origin' = Append(origin, frameNo)
      /\ stack' = Append(open, Len(nodes) + 1)
      /\ skipBelow' = IF role = "iframe" THEN indent ELSE None
      /\ UNCHANGED frameNo

\* A line inside a discarded subtree.
SkippedLine(indent) ==
  /\ Line(indent, FALSE)
  /\ Skipped(indent)
  /\ UNCHANGED <<frameNo, nodes, stack, skipBelow, indents, origin>>

\* A /url line, or one the parser does not recognise: it ends a discarded
\* subtree like any other line, and adds no node and opens no branch.
OtherLine(indent) ==
  /\ Line(indent, FALSE)
  /\ ~Skipped(indent)
  /\ skipBelow' = None
  /\ UNCHANGED <<frameNo, nodes, stack, indents, origin>>

\* The snapshot's last line has been read, or (at once) the frame could not be
\* snapshot at all: observe() goes on to the next frame with a fresh parse.
NextFrame ==
  /\ frameNo \in DOMAIN Frames
  /\ frameNo' = frameNo + 1
  /\ lineNo' = 0
  /\ stack' = <<>>
  /\ skipBelow' = None
  /\ embedded' = None
  /\ UNCHANGED <<nodes, indents, origin>>

Next == \/ \E indent \in Indents, role \in Roles, hasRef \in BOOLEAN :
             NodeLine(indent, role, hasRef)
        \/ \E indent \in Indents : SkippedLine(indent)
        \/ \E indent \in Indents : OtherLine(indent)
        \/ NextFrame

Spec == Init /\ [][Next]_vars

-----------------------------------------------------------------------------
Observed == [nodes |-> nodes]

\* The tree the indents draw: a node's parent is the nearest line above it, in
\* its frame, that is indented less; 0 for a root.
TreeParent(i) ==
  LET above == {j \in 1..(i - 1) : origin[j] = origin[i] /\ indents[j] < indents[i]}
  IN  IF above = {} THEN 0 ELSE Max(above)

Descendants(root) ==
  LET under[i \in DOMAIN nodes] ==
        i = root \/ (TreeParent(i) # 0 /\ under[TreeParent(i)])
  IN  {i \in DOMAIN nodes : under[i]}

\* The stack walk of parse_aria_snapshot recovers the tree: each node's
\* parent_ref is the ref of the line it is indented under, whatever dedents
\* and discarded iframes came between, and its depth is one more than that
\* line's.
ParentIsTheEnclosingLine ==
  \A i \in DOMAIN nodes :
    LET parent == TreeParent(i)
    IN  IF parent = 0 THEN nodes[i].parent = None /\ nodes[i].depth = 0
                      ELSE /\ nodes[i].parent = nodes[parent].ref
                           /\ nodes[i].depth = nodes[parent].depth + 1

\* _subtree "relies on Observation.nodes being in the pre-order the parser
\* produced": cutting the flat list where the depth returns to the root's is
\* exactly the root and its descendants, neither a sibling row nor less.
SubtreeIsDescendants ==
  \A root \in DOMAIN nodes : Subtree(Observed, root) = Descendants(root)

\* A control of an embedded page is observed once: the copy nested under the
\* iframe line is discarded up to the line where the iframe really ends, so no
\* two nodes of an observation bear the same ref.
NoControlTwice ==
  \A i, j \in DOMAIN nodes :
    (nodes[i].ref = nodes[j].ref /\ nodes[i].ref # None) => i = j
=============================================================================
