---------------------------- MODULE MCResolveLoop ----------------------------
(***************************************************************************)
(* Ladders of up to three rungs, of every strategy and both policies,      *)
(* against the search page of the target app and variations of it: one     *)
(* with a second "Search" button, one whose rows repeat a label, one with  *)
(* two frames that bear the same refs, and one with nothing on it.         *)
(***************************************************************************)
EXTENDS ResolveLoop

Node(ref, frame, role, name, depth, parent) ==
  [ref |-> ref, frame |-> frame, role |-> role, name |-> name,
   depth |-> depth, parent |-> parent]

\* A form of two rows: a labelled text box, and a button.
Form(frame, label, button) ==
  << Node("e1", frame, "table",   {},       0, None),
     Node("e2", frame, "row",     {},       1, "e1"),
     Node("e3", frame, "cell",    label,    2, "e2"),
     Node("e4", frame, "cell",    {},       2, "e2"),
     Node("e5", frame, "textbox", {},       3, "e4"),
     Node("e6", frame, "row",     {},       1, "e1"),
     Node("e7", frame, "button",  button,   2, "e6") >>

Member  == {"member", "number"}
Search  == {"search"}
Page(nodes) == [nodes |-> nodes, domain |-> "bank"]

MCObservations ==
  { Page(<<>>),
    Page(Form("main", Member, Search)),
    Page(Append(Form("main", Member, Search), Node("e8", "main", "button", Search, 2, "e6"))),
    Page(Form("nav", {"find"}, {"find"}) \o Form("main", Member, Search)),
    Page(Form("main", Member, Member)),
    \* a row that bears the label's text itself, and a label whose parent is gone
    Page(Append(Append(Form("main", Member, Search),
                       Node("e8", "main", "cell", Member, 2, "e6")),
                Node(None, "main", "cell", Member, 3, "gone"))) }

RoleName(role, name) == [strategy |-> "role_name", role |-> role, name |-> name]
LabelProximity(near, control) ==
  [strategy |-> "label_proximity", near |-> near, control |-> control]
AnchoredRegion(frame, region, index) ==
  [strategy |-> "anchored_region", frame |-> frame, region |-> region, index |-> index]

Rungs ==
  { RoleName("button", Search),
    RoleName("textbox", {}),
    LabelProximity({"member"}, "textbox"),
    LabelProximity({"member"}, "button"),
    AnchoredRegion("main", "button", 0),
    AnchoredRegion("main", "button", 1),
    [strategy |-> "visual_template"] }

Ladders == {<<a>> : a \in Rungs} \cup (Rungs \X Rungs) \cup (Rungs \X Rungs \X Rungs)

MCTargets == [tiers : Ladders, policy : {"escalate_on_ambiguous", "first_unique_match"}]
=============================================================================
