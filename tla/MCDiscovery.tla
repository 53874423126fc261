----------------------------- MODULE MCDiscovery -----------------------------
(***************************************************************************)
(* The discovery of the balance look-up: the search form, in a frame whose *)
(* refs the frame around it has too, and the detail pages of two members.  *)
(***************************************************************************)
EXTENDS DiscoverCommand

Node(ref, frame, role, name, depth, parent) ==
  [ref |-> ref, frame |-> frame, role |-> role, name |-> name,
   depth |-> depth, parent |-> parent]

Nav == << Node("e1", "nav", "link", {"search"}, 0, None),
          Node("e9", "nav", "link", {"search"}, 0, None) >>

Cell(ref, name, parent) == Node(ref, "content", "cell", name, 2, parent)
Row(ref) == Node(ref, "content", "row", {}, 1, "e1")

SearchForm ==
  [domain |-> "bank",
   nodes |-> Nav \o
     << Node("e1", "content", "table", {}, 0, None),
        Row("e2"), Cell("e3", {"member", "number", "colon"}, "e2"), Cell("e4", {}, "e2"),
        Node("e5", "content", "textbox", {}, 3, "e4"),
        Node("e6", "content", "button", {"search"}, 0, None),
        Node("e7", "content", "textbox", {}, 0, None) >>]

Detail(name, balance, domain) ==
  [domain |-> domain,
   nodes |->
     << Node("e1", "content", "table", {}, 0, None),
        Row("e2"), Cell("e3", {"name", "colon"}, "e2"), Cell("e4", name, "e2"),
        Row("e5"), Cell("e6", {"balance", "colon"}, "e5"), Cell("e7", balance, "e5") >>]

MCPages == { SearchForm, Detail({"ann"}, {"much"}, "bank"), Detail({"bob"}, {"little"}, "core") }

Decision(action, frame, ref, value, output) ==
  [action |-> action, frame |-> frame, ref |-> ref, value |-> value, output |-> output,
   reason |-> FALSE]
Done == Decision("done", None, None, None, None)
Type(ref, value) == Decision("type", "content", ref, value, None)
Extract(ref) == Decision("extract", "content", ref, None, "balance")

MCReplies ==
  { <<Done>>,
    <<[Done EXCEPT !.action = "stuck"], [Done EXCEPT !.action = "stuck", !.reason = TRUE]>>,
    <<>>,
    <<Decision("navigate", None, None, "/app", None)>>,
    <<Type("e5", "12345")>>,
    <<Type("e7", None), Type("e7", "an SSN")>>,
    <<Type("e5", None)>>,
    <<Decision("click", "content", "e6", None, None), Done>>,
    <<Decision("click", "nav", "e9", None, None)>>,
    <<Decision("click", "content", "e9", None, None)>>,
    <<Extract("e7")>> }

MCHumans ==
  [ parameterize : {[v \in {} |-> None], [v \in {"12345"} |-> "member_id"],
                    [v \in {"12345", "/app"} |-> IF v = "/app" THEN "start" ELSE "member_id"]},
    params : {{}}, outputs : {{}, {[name |-> "balance", nullable |-> FALSE, sensitive |-> FALSE]}},
    outcomes : {<<>>},
    checkpoint : {[strategy |-> "role_name", role |-> "heading", name |-> {"member", "detail"}]},
    tenant : {None}, base : {None} ]
=============================================================================
