------------------------------- MODULE MCReplay -------------------------------
(***************************************************************************)
(* Two capabilities of the repository's tests, and the screens of the      *)
(* target app that matter to them, cut to the nodes their locators can     *)
(* tell apart: the balance look-up (tests/unit/replay/conftest.py) and the *)
(* opening of a sub-account (tests/integration/policy/conftest.py).        *)
(***************************************************************************)
EXTENDS Replay

Node(ref, role, name, depth, parent) ==
  [ref |-> ref, frame |-> "contentFrame", role |-> role, name |-> name,
   depth |-> depth, parent |-> parent]
Screen(domain, nodes) == [domain |-> domain, nodes |-> nodes]
Heading(words) == Node("e1", "heading", words, 0, None)

RoleName(role, name) == [strategy |-> "role_name", role |-> role, name |-> name]
LabelProximity(near, control) ==
  [strategy |-> "label_proximity", near |-> near, control |-> control]
Aim(tiers) == [tiers |-> tiers, policy |-> "escalate_on_ambiguous"]

Step(id, action, target, retries) ==
  [id |-> id, action |-> action, target |-> target, param |-> None, literal |-> None,
   output |-> None, risk |-> "safe", rationale |-> FALSE, retries |-> retries]
Outcome(code, category, detection) ==
  [code |-> code, category |-> category, detection |-> detection]
Text(name) == [name |-> name, type |-> "string", required |-> TRUE, default |-> None,
               sensitive |-> FALSE, pattern |-> None, choices |-> None]
Given(text) == [kind |-> "str", text |-> text]

-----------------------------------------------------------------------------
\* The balance look-up.  The click on Search may be retried once.  No validator
\* bounds max_retries from below: with -1, NAVIGATE still acts once.

SearchForm == << Node("e1", "row", {}, 0, None),
                 Node("e2", "cell", {"member", "number"}, 1, "e1"),
                 Node("e3", "textbox", {}, 1, "e1"),
                 Node("e4", "button", {"search"}, 0, None) >>

\* The same form under a notice, so that every ref is one further on.
ShiftedForm == << Node("e2", "row", {}, 0, None),
                  Node("e3", "cell", {"member", "number"}, 1, "e2"),
                  Node("e4", "textbox", {}, 1, "e2"),
                  Node("e5", "button", {"search"}, 0, None) >>

BalanceScreens ==
  { Screen("bank", SearchForm),
    Screen("bank", Append(SearchForm, Node("e5", "button", {"search"}, 0, None))),
    Screen("bank", << Heading({"member", "detail"}), Node("e2", "row", {}, 0, None),
                      Node("e3", "cell", {"savings", "balance"}, 1, "e2"),
                      Node("e4", "cell", {"money"}, 1, "e2") >>),
    Screen("bank", <<Node("e1", "generic", {"no", "records"}, 0, None)>>),
    Screen("bank", <<Heading({"session", "expired"})>>),
    Screen("elsewhere", <<Heading({"session", "expired"})>>),
    Screen("bank", <<Heading({"one", "moment"})>> \o ShiftedForm) }

MCBalance ==
  [steps |->
     << [Step("go_to_search", "navigate", None, -1) EXCEPT !.literal = "/app"],
        [Step("type_member_id", "type",
              Aim(<<RoleName("textbox", {"member", "number"}),
                    LabelProximity({"member", "number"}, "textbox")>>), 0)
           EXCEPT !.param = "member_id"],
        Step("click_search", "click", Aim(<<RoleName("button", {"search"})>>), 1),
        [Step("extract_balance", "extract",
              Aim(<<LabelProximity({"savings", "balance"}, "cell")>>), 0)
           EXCEPT !.output = "balance_text"] >>,
   params |-> {Text("member_id")},
   outputs |-> {[name |-> "balance_text", nullable |-> FALSE, sensitive |-> FALSE]},
   outcomes |-> << Outcome("MEMBER_NOT_FOUND", "business_outcome",
                           RoleName("generic", {"no", "records"})),
                   Outcome("SESSION_EXPIRED", "recoverable",
                           RoleName("heading", {"session", "expired"})) >>,
   checkpoint |-> RoleName("heading", {"member", "detail"}),
   domains |-> {"bank"}, tenant |-> None, base |-> None,
   actions |-> {"navigate", "type", "click", "extract"}]

BalanceCalls ==
  [raw : {[member_id |-> Given("10001")], <<>>}, guarded : BOOLEAN, authorized : {{}}]

-----------------------------------------------------------------------------
\* The opening of a sub-account: a form, and a confirmation that cannot be
\* undone.  NAVIGATE and the confirmation may be retried once, the link twice,
\* and the last step has no attempt at all.

AccountScreens ==
  { Screen("bank", << Heading({"member", "detail"}),
                      Node("e2", "link", {"open", "sub-account"}, 0, None) >>),
    Screen("bank", << Heading({"confirm"}),
                      Node("e2", "button", {"confirm", "open"}, 0, None) >>),
    Screen("bank", <<Heading({"sub-account", "opened"})>>),
    Screen("elsewhere", << Heading({"confirm"}),
                           Node("e2", "button", {"confirm", "open"}, 0, None) >>) }

MCOpenAccount ==
  [steps |->
     << [Step("go_to_detail", "navigate", None, 1) EXCEPT !.literal = "/app"],
        Step("click_open_subaccount", "click", Aim(<<RoleName("link", {"open", "sub-account"})>>), 2),
        [Step("click_confirm", "click", Aim(<<RoleName("button", {"confirm", "open"})>>), 1)
           EXCEPT !.risk = "risky_irreversible", !.rationale = TRUE],
        Step("await_heading", "wait_for", Aim(<<RoleName("heading", {"sub-account", "opened"})>>), -1) >>,
   params |-> {}, outputs |-> {}, outcomes |-> <<>>,
   checkpoint |-> RoleName("heading", {"sub-account", "opened"}),
   domains |-> {"bank"}, tenant |-> None, base |-> None,
   actions |-> {"navigate", "click", "wait_for"}]

AccountCalls ==
  [raw : {<<>>}, guarded : BOOLEAN, authorized : {{}, {"click_confirm"}}]
=============================================================================
