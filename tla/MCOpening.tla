------------------------------ MODULE MCOpening ------------------------------
(***************************************************************************)
(* The artifact of tests/integration/policy/conftest.py, its form cut to   *)
(* one field, on the screens of the target app's templates.  Continue and  *)
(* the confirmation have the same ref on their pages, as they may.         *)
(***************************************************************************)
EXTENDS Opening, TLC

CONSTANTS NavigateRetries, ContinueRetries, ConfirmRetries

Node(ref, role, name, depth, parent) ==
  [ref |-> ref, frame |-> "contentFrame", role |-> role, name |-> name,
   depth |-> depth, parent |-> parent]
Screen(nodes) == [domain |-> "bank", nodes |-> nodes]
Heading(words) == Node("e1", "heading", words, 0, None)

FormNodes == << Node("e2", "row", {}, 0, None),
                Node("e3", "cell", {"initial", "deposit"}, 1, "e2"),
                Node("e4", "textbox", {}, 1, "e2"),
                Node("e5", "button", {"continue"}, 0, None) >>

MCShows ==
  [blank   |-> Screen(<<>>),
   detail  |-> Screen(<<Heading({"member", "detail"}),
                        Node("e5", "link", {"open", "sub-account"}, 0, None)>>),
   form    |-> Screen(<<Heading({"open", "sub-account"})>> \o FormNodes),
   errors  |-> Screen(<<Heading({"please", "correct"})>> \o FormNodes),
   confirm |-> Screen(<<Heading({"confirm", "sub-account"}),
                        Node("e5", "button", {"confirm", "open"}, 0, None)>>),
   success |-> Screen(<<Heading({"sub-account", "opened"})>>),
   expired |-> Screen(<<Heading({"confirmation", "expired"})>>),
   session_timeout   |-> Screen(<<Heading({"session", "expired"}),
                                  Node("e5", "link", {"continue"}, 0, None)>>),
   permission_denied |-> Screen(<<Heading({"access", "denied"})>>),
   surprise_dialog   |-> Screen(<<Heading({"confirm"}), Node("e5", "link", {"ok"}, 0, None)>>)]
  @@ ("server error" :> Screen(<<Heading({"error"})>>))

At(ref) == [frame |-> "contentFrame", ref |-> ref]
MCControl == [screen \in {"detail", "form", "errors", "confirm"} |-> At("e5")]
MCField == [screen \in {"form", "errors"} |-> At("e4")]
MCOrigin == [screen |-> "blank", token |-> 0,
             form |-> [deposit |-> "not a number", complete |-> TRUE]]
MCObservations == {MCShows[screen] : screen \in DOMAIN MCShows}

-----------------------------------------------------------------------------
RoleName(role, name) == [strategy |-> "role_name", role |-> role, name |-> name]
Aim(tier) == [tiers |-> <<tier>>, policy |-> "escalate_on_ambiguous"]
Step(id, action, target, retries) ==
  [id |-> id, action |-> action, target |-> target, param |-> None, literal |-> None,
   output |-> None, risk |-> "safe", rationale |-> FALSE, retries |-> retries]

MCCapability ==
  [steps |->
     << [Step("go_to_detail", "navigate", None, NavigateRetries) EXCEPT !.literal = "/app"],
        Step("click_open_subaccount", "click",
             Aim(RoleName("link", {"open", "sub-account"})), 0),
        [Step("type_initial_deposit", "type",
              Aim([strategy |-> "label_proximity", near |-> {"initial", "deposit"},
                   control |-> "textbox"]), 1) EXCEPT !.param = "initial_deposit"],
        Step("click_continue", "click", Aim(RoleName("button", {"continue"})), ContinueRetries),
        [Step("click_confirm", "click", Aim(RoleName("button", {"confirm", "open"})),
              ConfirmRetries) EXCEPT !.risk = "risky_irreversible", !.rationale = TRUE] >>,
   params |-> {[name |-> "initial_deposit", type |-> "string", required |-> TRUE,
                default |-> None, sensitive |-> FALSE, pattern |-> None, choices |-> None]},
   outputs |-> {},
   outcomes |-> << [code |-> "SESSION_EXPIRED", category |-> "recoverable",
                    detection |-> RoleName("heading", {"session", "expired"})] >>,
   checkpoint |-> RoleName("heading", {"sub-account", "opened"}),
   domains |-> {"bank"}, tenant |-> None, base |-> None,
   actions |-> {"navigate", "type", "click"}]

MCCalls ==
  [raw : {[initial_deposit |-> [kind |-> "str", text |-> "50.00"]], <<>>},
   guarded : {TRUE}, authorized : {{}, {"click_confirm"}}]

Fault(hook, code) == [session |-> Agent, hook |-> hook, code |-> code, occurrences |-> 1]
MCArms == {Fault("detail", "surprise_dialog"), Fault("subaccount_new_submit", "validation_error"),
           Fault("subaccount_confirm", "session_timeout")}
=============================================================================
