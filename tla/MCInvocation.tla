----------------------------- MODULE MCInvocation -----------------------------
(***************************************************************************)
(* Two families of documents: one varies a step and how the artifact       *)
(* declares what it uses, the other varies the one parameter a TYPE step   *)
(* types; and three that are revised into each other.                      *)
(***************************************************************************)
EXTENDS Invocation

Value(kind, text) == [kind |-> kind, text |-> text]
Values == {Value("str", "x"), Value("str", "y"), Value("int", "1"),
           Value("float", "1.0"), Value("bool", "True")}

Param(name, type, required, default) ==
  [name |-> name, type |-> type, required |-> required, default |-> default,
   sensitive |-> FALSE, pattern |-> None,
   choices |-> IF type = "enum" THEN {Value("str", "x")} ELSE None]

AllSteps ==
  [id : {"a"}, action : {"navigate", "type", "extract", "click"}, target : {None, "control"},
   param : {None, "p"}, literal : {None, "text", "an SSN"}, output : {None, "out"},
   risk : {"safe", "risky_irreversible"}, rationale : BOOLEAN, retries : {0}]

\* a rationale matters to a risky step only
Steps == {s \in AllSteps : s.rationale => s.risk # "safe"}

Step(id, action, param, literal, output) ==
  [id |-> id, action |-> action,
   target |-> IF action = "navigate" THEN None ELSE "control",
   param |-> param, literal |-> literal, output |-> output,
   risk |-> "safe", rationale |-> FALSE, retries |-> 0]

Outcomes == <<[code |-> "NOT_FOUND", category |-> "business_outcome"],
              [code |-> "SESSION_EXPIRED", category |-> "recoverable"],
              [code |-> "REFUSED", category |-> "hard_failure"]>>

Draft(steps, params, outs) ==
  [steps |-> steps, params |-> params, outputs |-> outs, outcomes |-> Outcomes,
   checkpoint |-> "goal", domains |-> {"*"}, tenant |-> None, base |-> None,
   actions |-> {"navigate", "type", "extract", "click"}]

Out == [name |-> "out", nullable |-> FALSE, sensitive |-> TRUE]

VariedSteps ==
  {Draft(<<s>> \o rest, params, outs) :
     s \in Steps,
     rest \in {<<>>, <<Step("b", "extract", None, None, "out")>>,
               <<Step("b", "type", "q", None, None)>>, <<Step("a", "type", None, "text", None)>>},
     params \in {{}, {Param("p", "string", TRUE, None)},
                 {Param("p", "string", FALSE, None), Param("q", "string", FALSE, None)}},
     outs \in {{}, {Out}}}

VariedParams ==
  {Draft(<<Step("a", "type", "p", None, None)>>, {p}, {}) :
     p \in {[Param("p", type, required, default) EXCEPT !.sensitive = sensitive,
                                                        !.pattern = pattern] :
              type \in ParamType, required \in BOOLEAN,
              default \in {None, Value("str", "x"), Value("int", "1")},
              sensitive \in BOOLEAN, pattern \in {None, {Value("str", "x")}}}}

Raws(names) == UNION {[given -> Values] : given \in SUBSET names}
MCRawInputs == Raws({"p"}) \cup {[q |-> Value("str", "x")]}

Option(name, text) == [name |-> name, text |-> text]
MCArguments == {<<>>, <<Option("p", "x")>>, <<Option("p", "1"), Option("p", "True")>>}

\* A look-up, its parameter declared sensitive, and its extraction dropped.
LookUp(params, outs) ==
  Draft(<<Step("a", "type", "p", None, None), Step("b", "extract", None, None, "out")>>,
        params, outs)
Text == Param("p", "string", TRUE, None)
MCRevisions ==
  {LookUp({Text}, {Out}), LookUp({[Text EXCEPT !.sensitive = TRUE]}, {Out}), LookUp({Text}, {})}

MCDrafts == VariedSteps \cup VariedParams \cup MCRevisions
=============================================================================
