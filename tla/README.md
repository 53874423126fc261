# A verification project for `cua`, the UI automation agent

The program lets a language model work a web application once, towards a goal
("discover"), writes what it did down as a typed, reviewable document
("record"), and then carries that document out again without any model
("replay"), under a policy guard, handing what it cannot classify to a human
("escalate"). A mock back-office application with injectable faults is what it
is developed against.

The project states what these parts promise, model-checks it with TLC on small
instances, and proves with TLAPS, for every value of the constants, all the safety
properties that those runs check: of the replay engine, for every artifact, page and
call; of the target application's shared state, for every number of sessions, threads,
faults and tokens; of the two of them put together over a browser whose navigations
take their time; of the locator's loop, the snapshot parser, the two commands, the
recorder and the escalation queue. Some need a hypothesis, which the theorem states
(section 4). Liveness is model-checked. Paths below are relative to `src/src/cua/` unless
they begin with `src/`.

Run a check with `tlc -config <file>.cfg <module>.tla`, a proof with
`tlapm <module>.tla`. `PROJECT.json` lists the runs, a mutation of the model for
every checked property (TLC finds the property violated in it), the source
lines behind every definition, the hazards and the proved theorems.

## 1. Inventory

| component | source | state | operations | modelled in |
|---|---|---|---|---|
| locator ladder | `locator/resolve.py`, `surface/models.py` | none; within a call, the rung and the first ambiguous rung | `resolve_target`, `tier_matches` | `Locator`, `ResolveLoop` |
| snapshot parser | `surface/aria_parser.py` | stack of open lines, `skip_below` | `parse_aria_snapshot` | `AriaParser` |
| web surface | `surface/web.py` | the tab's document, the navigation under way, the refs handed out last | `observe`, `act`, `screenshot` | partly: `WebSurface` (act), `AriaParser` (observe) |
| artifact schema | `artifact/models.py` | the document and its seal | validators, `compute_content_hash`, `to_log_safe_dict` | partly: `Artifact`, `Invocation` (the seal) |
| replay command | `replay/cli.py`, `policy/redact.py`, `evidence/` | the artifact file, the evidence directory | `main`, `redact_result`, `save_replay_evidence` | `Invocation` |
| discovery command | `agent/cli.py`, `evidence/` | the evidence directory, `artifact.json` | `execute`, `save_discovery_evidence` | `DiscoverCommand` |
| replay inputs | `replay/inputs.py` | none | `validate_inputs` | `Inputs`, `Invocation` |
| replay engine | `replay/engine.py` | cursor, attempt, last observation, outputs | `replay` | `Replay` |
| policy guard | `policy/guard.py`, `enforce.py` | none (asked afresh each step) | the guard, `guarded_replay` | `Replay` |
| discovery loop | `agent/discover.py`, `decide.py` | observation, decision, transcript | `discover`, `parse_agent_decision` | `Discovery` |
| recorder | `agent/recorder.py` | none | `infer_target`, `build_artifact_from_discovery` | `Recorder` |
| escalation queue | `escalation/queue.py`, `trigger.py` | tickets | `open`, `claim`, `resolve`, `abandon` | `Escalation` |
| hand-off | `escalation/handoff.py` | a marker on the live window | `mark_page_for_handoff`, `reconnect_to_marked_page` | `Escalation` |
| target application | `target_app/` | armed faults, pending tokens | the routes, `/debug` routes | `TargetApp` |
| prompt, model clients | `agent/prompt.py`, `agent/llm/` | none | text and I/O | only as far as `Discovery` takes what they answer |
| desktop surface | `surface/desktop.py` | - | every method raises | no |

**How they interact.** Everything is a call. `discover` alternates
`Surface.observe`, `LLMClient.complete` and `Surface.act`, and gives its
transcript to the recorder, whose document the artifact's validators accept or
refuse. `guarded_replay` builds a guard from that document and calls `replay`,
which validates the inputs and then alternates `observe`, the guard, the
locator and `act`; the two commands around them (`python -m cua.agent.cli`,
`python -m cua.replay.cli`) load or write the artifact file and leave evidence in
a directory. `act` reaches the application through a browser, and the answer
comes back when it comes. Either result may become a ticket, and the page a marked
page, which an operator looks for over a connection of its own. The program's
loops are sequential; what runs beside them is the *page*, which belongs to a
browser and an application and may be another one at any call, the operators,
and, in the target application, the server's other threads.

**What is hard**

- Whatever was observed may be gone when it is used: between the guard's look
  and the engine's, between a resolution and the act, while the model thinks,
  while the operator's sweep is at another tab.
- An act may fail, or report failure and have happened; it is retried, and
  some acts are irreversible. A request that was given up is not stopped: it may
  reach the server after its retry, on another thread.
- A click that started a slow navigation reports success, and the page changes
  later, under the refs of the next step.
- Outcomes, the guard, the target and the checkpoint are asked in an order on
  which the verdict depends.
- A locator must resolve to the element that was meant or say that it cannot.
- In the application, one-time tokens and counted faults are shared by threads
  that are not synchronized.
- Files outlive the command that wrote them: an artifact is edited after it was
  sealed, and an evidence directory is used again.

**What makes each component correct**

- *Locator*: a unique match of an earlier rung wins, an ambiguous rung is never
  resolved by a guess, every ladder gets its verdict.
- *Parser*: the flat list keeps the tree (parent, depth, subtree), and no
  control is observed twice.
- *Artifact and inputs*: a document and inputs that are let through never leave
  a step without its value; supplied values are of the declared type.
- *Engine*: steps in order and once; acts aim at a fresh unique resolution;
  retries are bounded; declared outcomes win; success is confirmed; a declined
  step never acts; it always comes back.
- *Surface*: what an act sets off, it sets off on the page that was looked at.
- *Replay, surface and application together*: one account at most whatever is
  retried, none without authorization, and success only with the account opened that
  was confirmed.
- *Discovery*: no act on what was not in the perception; only a run whose every
  act worked is recorded; it ends.
- *Recorder*: a recorded target finds the element acted on, or several with it and
  says so, and an extracted field on another member's page too; the only refusals are
  the human's doing; a replay of the recording is given, and sends, what the model sent.
- *Commands*: a tampered artifact does not run; sensitive values stay out of
  what is written, but for the error of the step that sent one; a success brings the
  outputs that were extracted; a directory's evidence is of one run.
- *Escalation*: tickets move forward; an operator joins the tab of the ticket
  or is told it is gone, and is told so only when it is.
- *Target application*: faults stay with their session and hook and are
  delivered as often as armed; one account a token; no token lost to a fault.

## 2. The modules

| module | what it is |
|---|---|
| `Locator` | observations as sequences of nodes, the strategies and `resolve_target` as operators (no recursion) |
| `ResolveLoop`, `MCResolveLoop` | `resolve_target`'s loop as a state machine, checked to compute `ResolveTarget` |
| `AriaParser`, `MCAriaParser` | the parser line by line, over the frames of `observe()` |
| `Artifact`, `Inputs` | the validators of the document and of the inputs, as predicates |
| `Invocation`, `MCInvocation` | the replay command: load and verify a document, validate inputs, build each action, redact and save; and the file revised between two commands |
| `Replay`, `MCReplay` | the engine, with and without the guard, against a page that changes at any time |
| `ReplayContract` | what `guarded_replay` promises, without how: a cursor, permitted steps and one verdict; `Replay` is checked and proved to implement it |
| `Replay_proofs` | the proofs about `Replay` |
| `Recorder` | `infer_target` and `build_artifact_from_discovery` as operators |
| `Discovery` | the discovery loop, composed with `Recorder` (which looks at `Locator` and `Artifact`) |
| `DiscoverCommand`, `MCDiscovery` | the discovery command: the loop, its evidence, and the recording, judged by `Inputs` too |
| `Escalation`, `MCEscalation` | queue, marker and sweep |
| `TargetApp`, `MCTargetApp` | the routes and the fault controller on several threads |
| `TargetApp_proofs` | the proofs about `TargetApp` |
| `WebSurface` | a tab: the document shown, the navigation under way, what `act()` waits for |
| `Opening`, `MCOpening` | `Replay` on `WebSurface` on `TargetApp`: a replay that opens a sub-account |
| `Opening_proofs` | the proofs about the composition |
| `ResolveLoop_proofs`, `AriaParser_proofs`, `Invocation_proofs`, `Escalation_proofs` | the proofs about the module of that name |
| `DiscoverCommand_proofs` | the proofs about `Recorder`, `Discovery` and `DiscoverCommand` |

`Recorder` and `Artifact` extend `Locator`; `Replay` extends `Artifact`'s and
`Inputs`' operators, so that a recorded document, a validated one and a replayed
one are the same kind of record, and a recorded target is judged by the same
`ResolveTarget` that replay uses.

### Correspondence with the code

*Data.* A node keeps what lookups read: ref, frame, role, depth, parent, and
its name as a **set of words**. `by_role_name` compares names, `by_text_near`
asks whether a text is contained in one; equality and inclusion of word sets
stand for the two. A page's URL is its domain, which is all the guard and the
recorder take from it. A value of an input is its Python kind and a text. What
looks like an SSN or a PAN is one literal.

*`Replay`.* `pc` is the place in `replay()` between two calls of the surface,
each of which is one action: `CheckGuard` (the guard's own `observe()`),
`FindOutcome`/`FindTarget`/`MissTarget` (the attempt's `observe()`, the
outcomes, the resolution, and the early returns), `ActSucceeds`/`ActFails`,
`NavigateSucceeds`/`NavigateFails`, `Finish`. `seen` is `observation`, `aim` the
`SurfaceAction`'s frame and ref. `acts` and `taken` are history: how often a
step's act reached the surface, and how often it succeeded. The surface may
report failure whatever it did, and success only if something with that frame
and ref is on the page. `observe()` may raise (`ObserveRaises`: its `url` and
`title()` are read outside its `try`), and the attempt loop of a step with a
negative `max_retries` runs no iteration (`RaiseUnreachable`).
Statuses of `ReplayResult` are verdicts of the model, and so are the three ways
of raising: `input_error`, `surface_error`, `assertion_error`.

*`ResolveLoop`, `AriaParser`.* One action per way through the loop body.
A line of a snapshot is its indent, its role and whether it bears a ref; what
the regular expressions do not take for a node is `OtherLine`. `origin` is history:
the frame each node's line was read from. `observe()` gives the nodes of a frame its
label, and frames without a name all bear the label `main`, so that only `origin` tells
which frame a node is of.

*`Invocation`.* `LoadArtifact` is `model_validate_json`, which lets through what
`Valid` does and whose seal is missing or right (a missing one is computed for
the object in memory; the file stays without); `ValidateInputs` is
`validate_inputs`; `BuildAction` is `_resolve_value` for one step whose act works, and
`ActionFails` for one whose last try does not. What a replay makes of its steps is
`Replay`'s, so `Return` may come with any verdict its place in the artifact allows.
The reason of a result is the set of the sent values its text quotes: the surface's error
(`engine.py:98`, `128`) may quote what that act sent; the guard's, the outcome's and the
engine's own reasons are text of the artifact or of the code, and quote none.
`SaveEvidence` is `redact_result`, which copies the reason, and `save_replay_evidence`; a
screenshot that raises comes before either file. A digest is the payload it is of. `Revise` is a
human with an editor, and the next command.

*`WebSurface`, `Opening`.* `document` is what the content frame shows, `sent`
what the frame has asked the server for, `loading` the number of the request
whose answer it will show, `live` whether the refs of the last snapshot are of
this document. `Click` is `_click_and_settle` up to `expect_navigation`, `Show`
or `ClickSettles` how that wait ends; `ClickGivesUp` is a click that timed out,
now and then after it went through; `StartGoto`, `GotoLoads` and `GotoTimesOut`
are `_navigate`. In `Opening` the page `Replay` sees is `Shows` of the document,
so `Replay`'s `PageChanges` is what `Show` and `StartGoto` do to it. A request
is delivered to a thread of `TargetApp` whenever, in any order, or never;
`serves` says which one a thread has, and its answer reaches the tab only if the
tab still waits for that one.

*`DiscoverCommand`.* `folder` holds, file by file, the set of what this command has
written: empty while the file is what an earlier command left there, if any did.
`WriteEvidence` writes the next of the files of `save_discovery_evidence`, in its order and
without the final observation when there is none; `WriteFails` is an `OSError` at any of
them, or at the artifact. `exit` is the exit code, or `"raised"`, or `"disk"`, or `"none"`
while the command runs.

*`Discovery`.* `turns` is what is left of `range(max_steps)`, which may be empty. `pc` is
the place in the loop: `Perceive` (the turn begins),
`Decide`/`Conclude` (the model answers; a reply is the sequence of JSON objects
`parse_agent_decision` tries), `CheckTarget` (`find_by_ref`), `Act`. The page
may change at any time. The recorder is a function of the finished run: `Record`
in `DiscoverCommand` applies it, and the properties apply it to every run that
reached its goal.

*`Escalation`.* `windows` is `window.__cua_handoff_marker` of each tab, -1 while
the tab has no document to evaluate in. A sweep looks at one page a step.

*`TargetApp`.* Dictionary, list objects and fault objects are numbered, because
a thread that holds one keeps it after `clear` or `reset` forgets it. A request
is `Receive`, `Peek` and `Settle` (the two halves of `consume`), the rest of the
handler, and, for an accepted form, `IssueToken` then `ShowConfirmation`
(`create` and `get`). A reset may come between any two. `shown`, `issued`,
`opened` and `resets` are history.

## 3. What the runs show

| run | asks | instance |
|---|---|---|
| `ReplayBalance` | types, order, confirmation, outcomes, aims, termination of the balance look-up | seven screens replacing each other at will, a retried click, guarded or not, good and missing inputs |
| `ReplayAccount` | authorization, blocked steps, the bound on acts, `ReplayContract` | the sub-account flow, its confirmation irreversible and retried, retries of one, two and -1, four screens, one off the allowlist |
| `Opening` | types across the parts, one account, a success that is the one confirmed, none without authorization, effects on the page that was seen | the whole flow of `tests/integration/policy/conftest.py` with one field; Continue and the confirmation retried; two threads, one fault out of three, two tokens, a reset |
| `ResolveLoop` | the loop computes `ResolveTarget`, never guesses | all ladders of one to three of seven rungs, both policies, six observations |
| `AriaParser` | parents, subtrees, duplicates | all snapshots of two frames of three lines, the two bearing the same label |
| `Invocation` | values resolve, inputs are typed, tampering is noticed, sensitive values stay out but for the error of their step, a success brings its outputs | some 2500 documents, all raw inputs of one parameter and three `--param` lists; three documents revised into each other, sealed or cleared, any number of times |
| `TargetApp` | faults stay, and are delivered as armed; one account a token, accepted forms only, none lost | two sessions, one request each at a time, five requests and confirmations, two faults out of five, a token, clears and resets |
| `Escalation` | tickets and searches | two tabs, two operators, two tickets |
| `Discovery` | recorded targets, fields and refusals, what is recorded, evidence of one run, a recording that retraces its run, the end | three turns or none, eleven replies, three pages, files written one by one, three ways to parameterize, outputs declared or not |

Three runs end in a violation; they are the findings of `PROJECT.json`.

- `ReplayDomain`: the guard's look is not the engine's, so an act can be aimed
  from a page off the allowlist that came up in between, or before a retry,
  where `policy/guard.py` says "re-checked against a fresh `Observation.url`
  right before it would act".
- `InvocationSecrets`: the reason of a failed act is the surface's error text
  (`surface/web.py:82-84`, `replay/engine.py:98`, `128`), which may quote what was typed
  or navigated to, and `redact_result` writes it as it is (`policy/redact.py:40`), where
  `policy/redact.py:7-8` says "so a sensitive value never reaches a log/evidence sink in
  the clear just because it came from a live run".
- `TargetAppOverlap`: two requests of one session in flight at once can both be
  given a fault's last occurrence, or drop the fault behind it.

Smaller ones show in the models and have no run of their own: an `output_field` on a
step that extracts nothing counts as producing a required output (`models.py:483`, where
`models.py:497` says "never produced by any step"), so that a replay can succeed without
it, which is the one exception `SuccessBringsItsOutputs` makes; with `--max-steps 0` there
is no final observation to write (`evidence/capture.py:73`), and an earlier run's stays
beside the new `run.json`, which is the one exception of `EvidenceIsOfOneRun`;
`max_retries = -1` reaches the line marked unreachable (`RaiseUnreachable`);
the guard is asked before the outcomes, so that a page which shows one can come
back as `policy_blocked` (`CheckGuard`); a NAVIGATE may declare both a literal
and a parameter, and the parameter is ignored (`StepShapeOK`, `ResolveValue`);
a deposit of `-inf` is an unhandled `OverflowError` (`CrashOnDeposit`).

### Bounds, and why they are enough

- *Screens* are cut to the nodes the locators of the flow tell apart: present,
  absent, twice, under other refs, on another domain, with an outcome. Any two
  may follow each other, so longer histories of the page add nothing a step can
  tell.
- *The composed flow* (`Opening`): `ContinueRetries` and `ConfirmRetries` are 1,
  so that a form and a confirmation may each be on their way twice;
  `NavigateRetries` is 0, a second navigation of the tab making it forget the
  first as a click does. `Threads` are two and `MaxTokens` 2, because the request
  that was given up and its retry are two requests and may issue two tokens;
  `MaxFaults` is 1 (a fault page, a refused form or a session time-out, at any
  moment). A request that finds no thread free is one that is late.
- *Documents and commands* (`Invocation`): `Revisions` are three documents of
  which one declares its parameter sensitive and one has lost its extraction;
  any may be edited into any other, so longer lists of versions add no pair.
  `Arguments` have no option, one, and one repeated.
- *Steps and retries*: a navigate, a value, a click and an extract, with zero,
  one, two and -1 retries, have every pair of neighbours and both ends of the
  attempt loop. The proofs have no such bound.
- *Rungs*: the loop carries one thing over, the first ambiguous rung; three
  rungs tell first, second and last apart.
- *Lines*: a stack of three, and indents that go in, out and skip, reach every
  relation of two lines in a third's sight.
- *Threads*: `consume` is a race of two; a third thread repeats one of them.
  `MaxFaults` allows one fault and the next behind it; a token is only ever
  compared with itself, and one, with the unknown one (0) that a confirmation
  may carry, is enough. The `VIEW` leaves out the last answer, which no action
  and no property reads.
- *Tickets, tabs, operators*: two of each are what can be confused.
- *Turns* (`Limits`): three hold an act, a failed or refused act and the end, or a
  typed, a read and a done; none is the loop that never looks. The replies are those that
  tell the actions, the elements named and the ways to be ill-shaped apart.

`CHECK_DEADLOCK FALSE` is said where a run of the program ends: a replay, an
invocation, a discovery, a parse, a resolution.

The `TargetApp` run has one request in flight per session. A session can have
two: an act that timed out leaves its request with the server, and its retry
makes another. `Opening` and `TargetAppOverlap` allow that, and the second shows
what it does to a fault's count of occurrences.

### Fairness

`Replay` assumes `WF_vars(Engine)`, `Discovery` `WF_vars(Loop)`: the loops are single-threaded and wait for nothing but calls
of the surface and of the model, each bounded by a time-out (`timeout_ms`, the
HTTP client's 60 seconds). Nothing is assumed of the page, which may stay as it
is for ever or change between any two steps, nor of the outcome of an act, nor
of what the model says. `DiscoverCommand` keeps `Discovery`'s fairness, of the same
loop; what follows the loop is a straight line. `Opening` assumes no fairness,
of the network least of all: that a replay comes back whatever its page does is
`Terminates` of `ReplayBalance`. `ResolveLoop`, `TargetApp`, `Escalation`, `AriaParser`
and `Invocation` have safety properties only and no fairness.

## 4. What is proved

Every safety property of a passing run is a theorem, for every value of the constants
its assumptions allow. An assumption is named in the module that declares the constant,
and TLC evaluates it in the runs of that module. Where a property holds only under a
condition that is not one of the code's, the theorem has it as a hypothesis (ASSUME),
which the instance of the run satisfies.

### The replay engine: `Replay_proofs`

| theorem | states |
|---|---|
| `TypeCorrect` | `TypeOK` |
| `CarriedOutInOrderOnce` | `StepsInOrderOnce` |
| `RetriesBoundActs` | `AttemptsBounded` |
| `IrreversibleNeedsAuthorization` | `RiskyNeedsAuthorization` |
| `ActsAimAtAFreshResolution` | `ActsOnlyOnWhatItSaw` |
| `OutcomeWins` | `DeclaredOutcomeWins` |
| `SuccessMeansSuccess` | `SuccessIsConfirmed` |
| `GuardDeclinesFirst` | `BlockedStepNeverActed` |
| `ImplementsContract` | the initial condition and every step of `ReplayContract` |
| `EngineRunsOut` | every step of the engine lowers `Rank`, in a well-founded order |

For every value of `Capability`, `Observations`, `Calls` and `None`.
**Assumptions**: those `Replay.tla` and the modules below it name: that the artifact is
one its validators let through and its retries are integers, that calls and
observations are records of their kind, and that `None` is none of them. `max_retries`
may be negative, as in the code.

**The argument.** None of these properties is inductive alone.

- `Inv == TypeOK /\ StepsInOrderOnce /\ Cursor`. `Cursor` ties `pc` to the
  cursor: at `navigate` the step is a NAVIGATE, at `attempt` and `act` it is
  not, at `final` it is past the last, and a result's step is the cursor's.
  Without it `Proceed` could count a step that was not the cursor's.
- `RetriesBoundActs` needs what the attempt counter says of `acts`: the acts of
  the current step are at most the attempts used up.
- `Cleared`: from the moment the guard has been asked about the current step
  until the step is done, a risky one is authorized. `call` and the artifact do
  not change, which is why the guard, asked once a step, is enough for the risk
  (and, as `ReplayDomain` shows, not for the domain).
- `Sighted`: when an act is due, `seen` is the observation in which `aim` was
  resolved, and no outcome shows on it.
- `Extracted`: the output of every EXTRACT before the cursor is there.
- `Asked`: the guard is only consulted in a guarded call, before any act of the
  step.
- `ImplementsContract` maps every action to a step of the contract or to none
  of its variables, from `Inv`, `Cleared` and `Asked`.
- `EngineRunsOut`: `Rank` counts the steps ahead, then the attempts left of this one,
  then the calls before its act, and `Before` compares two in that order, which
  `BeforeIsWellFounded` shows to have no infinite descent. A mutated engine in which a
  miss uses up no attempt has no such rank.

### The target application: `TargetApp_proofs`

| theorem | states |
|---|---|
| `AppTypeCorrect` | `TypeOK` |
| `NoFaultLeaks` | `FaultsStayWhereArmed` |
| `ConfirmedOnce` | `OneAccountPerToken` |
| `TokensAreForAcceptedForms` | `OnlyAcceptedFormsHaveTokens` |
| `TokensSurviveFaults` | `ConfirmationSurvivesFaults` |
| `DeliveredOneAtATime` | `DeliveredAsArmed`, if `~Overlap` |

For all sessions, threads, requests and faults. The first five hold whether or not a
session may have several requests in flight, so also where `TargetAppOverlap` shows the
count of occurrences going wrong; the sixth is about that count. **Assumption**:
`TargetAppAssumption`, that what is asked for and armed is of the kinds the routes take.
**The argument**: `AppInvariant`, of which `Requests` says that a thread at work serves a
request of a known session and holds a fault and a list that exist; `Queues` that no
list hangs under two keys and a list under a key holds faults armed for that key
only (a list nobody can reach may hold anything that exists, which is why a
thread that pops one after a `clear` does no harm); and `Tokens` that a token in
the store has opened nothing yet.

`DeliveredOneAtATime` adds `Alone`, that no two threads serve one session, and with it:
`OnePlace`, that a fault is queued in one place at most, the lists that `clear` and
`reset` forgot included, which a thread may still hold; `AtTheHead`, that the fault a
thread is in the middle of consuming is still the first of the list it holds; and
`Counted`, that a fault was returned as often as it was counted down, once more if a
thread is about to count it, and that it leaves its list when that is what it was armed
for, not before. A fault armed for fewer than one occurrence is returned once.

### The replay, the tab and the application: `Opening_proofs`

| theorem | states |
|---|---|
| `OpeningTypeCorrect` | `OpeningTypeOK` |
| `OpeningIsAReplay` | the initial condition and every step of `Replay` |
| `OpeningServesTheApp` | the specification of `TargetApp`, with overlapping requests |
| `ActsOnTheSeenPage` | `EffectsOnlyOnTheSeen` |
| `AccountsNeedAuthorization` | `NoAccountWithoutAuthorization` |
| `SuccessIsAnAccount` | `SuccessMeansOpened`: one account, by the one token that was confirmed |
| `OneAccountIsOpened` | `OneAccountPerReplay` |

For all pages, controls, threads, faults and tokens. **Assumptions**: `Replay`'s and
`TargetApp`'s (`ApplicationAssumption`); `OpeningAssumption`, that the application's
screens are pages the engine may be shown, that the controls are those of the detail
page, the forms and the confirmation, and that retries are not negative; and three of
what a human declares of this artifact, from which alone the engine knows what it does:

- `ConfirmationAssumption`: a step that clicks the confirmation's control
  (`LeadsOn(i, "confirm")`) is declared irreversible. The guard knows no other name of
  the risk.
- `OneConfirmation`: one step does.
- `CheckpointAssumption`: the checkpoint is on the page of success and on no other.

**The argument.** The composition implements both of its parts, and their proofs are
used, not repeated. `WellTyped` adds to `OpeningTypeOK` what documents, requests and
threads may hold (`TabTyped`, `AppTyped`), so that what is served is what was sent and
what is shown is a screen. It makes `OpeningIsAReplay` true step by step, and with that
`Inv`, `Cleared` and `Sighted` of `Replay` are invariants here. `OpeningServesTheApp` needs
besides `AsSent`, that a thread serves the request it was given, and `TokensExist`, that a
confirmation is of a token that was issued; then the theorems of an instance of
`TargetApp_proofs` hold here.

- `Fresh`: while the refs handed out last are live, the page is the one they are of: a
  page that came in between kills the refs. So a click that asks for a confirmation is
  made on the confirmation page as it was seen, by a step whose target resolves to that
  control.
- *Authorization*: that step is irreversible, and `Cleared` says it was let through.
  `Unasked` carries this through the network and the threads to the accounts:
  nothing sent, nothing served, nothing opened.
- *Success is an account*: `SuccessIsServed`. A page of success is the answer to a
  confirmation that opened an account, whether it is shown or still on its way, and
  no account is closed again, by a reset either (`opened` is history). SUCCESS is said
  on a page with the checkpoint. That the account is of the form that was confirmed
  needs the next item too: all confirmations are of one token, and an account is only
  opened by a token that was confirmed (`AccountsOfConfirmations`).
- *One account*: `OneTokenConfirmed`. All confirmations ever sent are of one token, and
  by one step; and while that step is at it, `NowhereElse`: the tab shows the page of
  that token or what answers a confirmation, and nothing under way or arrived late leads
  to another token. Past that step no step confirms. `OpenedWasConfirmed` and
  `ConfirmedOnce` of the application do the rest.

### The locator's loop: `ResolveLoop_proofs`

| theorem | states |
|---|---|
| `LoopInvariance` | `LoopInv` |
| `LoopIsResolveTarget` | `LoopComputesResolveTarget` |
| `LoopNeverGuesses` | `NeverAGuess` |

**Assumptions**: a target has one rung at least, of the strategies there are, and one of
the two policies (`TargetsAssumption`, which `Target`'s validators see to); observations
have finitely many nodes. **The argument**: the loop invariant of a search. `Undecided`:
no rung passed has one hit, nor, under `escalate_on_ambiguous`, several. `FirstNoted`:
the ambiguity remembered is of the first rung passed that has several hits.
`DecisiveRung` and `NoDecisiveRung` say what `ResolveTarget` makes of the rung where the
loop returns, given those two.

### The snapshot parser: `AriaParser_proofs`

| theorem | states |
|---|---|
| `ControlsAreSeenOnce` | `NoControlTwice` |
| `ParentsAreTheEnclosingLines` | `ParentIsTheEnclosingLine` |
| `SubtreesAreDescendants` | `SubtreeIsDescendants` |
| `ObservationsAreInPreOrder` | `InPreOrder(Observed)` |

For any number of frames, under any labels, and snapshots of any length.
**Assumption**: `ParserAssumption`, that labels are strings and indents natural numbers.
**The argument**: `RefInv` for the first: refs come from the lines read so far, and
what is nested under an iframe line is discarded exactly while it lasts
(`SkipsTheEmbedded`). `TreeInv` for the other two: the stack is a branch of the frame's
tree, each entry deeper by one and indented more than the one under it, and holds every
node that no later line has closed (`OpenBranch`); the nodes are in the frames' order
(`InFrameOrder`). The reference definitions are not the code's walk: a parent is the
nearest line above, of the same frame, with a smaller indent; the descendants are what
climbs to the root through parents. That the second is what the depths cut out
(`WalkIsSubtree`) is shown from a least node on which the two would differ.
`ObservationsAreInPreOrder` puts them together: what the parser returns is what `Discovery`
assumes of its pages, so that its theorems are about what `observe()` can return.

### The replay command: `Invocation_proofs`

| theorem | states |
|---|---|
| `InvocationInvariance` | `InvocationInv` |
| `StepsHaveTheirValues` | `EveryValueResolves` |
| `InputsAreTyped` | `SuppliedInputsAreTyped` |
| `SealsHold` | `TamperingIsNoticed` |
| `OnlyErrorsMayTell` | `SensitiveOnlyInTheError` |
| `SuccessIsWholeWhereExtracted` | `SuccessBringsItsOutputs` |

For all documents, raw inputs, options and revisions of the file. **Assumption**:
`InvocationAssumption`, that a document's steps are a list and its parameters of the
types there are. **The argument**: what a gate has let through stays let through.
`OnlyValidRuns` keeps that a document past `model_validate_json` is `Valid`, and
`OnlyAcceptedInputs` that the inputs in use are those `validate_inputs` returned for it; a
revision of the file begins a new command. A step that draws a value then has a literal
or, by `DependenciesSatisfied`, a parameter among the inputs. `ReasonIsTheSteps` ties the reason
of a result to the value its failed step sent, and `Extracted` the outputs to the EXTRACT
steps gone through, so that what a success lacks no such step has (`SuccessIsComplete`); what is written is
what `redact_result` makes of the two.

### Discovery, recording and the discovery command: `DiscoverCommand_proofs`

| theorem | states |
|---|---|
| `CommandInvariance` | `CommandInv` |
| `RecordingsAreGood` | `OnlyGoodRunsAreRecorded` |
| `TargetsAreTheirElements` | `RecordedTargetsAreTheirElements` |
| `RefusalsAreNotTheLoops` | `RefusalsAreTheHumans` |
| `FieldsAreFollowed` | `ExtractFollowsTheField`, if `LabelsStay` |
| `RecordingsReplay` | `ReplayRetracesTheRun`, if `TextsWillDo` |
| `EvidenceIsWhole` | `EvidenceIsOfOneRun` |
| `LoopRunsOut` | every step of the loop lowers `Rank`, in a well-founded order |

For all pages, all replies of the model and all that a human may declare.
**Assumptions**: `PagesAssumption`, that an observation is `InPreOrder`, as the parser makes
it (`ObservationsAreInPreOrder`): parents before their children and with them in their
subtree, and one node for a frame and ref; `DecisionsAssumption`, that a reply is a
list of objects with an action; `DiscoveryAssumption`, that `max_steps` is an integer, of
either sign. **Hypotheses**:

- `LabelsStay`: on a page of the same shape which shows something else in the field, the
  words that label it are on the same nodes. A page that repeats them elsewhere has
  no one field to follow.
- `TextsWillDo`: the human declares strings without a pattern. A declared integer would
  refuse the text that was typed, and rightly.

What `TargetsAreTheirElements` says of an inferred target is that the element the model
named is among what it matches, and is what it resolves to unless it matches several; a
target that matches several is ambiguous, and a replay stops there. `RecordingsReplay` is
about inputs, domains and values of a valid recording whose parameterization gives every
name one value; that its targets resolve on other pages is not in it.

**The argument**: `DiscoveryInv` says of every entry of the transcript that its decision
has its shape and named a node of the very observation it is written down with
(`EntryOK`). The rest is about `Recorder` and `Locator`: a role and name that only one
node bears resolve to it (`OneRung`); the search for a label climbs a finite chain of
parents, each of whose subtrees holds the one below it (`Climb`, `SubtreeOfSubtree`), so
that the labelled row, once found, contains the element, and the ordinal counted in it is
the one the locator counts (`LabelledRow`, `InferredIsTheElement`). Such a target looks at
shape and label only, and resolves alike on a page that differs in names elsewhere
(`SameHits`). `OnlyTheHumansFaults` goes through the validators one by one.
`EvidenceIsWhole` rests on the order of the files: one is written only when those before it
are (`RunIsFirst`), nothing can raise once the first is, and a run without an observation is
one without a turn (`WholeWhenWritten`). `LoopRunsOut` is
`EngineRunsOut` for the discovery: turns left, then the place in the turn.

### Tickets and hand-off: `Escalation_proofs`

| theorem | states |
|---|---|
| `EscalationInvariance` | `EscalationInv` |
| `JoinedTheRightTab` | `JoinsTheTabOfTheTicket` |
| `FailedMeansGone` | `NotFoundMeansGone` |
| `QueueMovesForward` | `TicketsMoveForward` |

For any tabs, operators and number of tickets. **Assumption**: `EscalationAssumption`, that
the tabs are finitely many. **The argument**: `MarkedByItsTicket` says that a marker is on
the tab its ticket was made of, which makes joining right; and `StillToBeFound`, that as
long as the marker has been there since the sweep began, the sweep still has that tab
before it, which makes failing right: it ends with no tab left.

### Only model-checked

The liveness properties (`Terminates`, `Ends`), and of `KeepsContract` the
fairness of the contract: `ENABLED` and fairness are out of the prover's reach. The safety
part of `KeepsContract` is `ImplementsContract`. Of `Terminates` and `Ends` the part that is
not fairness is proved: no infinite run of the engine's steps, or of the loop's, exists
(`EngineRunsOut`, `LoopRunsOut`). That a step is possible until the verdict, the guards show
(`ActFails`, `NavigateFails` and `ObserveRaises` ask for nothing but the place; `Raise`,
`OutOfSteps` and `CheckTarget` likewise), and TLC checks it.

## 5. What is left out of the models

- *Text*: parsing of a snapshot line, JSON in a reply, prompts, reasons,
  rendering of pages. The decisions taken on them are modelled; the strings are
  not. Shapes of versions, identifiers and digests are part of that.
- *Time*: a time-out is an act that fails or a wait that ends; `slow_load` is a
  request whose thread stays where it is.
- *The browser*: in `Replay` an act may succeed on anything that has that frame
  and ref, whichever document it is in; in `Opening` refs die with their
  document. Frames of one label (`main`, for want of a name) are in the parser's run
  and theorems, where their nodes stay apart; what `act()` then finds under a ref, in
  the first frame of that label, is not modelled. Links of
  the application's fault pages are not followed by the model, no artifact's
  step being about them.
- *After the verdict*: a replay that came back with another verdict than SUCCESS
  may be followed by the account opening, its request being on its way.
  `SuccessMeansOpened` speaks of one direction only, and the code promises no
  other.
- *The default of a parameter*, which the code does not check and the model does
  not either.
- *Files*: a write that fails ends the discovery command between two files, and
  `EvidenceIsOfOneRun` promises nothing of a directory after that but that no artifact is in
  it without the evidence it came from; what a failed write leaves of the very file it
  was at, and a kill, are left out, the code having nothing for either. The replay's two
  files are written in one step. A discovery that does not reach its goal leaves an older
  `artifact.json` where it is, and the properties speak of what the command itself writes;
  a replay whose screenshot raises leaves no evidence of what it did. Both show in the
  actions, and no document of the repository says otherwise.
- *Reasons*, but for which of the values sent they quote. That an error may quote what its
  act sent is taken from what such errors are: Playwright's exception, call log included. It
  is not modelled that it might quote the page, where other values may stand.
- *Distinct names of parameters*: `Artifact` keeps the parameters as a set with distinct
  names. Neither `_validate_contract` nor `validate_inputs` asks for that; of two of one
  name the code validates both and uses the last one's default.
- *`to_log_safe_dict`*, a projection of an artifact that nothing in `src/cua`
  calls.
- *Type invariants* are stated where a proof builds on them: `Replay`,
  `TargetApp` (a theorem, in no run) and `Opening`.
- *Desktop surface, prompt, clients*: no state and no decision.

## 6. Plan

The order puts what acts on the world first. What can be modelled faithfully of
the components is, and their safety properties are proved; no run is missing one.

| part | modules | done | next |
|---|---|---|---|
| A | `Locator`, `ResolveLoop`, `Replay`, `ReplayContract` | all safety properties, the steps of the contract, and a measure that every step lowers | - |
| B | `Artifact`, `Inputs`, `Invocation` | all safety properties | that a document `Valid` lets through is what `Replay` assumes, as a theorem instead of an assumption's words |
| C | `TargetApp`, `WebSurface`, `Opening` | all safety properties, the composition from the proofs of its parts | - |
| D | `Escalation` | all safety properties | - |
| E | `Discovery`, `Recorder`, `DiscoverCommand` | all safety properties, two under hypotheses, and a measure that every step lowers | that a recorded artifact meets `Replay`'s assumption of its document, so that a recording and its replay are one chain of theorems |
| F | `AriaParser` | all safety properties; what it returns is what `Discovery` assumes of a page | the same of what `Replay` and `ResolveLoop` assume of an observation |
