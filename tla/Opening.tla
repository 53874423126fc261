-------------------------------- MODULE Opening --------------------------------
(***************************************************************************)
(* A replay that opens a sub-account, put together: the engine and the     *)
(* guard of module Replay drive the tab of module WebSurface, which talks  *)
(* to the application of module TargetApp.                                 *)
(*                                                                         *)
(* The page the engine sees is what the tab's document shows; it changes   *)
(* when an answer is committed and by nothing else, and the engine goes on *)
(* only when act() has come back.  A request may take any time on its way  *)
(* and on its thread, or never arrive: it outlives the act() that made it, *)
(* and the retry that makes another.                                       *)
(***************************************************************************)
EXTENDS Replay, WebSurface

CONSTANTS Threads,       \* bound: requests being served at once
          Arms,          \* the faults that may be armed
          MaxFaults,     \* bound: faults armed in all
          MaxTokens,     \* bound: tokens issued in all
          Shows,         \* what observe() reports of a screen
          Control,       \* the element of a screen that leads on: [frame, ref]
          Field          \* the element a deposit is typed into, of a screen

VARIABLES armed, lists, faults, shown, pending, issued, opened, resets,
          request, stage, held, answer,     \* the application's
          serves,                           \* the number of each thread's request
          delivered                         \* the numbers that have come to a thread

Agent == "agent"
Empty == [deposit |-> "not a number", complete |-> TRUE]
Typed == [deposit |-> "enough", complete |-> TRUE]

App == INSTANCE TargetApp WITH
  Sessions <- {Agent}, Overlap <- TRUE,
  Asks <- {[kind |-> "detail", about |-> "member"], [kind |-> "form", about |-> "member"]}
            \cup [kind : {"submit"}, about : {Empty, Typed}]

Screens == {"blank", "detail", "form", "errors", "confirm", "success", "expired",
            "session_timeout", "permission_denied", "surprise_dialog", "server error"}
Forms == {"form", "errors"}

ASSUME OpeningAssumption ==
  /\ Shows \in [Screens -> Observations]
  /\ DOMAIN Control = {"detail", "confirm"} \cup Forms
  /\ DOMAIN Field = Forms
  /\ Origin = [screen |-> "blank", token |-> 0, form |-> Empty]
  /\ \A i \in 1..N : Steps[i].retries \in Nat

\* Step i is a click, and on that screen it is a click on what leads on.
LeadsOn(i, screen) ==
  LET obs   == Shows[screen]
      found == ResolveTarget(obs, Steps[i].target)
  IN  /\ Steps[i].action \in {"click", "dismiss"}
      /\ found.status = "resolved"
      /\ Control[screen] = [frame |-> obs.nodes[found.node].frame,
                            ref   |-> obs.nodes[found.node].ref]

\* What a human declared of the artifact: whatever clicks the confirmation's
\* control is the irreversible step.
ASSUME ConfirmationAssumption ==
  \A i \in 1..N : LeadsOn(i, "confirm") =>
    Steps[i].risk = "risky_irreversible" /\ Steps[i].id = "click_confirm"

\* It opens one account: one step confirms, however often it is retried.
ASSUME OneConfirmation ==
  \A i, j \in 1..N : LeadsOn(i, "confirm") /\ LeadsOn(j, "confirm") => i = j

\* Its checkpoint tells the page of success from all the others.
ASSUME CheckpointAssumption ==
  \A screen \in Screens :
    IsResolved(Shows[screen], [tiers |-> <<Capability.checkpoint>>,
                               policy |-> "escalate_on_ambiguous"])
      => screen = "success"

\* What the application can be asked for and given is what it takes.
ASSUME ApplicationAssumption == App!TargetAppAssumption

application == <<armed, lists, faults, shown, pending, issued, opened, resets,
                 request, stage, held, answer, serves, delivered>>
openingVars == <<vars, surface, application>>

OpeningInit ==
  /\ Init
  /\ page = Shows[Origin.screen]
  /\ SurfaceInit
  /\ App!Init
  /\ serves = [t \in Threads |-> 0]
  /\ delivered = {}

-----------------------------------------------------------------------------
\* What a click on an element of a document asks the application for.
Behind(doc, element) ==
  IF doc.screen \notin DOMAIN Control \/ Control[doc.screen] # element THEN Nowhere
  ELSE CASE doc.screen = "detail"  -> [kind |-> "form", about |-> "member"]
         [] doc.screen \in Forms   -> [kind |-> "submit", about |-> doc.form]
         [] doc.screen = "confirm" -> [kind |-> "confirm", about |-> doc.token]

\* /app?start=/content/detail?id=10001
Start == [kind |-> "detail", about |-> "member"]

Free == waiting = "nothing"
Clicking == Steps[step].action \in {"click", "dismiss"}

\* The engine between two calls of the surface, and observing.
Think ==
  /\ Free
  /\ ValidateInputs \/ RefuseInputs
  /\ UNCHANGED <<surface, application>>

Look ==
  /\ Free
  /\ CheckGuard \/ FindOutcome \/ FindTarget \/ MissTarget \/ Finish
  /\ Snapshot
  /\ UNCHANGED application

\* url or title() are read while a navigation replaces the page.
LookRaises ==
  /\ Free
  /\ loading # 0
  /\ ObserveRaises
  /\ UNCHANGED <<surface, application>>

-----------------------------------------------------------------------------
\* Calls of act(), of each kind, and its returns.
ClickWorks ==
  /\ Free /\ ActSucceeds
  /\ Clicking
  /\ Click(Behind(document, aim))
  /\ UNCHANGED application

ClickFails(through) ==
  /\ Free /\ ActFails
  /\ Clicking
  /\ ClickGivesUp(Behind(document, aim), through)
  /\ UNCHANGED application

FillWorks ==
  /\ Free /\ ActSucceeds
  /\ ~Clicking
  /\ Touch(IF document.screen \in Forms /\ Field[document.screen] = aim
           THEN [document EXCEPT !.form = Typed] ELSE document)
  /\ UNCHANGED application

FillFails ==
  /\ Free /\ ActFails
  /\ ~Clicking
  /\ UNCHANGED <<surface, application>>

StartGoto ==
  /\ Free
  /\ pc = "navigate"
  /\ Goto(Start)
  /\ page' = Shows[Origin.screen]
  /\ UNCHANGED <<call, inputs, pc, step, attempt, seen, aim, outputs, result, acts, taken>>
  /\ UNCHANGED application

GotoLoads ==
  /\ waiting = "loaded"
  /\ NavigateSucceeds
  /\ GotoReturns
  /\ UNCHANGED application

GotoTimesOut ==
  /\ waiting = "load"
  /\ NavigateFails
  /\ GotoReturns
  /\ UNCHANGED application

ClickSettles ==
  /\ TimeOut
  /\ UNCHANGED <<vars, application>>

Call == \/ Think \/ Look \/ LookRaises
        \/ ClickWorks \/ ClickFails(TRUE) \/ ClickFails(FALSE)
        \/ FillWorks \/ FillFails
        \/ StartGoto \/ GotoLoads \/ GotoTimesOut \/ ClickSettles

-----------------------------------------------------------------------------
\* A request comes to a thread, or never does.
Deliver(t, number) ==
  /\ number \notin delivered
  /\ delivered' = delivered \cup {number}
  /\ App!Receive(t, Agent, sent[number])
  /\ serves' = [serves EXCEPT ![t] = number]
  /\ UNCHANGED <<vars, surface>>

Serve(t) ==
  /\ App!Serve(t)
  /\ IF stage'[t] = "idle"
     THEN Arrive(serves[t],
                 [screen |-> answer',
                  token  |-> IF answer' = "confirm" THEN held[t].token ELSE 0,
                  form   |-> IF answer' = "errors" THEN request[t].about ELSE Empty])
     ELSE UNCHANGED surface
  /\ UNCHANGED <<vars, serves, delivered>>

\* The frame shows what arrived.
Show ==
  /\ pc # "done"
  /\ Commit
  /\ page' = Shows[document'.screen]
  /\ UNCHANGED <<call, inputs, pc, step, attempt, seen, aim, outputs, result, acts, taken>>
  /\ UNCHANGED application

\* Whoever runs the evidence arms faults and resets the application.
Meddle ==
  /\ (\E arm \in Arms : App!Arm(arm)) \/ App!Reset
  /\ UNCHANGED <<vars, surface, serves, delivered>>

OpeningNext ==
  \/ Call
  \/ \E t \in Threads, number \in DOMAIN sent : Deliver(t, number)
  \/ \E t \in Threads : Serve(t)
  \/ Show
  \/ Meddle

OpeningSpec == OpeningInit /\ [][OpeningNext]_openingVars

-----------------------------------------------------------------------------
\* Type correctness across the parts: the engine's page is the document's, a
\* navigation under way is the last one asked for, and act() waits only inside
\* a call of it.
OpeningTypeOK ==
  /\ document.screen \in Screens
  /\ page = Shows[document.screen]
  /\ loading \in {0, Len(sent)}
  /\ arrived # {} => loading # 0
  /\ waiting \in {"nothing", "click", "load", "loaded"}
  /\ waiting \in {"load", "loaded"} => pc = "navigate"

\* However slow the server is, whatever is retried on top of a request that was
\* given up but not stopped, and whichever faults are shown: a replay opens one
\* account at most.
OneAccountPerReplay ==
  \A i, j \in DOMAIN opened :
    opened[i] > 0 /\ opened[j] > 0 => i = j /\ opened[i] = 1

\* SUCCESS is true of the application and not only of the page: an account has
\* been opened, with the token of what the replay confirmed and not with that of
\* an earlier form, though its page may have been answered to an earlier request.
SuccessMeansOpened ==
  (result # None /\ result.status = "success") =>
    LET confirmed == {sent[number].about :
                        number \in {n \in DOMAIN sent : sent[n].kind = "confirm"}}
    IN  \E token \in DOMAIN opened : opened[token] = 1 /\ confirmed = {token}

\* "An unauthorized risky commit is blocked and never hits the real app": not
\* through a safe step's click either, landing on a page that came in between.
NoAccountWithoutAuthorization ==
  (call.guarded /\ "click_confirm" \notin call.authorized) =>
    \A token \in DOMAIN opened : opened[token] = 0

\* "Refs are only valid against the DOM state they were captured from": what an
\* act sets off, it sets off on the very page the engine has looked at.
EffectsOnlyOnTheSeen ==
  [][(sent' # sent /\ pc = "act") => page = seen]_openingVars
=============================================================================
