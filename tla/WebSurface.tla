------------------------------ MODULE WebSurface ------------------------------
(***************************************************************************)
(* What cua.surface.web.WebSurface drives: a browser's tab whose content   *)
(* frame shows one document at a time, the navigation under way in it, and *)
(* the call of act() that may be waiting for it.                           *)
(*                                                                         *)
(* A click only starts a navigation.  The old document stays until the     *)
(* answer comes, however late, and another navigation of the frame makes   *)
(* the browser forget the earlier one; the server does not learn of that.  *)
(* What is asked for and what documents are is the application's: Origin   *)
(* is the document of a tab that has loaded nothing in that frame.         *)
(***************************************************************************)
EXTENDS Integers, Sequences

CONSTANTS Nowhere,    \* what following an element that leads nowhere asks for
          Origin

VARIABLES document,   \* what the frame shows
          live,       \* whether the refs handed out last are of that document
          sent,       \* history: what the frame asked for, in order
          loading,    \* the number of the request whose answer it will show, or 0
          arrived,    \* the documents that answer may be by now: one, or none
          waiting     \* what act() waits for: "nothing", a "click" to settle, a
                      \* goto to "load", or, its page there, to return: "loaded"

surface == <<document, live, sent, loading, arrived, waiting>>

SurfaceInit ==
  /\ document = Origin
  /\ live = FALSE
  /\ sent = <<>>
  /\ loading = 0
  /\ arrived = {}
  /\ waiting = "nothing"

\* Mutant: the refs of an earlier snapshot are taken for those of this document.
CommitKeepsRefs ==
  /\ arrived # {}
  /\ document' \in arrived
  /\ loading' = 0
  /\ arrived' = {}
  /\ waiting' = IF waiting = "load" THEN "loaded" ELSE "nothing"
  /\ UNCHANGED <<live, sent>>

\* observe(): a snapshot hands out the refs of the document that is there.
Snapshot ==
  /\ live' = TRUE
  /\ UNCHANGED <<document, sent, loading, arrived, waiting>>

\* The frame starts a navigation: the one under way is forgotten.
Follow(ask) ==
  IF ask = Nowhere
  THEN UNCHANGED <<sent, loading, arrived>>
  ELSE /\ sent' = Append(sent, ask)
       /\ loading' = Len(sent) + 1
       /\ arrived' = {}

\* _click_and_settle once click() has returned: a navigation is waited for,
\* be there one or not.
Click(ask) ==
  /\ live
  /\ Follow(ask)
  /\ waiting' = "click"
  /\ UNCHANGED <<document, live>>

\* click() itself times out, on a ref that is stale or on an element that is
\* not to be clicked in time, and now and then after the click went through.
ClickGivesUp(ask, through) ==
  /\ through => live
  /\ Follow(IF through THEN ask ELSE Nowhere)
  /\ UNCHANGED <<document, live, waiting>>

\* fill() and the other acts that start no navigation leave the document as
\* they make it.
Touch(changed) ==
  /\ live
  /\ document' = changed
  /\ UNCHANGED <<live, sent, loading, arrived, waiting>>

\* _navigate: the whole tab goes elsewhere, and goto() waits for it to load.
Goto(ask) ==
  /\ Follow(ask)
  /\ document' = Origin
  /\ live' = FALSE
  /\ waiting' = "load"

GotoReturns ==
  /\ waiting' = "nothing"
  /\ UNCHANGED <<document, live, sent, loading, arrived>>

\* expect_navigation times out with `clicked` true: act() reports success.
TimeOut ==
  /\ waiting = "click"
  /\ waiting' = "nothing"
  /\ UNCHANGED <<document, live, sent, loading, arrived>>

\* Mutant: an answer is shown to whichever request is asked last.
ArriveAny(number, answered) ==
  /\ arrived' = {answered}
  /\ UNCHANGED <<document, live, sent, loading, waiting>>

\* The server's answer to the request of that number reaches the browser.
Arrive(number, answered) ==
  /\ arrived' = IF number = loading THEN {answered} ELSE arrived
  /\ UNCHANGED <<document, live, sent, loading, waiting>>

\* The frame shows the document that arrived, and whoever waited goes on.
Commit ==
  /\ arrived # {}
  /\ document' \in arrived
  /\ live' = FALSE
  /\ loading' = 0
  /\ arrived' = {}
  /\ waiting' = IF waiting = "load" THEN "loaded" ELSE "nothing"
  /\ UNCHANGED sent
=============================================================================
