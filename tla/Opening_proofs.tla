---------------------------- MODULE Opening_proofs ----------------------------
(***************************************************************************)
(* Theorems about Opening: what the composition of the engine, the tab and *)
(* the application promises, for every artifact whose confirming step is   *)
(* declared irreversible, any number of threads, faults and tokens.        *)
(***************************************************************************)
EXTENDS Opening, Replay_proofs

Told == {Empty, Typed}
Documents == [screen : Screens, token : Nat, form : Told]

\* What a document's elements ask for.
Requested ==
  [kind : {"detail", "form"}, about : {"member"}]
    \cup [kind : {"submit"}, about : Told] \cup [kind : {"confirm"}, about : Nat]

(***************************************************************************)
(* Type correctness.                                                       *)
(***************************************************************************)

\* The tab: its documents are the application's, and so is what it asks for.
TabTyped ==
  /\ document \in Documents
  /\ arrived \subseteq Documents
  /\ sent \in Seq(Requested)

\* The application: a thread that is at work serves a request of the tab's.
AppTyped ==
  /\ stage \in [Threads -> {"idle", "peek", "settle", "handle", "show"}]
  /\ request \in [Threads -> {App!NoRequest} \cup
                    [session : {Agent}, kind : {"detail", "form", "submit", "confirm"},
                     about : {"member"} \cup Told \cup Nat]]
  /\ \A t \in Threads :
       /\ request[t].kind \in {"detail", "form"} => request[t].about = "member"
       /\ request[t].kind = "submit" => request[t].about \in Told
  /\ \E Q : held \in [Threads -> [list : Q, fault : Q, token : Nat]]
  /\ \E S : issued \in Seq(S)
  /\ opened \in Seq(Nat)
  /\ serves \in [Threads -> Nat]
  /\ \A t \in Threads : stage[t] # "idle" => serves[t] # 0

WellTyped == TabTyped /\ AppTyped /\ OpeningTypeOK

LEMMA ScreensOfForms == Origin \in Documents /\ Shows[Origin.screen] \in Observations
<1>1. "blank" \in Screens /\ 0 \in Nat /\ Empty \in Told
  BY DEF Screens, Told
<1>2. Origin = [screen |-> "blank", token |-> 0, form |-> Empty]
  BY OpeningAssumption
<1>3. Shows \in [Screens -> Observations] /\ Origin.screen = "blank"
  BY <1>2, OpeningAssumption
<1> QED
  BY <1>1, <1>2, <1>3 DEF Documents

LEMMA TypedInit == OpeningInit => WellTyped
<1> SUFFICES ASSUME OpeningInit PROVE WellTyped
  OBVIOUS
<1>1. TabTyped
  BY ScreensOfForms DEF OpeningInit, SurfaceInit, TabTyped
<1>2. AppTyped
  <2>1. /\ issued = <<>> /\ opened = <<>>
        /\ request = [t \in Threads |-> App!NoRequest]
        /\ stage = [t \in Threads |-> "idle"]
        /\ held = [t \in Threads |-> App!Nothing]
        /\ serves = [t \in Threads |-> 0]
    BY DEF OpeningInit, App!Init
  <2>2. issued \in Seq({}) /\ opened \in Seq(Nat)
    BY <2>1
  <2>3. App!NoRequest.kind = "none" /\ App!Nothing \in [list : {0}, fault : {0}, token : Nat]
    BY DEF App!NoRequest, App!Nothing
  <2> QED
    BY <2>1, <2>2, <2>3 DEF AppTyped
<1>3. OpeningTypeOK
  <2>1. sent = <<>> /\ document = Origin /\ loading = 0 /\ arrived = {} /\ waiting = "nothing"
        /\ page = Shows[Origin.screen]
    BY DEF OpeningInit, SurfaceInit
  <2> QED
    BY <2>1, ScreensOfForms DEF OpeningTypeOK, Documents
<1> QED
  BY <1>1, <1>2, <1>3 DEF WellTyped

\* A sequence of whatever it is of stays one.
LEMMA Appending ==
  ASSUME NEW S, NEW s \in Seq(S), NEW e
  PROVE  Append(s, e) \in Seq(S \cup {e}) /\ Len(s) \in Nat
  OBVIOUS

\* What an element of a document asks for.
LEMMA BehindType ==
  ASSUME NEW doc \in Documents, NEW element, Behind(doc, element) # Nowhere
  PROVE  /\ Behind(doc, element) \in Requested
         /\ Behind(doc, element).kind = "confirm" =>
              doc.screen = "confirm" /\ Control["confirm"] = element
<1>1. doc.screen \in DOMAIN Control /\ Control[doc.screen] = element
  BY DEF Behind
<1>2. doc.screen \in {"detail", "confirm"} \cup Forms
  BY <1>1, OpeningAssumption
<1>3. CASE doc.screen = "detail"
  <2>1. doc.screen \notin Forms /\ doc.screen # "confirm"
    BY <1>3 DEF Forms
  <2>2. Behind(doc, element) = [kind |-> "form", about |-> "member"]
    BY <1>1, <1>3, <2>1 DEF Behind, Forms
  <2> QED
    BY <2>2 DEF Requested
<1>4. CASE doc.screen \in Forms
  <2>1. doc.form \in Told
    BY DEF Documents
  <2>2. doc.screen # "detail"
    BY <1>4 DEF Forms
  <2>3. Behind(doc, element) = [kind |-> "submit", about |-> doc.form]
    BY <1>1, <1>4, <2>2 DEF Behind, Forms
  <2> QED
    BY <2>1, <2>3 DEF Requested
<1>5. CASE doc.screen = "confirm"
  <2>1. doc.screen # "detail" /\ doc.screen \notin Forms
    BY <1>5 DEF Forms
  <2>2. Behind(doc, element) = [kind |-> "confirm", about |-> doc.token]
    BY <1>1, <1>5, <2>1 DEF Behind
  <2>3. doc.token \in Nat
    BY DEF Documents
  <2> QED
    BY <1>1, <1>5, <2>2, <2>3 DEF Requested
<1> QED
  BY <1>2, <1>3, <1>4, <1>5

(***************************************************************************)
(* The application, one thread's step.                                     *)
(***************************************************************************)

\* An answer frees the thread and changes nothing else of what is typed.
LEMMA AnswerTyped ==
  ASSUME AppTyped, NEW t \in Threads, NEW shows, App!Answer(t, shows),
         opened' \in Seq(Nat), UNCHANGED <<issued, serves>>
  PROVE  /\ AppTyped' /\ answer' = shows
         /\ \A u \in Threads : request'[u] \in {request[u], App!NoRequest}
<1>1. /\ answer' = shows
      /\ stage' = [stage EXCEPT ![t] = "idle"]
      /\ request' = [request EXCEPT ![t] = App!NoRequest]
      /\ held' = [held EXCEPT ![t] = App!Nothing]
  BY DEF App!Answer
<1>2. App!NoRequest.kind = "none"
  BY DEF App!NoRequest
<1>3. App!Nothing = [list |-> 0, fault |-> 0, token |-> 0]
  BY DEF App!Nothing
<1> USE DEF AppTyped
<1>4. /\ request' \in [Threads -> {App!NoRequest} \cup
                    [session : {Agent}, kind : {"detail", "form", "submit", "confirm"},
                     about : {"member"} \cup Told \cup Nat]]
      /\ \A u \in Threads : request'[u] = IF u = t THEN App!NoRequest ELSE request[u]
  BY <1>1
<1>5. /\ stage' \in [Threads -> {"idle", "peek", "settle", "handle", "show"}]
      /\ \A u \in Threads : stage'[u] = IF u = t THEN "idle" ELSE stage[u]
  BY <1>1
<1>6. PICK Q : held \in [Threads -> [list : Q, fault : Q, token : Nat]]
  OBVIOUS
<1>7. held' \in [Threads -> [list : Q \cup {0}, fault : Q \cup {0}, token : Nat]]
  BY <1>1, <1>3, <1>6
<1>8. \A u \in Threads :
       /\ request'[u].kind \in {"detail", "form"} => request'[u].about = "member"
       /\ request'[u].kind = "submit" => request'[u].about \in Told
  BY <1>2, <1>4
<1> HIDE DEF AppTyped
<1>9. AppTyped'
  BY <1>4, <1>5, <1>7, <1>8 DEF AppTyped
<1> QED
  BY <1>1, <1>4, <1>9

\* A thread that goes on with the request it has.
LEMMA GoingOnTyped ==
  ASSUME AppTyped, NEW t \in Threads, stage[t] # "idle",
         NEW s \in {"settle", "handle", "show"}, stage' = [stage EXCEPT ![t] = s],
         \E Q : held' \in [Threads -> [list : Q, fault : Q, token : Nat]],
         \E S : issued' \in Seq(S), opened' \in Seq(Nat),
         UNCHANGED <<request, serves>>
  PROVE  AppTyped' /\ stage'[t] # "idle"
<1>1. /\ stage' \in [Threads -> {"idle", "peek", "settle", "handle", "show"}]
      /\ \A u \in Threads : stage'[u] = IF u = t THEN s ELSE stage[u]
  BY DEF AppTyped
<1> QED
  BY <1>1 DEF AppTyped

\* consume() sets the list and the fault held, and leaves the token alone.
LEMMA PeekTyped ==
  ASSUME AppTyped, NEW t \in Threads, App!Peek(t), UNCHANGED serves
  PROVE  AppTyped' /\ stage'[t] # "idle" /\ UNCHANGED <<request, opened>>
<1>1. /\ stage[t] # "idle"
      /\ UNCHANGED <<request, issued, opened>>
      /\ \E s \in {"settle", "handle"} : stage' = [stage EXCEPT ![t] = s]
      /\ \/ UNCHANGED held
         \/ \E q, f : held' = [held EXCEPT ![t].list = q, ![t].fault = f]
  BY DEF App!Peek, App!store
<1>2. PICK Q : held \in [Threads -> [list : Q, fault : Q, token : Nat]]
  BY DEF AppTyped
<1>3. \E P : held' \in [Threads -> [list : P, fault : P, token : Nat]]
  <2>1. CASE UNCHANGED held
    BY <1>2, <2>1
  <2>2. ASSUME NEW q, NEW f, held' = [held EXCEPT ![t].list = q, ![t].fault = f]
        PROVE  held' \in [Threads -> [list : Q \cup {q, f}, fault : Q \cup {q, f}, token : Nat]]
    BY <1>2, <2>2
  <2> QED
    BY <1>1, <2>1, <2>2
<1>4. (\E S : issued' \in Seq(S)) /\ opened' \in Seq(Nat)
  BY <1>1 DEF AppTyped
<1> QED
  BY <1>1, <1>3, <1>4, GoingOnTyped

\* The confirmation is shown in a step of its own, with the token at hand.
LEMMA IssueTyped ==
  ASSUME AppTyped, NEW t \in Threads, App!IssueToken(t), UNCHANGED serves
  PROVE  AppTyped' /\ stage'[t] # "idle" /\ UNCHANGED request /\ opened' = Append(opened, 0)
<1>1. /\ stage[t] = "handle"
      /\ \E e : issued' = Append(issued, e)
      /\ opened' = Append(opened, 0)
      /\ held' = [held EXCEPT ![t].token = Len(issued) + 1]
      /\ stage' = [stage EXCEPT ![t] = "show"]
      /\ UNCHANGED request
  BY DEF App!IssueToken, App!Handling
<1>2. PICK S : issued \in Seq(S)
  BY DEF AppTyped
<1>3. Len(issued) + 1 \in Nat /\ \E T : issued' \in Seq(T)
  <2>1. PICK e : issued' = Append(issued, e)
    BY <1>1
  <2>2. Len(issued) \in Nat /\ issued' \in Seq(S \cup {e})
    BY <1>2, <2>1, Appending
  <2> QED
    BY <2>2
<1>4. \E Q : held' \in [Threads -> [list : Q, fault : Q, token : Nat]]
  <2>1. PICK Q : held \in [Threads -> [list : Q, fault : Q, token : Nat]]
    BY DEF AppTyped
  <2> DEFINE token == Len(issued) + 1
  <2>2. token \in Nat /\ held' = [held EXCEPT ![t].token = token]
    BY <1>1, <1>3
  <2> HIDE DEF token
  <2>3. held' \in [Threads -> [list : Q, fault : Q, token : Nat]]
    BY <2>1, <2>2
  <2> QED
    BY <2>3
<1>5. opened' \in Seq(Nat)
  BY <1>1 DEF AppTyped
<1> QED
  BY <1>1, <1>3, <1>4, <1>5, GoingOnTyped

\* Counting a fault down changes nothing that is typed, unless it answers.
LEMMA SettleTyped ==
  ASSUME AppTyped, NEW t \in Threads, App!Settle(t), UNCHANGED serves
  PROVE  /\ AppTyped'
         /\ \A u \in Threads : request'[u] \in {request[u], App!NoRequest}
         /\ stage'[t] = "idle" => answer' = "server error"
         /\ UNCHANGED opened
<1>1. /\ stage[t] = "settle"
      /\ UNCHANGED <<issued, opened>>
      /\ \/ stage' = [stage EXCEPT ![t] = "handle"] /\ UNCHANGED <<request, held>>
         \/ App!Answer(t, "server error")
  BY DEF App!Settle, App!store
<1>2. CASE stage' = [stage EXCEPT ![t] = "handle"] /\ UNCHANGED <<request, held>>
  <2>1. (\E Q : held' \in [Threads -> [list : Q, fault : Q, token : Nat]])
        /\ (\E S : issued' \in Seq(S)) /\ opened' \in Seq(Nat)
    BY <1>1, <1>2 DEF AppTyped
  <2> QED
    BY <1>1, <1>2, <2>1, GoingOnTyped
<1>3. CASE App!Answer(t, "server error")
  <2>1. opened' \in Seq(Nat)
    BY <1>1 DEF AppTyped
  <2> QED
    BY <1>1, <1>3, <2>1, AnswerTyped
<1> QED
  BY <1>1, <1>2, <1>3

\* Only a confirmation counts an account as opened.
LEMMA OpenTyped ==
  ASSUME AppTyped, NEW t \in Threads, App!OpenAccount(t), UNCHANGED serves
  PROVE  /\ AppTyped' /\ answer' = "success" /\ request[t].kind = "confirm"
         /\ \A u \in Threads : request'[u] \in {request[u], App!NoRequest}
<1> DEFINE token == request[t].about
<1>1. /\ stage[t] = "handle" /\ request[t].kind = "confirm"
      /\ opened' = [opened EXCEPT ![token] = @ + 1]
      /\ App!Answer(t, "success")
      /\ UNCHANGED issued
  BY DEF App!OpenAccount, App!Handling
<1> HIDE DEF token
<1>2. opened \in Seq(Nat)
  BY DEF AppTyped
<1>3. opened' \in Seq(Nat)
  <2>1. CASE token \in DOMAIN opened
    BY <1>1, <1>2, <2>1
  <2>2. CASE token \notin DOMAIN opened
    <3>1. opened = [k \in DOMAIN opened |-> opened[k]]
      BY <1>2
    <3>2. opened' = [k \in DOMAIN opened |-> opened[k]]
      BY <1>1, <2>2
    <3> QED
      BY <1>2, <3>1, <3>2
  <2> QED
    BY <2>1, <2>2
<1> QED
  BY <1>1, <1>3, AnswerTyped

\* A thread's step: the types are kept, an answer is a screen of the tab's, and
\* only a confirmation opens an account.
LEMMA ServeTyped ==
  ASSUME AppTyped, NEW t \in Threads, App!Serve(t), UNCHANGED serves
  PROVE  /\ AppTyped'
         /\ stage[t] # "idle"
         /\ \A u \in Threads : request'[u] \in {request[u], App!NoRequest}
         /\ stage'[t] = "idle" =>
              answer' \in Screens /\ (answer' = "errors" => request[t].about \in Told)
         /\ request[t].kind = "confirm" \/ opened' = opened \/ opened' = Append(opened, 0)
<1>1. request[t].kind \in {"detail", "form"} => request[t].about = "member"
  BY DEF AppTyped
<1>2. request[t].kind = "submit" => request[t].about \in Told
  BY DEF AppTyped
<1>3. request[t].kind \in {"none", "detail", "form", "submit", "confirm"}
  BY DEF AppTyped, App!NoRequest
<1>4. ASSUME NEW shows \in Screens, App!Answer(t, shows), UNCHANGED <<issued, opened>>,
             shows = "errors" => request[t].about \in Told
      PROVE  /\ AppTyped'
             /\ \A u \in Threads : request'[u] \in {request[u], App!NoRequest}
             /\ answer' \in Screens /\ (answer' = "errors" => request[t].about \in Told)
  <2>1. opened' \in Seq(Nat)
    BY <1>4 DEF AppTyped
  <2> QED
    BY <1>4, <2>1, AnswerTyped
<1>5. CASE App!Peek(t)
  <2>1. stage[t] # "idle"
    BY <1>5 DEF App!Peek
  <2> QED
    BY <1>5, <2>1, PeekTyped
<1>6. CASE App!Settle(t)
  <2>1. stage[t] # "idle"
    BY <1>6 DEF App!Settle
  <2> QED
    BY <1>6, <2>1, SettleTyped DEF Screens
<1>7. CASE App!ShowFault(t)
  <2>1. /\ stage[t] # "idle" /\ App!Code(t) \in Screens /\ App!Code(t) # "errors"
        /\ App!Answer(t, App!Code(t)) /\ UNCHANGED <<issued, opened>>
    BY <1>7 DEF App!ShowFault, App!FaultPages, App!store, Screens
  <2> QED
    BY <1>4, <2>1
<1>8. CASE App!ShowPage(t)
  <2>1. stage[t] # "idle" /\ UNCHANGED <<issued, opened>>
    BY <1>8 DEF App!ShowPage, App!Handling, App!store
  <2>2. request[t].kind = "detail" => App!Answer(t, "detail")
    BY <1>1, <1>8 DEF App!ShowPage, App!Handling
  <2>3. request[t].kind # "detail" => App!Answer(t, "form")
    BY <1>1, <1>3, <1>8 DEF App!ShowPage, App!Handling
  <2> QED
    BY <1>4, <2>1, <2>2, <2>3 DEF Screens
<1>9. CASE App!CrashOnDeposit(t)
  <2>1. stage[t] # "idle" /\ App!Answer(t, "server error") /\ UNCHANGED <<issued, opened>>
    BY <1>9 DEF App!CrashOnDeposit, App!Handling, App!store
  <2> QED
    BY <1>4, <2>1 DEF Screens
<1>10. CASE App!RefuseForm(t)
  <2>1. stage[t] # "idle" /\ App!Answer(t, "errors") /\ UNCHANGED <<issued, opened>>
        /\ request[t].kind = "submit"
    BY <1>10 DEF App!RefuseForm, App!Handling, App!store
  <2> QED
    BY <1>2, <1>4, <2>1 DEF Screens
<1>11. CASE App!IssueToken(t)
  <2>1. stage[t] # "idle"
    BY <1>11 DEF App!IssueToken, App!Handling
  <2> QED
    BY <1>11, <2>1, IssueTyped
<1>12. CASE App!ShowConfirmation(t)
  <2>1. stage[t] # "idle" /\ UNCHANGED <<issued, opened>>
        /\ \E shows \in {"confirm", "server error"} : App!Answer(t, shows)
    BY <1>12 DEF App!ShowConfirmation, App!store
  <2> QED
    BY <1>4, <2>1 DEF Screens
<1>13. CASE App!OpenAccount(t)
  <2>1. stage[t] # "idle"
    BY <1>13 DEF App!OpenAccount, App!Handling
  <2> QED
    BY <1>13, <2>1, OpenTyped DEF Screens
<1>14. CASE App!RefuseConfirmation(t)
  <2>1. stage[t] # "idle" /\ App!Answer(t, "expired") /\ UNCHANGED <<issued, opened>>
    BY <1>14 DEF App!RefuseConfirmation, App!Handling, App!store
  <2> QED
    BY <1>4, <2>1 DEF Screens
<1> QED
  BY <1>5, <1>6, <1>7, <1>8, <1>9, <1>10, <1>11, <1>12, <1>13, <1>14 DEF App!Serve

(***************************************************************************)
(* The engine, whose every step here is one of Replay's.                   *)
(***************************************************************************)

\* A page of the tab's is one the engine may be shown.
LEMMA ShownPages == \A screen \in Screens : Shows[screen] \in Observations
  BY OpeningAssumption

\* What the tab, the network and the application do between two calls is a
\* change of the engine's page, or nothing at all.
LEMMA EngineStep == WellTyped /\ [OpeningNext]_openingVars => [Next]_vars
<1> SUFFICES ASSUME WellTyped, [OpeningNext]_openingVars PROVE [Next]_vars
  OBVIOUS
<1>1. CASE Think \/ Look \/ LookRaises
  BY <1>1 DEF Think, Look, LookRaises, Next, Engine
<1>2. CASE ClickWorks \/ ClickFails(TRUE) \/ ClickFails(FALSE) \/ FillWorks \/ FillFails
  BY <1>2 DEF ClickWorks, ClickFails, FillWorks, FillFails, Next, Engine
<1>3. CASE GotoLoads \/ GotoTimesOut
  BY <1>3 DEF GotoLoads, GotoTimesOut, Next, Engine
<1>4. CASE ClickSettles
  BY <1>4 DEF ClickSettles
<1>5. ASSUME pc # "done", page' \in Observations,
             UNCHANGED <<call, inputs, pc, step, attempt, seen, aim, outputs, result, acts, taken>>
      PROVE  [Next]_vars
  <2>1. CASE page' = page
    BY <1>5, <2>1 DEF vars
  <2>2. CASE page' # page
    BY <1>5, <2>2 DEF PageChanges, Next
  <2> QED
    BY <2>1, <2>2
<1>6. CASE StartGoto
  <2>1. page' \in Observations
    BY <1>6, ScreensOfForms DEF StartGoto
  <2> QED
    BY <1>5, <1>6, <2>1 DEF StartGoto
<1>7. CASE Show
  <2>1. document'.screen \in Screens
    BY <1>7 DEF Show, Commit, WellTyped, TabTyped, Documents
  <2>2. page' \in Observations
    BY <1>7, <2>1, ShownPages DEF Show
  <2> QED
    BY <1>5, <1>7, <2>2 DEF Show
<1>8. ASSUME NEW t \in Threads, NEW number, Deliver(t, number) PROVE UNCHANGED vars
  BY <1>8 DEF Deliver
<1>9. ASSUME NEW t \in Threads, Serve(t) PROVE UNCHANGED vars
  BY <1>9 DEF Serve
<1>10. CASE Meddle
  BY <1>10 DEF Meddle
<1>11. CASE UNCHANGED openingVars
  BY <1>11 DEF openingVars
<1> QED
  BY <1>1, <1>2, <1>3, <1>4, <1>6, <1>7, <1>8, <1>9, <1>10, <1>11 DEF OpeningNext, Call

(***************************************************************************)
(* The types are kept.                                                     *)
(***************************************************************************)

\* What a thread that takes a request in serves is what the tab asked for.
LEMMA DeliverTyped ==
  ASSUME TabTyped, AppTyped, NEW t \in Threads, NEW number \in DOMAIN sent, Deliver(t, number)
  PROVE  AppTyped' /\ \A u \in Threads : request'[u].kind \in {request[u].kind, sent[number].kind}
<1> DEFINE ask == sent[number]
<1>1. /\ stage' = [stage EXCEPT ![t] = IF ask.kind = "form" THEN "handle" ELSE "peek"]
      /\ request' = [request EXCEPT ![t] = [session |-> Agent, kind |-> ask.kind,
                                            about |-> ask.about]]
      /\ UNCHANGED <<issued, opened, held>>
      /\ serves' = [serves EXCEPT ![t] = number]
  BY DEF Deliver, App!Receive, App!store
<1>2. ask \in Requested /\ number \in Nat \ {0}
  BY DEF TabTyped
<1> HIDE DEF ask
<1>3. /\ ask.kind \in {"detail", "form", "submit", "confirm"}
      /\ ask.about \in {"member"} \cup Told \cup Nat
      /\ ask.kind \in {"detail", "form"} => ask.about = "member"
      /\ ask.kind = "submit" => ask.about \in Told
  BY <1>2 DEF Requested
<1> DEFINE served == [session |-> Agent, kind |-> ask.kind, about |-> ask.about]
<1>4. /\ served \in [session : {Agent}, kind : {"detail", "form", "submit", "confirm"},
                     about : {"member"} \cup Told \cup Nat]
      /\ served.kind = ask.kind /\ served.about = ask.about
  BY <1>3
<1>5. request' = [request EXCEPT ![t] = served]
  BY <1>1
<1> HIDE DEF served
<1>6. /\ request' \in [Threads -> {App!NoRequest} \cup
                    [session : {Agent}, kind : {"detail", "form", "submit", "confirm"},
                     about : {"member"} \cup Told \cup Nat]]
      /\ \A u \in Threads : request'[u] = IF u = t THEN served ELSE request[u]
  BY <1>4, <1>5 DEF AppTyped
<1>7. \A u \in Threads :
       /\ request'[u].kind \in {"detail", "form"} => request'[u].about = "member"
       /\ request'[u].kind = "submit" => request'[u].about \in Told
  BY <1>3, <1>4, <1>6 DEF AppTyped
<1>8. /\ stage' \in [Threads -> {"idle", "peek", "settle", "handle", "show"}]
      /\ \A u \in Threads : u # t => stage'[u] = stage[u]
  BY <1>1 DEF AppTyped
<1>9. /\ serves' \in [Threads -> Nat]
      /\ \A u \in Threads : serves'[u] = IF u = t THEN number ELSE serves[u]
  BY <1>1, <1>2 DEF AppTyped
<1>10. (\E Q : held' \in [Threads -> [list : Q, fault : Q, token : Nat]])
       /\ (\E S : issued' \in Seq(S)) /\ opened' \in Seq(Nat)
  BY <1>1 DEF AppTyped
<1>11. AppTyped'
  BY <1>2, <1>6, <1>7, <1>8, <1>9, <1>10 DEF AppTyped
<1> QED
  BY <1>4, <1>6, <1>11 DEF ask

LEMMA AppKept ==
  ASSUME AppTyped, UNCHANGED <<stage, request, held, issued, opened, serves>>
  PROVE  AppTyped'
<1>1. (\E Q : held' \in [Threads -> [list : Q, fault : Q, token : Nat]])
      /\ (\E S : issued' \in Seq(S)) /\ opened' \in Seq(Nat)
  BY DEF AppTyped
<1>2. /\ stage' = stage /\ request' = request /\ serves' = serves
  OBVIOUS
<1> QED
  BY <1>1, <1>2 DEF AppTyped

\* A navigation that is started is the last thing asked for.
LEMMA FollowTyped ==
  ASSUME TabTyped, loading \in {0, Len(sent)}, arrived # {} => loading # 0,
         NEW ask, ask # Nowhere => ask \in Requested, Follow(ask)
  PROVE  /\ sent' \in Seq(Requested) /\ arrived' \subseteq Documents
         /\ loading' \in {0, Len(sent')} /\ (arrived' # {} => loading' # 0)
         /\ UNCHANGED sent \/ sent' = Append(sent, ask)
<1>1. CASE ask = Nowhere
  BY <1>1 DEF Follow, TabTyped
<1>2. CASE ask # Nowhere
  <2>1. sent' = Append(sent, ask) /\ loading' = Len(sent) + 1 /\ arrived' = {}
    BY <1>2 DEF Follow
  <2>2. sent' \in Seq(Requested) /\ Len(sent') = Len(sent) + 1
    BY <1>2, <2>1 DEF TabTyped
  <2> QED
    BY <2>1, <2>2
<1> QED
  BY <1>1, <1>2

LEMMA EnginePage == Engine => UNCHANGED page
  BY DEF Engine, ValidateInputs, RefuseInputs, CheckGuard, FindOutcome, FindTarget,
         MissTarget, RaiseUnreachable, ActSucceeds, ActFails, NavigateSucceeds, NavigateFails,
         Finish, ObserveRaises

LEMMA TypedStep == WellTyped /\ [OpeningNext]_openingVars => WellTyped'
<1> SUFFICES ASSUME WellTyped, [OpeningNext]_openingVars PROVE WellTyped'
  OBVIOUS
<1> USE DEF WellTyped
<1>1. ASSUME UNCHANGED <<page, document, sent, loading, arrived, application>>,
             waiting' = "nothing"
      PROVE  WellTyped'
  BY <1>1, AppKept DEF TabTyped, OpeningTypeOK, application
<1>2. CASE Think \/ Look \/ LookRaises \/ FillFails \/ GotoLoads \/ GotoTimesOut \/ ClickSettles
  <2>1. CASE ClickSettles
    BY <1>1, <2>1 DEF ClickSettles, TimeOut, vars
  <2>2. CASE Think \/ Look \/ LookRaises \/ FillFails \/ GotoLoads \/ GotoTimesOut
    <3>1. UNCHANGED page
      BY <2>2, EnginePage DEF Think, Look, LookRaises, FillFails, GotoLoads, GotoTimesOut, Engine
    <3>2. UNCHANGED <<document, sent, loading, arrived, application>> /\ waiting' = "nothing"
      BY <2>2 DEF Think, Look, LookRaises, FillFails, GotoLoads, GotoTimesOut, Free,
                  Snapshot, GotoReturns, surface
    <3> QED
      BY <1>1, <3>1, <3>2
  <2> QED
    BY <1>2, <2>1, <2>2
<1>3. CASE ClickWorks \/ ClickFails(TRUE) \/ ClickFails(FALSE)
  <2>1. UNCHANGED page
    BY <1>3, EnginePage DEF ClickWorks, ClickFails, Engine
  <2>2. PICK ask \in {Behind(document, aim), Nowhere} : Follow(ask)
    BY <1>3 DEF ClickWorks, ClickFails, Click, ClickGivesUp
  <2>3. ask # Nowhere => ask \in Requested
    BY <2>2, BehindType DEF TabTyped
  <2>4. /\ sent' \in Seq(Requested) /\ arrived' \subseteq Documents
        /\ loading' \in {0, Len(sent')} /\ (arrived' # {} => loading' # 0)
    BY <2>2, <2>3, FollowTyped DEF OpeningTypeOK
  <2>5. UNCHANGED <<document, application>> /\ waiting' \in {"nothing", "click"}
    BY <1>3 DEF ClickWorks, ClickFails, Click, ClickGivesUp, Free
  <2> QED
    BY <2>1, <2>4, <2>5, AppKept DEF TabTyped, OpeningTypeOK, application
<1>4. CASE FillWorks
  <2>1. UNCHANGED <<page, sent, loading, arrived, waiting, application>> /\ waiting = "nothing"
    BY <1>4, EnginePage DEF FillWorks, Touch, Free, Engine
  <2>2. document' \in {document, [document EXCEPT !.form = Typed]}
    BY <1>4 DEF FillWorks, Touch
  <2>3. document' \in Documents /\ document'.screen = document.screen
    BY <2>2 DEF TabTyped, Documents, Told
  <2> QED
    BY <2>1, <2>3, AppKept DEF TabTyped, OpeningTypeOK, application
<1>5. CASE StartGoto
  <2>1. /\ Follow(Start) /\ document' = Origin /\ waiting' = "load" /\ pc' = "navigate"
        /\ page' = Shows[Origin.screen] /\ UNCHANGED application
    BY <1>5 DEF StartGoto, Goto
  <2>2. Start \in Requested
    BY DEF Start, Requested
  <2>3. /\ sent' \in Seq(Requested) /\ arrived' \subseteq Documents
        /\ loading' \in {0, Len(sent')} /\ (arrived' # {} => loading' # 0)
    BY <2>1, <2>2, FollowTyped DEF OpeningTypeOK
  <2>4. document' \in Documents /\ document'.screen \in Screens
    BY <2>1, ScreensOfForms DEF Documents
  <2> QED
    BY <2>1, <2>3, <2>4, AppKept DEF TabTyped, OpeningTypeOK, application
<1>6. ASSUME NEW t \in Threads, NEW number \in DOMAIN sent, Deliver(t, number)
      PROVE  WellTyped'
  <2>1. AppTyped'
    BY <1>6, DeliverTyped
  <2>2. UNCHANGED vars /\ UNCHANGED surface
    BY <1>6 DEF Deliver
  <2> QED
    BY <2>1, <2>2 DEF TabTyped, OpeningTypeOK, vars, surface
<1>7. ASSUME NEW t \in Threads, Serve(t)
      PROVE  WellTyped'
  <2>1. /\ App!Serve(t) /\ UNCHANGED vars /\ UNCHANGED serves
    BY <1>7 DEF Serve
  <2>2. /\ AppTyped' /\ stage[t] # "idle"
        /\ stage'[t] = "idle" =>
             answer' \in Screens /\ (answer' = "errors" => request[t].about \in Told)
    BY <2>1, ServeTyped
  <2>3. serves[t] # 0 /\ held[t].token \in Nat /\ Empty \in Told
    BY <2>2 DEF AppTyped, Told
  <2>4. CASE stage'[t] = "idle"
    <3> DEFINE answered ==
          [screen |-> answer',
           token  |-> IF answer' = "confirm" THEN held[t].token ELSE 0,
           form   |-> IF answer' = "errors" THEN request[t].about ELSE Empty]
    <3>1. answered \in Documents
      BY <2>2, <2>3, <2>4 DEF Documents
    <3>2. Arrive(serves[t], answered)
      BY <1>7, <2>4 DEF Serve
    <3> HIDE DEF answered
    <3> QED
      BY <2>1, <2>2, <2>3, <3>1, <3>2 DEF Arrive, TabTyped, OpeningTypeOK, vars
  <2>5. CASE stage'[t] # "idle"
    <3>1. UNCHANGED surface
      BY <1>7, <2>5 DEF Serve
    <3> QED
      BY <2>1, <2>2, <3>1 DEF TabTyped, OpeningTypeOK, vars, surface
  <2> QED
    BY <2>4, <2>5
<1>8. CASE Show
  <2>1. /\ document' \in arrived /\ loading' = 0 /\ arrived' = {}
        /\ waiting' = (IF waiting = "load" THEN "loaded" ELSE "nothing")
        /\ UNCHANGED <<sent, pc, application>> /\ page' = Shows[document'.screen]
    BY <1>8 DEF Show, Commit
  <2>2. document' \in Documents /\ document'.screen \in Screens
    BY <2>1 DEF TabTyped, Documents
  <2> QED
    BY <2>1, <2>2, AppKept DEF TabTyped, OpeningTypeOK, application
<1>9. CASE Meddle
  <2>1. UNCHANGED <<stage, request, held, issued, opened, serves>> /\ UNCHANGED vars
        /\ UNCHANGED surface
    BY <1>9 DEF Meddle, App!Arm, App!Reset, App!store
  <2> QED
    BY <2>1, AppKept DEF TabTyped, OpeningTypeOK, vars, surface
<1>10. CASE UNCHANGED openingVars
  <2>1. UNCHANGED vars /\ UNCHANGED surface /\ UNCHANGED application
    BY <1>10 DEF openingVars
  <2> QED
    BY <2>1, AppKept DEF TabTyped, OpeningTypeOK, vars, surface, application
<1> QED
  BY <1>2, <1>3, <1>4, <1>5, <1>6, <1>7, <1>8, <1>9, <1>10 DEF OpeningNext, Call

LEMMA TypedInvariance == OpeningSpec => []WellTyped
  BY TypedInit, TypedStep, PTL DEF OpeningSpec

\* Across the engine, the tab and the application the types hold: the page the
\* engine is shown is always its document's, and act() waits only in a call.
THEOREM OpeningTypeCorrect == OpeningSpec => []OpeningTypeOK
<1>1. WellTyped => OpeningTypeOK
  BY DEF WellTyped
<1> QED
  BY <1>1, TypedInvariance, PTL

\* A replay against the tab and the application is one of Replay's, so that
\* what Replay promises of every step holds here: the page Replay lets change
\* at will covers late answers, retries and faults.
THEOREM OpeningIsAReplay == OpeningSpec => Init /\ [][Next]_vars
<1>1. OpeningInit => Init
  BY DEF OpeningInit
<1> QED
  BY <1>1, EngineStep, TypedInvariance, PTL DEF OpeningSpec

LEMMA EngineInvariance == OpeningSpec => []Inv /\ []Cleared /\ []Sighted
<1>1. Init => Cleared /\ Sighted
  BY DEF Init, Cleared, Sighted
<1>2. OpeningSpec => []Inv
  BY InvInit, InvStep, OpeningIsAReplay, PTL
<1>3. OpeningSpec => []Cleared
  BY <1>1, <1>2, ClearedStep, OpeningIsAReplay, PTL
<1>4. OpeningSpec => []Sighted
  BY <1>1, <1>2, SightedStep, OpeningIsAReplay, PTL
<1> QED
  BY <1>2, <1>3, <1>4, PTL

(***************************************************************************)
(* Acts reach the page that was looked at.                                 *)
(***************************************************************************)

\* While the refs handed out last are live, the page is the one they are of.
Fresh == (live /\ pc = "act") => page = seen

LEMMA FreshStep == WellTyped /\ Inv /\ Fresh /\ [OpeningNext]_openingVars => Fresh'
<1> SUFFICES ASSUME WellTyped, Inv, Fresh, [OpeningNext]_openingVars, live', pc' = "act"
             PROVE  page' = seen'
  BY DEF Fresh
<1> USE DEF Fresh
<1>1. ASSUME Engine, ~FindTarget PROVE FALSE
  <2>1. step \in 1..(N + 1) /\ call.guarded \in BOOLEAN /\ N \in Nat \ {0}
    BY CapabilityAssumption, CallsAssumption DEF Inv, TypeOK
  <2>2. ASSUME NEW i \in 1..(N + 1), NEW g \in BOOLEAN, pc' = Entry(i, g) PROVE FALSE
    BY <2>2, EntryType
  <2>3. pc = "start" => 1 \in 1..(N + 1)
    BY <2>1
  <2>4. pc \in {"act", "navigate"} => step + 1 \in 1..(N + 1)
    BY <2>1 DEF Inv, TypeOK
  <2>5. CASE ValidateInputs \/ CheckGuard
    BY <2>1, <2>2, <2>3, <2>5 DEF ValidateInputs, CheckGuard, Return
  <2>6. CASE ActSucceeds \/ NavigateSucceeds
    BY <2>1, <2>2, <2>4, <2>6 DEF ActSucceeds, NavigateSucceeds, Proceed
  <2>7. CASE RefuseInputs \/ FindOutcome \/ RaiseUnreachable \/ Finish \/ ObserveRaises
    BY <2>7 DEF RefuseInputs, FindOutcome, RaiseUnreachable, Finish, ObserveRaises, Return
  <2>8. CASE MissTarget \/ ActFails
    BY <2>8 DEF MissTarget, ActFails, Attempting, Return
  <2>9. CASE NavigateFails
    BY <2>9 DEF NavigateFails, Return
  <2> QED
    BY <1>1, <2>5, <2>6, <2>7, <2>8, <2>9 DEF Engine
<1>2. CASE FindTarget
  BY <1>2 DEF FindTarget, Observe
<1>3. CASE Think \/ Look \/ LookRaises
  BY <1>1, <1>2, <1>3 DEF Think, Look, LookRaises, Engine
<1>4. CASE ClickWorks \/ ClickFails(TRUE) \/ ClickFails(FALSE) \/ FillWorks \/ FillFails
  BY <1>1, <1>2, <1>4 DEF ClickWorks, ClickFails, FillWorks, FillFails, Engine
<1>5. CASE StartGoto \/ Show
  BY <1>5 DEF StartGoto, Goto, Show, Commit
<1>6. CASE GotoLoads \/ GotoTimesOut
  BY <1>1, <1>2, <1>6 DEF GotoLoads, GotoTimesOut, Engine
<1>7. ASSUME UNCHANGED <<vars, live>> PROVE page' = seen'
  BY <1>7 DEF vars
<1>8. CASE ClickSettles
  BY <1>7, <1>8 DEF ClickSettles, TimeOut
<1>9. ASSUME NEW t \in Threads, NEW number, Deliver(t, number) PROVE page' = seen'
  BY <1>7, <1>9 DEF Deliver, surface
<1>10. ASSUME NEW t \in Threads, Serve(t) PROVE page' = seen'
  BY <1>7, <1>10 DEF Serve, Arrive, surface
<1>11. CASE Meddle \/ UNCHANGED openingVars
  BY <1>7, <1>11 DEF Meddle, openingVars, surface
<1> QED
  BY <1>3, <1>4, <1>5, <1>6, <1>8, <1>9, <1>10, <1>11 DEF OpeningNext, Call

LEMMA FreshInvariance == OpeningSpec => []Fresh
<1>1. OpeningInit => Fresh
  BY DEF OpeningInit, SurfaceInit, Fresh
<1> QED
  BY <1>1, FreshStep, TypedInvariance, EngineInvariance, PTL DEF OpeningSpec

\* Only a click with live refs asks the application for anything during an act.
LEMMA ClickAsks ==
  ASSUME [OpeningNext]_openingVars, sent' # sent
  PROVE  \/ /\ ClickWorks \/ ClickFails(TRUE)
            /\ pc = "act" /\ live /\ Clicking
            /\ sent' = Append(sent, Behind(document, aim))
            /\ Behind(document, aim) # Nowhere
         \/ pc = "navigate" /\ sent' = Append(sent, Start)
<1>1. CASE Think \/ Look \/ LookRaises \/ FillWorks \/ FillFails
  BY <1>1 DEF Think, Look, LookRaises, FillWorks, FillFails, Snapshot, Touch, surface
<1>2. CASE ClickWorks \/ ClickFails(TRUE)
  BY <1>2 DEF ClickWorks, ClickFails, Click, ClickGivesUp, Follow, ActSucceeds, ActFails
<1>3. CASE ClickFails(FALSE)
  BY <1>3 DEF ClickFails, ClickGivesUp, Follow
<1>4. CASE StartGoto
  BY <1>4 DEF StartGoto, Goto, Follow
<1>5. CASE GotoLoads \/ GotoTimesOut \/ ClickSettles \/ Show
  BY <1>5 DEF GotoLoads, GotoTimesOut, GotoReturns, ClickSettles, TimeOut, Show, Commit
<1>6. ASSUME NEW t \in Threads, NEW number, Deliver(t, number) PROVE FALSE
  BY <1>6 DEF Deliver, surface
<1>7. ASSUME NEW t \in Threads, Serve(t) PROVE FALSE
  BY <1>7 DEF Serve, Arrive, surface
<1>8. CASE Meddle \/ UNCHANGED openingVars
  BY <1>8 DEF Meddle, openingVars, surface
<1> QED
  BY <1>1, <1>2, <1>3, <1>4, <1>5, <1>6, <1>7, <1>8 DEF OpeningNext, Call

\* What an act sets off, it sets off on the very page the engine has looked at,
\* whatever was answered late or committed in between.
THEOREM ActsOnTheSeenPage == OpeningSpec => EffectsOnlyOnTheSeen
<1>1. Fresh /\ [OpeningNext]_openingVars => [(sent' # sent /\ pc = "act") => page = seen]_openingVars
  BY ClickAsks DEF Fresh
<1> QED
  BY <1>1, FreshInvariance, PTL DEF OpeningSpec, EffectsOnlyOnTheSeen

(***************************************************************************)
(* Nothing is opened that was not authorized.                              *)
(***************************************************************************)

\* A guarded call that was not given leave to confirm has asked for no
\* confirmation, no thread serves one, and no account has been opened.
Unauthorized == call.guarded /\ "click_confirm" \notin call.authorized

Unasked ==
  Unauthorized =>
    /\ \A number \in DOMAIN sent : sent[number].kind # "confirm"
    /\ \A t \in Threads : request[t].kind # "confirm"
    /\ \A token \in DOMAIN opened : opened[token] = 0

\* A click that sends a confirmation is of a step that clicks what leads on.
LEMMA ConfirmingLeadsOn ==
  ASSUME WellTyped, Inv, Sighted, Fresh, pc = "act", live, Clicking,
         Behind(document, aim) # Nowhere, Behind(document, aim).kind = "confirm"
  PROVE  step \in 1..N /\ document.screen = "confirm" /\ LeadsOn(step, "confirm")
<1> DEFINE confirm == Shows["confirm"]
           found == ResolveTarget(confirm, Steps[step].target)
<1>1. document.screen = "confirm" /\ Control["confirm"] = aim
  BY BehindType DEF WellTyped, TabTyped
<1>2. seen = confirm
  BY <1>1 DEF WellTyped, OpeningTypeOK, Fresh
<1>3. /\ found.status = "resolved"
      /\ aim = [frame |-> confirm.nodes[found.node].frame, ref |-> confirm.nodes[found.node].ref]
  BY <1>2 DEF Sighted
<1>4. step \in 1..N /\ Steps[step].action \in {"click", "dismiss"}
  BY DEF Inv, TypeOK, Clicking
<1> QED
  BY <1>1, <1>3, <1>4 DEF LeadsOn

\* It is the irreversible step, and the guard has let it through.
LEMMA ConfirmingIsCleared ==
  ASSUME WellTyped, Inv, Cleared, Sighted, Fresh, pc = "act", live, Clicking,
         Behind(document, aim) # Nowhere, Behind(document, aim).kind = "confirm"
  PROVE  ~Unauthorized
<1>1. Steps[step].risk = "risky_irreversible" /\ Steps[step].id = "click_confirm"
  BY ConfirmingLeadsOn, ConfirmationAssumption
<1>2. call.guarded => RiskPermitted(step)
  BY DEF Cleared
<1> QED
  BY <1>1, <1>2 DEF RiskPermitted, Unauthorized

LEMMA UnaskedStep ==
  WellTyped /\ Inv /\ Cleared /\ Sighted /\ Fresh /\ Unasked /\ [OpeningNext]_openingVars
    => Unasked'
<1> SUFFICES ASSUME WellTyped, Inv, Cleared, Sighted, Fresh, Unasked, [OpeningNext]_openingVars,
                    Unauthorized'
             PROVE  /\ \A number \in DOMAIN sent' : sent'[number].kind # "confirm"
                    /\ \A t \in Threads : request'[t].kind # "confirm"
                    /\ \A token \in DOMAIN opened' : opened'[token] = 0
  BY DEF Unasked
<1>1. UNCHANGED call
  BY EngineStep, ActsOfTheStep DEF Inv
<1>2. Unauthorized
  BY <1>1 DEF Unauthorized
<1>3. /\ \A number \in DOMAIN sent : sent[number].kind # "confirm"
      /\ \A t \in Threads : request[t].kind # "confirm"
      /\ \A token \in DOMAIN opened : opened[token] = 0
  BY <1>2 DEF Unasked
<1>4. /\ sent \in Seq(Requested) /\ opened \in Seq(Nat)
      /\ App!NoRequest.kind = "none"
  BY DEF WellTyped, TabTyped, AppTyped, App!NoRequest
<1>5. \A number \in DOMAIN sent' : sent'[number].kind # "confirm"
  <2>1. CASE UNCHANGED sent
    BY <1>3, <2>1
  <2>2. ASSUME NEW ask, sent' = Append(sent, ask), ask.kind # "confirm"
        PROVE  \A number \in DOMAIN sent' : sent'[number].kind # "confirm"
    <3>1. /\ DOMAIN sent' = 1..(Len(sent) + 1) /\ DOMAIN sent = 1..Len(sent)
          /\ \A number \in 1..(Len(sent) + 1) :
               sent'[number] = IF number \in 1..Len(sent) THEN sent[number] ELSE ask
      BY <1>4, <2>2
    <3> QED
      BY <1>3, <2>2, <3>1
  <2>3. CASE sent' # sent
    <3>1. CASE sent' = Append(sent, Start)
      BY <2>2, <3>1 DEF Start
    <3>2. CASE /\ pc = "act" /\ live /\ Clicking
               /\ sent' = Append(sent, Behind(document, aim))
               /\ Behind(document, aim) # Nowhere
      <4>1. Behind(document, aim).kind # "confirm"
        BY <1>2, <3>2, ConfirmingIsCleared
      <4> QED
        BY <2>2, <3>2, <4>1
    <3> QED
      BY <2>3, <3>1, <3>2, ClickAsks
  <2> QED
    BY <2>1, <2>3
<1>6. ASSUME UNCHANGED <<request, opened>>
      PROVE  /\ \A t \in Threads : request'[t].kind # "confirm"
             /\ \A token \in DOMAIN opened' : opened'[token] = 0
  BY <1>3, <1>6
<1>7. CASE Call \/ Show \/ UNCHANGED openingVars
  <2>1. UNCHANGED application
    BY <1>7 DEF Call, Think, Look, LookRaises, ClickWorks, ClickFails, FillWorks, FillFails,
                StartGoto, GotoLoads, GotoTimesOut, ClickSettles, Show, openingVars
  <2> QED
    BY <1>5, <1>6, <2>1 DEF application
<1>8. ASSUME NEW t \in Threads, NEW number \in DOMAIN sent, Deliver(t, number)
      PROVE  /\ \A u \in Threads : request'[u].kind # "confirm"
             /\ \A token \in DOMAIN opened' : opened'[token] = 0
  <2>1. \A u \in Threads : request'[u].kind \in {request[u].kind, sent[number].kind}
    BY <1>8, DeliverTyped DEF WellTyped
  <2>2. UNCHANGED opened
    BY <1>8 DEF Deliver, App!Receive, App!store
  <2> QED
    BY <1>3, <2>1, <2>2
<1>9. ASSUME NEW t \in Threads, Serve(t)
      PROVE  /\ \A u \in Threads : request'[u].kind # "confirm"
             /\ \A token \in DOMAIN opened' : opened'[token] = 0
  <2>1. App!Serve(t) /\ UNCHANGED serves
    BY <1>9 DEF Serve
  <2>2. /\ \A u \in Threads : request'[u] \in {request[u], App!NoRequest}
        /\ request[t].kind = "confirm" \/ opened' = opened \/ opened' = Append(opened, 0)
    BY <2>1, ServeTyped DEF WellTyped
  <2>3. \A u \in Threads : request'[u].kind # "confirm"
    BY <1>3, <1>4, <2>2
  <2>4. opened' = opened \/ opened' = Append(opened, 0)
    BY <1>3, <2>2
  <2>5. \A token \in DOMAIN opened' : opened'[token] = 0
    BY <1>3, <1>4, <2>4
  <2> QED
    BY <2>3, <2>5
<1>10. CASE Meddle
  BY <1>5, <1>6, <1>10 DEF Meddle, App!Arm, App!Reset, App!store
<1> QED
  BY <1>5, <1>6, <1>7, <1>8, <1>9, <1>10 DEF OpeningNext

\* No account is opened by a guarded replay that was not authorized to confirm,
\* whatever is declared of the other steps, shown late or retried.
THEOREM AccountsNeedAuthorization == OpeningSpec => []NoAccountWithoutAuthorization
<1>1. OpeningInit => Unasked
  <2>1. /\ OpeningInit => sent = <<>> /\ opened = <<>>
        /\ OpeningInit => request = [t \in Threads |-> App!NoRequest]
    BY DEF OpeningInit, SurfaceInit, App!Init
  <2>2. App!NoRequest.kind = "none"
    BY DEF App!NoRequest
  <2> QED
    BY <2>1, <2>2 DEF Unasked
<1>2. Unasked => NoAccountWithoutAuthorization
  BY DEF Unasked, Unauthorized, NoAccountWithoutAuthorization
<1> QED
  BY <1>1, <1>2, UnaskedStep, TypedInvariance, EngineInvariance, FreshInvariance, PTL
     DEF OpeningSpec

(***************************************************************************)
(* The application, served to one replay, is the application: every step   *)
(* here is one of TargetApp's, and its theorems hold of it.                *)
(***************************************************************************)

AppProofs == INSTANCE TargetApp_proofs WITH
  Sessions <- {Agent}, Overlap <- TRUE,
  Asks <- {[kind |-> "detail", about |-> "member"], [kind |-> "form", about |-> "member"]}
            \cup [kind : {"submit"}, about : {Empty, Typed}]

LEMMA SameAssumption == AppProofs!TargetAppAssumption
  BY ApplicationAssumption
     DEF App!TargetAppAssumption, AppProofs!TargetAppAssumption, App!Hooks, AppProofs!Hooks,
         App!FaultCodes, AppProofs!FaultCodes, App!FaultPages, AppProofs!FaultPages,
         App!Forms, AppProofs!Forms, App!Deposits, AppProofs!Deposits

LEMMA SameInit == App!Init => AppProofs!Init
  BY DEF App!Init, AppProofs!Init, App!Hooks, AppProofs!Hooks, App!NoRequest,
         AppProofs!NoRequest, App!Nothing, AppProofs!Nothing

LEMMA SameServe == ASSUME NEW t, App!Serve(t) PROVE AppProofs!Serve(t)
  BY DEF App!Serve, AppProofs!Serve, App!Peek, AppProofs!Peek, App!Settle, AppProofs!Settle,
         App!ShowFault, AppProofs!ShowFault, App!ShowPage, AppProofs!ShowPage,
         App!CrashOnDeposit, AppProofs!CrashOnDeposit, App!RefuseForm, AppProofs!RefuseForm,
         App!IssueToken, AppProofs!IssueToken, App!ShowConfirmation,
         AppProofs!ShowConfirmation, App!OpenAccount, AppProofs!OpenAccount,
         App!RefuseConfirmation, AppProofs!RefuseConfirmation, App!Key, AppProofs!Key,
         App!Hook, AppProofs!Hook, App!store, AppProofs!store, App!controller,
         AppProofs!controller, App!Answer, AppProofs!Answer, App!NoRequest,
         AppProofs!NoRequest, App!Nothing, AppProofs!Nothing, App!Code, AppProofs!Code,
         App!Handling, AppProofs!Handling, App!FaultPages, AppProofs!FaultPages,
         App!Raises, AppProofs!Raises, App!Accepted, AppProofs!Accepted

LEMMA SameMeddling ==
  ASSUME (\E arm \in Arms : App!Arm(arm)) \/ App!Reset
  PROVE  (\E arm \in Arms : AppProofs!Arm(arm)) \/ AppProofs!Reset
  BY DEF App!Arm, AppProofs!Arm, App!Key, AppProofs!Key, App!store, AppProofs!store,
         App!Reset, AppProofs!Reset

LEMMA SameReceive ==
  ASSUME NEW t, NEW ask, App!Receive(t, Agent, ask) PROVE AppProofs!Receive(t, Agent, ask)
  BY DEF App!Receive, AppProofs!Receive, App!store, AppProofs!store, App!controller,
         AppProofs!controller

\* What the tab does leaves the application alone; and its document is another
\* one only when it shows what arrived, or by a goto.
LEMMA TabMoves ==
  ASSUME Call \/ Show \/ UNCHANGED openingVars, document \in Documents
  PROVE  /\ UNCHANGED application
         /\ \/ /\ UNCHANGED <<sent, loading, arrived>>
               /\ document'.screen = document.screen /\ document'.token = document.token
            \/ /\ pc = "act" /\ live /\ Clicking /\ Behind(document, aim) # Nowhere
               /\ sent' = Append(sent, Behind(document, aim))
               /\ loading' = Len(sent) + 1 /\ arrived' = {} /\ UNCHANGED document
            \/ pc = "navigate" /\ document' = Origin /\ arrived' \subseteq arrived
            \/ document' \in arrived /\ arrived' = {} /\ loading' = 0 /\ UNCHANGED sent
<1>1. CASE \/ Think \/ Look \/ LookRaises \/ FillFails \/ GotoLoads \/ GotoTimesOut
           \/ ClickSettles \/ UNCHANGED openingVars
  BY <1>1 DEF Think, Look, LookRaises, FillFails, GotoLoads, GotoTimesOut, ClickSettles,
              Snapshot, GotoReturns, TimeOut, openingVars, surface
<1>2. CASE ClickWorks \/ ClickFails(TRUE) \/ ClickFails(FALSE)
  BY <1>2 DEF ClickWorks, ClickFails, Click, ClickGivesUp, Follow, ActSucceeds, ActFails
<1>3. CASE FillWorks
  <2>1. /\ document' \in {document, [document EXCEPT !.form = Typed]}
        /\ UNCHANGED <<sent, loading, arrived, application>>
    BY <1>3 DEF FillWorks, Touch
  <2>2. document'.screen = document.screen /\ document'.token = document.token
    BY <2>1 DEF Documents
  <2> QED
    BY <2>1, <2>2
<1>4. CASE StartGoto
  BY <1>4 DEF StartGoto, Goto, Follow
<1>5. CASE Show
  BY <1>5 DEF Show, Commit
<1> QED
  BY <1>1, <1>2, <1>3, <1>4, <1>5 DEF Call

\* The list of what was asked for only grows.
LEMMA SentGrows ==
  ASSUME TabTyped, [OpeningNext]_openingVars
  PROVE  /\ \A number \in DOMAIN sent : number \in DOMAIN sent' /\ sent'[number] = sent[number]
         /\ \/ UNCHANGED sent
            \/ \E ask : /\ sent' = Append(sent, ask)
                        /\ DOMAIN sent' = DOMAIN sent \cup {Len(sent) + 1}
                        /\ sent'[Len(sent) + 1] = ask
<1>1. CASE UNCHANGED sent
  BY <1>1
<1>2. ASSUME NEW ask, sent' = Append(sent, ask)
      PROVE  /\ \A number \in DOMAIN sent :
                  number \in DOMAIN sent' /\ sent'[number] = sent[number]
             /\ DOMAIN sent' = DOMAIN sent \cup {Len(sent) + 1}
             /\ sent'[Len(sent) + 1] = ask
  BY <1>2 DEF TabTyped
<1> QED
  BY <1>1, <1>2, ClickAsks

\* A thread serves what was sent under the number it has.
AsSent ==
  \A t \in Threads : stage[t] # "idle" =>
    /\ serves[t] \in DOMAIN sent
    /\ request[t].kind = sent[serves[t]].kind /\ request[t].about = sent[serves[t]].about
    /\ stage[t] = "show" => request[t].kind = "submit"

\* The token of a confirmation, and of a page that asks for one, was issued.
TokensExist ==
  /\ \A number \in DOMAIN sent :
       sent[number].kind = "confirm" => sent[number].about <= Len(issued)
  /\ \A doc \in arrived \cup {document} : doc.token <= Len(issued)

\* A step of a thread, as far as its stage goes.
LEMMA StageOfThread ==
  ASSUME AppTyped, NEW t \in Threads, App!Serve(t)
  PROVE  /\ stage[t] # "idle"
         /\ \A u \in Threads : u # t => stage'[u] = stage[u] /\ request'[u] = request[u]
         /\ stage'[t] # "idle" => request'[t] = request[t]
         /\ stage'[t] = "show" => request[t].kind = "submit"
<1>1. ASSUME NEW shows, App!Answer(t, shows)
      PROVE  stage'[t] = "idle" /\
             \A u \in Threads : u # t => stage'[u] = stage[u] /\ request'[u] = request[u]
  BY <1>1 DEF App!Answer, AppTyped
<1>2. ASSUME NEW s, stage' = [stage EXCEPT ![t] = s], UNCHANGED request
      PROVE  stage'[t] = s /\
             \A u \in Threads : u # t => stage'[u] = stage[u] /\ request'[u] = request[u]
  BY <1>2 DEF AppTyped
<1>3. CASE App!Peek(t)
  BY <1>2, <1>3 DEF App!Peek
<1>4. CASE App!Settle(t)
  BY <1>1, <1>2, <1>4 DEF App!Settle
<1>5. CASE App!IssueToken(t)
  BY <1>2, <1>5 DEF App!IssueToken, App!Handling
<1>6. CASE \/ App!ShowFault(t) \/ App!ShowPage(t) \/ App!CrashOnDeposit(t) \/ App!RefuseForm(t)
           \/ App!ShowConfirmation(t) \/ App!OpenAccount(t) \/ App!RefuseConfirmation(t)
  <2>1. stage[t] # "idle" /\ \E shows : App!Answer(t, shows)
    BY <1>6 DEF App!ShowFault, App!ShowPage, App!CrashOnDeposit, App!RefuseForm,
                App!ShowConfirmation, App!OpenAccount, App!RefuseConfirmation, App!Handling
  <2> QED
    BY <1>1, <2>1
<1> QED
  BY <1>3, <1>4, <1>5, <1>6 DEF App!Serve

\* What a request is answered with: a confirmation never with a page that leads
\* on, and success only by opening an account.
LEMMA WhatIsAnswered ==
  ASSUME AppTyped, AsSent, NEW t \in Threads, App!Serve(t), stage'[t] = "idle"
  PROVE  /\ answer' = "confirm" => held[t].token \in pending /\ UNCHANGED issued
         /\ request[t].kind = "confirm" => answer' \notin {"detail", "form", "errors", "confirm"}
         /\ answer' = "success" => App!OpenAccount(t)
<1>1. CASE App!Peek(t) \/ App!IssueToken(t)
  <2>1. stage'[t] # "idle"
    BY <1>1, PeekTyped, IssueTyped DEF App!Peek, App!IssueToken, AppTyped
  <2> QED
    BY <2>1
<1>2. CASE App!Settle(t)
  <2>1. CASE stage' = [stage EXCEPT ![t] = "handle"]
    BY <2>1 DEF AppTyped
  <2>2. CASE App!Answer(t, "server error")
    BY <2>2 DEF App!Answer
  <2> QED
    BY <1>2, <2>1, <2>2 DEF App!Settle
<1>3. CASE App!ShowFault(t)
  BY <1>3 DEF App!ShowFault, App!FaultPages, App!Answer
<1>4. CASE App!ShowPage(t)
  <2>1. request[t].kind \in {"none", "detail", "form", "submit", "confirm"}
    BY DEF AppTyped, App!NoRequest
  <2>2. request[t].kind \in {"detail", "form"}
    BY <1>4, <2>1 DEF App!ShowPage, App!Handling
  <2>3. request[t].about = "member"
    BY <2>2 DEF AppTyped
  <2>4. answer' \in {"detail", "form"}
    BY <1>4, <2>2, <2>3 DEF App!ShowPage, App!Answer
  <2> QED
    BY <2>2, <2>4
<1>5. CASE App!CrashOnDeposit(t) \/ App!RefuseForm(t)
  BY <1>5 DEF App!CrashOnDeposit, App!RefuseForm, App!Handling, App!Answer
<1>6. CASE App!ShowConfirmation(t)
  <2>1. request[t].kind = "submit"
    BY <1>6 DEF App!ShowConfirmation, AsSent
  <2> QED
    BY <1>6, <2>1 DEF App!ShowConfirmation, App!Answer, App!store
<1>7. CASE App!OpenAccount(t)
  BY <1>7 DEF App!OpenAccount, App!Answer
<1>8. CASE App!RefuseConfirmation(t)
  BY <1>8 DEF App!RefuseConfirmation, App!Answer
<1> QED
  BY <1>1, <1>2, <1>3, <1>4, <1>5, <1>6, <1>7, <1>8 DEF App!Serve

LEMMA AsSentStep == WellTyped /\ AsSent /\ [OpeningNext]_openingVars => AsSent'
<1> SUFFICES ASSUME WellTyped, AsSent, [OpeningNext]_openingVars PROVE AsSent'
  OBVIOUS
<1>1. \A number \in DOMAIN sent : number \in DOMAIN sent' /\ sent'[number] = sent[number]
  BY SentGrows DEF WellTyped
<1>2. ASSUME UNCHANGED <<stage, request, serves>> PROVE AsSent'
  BY <1>1, <1>2 DEF AsSent
<1>3. CASE Call \/ Show \/ UNCHANGED openingVars
  BY <1>2, <1>3, TabMoves DEF WellTyped, TabTyped, application
<1>4. CASE Meddle
  BY <1>2, <1>4 DEF Meddle, App!Arm, App!Reset
<1>5. ASSUME NEW t \in Threads, NEW number \in DOMAIN sent, Deliver(t, number) PROVE AsSent'
  <2>1. /\ stage'[t] # "show" /\ serves'[t] = number
        /\ request'[t].kind = sent[number].kind /\ request'[t].about = sent[number].about
    BY <1>5 DEF Deliver, App!Receive, WellTyped, AppTyped
  <2>2. \A u \in Threads : u # t =>
          stage'[u] = stage[u] /\ request'[u] = request[u] /\ serves'[u] = serves[u]
    BY <1>5 DEF Deliver, App!Receive, WellTyped, AppTyped
  <2> QED
    BY <1>1, <2>1, <2>2 DEF AsSent
<1>6. ASSUME NEW t \in Threads, Serve(t) PROVE AsSent'
  <2>1. App!Serve(t) /\ UNCHANGED serves
    BY <1>6 DEF Serve
  <2> QED
    BY <1>1, <2>1, StageOfThread DEF AsSent, WellTyped
<1> QED
  BY <1>3, <1>4, <1>5, <1>6 DEF OpeningNext

\* Tokens are never taken back.
LEMMA IssuedGrows ==
  ASSUME AppTyped, NEW t \in Threads, App!Serve(t)
  PROVE  Len(issued) \in Nat /\ Len(issued') \in Nat /\ Len(issued) <= Len(issued')
<1>1. PICK S : issued \in Seq(S)
  BY DEF AppTyped
<1>2. CASE UNCHANGED issued
  BY <1>1, <1>2
<1>3. ASSUME NEW e, issued' = Append(issued, e)
      PROVE  Len(issued') = Len(issued) + 1
  BY <1>1, <1>3
<1>4. CASE App!IssueToken(t)
  BY <1>1, <1>3, <1>4 DEF App!IssueToken
<1>5. CASE ~App!IssueToken(t)
  <2>1. UNCHANGED issued
    BY <1>5 DEF App!Serve, App!Peek, App!Settle, App!ShowFault, App!ShowPage,
         App!CrashOnDeposit, App!RefuseForm, App!ShowConfirmation, App!OpenAccount,
         App!RefuseConfirmation, App!store
  <2> QED
    BY <1>2, <2>1
<1> QED
  BY <1>4, <1>5

LEMMA TokensStep ==
  WellTyped /\ AsSent /\ TokensExist /\ AppProofs!AppInv /\ [OpeningNext]_openingVars
    => TokensExist'
<1> SUFFICES ASSUME WellTyped, AsSent, TokensExist, AppProofs!AppInv, [OpeningNext]_openingVars
             PROVE  TokensExist'
  OBVIOUS
<1>1. /\ document \in Documents /\ arrived \subseteq Documents /\ sent \in Seq(Requested)
      /\ Len(issued) \in Nat
  BY DEF WellTyped, TabTyped, AppTyped
<1>2. pending \subseteq 1..Len(issued)
  BY DEF AppProofs!AppInv, AppProofs!Tokens
<1>3. CASE Call \/ Show \/ UNCHANGED openingVars
  <2>1. UNCHANGED issued
    BY <1>1, <1>3, TabMoves DEF application
  <2>2. \A doc \in arrived' \cup {document'} : doc.token <= Len(issued)
    <3>1. Origin.token = 0
      BY OpeningAssumption
    <3> QED
      BY <1>1, <1>3, <3>1, TabMoves DEF TokensExist
  <2>3. \A number \in DOMAIN sent' :
          sent'[number].kind = "confirm" => sent'[number].about <= Len(issued)
    <3>1. CASE UNCHANGED sent
      BY <3>1 DEF TokensExist
    <3>2. ASSUME NEW ask, sent' = Append(sent, ask), ask.kind = "confirm" => ask.about <= Len(issued)
          PROVE  \A number \in DOMAIN sent' :
                   sent'[number].kind = "confirm" => sent'[number].about <= Len(issued)
      BY <1>1, <3>2 DEF TokensExist
    <3>3. Start.kind # "confirm"
      BY DEF Start
    <3>4. ASSUME Behind(document, aim).kind = "confirm", Behind(document, aim) # Nowhere
          PROVE  Behind(document, aim).about <= Len(issued)
      <4>1. document.screen = "confirm" /\ Control["confirm"] = aim
        BY <1>1, <3>4, BehindType
      <4>2. Behind(document, aim).about = document.token
        BY <3>4, <4>1 DEF Behind, Forms
      <4> QED
        BY <4>2 DEF TokensExist
    <3> QED
      BY <3>1, <3>2, <3>3, <3>4, ClickAsks
  <2> QED
    BY <2>1, <2>2, <2>3 DEF TokensExist
<1>4. CASE Meddle
  BY <1>4 DEF Meddle, App!Arm, App!Reset, App!store, surface, TokensExist
<1>5. ASSUME NEW t \in Threads, NEW number \in DOMAIN sent, Deliver(t, number)
      PROVE  TokensExist'
  BY <1>5 DEF Deliver, App!Receive, App!store, surface, TokensExist
<1>6. ASSUME NEW t \in Threads, Serve(t) PROVE TokensExist'
  <2>1. App!Serve(t) /\ UNCHANGED <<sent, document>>
    BY <1>6 DEF Serve, Arrive, surface
  <2>2. Len(issued') \in Nat /\ Len(issued) <= Len(issued')
    BY <2>1, IssuedGrows DEF WellTyped
  <2>3. \A number \in DOMAIN sent : sent[number].kind = "confirm" => sent[number].about \in Nat
    BY <1>1 DEF Requested
  <2>4. \A doc \in arrived' : doc.token \in Nat /\ doc.token <= Len(issued')
    <3>1. \A doc \in arrived : doc.token \in Nat /\ doc.token <= Len(issued')
      BY <1>1, <2>2 DEF TokensExist, Documents
    <3>2. CASE stage'[t] = "idle"
      <4> DEFINE answered ==
            [screen |-> answer',
             token  |-> IF answer' = "confirm" THEN held[t].token ELSE 0,
             form   |-> IF answer' = "errors" THEN request[t].about ELSE Empty]
      <4>1. Arrive(serves[t], answered)
        BY <1>6, <3>2 DEF Serve
      <4>2. answer' = "confirm" => held[t].token \in pending /\ UNCHANGED issued
        BY <2>1, <3>2, WhatIsAnswered DEF WellTyped
      <4>3. answer' = "confirm" => held[t].token \in Nat /\ held[t].token <= Len(issued')
        <5>1. SUFFICES ASSUME answer' = "confirm"
                       PROVE  held[t].token \in Nat /\ held[t].token <= Len(issued')
          OBVIOUS
        <5>2. held[t].token \in 1..Len(issued) /\ issued' = issued
          BY <1>2, <4>2, <5>1
        <5> DEFINE token == held[t].token
        <5>3. token \in 1..Len(issued)
          BY <5>2
        <5> HIDE DEF token
        <5>4. token \in Nat /\ token <= Len(issued)
          BY <1>1, <5>3
        <5> QED
          BY <5>2, <5>4 DEF token
      <4>4. answered.token = IF answer' = "confirm" THEN held[t].token ELSE 0
        OBVIOUS
      <4>5. answered.token \in Nat /\ answered.token <= Len(issued')
        BY <2>2, <4>3, <4>4
      <4> HIDE DEF answered
      <4> QED
        BY <3>1, <4>1, <4>5 DEF Arrive
    <3>3. CASE stage'[t] # "idle"
      BY <1>6, <3>1, <3>3 DEF Serve, surface
    <3> QED
      BY <3>2, <3>3
  <2>5. document.token \in Nat
    BY <1>1 DEF Documents
  <2> QED
    BY <1>1, <2>1, <2>2, <2>3, <2>4, <2>5 DEF TokensExist
<1> QED
  BY <1>3, <1>4, <1>5, <1>6 DEF OpeningNext

\* What the tab sends, the application can be asked for.
LEMMA ServedStep ==
  WellTyped /\ TokensExist /\ [OpeningNext]_openingVars => [AppProofs!Next]_(AppProofs!vars)
<1> SUFFICES ASSUME WellTyped, TokensExist, [OpeningNext]_openingVars
             PROVE  AppProofs!Next \/ UNCHANGED AppProofs!vars
  OBVIOUS
<1>1. ASSUME UNCHANGED application PROVE UNCHANGED AppProofs!vars
  BY <1>1 DEF application, AppProofs!vars, AppProofs!controller, AppProofs!store
<1>2. CASE Call \/ Show \/ UNCHANGED openingVars
  BY <1>1, <1>2, TabMoves DEF WellTyped, TabTyped
<1>3. CASE Meddle
  BY <1>3, SameMeddling DEF Meddle, AppProofs!Next
<1>4. ASSUME NEW t \in Threads, NEW number \in DOMAIN sent, Deliver(t, number)
      PROVE  AppProofs!Next
  <2>1. AppProofs!Receive(t, Agent, sent[number])
    BY <1>4, SameReceive DEF Deliver
  <2>2. sent[number] \in Requested /\ Len(issued) \in Nat
    BY DEF WellTyped, TabTyped, AppTyped
  <2>3. sent[number].kind = "confirm" => sent[number].about <= Len(issued)
    BY DEF TokensExist
  <2>4. sent[number] \in AppProofs!Asked
    BY <2>2, <2>3 DEF AppProofs!Asked, Requested, Told
  <2> QED
    BY <2>1, <2>4 DEF AppProofs!Next
<1>5. ASSUME NEW t \in Threads, Serve(t) PROVE AppProofs!Next
  BY <1>5, SameServe DEF Serve, AppProofs!Next
<1> QED
  BY <1>2, <1>3, <1>4, <1>5 DEF OpeningNext

LEMMA ServedInvariance ==
  OpeningSpec => []AsSent /\ []TokensExist /\ []AppProofs!AppInv /\ AppProofs!Spec
<1>1. OpeningInit => AsSent /\ TokensExist
  <2> SUFFICES ASSUME OpeningInit PROVE AsSent /\ TokensExist
    OBVIOUS
  <2>1. /\ sent = <<>> /\ document = Origin /\ arrived = {} /\ issued = <<>>
        /\ stage = [t \in Threads |-> "idle"]
    BY DEF OpeningInit, SurfaceInit, App!Init
  <2>2. Origin.token = 0
    BY OpeningAssumption
  <2> QED
    BY <2>1, <2>2 DEF AsSent, TokensExist
<1>2. OpeningInit => AppProofs!Init
  BY SameInit DEF OpeningInit
<1>3. AppProofs!Init => AppProofs!AppInv
  BY AppProofs!InitEstablishes, SameAssumption
<1>4. WellTyped /\ TokensExist /\ AppProofs!AppInv /\ [OpeningNext]_openingVars
        => AppProofs!AppInv'
  BY ServedStep, SameAssumption, AppProofs!StepPreserves
<1>5. OpeningSpec => []AsSent
  BY <1>1, AsSentStep, TypedInvariance, PTL DEF OpeningSpec
<1>6. OpeningSpec => [](TokensExist /\ AppProofs!AppInv)
  BY <1>1, <1>2, <1>3, <1>4, <1>5, TokensStep, TypedInvariance, PTL DEF OpeningSpec
<1> QED
  BY <1>2, <1>5, <1>6, ServedStep, TypedInvariance, PTL DEF OpeningSpec, AppProofs!Spec

\* The replay's tab asks the application for nothing TargetApp leaves out: with
\* an engine, a tab and a late network in front of it, the application behaves
\* as that module says, so that whatever is proved there holds here.
THEOREM OpeningServesTheApp == OpeningSpec => AppProofs!Spec
  BY ServedInvariance, PTL

\* Among it: acts that are retried on top of their own requests confirm a token
\* once.
LEMMA ConfirmedOnceHere == OpeningSpec => []AppProofs!OneAccountPerToken
  BY OpeningServesTheApp, SameAssumption, AppProofs!ConfirmedOnce, PTL

(***************************************************************************)
(* Success is an account.                                                  *)
(***************************************************************************)

AccountOpened == \E token \in DOMAIN opened : opened[token] > 0

\* A page of success, shown or on its way, tells of an account.
SuccessIsServed ==
  /\ (\E doc \in arrived \cup {document} : doc.screen = "success") => AccountOpened
  /\ (result # None /\ result.status = "success") => AccountOpened

\* Only a confirmation opens an account, and none is closed.
LEMMA WhatIsOpened ==
  ASSUME WellTyped, AppProofs!AppInv, NEW t \in Threads, App!Serve(t)
  PROVE  /\ \A token \in DOMAIN opened :
              opened[token] > 0 => token \in DOMAIN opened' /\ opened'[token] > 0
         /\ \A token \in DOMAIN opened' : opened'[token] > 0 =>
              \/ token \in DOMAIN opened /\ opened[token] > 0
              \/ request[t].kind = "confirm" /\ request[t].about = token
         /\ App!OpenAccount(t) => AccountOpened'
<1>1. opened \in Seq(Nat) /\ pending \subseteq DOMAIN opened
  BY DEF AppProofs!AppInv, AppProofs!Tokens
<1>2. CASE App!OpenAccount(t)
  <2> DEFINE token == request[t].about
  <2>1. /\ request[t].kind = "confirm" /\ token \in pending
        /\ opened' = [opened EXCEPT ![token] = @ + 1]
    BY <1>2 DEF App!OpenAccount, App!Handling
  <2>2. token \in DOMAIN opened
    BY <1>1, <2>1
  <2> HIDE DEF token
  <2>3. /\ DOMAIN opened' = DOMAIN opened
        /\ \A k \in DOMAIN opened : opened[k] \in Nat
        /\ \A k \in DOMAIN opened : opened'[k] = IF k = token THEN opened[k] + 1 ELSE opened[k]
    BY <1>1, <2>1
  <2>4. opened'[token] > 0
    BY <2>2, <2>3
  <2> QED
    BY <2>1, <2>2, <2>3, <2>4 DEF AccountOpened, token
<1>3. CASE ~App!OpenAccount(t)
  <2>1. opened' = opened \/ opened' = Append(opened, 0)
    BY <1>3 DEF App!Serve, App!Peek, App!Settle, App!ShowFault, App!ShowPage,
         App!CrashOnDeposit, App!RefuseForm, App!IssueToken, App!ShowConfirmation,
         App!RefuseConfirmation, App!store
  <2> QED
    BY <1>1, <1>3, <2>1
<1> QED
  BY <1>2, <1>3

\* The verdict of success is given on the page of success, with nothing done.
LEMMA VerdictOfSuccess ==
  ASSUME WellTyped, Inv, [Next]_vars, result' # None, result'.status = "success"
  PROVE  \/ result # None /\ result.status = "success"
         \/ document.screen = "success"
<1>1. CASE result # None
  BY <1>1, VerdictStays DEF Inv
<1>2. CASE result = None
  <2>2. ASSUME KnownOutcome(seen') # 0,
               Return(Capability.outcomes[KnownOutcome(seen')].category, KnownOutcome(seen'), seen')
        PROVE  FALSE
    BY <2>2, OutcomeCategory DEF Category, Return
  <2>3. ASSUME NEW status, NEW outcome, NEW last, Return(status, outcome, last),
               status # "success"
        PROVE  FALSE
    BY <2>3 DEF Return
  <2>4. CASE Finish
    <3>1. seen' = page /\ IsResolved(seen', [tiers  |-> <<Capability.checkpoint>>,
                                           policy |-> "escalate_on_ambiguous"])
      BY <2>2, <2>3, <2>4 DEF Finish, Observe
    <3>2. page = Shows[document.screen] /\ document.screen \in Screens
      BY DEF WellTyped, OpeningTypeOK
    <3> QED
      BY <3>1, <3>2, CheckpointAssumption
  <2>5. CASE ValidateInputs \/ FindTarget \/ ActSucceeds \/ NavigateSucceeds \/ PageChanges
             \/ UNCHANGED vars
    BY <1>2, <2>5 DEF ValidateInputs, FindTarget, ActSucceeds, NavigateSucceeds, PageChanges, vars
  <2>6. CASE RefuseInputs \/ RaiseUnreachable \/ ObserveRaises
    BY <2>3, <2>6 DEF RefuseInputs, RaiseUnreachable, ObserveRaises
  <2>7. CASE CheckGuard \/ MissTarget \/ ActFails \/ NavigateFails
    BY <1>2, <2>3, <2>7 DEF CheckGuard, MissTarget, ActFails, NavigateFails
  <2>8. CASE FindOutcome
    BY <2>2, <2>8 DEF FindOutcome
  <2> QED
    BY <2>4, <2>5, <2>6, <2>7, <2>8 DEF Next, Engine
<1> QED
  BY <1>1, <1>2

LEMMA SuccessIsServedStep ==
  /\ WellTyped /\ Inv /\ AsSent /\ AppProofs!AppInv /\ SuccessIsServed
  /\ [OpeningNext]_openingVars
  => SuccessIsServed'
<1> SUFFICES ASSUME WellTyped, Inv, AsSent, AppProofs!AppInv, SuccessIsServed,
                    [OpeningNext]_openingVars
             PROVE  SuccessIsServed'
  OBVIOUS
<1>1. AccountOpened => AccountOpened'
  <2>1. CASE \E t \in Threads : Serve(t)
    BY <2>1, WhatIsOpened DEF Serve, AccountOpened
  <2>2. CASE ~(\E t \in Threads : Serve(t))
    <3>1. UNCHANGED opened
      BY <2>2, TabMoves DEF OpeningNext, Deliver, Meddle, App!Receive, App!Arm, App!Reset,
         App!store, application, WellTyped, TabTyped
    <3> QED
      BY <3>1 DEF AccountOpened
  <2> QED
    BY <2>1, <2>2
<1>2. (result' # None /\ result'.status = "success") => AccountOpened'
  BY <1>1, EngineStep, VerdictOfSuccess DEF SuccessIsServed
<1>3. (\E doc \in arrived' \cup {document'} : doc.screen = "success") => AccountOpened'
  <2>1. CASE Call \/ Show \/ UNCHANGED openingVars
    <3>1. \A doc \in arrived' \cup {document'} :
            \E was \in arrived \cup {document, Origin} : doc.screen = was.screen
      BY <2>1, TabMoves DEF WellTyped, TabTyped
    <3>2. Origin.screen # "success"
      BY OpeningAssumption
    <3> QED
      BY <1>1, <3>1, <3>2 DEF SuccessIsServed
  <2>2. CASE \/ Meddle
             \/ \E t \in Threads, number \in DOMAIN sent : Deliver(t, number)
    <3>1. UNCHANGED surface
      BY <2>2 DEF Meddle, Deliver
    <3> QED
      BY <1>1, <3>1 DEF surface, SuccessIsServed
  <2>3. ASSUME NEW t \in Threads, Serve(t)
        PROVE  (\E doc \in arrived' \cup {document'} : doc.screen = "success") => AccountOpened'
    <3>1. CASE stage'[t] = "idle"
      <4> DEFINE answered ==
            [screen |-> answer',
             token  |-> IF answer' = "confirm" THEN held[t].token ELSE 0,
             form   |-> IF answer' = "errors" THEN request[t].about ELSE Empty]
      <4>1. Arrive(serves[t], answered) /\ answered.screen = answer'
        BY <2>3, <3>1 DEF Serve
      <4>2. answer' = "success" => AccountOpened'
        BY <2>3, <3>1, WhatIsAnswered, WhatIsOpened DEF Serve, WellTyped
      <4> HIDE DEF answered
      <4> QED
        BY <1>1, <4>1, <4>2 DEF Arrive, SuccessIsServed
    <3>2. CASE stage'[t] # "idle"
      BY <1>1, <2>3, <3>2 DEF Serve, surface, SuccessIsServed
    <3> QED
      BY <3>1, <3>2
  <2> QED
    BY <2>1, <2>2, <2>3 DEF OpeningNext
<1> QED
  BY <1>2, <1>3 DEF SuccessIsServed

(***************************************************************************)
(* One account is opened, however the step that confirms is retried.       *)
(***************************************************************************)

\* While the step that confirmed is still at it, nothing leads to another token:
\* the page is the one it confirmed on, or what a confirmation is answered with.
NowhereElse(number) ==
  /\ document.screen = "confirm" => document.token = sent[number].about
  /\ document.screen \in DOMAIN Control => document.screen = "confirm"
  /\ loading = 0 \/ sent[loading].kind = "confirm"
  /\ \A doc \in arrived : doc.screen \notin DOMAIN Control

\* It was sent by the step that confirms, which is at it or behind the cursor.
ByTheOneStep(number) ==
  \E c \in 1..N : LeadsOn(c, "confirm") /\ c <= step /\ (step = c => NowhereElse(number))

\* All confirmations are of one token, and of one step.
OneTokenConfirmed ==
  \A number \in DOMAIN sent : sent[number].kind = "confirm" =>
    /\ \A other \in DOMAIN sent :
         sent[other].kind = "confirm" => sent[other].about = sent[number].about
    /\ ByTheOneStep(number)

\* What has been opened was confirmed.
OpenedWasConfirmed ==
  \A token \in DOMAIN opened : opened[token] > 0 =>
    \E number \in DOMAIN sent : sent[number].kind = "confirm" /\ sent[number].about = token

LEMMA CursorMoves ==
  ASSUME Inv, [Next]_vars PROVE step \in Int /\ step' \in {step, step + 1}
<1>1. N \in Nat /\ step \in 1..(N + 1)
  BY CapabilityAssumption DEF Inv, TypeOK
<1>2. ActSucceeds \/ NavigateSucceeds => step' = step + 1
  BY DEF ActSucceeds, NavigateSucceeds, Proceed
<1>3. UNCHANGED vars \/ PageChanges => UNCHANGED step
  BY DEF vars, PageChanges
<1>4. ASSUME Engine, ~(ActSucceeds \/ NavigateSucceeds) PROVE UNCHANGED step
  BY <1>4 DEF Engine, ValidateInputs, RefuseInputs, CheckGuard, FindOutcome, FindTarget,
              MissTarget, RaiseUnreachable, ActFails, NavigateFails, Finish, ObserveRaises
<1> QED
  BY <1>1, <1>2, <1>3, <1>4 DEF Next

\* A click that follows something is on a page that leads on; on the page of
\* the confirmation it asks for that page's token to be confirmed.
LEMMA BehindLeadsOn ==
  ASSUME NEW doc, NEW element, Behind(doc, element) # Nowhere
  PROVE  /\ doc.screen \in DOMAIN Control
         /\ doc.screen = "confirm" =>
              Behind(doc, element).kind = "confirm" /\ Behind(doc, element).about = doc.token
  BY DEF Behind, Forms

\* What a step of the tab's keeps of NowhereElse, the sending of another
\* confirmation apart.
LEMMA NowhereElseKept ==
  ASSUME WellTyped, AsSent, Sighted, [OpeningNext]_openingVars,
         NEW number \in DOMAIN sent, NowhereElse(number), step \in 1..N,
         LeadsOn(step, "confirm"),
         \A other \in DOMAIN sent' : sent'[other].kind = "confirm" => other \in DOMAIN sent
  PROVE  NowhereElse(number)'
<1>1. /\ sent \in Seq(Requested) /\ document \in Documents /\ arrived \subseteq Documents
      /\ loading \in {0, Len(sent)} /\ (arrived # {} => loading # 0)
  BY DEF WellTyped, TabTyped, OpeningTypeOK
<1>2. \A other \in DOMAIN sent : other \in DOMAIN sent' /\ sent'[other] = sent[other]
  BY <1>1, SentGrows DEF WellTyped, TabTyped
<1>3. loading = 0 \/ loading \in DOMAIN sent
  <2>1. CASE loading = 0
    BY <2>1
  <2>2. CASE loading # 0
    <3>1. loading = Len(sent) /\ Len(sent) \in Nat /\ DOMAIN sent = 1..Len(sent)
      BY <1>1, <2>2
    <3> QED
      BY <2>2, <3>1
  <2> QED
    BY <2>1, <2>2
<1>4. "confirm" \in DOMAIN Control /\ DOMAIN Control = {"detail", "confirm", "form", "errors"}
  BY OpeningAssumption DEF Forms
<1>5. ASSUME UNCHANGED <<sent, loading, arrived>>,
             document'.screen = document.screen, document'.token = document.token
      PROVE  NowhereElse(number)'
  BY <1>5 DEF NowhereElse
<1>6. CASE Call \/ Show \/ UNCHANGED openingVars
  <2>1. CASE pc = "act" /\ Behind(document, aim) # Nowhere
             /\ sent' = Append(sent, Behind(document, aim))
    <3>1. document.screen = "confirm" /\ Behind(document, aim).kind = "confirm"
      BY <2>1, BehindLeadsOn DEF NowhereElse
    <3>2. /\ Len(sent) + 1 \in DOMAIN sent' /\ Len(sent) + 1 \notin DOMAIN sent
          /\ sent'[Len(sent) + 1] = Behind(document, aim)
      BY <1>1, <2>1
    <3> QED
      BY <3>1, <3>2
  <2>2. pc # "navigate"
    BY DEF Sighted, LeadsOn
  <2>3. CASE document' \in arrived /\ arrived' = {} /\ loading' = 0 /\ UNCHANGED sent
    BY <1>4, <2>3 DEF NowhereElse
  <2> QED
    BY <1>1, <1>5, <1>6, <2>1, <2>2, <2>3, TabMoves
<1>7. CASE \/ Meddle
           \/ \E t \in Threads, other \in DOMAIN sent : Deliver(t, other)
  <2>1. UNCHANGED surface
    BY <1>7 DEF Meddle, Deliver
  <2> QED
    BY <1>5, <2>1 DEF surface
<1>8. ASSUME NEW t \in Threads, Serve(t) PROVE NowhereElse(number)'
  <2>1. App!Serve(t)
    BY <1>8 DEF Serve
  <2>2. CASE stage'[t] = "idle"
    <3> DEFINE answered ==
          [screen |-> answer',
           token  |-> IF answer' = "confirm" THEN held[t].token ELSE 0,
           form   |-> IF answer' = "errors" THEN request[t].about ELSE Empty]
    <3>1. Arrive(serves[t], answered) /\ answered.screen = answer'
      BY <1>8, <2>2 DEF Serve
    <3>2. serves[t] = loading => answer' \notin DOMAIN Control
      <4>1. serves[t] \in DOMAIN sent /\ request[t].kind = sent[serves[t]].kind
        BY <2>1, StageOfThread DEF WellTyped, AsSent
      <4>2. serves[t] # 0
        BY <1>1, <4>1
      <4> QED
        BY <1>4, <2>1, <2>2, <4>1, <4>2, WhatIsAnswered DEF NowhereElse, WellTyped
    <3> HIDE DEF answered
    <3> QED
      BY <3>1, <3>2 DEF Arrive, NowhereElse
  <2>3. CASE stage'[t] # "idle"
    BY <1>5, <1>8, <2>3 DEF Serve, surface
  <2> QED
    BY <2>2, <2>3
<1> QED
  BY <1>6, <1>7, <1>8 DEF OpeningNext

LEMMA OneTokenStep ==
  /\ WellTyped /\ Inv /\ Sighted /\ Fresh /\ AsSent /\ OneTokenConfirmed
  /\ [OpeningNext]_openingVars
  => OneTokenConfirmed'
<1> SUFFICES ASSUME WellTyped, Inv, Sighted, Fresh, AsSent, OneTokenConfirmed,
                    [OpeningNext]_openingVars
             PROVE  OneTokenConfirmed'
  OBVIOUS
<1>1. sent \in Seq(Requested) /\ Len(sent) \in Nat /\ DOMAIN sent = 1..Len(sent)
  BY DEF WellTyped, TabTyped
<1>2. \A number \in DOMAIN sent : number \in DOMAIN sent' /\ sent'[number] = sent[number]
  BY SentGrows DEF WellTyped
<1>3. step \in Int /\ step' \in {step, step + 1}
  BY EngineStep, CursorMoves
<1>4. CASE \E other \in DOMAIN sent' \ DOMAIN sent : sent'[other].kind = "confirm"
  <2>1. sent' # sent
    BY <1>4
  <2>2. Start.kind # "confirm"
    BY DEF Start
  <2>3. /\ pc = "act" /\ live /\ Clicking /\ Behind(document, aim) # Nowhere
        /\ Behind(document, aim).kind = "confirm"
        /\ sent' = Append(sent, Behind(document, aim))
    <3>1. ASSUME NEW ask, sent' = Append(sent, ask) PROVE ask.kind = "confirm"
      BY <1>1, <1>4, <3>1
    <3> QED
      BY <2>1, <2>2, <3>1, ClickAsks
  <2>4. step \in 1..N /\ document.screen = "confirm" /\ LeadsOn(step, "confirm")
    BY <2>3, ConfirmingLeadsOn
  <2>5. Behind(document, aim).about = document.token
    BY <2>3, <2>4, BehindLeadsOn
  <2>6. DOMAIN sent' = DOMAIN sent \cup {Len(sent) + 1}
        /\ sent'[Len(sent) + 1] = Behind(document, aim)
    BY <1>1, <2>3
  <2>7. ASSUME NEW number \in DOMAIN sent, sent[number].kind = "confirm"
        PROVE  sent[number].about = document.token
    <3>1. PICK c \in 1..N : LeadsOn(c, "confirm") /\ (step = c => NowhereElse(number))
      BY <2>7 DEF OneTokenConfirmed, ByTheOneStep
    <3>2. c = step
      BY <2>4, <3>1, OneConfirmation
    <3> QED
      BY <2>4, <3>1, <3>2 DEF NowhereElse
  <2>8. \A number \in DOMAIN sent' :
          sent'[number].kind = "confirm" => sent'[number].about = document.token
    BY <1>2, <2>5, <2>6, <2>7
  <2>9. UNCHANGED document /\ loading' = Len(sent) + 1 /\ arrived' = {}
    <3>1. ClickWorks \/ ClickFails(TRUE)
      BY <2>1, <2>3, ClickAsks
    <3> QED
      BY <2>3, <3>1 DEF ClickWorks, ClickFails, Click, ClickGivesUp, Follow
  <2>10. \A number \in DOMAIN sent' : sent'[number].kind = "confirm" => NowhereElse(number)'
    BY <2>3, <2>4, <2>6, <2>8, <2>9 DEF NowhereElse
  <2> QED
    BY <1>3, <2>4, <2>8, <2>10 DEF OneTokenConfirmed, ByTheOneStep
<1>5. CASE \A other \in DOMAIN sent' : sent'[other].kind = "confirm" => other \in DOMAIN sent
  <2> SUFFICES ASSUME NEW number \in DOMAIN sent, sent[number].kind = "confirm"
               PROVE  ByTheOneStep(number)'
    BY <1>2, <1>5 DEF OneTokenConfirmed
  <2>1. PICK c \in 1..N : LeadsOn(c, "confirm") /\ c <= step /\ (step = c => NowhereElse(number))
    BY DEF OneTokenConfirmed, ByTheOneStep
  <2>2. ASSUME step' = c PROVE step = c
    BY <1>3, <2>1, <2>2
  <2>3. ASSUME step = c PROVE NowhereElse(number)'
    BY <1>5, <2>1, <2>3, NowhereElseKept
  <2> QED
    BY <1>3, <2>1, <2>2, <2>3 DEF ByTheOneStep
<1> QED
  BY <1>4, <1>5

LEMMA OpenedStep ==
  WellTyped /\ AsSent /\ AppProofs!AppInv /\ OpenedWasConfirmed /\ [OpeningNext]_openingVars
    => OpenedWasConfirmed'
<1> SUFFICES ASSUME WellTyped, AsSent, AppProofs!AppInv, OpenedWasConfirmed,
                    [OpeningNext]_openingVars
             PROVE  OpenedWasConfirmed'
  OBVIOUS
<1>1. \A number \in DOMAIN sent : number \in DOMAIN sent' /\ sent'[number] = sent[number]
  BY SentGrows DEF WellTyped
<1>2. ASSUME NEW t \in Threads, Serve(t) PROVE OpenedWasConfirmed'
  <2>1. App!Serve(t)
    BY <1>2 DEF Serve
  <2>2. serves[t] \in DOMAIN sent /\ request[t].kind = sent[serves[t]].kind
        /\ request[t].about = sent[serves[t]].about
    BY <2>1, StageOfThread DEF WellTyped, AsSent
  <2> QED
    BY <1>1, <2>1, <2>2, WhatIsOpened DEF OpenedWasConfirmed
<1>3. CASE ~(\E t \in Threads : Serve(t))
  <2>1. UNCHANGED opened
    BY <1>3, TabMoves DEF OpeningNext, Deliver, Meddle, App!Receive, App!Arm, App!Reset,
       App!store, application, WellTyped, TabTyped
  <2> QED
    BY <1>1, <2>1 DEF OpenedWasConfirmed
<1> QED
  BY <1>2, <1>3

\* The confirmations sent are of one token, whatever was opened was confirmed,
\* and a page of success tells of an account.
LEMMA AccountsOfConfirmations ==
  OpeningSpec => []OneTokenConfirmed /\ []OpenedWasConfirmed /\ []SuccessIsServed
<1>1. OpeningInit => OneTokenConfirmed /\ OpenedWasConfirmed
  BY DEF OpeningInit, SurfaceInit, App!Init, OneTokenConfirmed, OpenedWasConfirmed
<1>2. OpeningInit => SuccessIsServed
  <2> SUFFICES ASSUME OpeningInit PROVE SuccessIsServed
    OBVIOUS
  <2>1. arrived = {} /\ document = Origin /\ result = None
    BY DEF OpeningInit, SurfaceInit, Init
  <2>2. Origin.screen # "success"
    BY OpeningAssumption
  <2> QED
    BY <2>1, <2>2 DEF SuccessIsServed
<1>3. OpeningSpec => []OneTokenConfirmed
  BY <1>1, OneTokenStep, TypedInvariance, EngineInvariance, FreshInvariance, ServedInvariance,
     PTL DEF OpeningSpec
<1>4. OpeningSpec => []OpenedWasConfirmed
  BY <1>1, OpenedStep, TypedInvariance, ServedInvariance, PTL DEF OpeningSpec
<1>5. OpeningSpec => []SuccessIsServed
  BY <1>2, SuccessIsServedStep, TypedInvariance, EngineInvariance, ServedInvariance, PTL
     DEF OpeningSpec
<1> QED
  BY <1>3, <1>4, <1>5, PTL

\* An artifact whose one step confirms opens one account at most, however often
\* that step is retried on top of a confirmation that is still on its way, and
\* whichever faults, late pages and resets come in between.
THEOREM OneAccountIsOpened == OpeningSpec => []OneAccountPerReplay
<1>1. ASSUME OneTokenConfirmed, OpenedWasConfirmed, AppProofs!OneAccountPerToken, WellTyped
      PROVE  OneAccountPerReplay
  <2> SUFFICES ASSUME NEW i \in DOMAIN opened, NEW j \in DOMAIN opened,
                      opened[i] > 0, opened[j] > 0
               PROVE  i = j /\ opened[i] = 1
    BY DEF OneAccountPerReplay
  <2>1. i = j
    BY <1>1 DEF OneTokenConfirmed, OpenedWasConfirmed
  <2>2. opened[i] \in Nat /\ opened[i] <= 1
    BY <1>1 DEF WellTyped, AppTyped, AppProofs!OneAccountPerToken
  <2> QED
    BY <2>1, <2>2
<1> QED
  BY <1>1, AccountsOfConfirmations, ConfirmedOnceHere, TypedInvariance, PTL

\* SUCCESS is true of the application: when only the page of success shows the
\* checkpoint, and one step confirms, a replay that reports it has opened one
\* account with the token of every confirmation it sent, whatever came late, was
\* retried, reset or given up.
THEOREM SuccessIsAnAccount == OpeningSpec => []SuccessMeansOpened
<1>1. ASSUME SuccessIsServed, OneTokenConfirmed, OpenedWasConfirmed,
             AppProofs!OneAccountPerToken, WellTyped
      PROVE  SuccessMeansOpened
  <2> DEFINE confirmed == {sent[number].about :
                             number \in {n \in DOMAIN sent : sent[n].kind = "confirm"}}
  <2> SUFFICES ASSUME AccountOpened
               PROVE  \E token \in DOMAIN opened : opened[token] = 1 /\ confirmed = {token}
    BY <1>1 DEF SuccessIsServed, SuccessMeansOpened
  <2>1. PICK token \in DOMAIN opened : opened[token] > 0
    BY DEF AccountOpened
  <2>2. opened[token] \in Nat /\ opened[token] <= 1
    BY <1>1, <2>1 DEF WellTyped, AppTyped, AppProofs!OneAccountPerToken
  <2>3. token \in confirmed
    BY <1>1, <2>1 DEF OpenedWasConfirmed
  <2>4. \A other \in confirmed : other = token
    BY <1>1, <2>1 DEF OpenedWasConfirmed, OneTokenConfirmed
  <2> HIDE DEF confirmed
  <2> QED
    BY <2>1, <2>2, <2>3, <2>4
<1> QED
  BY <1>1, AccountsOfConfirmations, ConfirmedOnceHere, TypedInvariance, PTL
=============================================================================
