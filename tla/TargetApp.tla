------------------------------- MODULE TargetApp -------------------------------
(***************************************************************************)
(* The mock back office of cua.target_app: the routes of app.py, the fault *)
(* controller of faults.py and the one-time tokens of data.py.             *)
(*                                                                         *)
(* The routes are plain functions, so the server runs each request on a    *)
(* thread of its own over one shared AppState.  A request is cut where a   *)
(* thread may be switched out between two accesses to that state: in the   *)
(* middle of FaultController.consume, between consume and the rest of the  *)
(* handler (which may sleep there), and between pending.create and         *)
(* pending.get.  Lists and faults are objects: a thread that holds one     *)
(* keeps it when the dictionary forgets it, so they are numbered.          *)
(***************************************************************************)
EXTENDS Integers, Sequences, FiniteSets

CONSTANTS Sessions,     \* session cookies
          Threads,      \* bound: requests in flight at once
          Overlap,      \* may one session have two requests in flight?
          Asks,         \* what is asked for, confirmations apart: [kind, about]
          Arms,         \* the faults that may be armed: [session, hook, code, occurrences]
          MaxFaults,    \* bound: faults armed in all
          MaxTokens     \* bound: tokens issued in all

Hooks == {"search", "detail", "subaccount_new_submit", "subaccount_confirm"}
FaultPages == {"session_timeout", "permission_denied", "surprise_dialog"}
FaultCodes == FaultPages \cup {"slow_load", "validation_error"}

\* What a submitted form holds, as far as the handler tells forms apart.
Deposits == {"enough", "low", "not a number", "infinite", "minus infinity"}
Forms == [deposit : Deposits, complete : BOOLEAN]

ASSUME TargetAppAssumption ==
  /\ Overlap \in BOOLEAN
  /\ MaxFaults \in Nat /\ MaxTokens \in Nat
  /\ \A ask \in Asks :
       \/ ask.kind \in {"search", "detail", "form"} /\ ask.about \in {"member", "stranger"}
       \/ ask.kind = "search_form" /\ ask.about = "nothing"
       \/ ask.kind = "submit" /\ ask.about \in Forms
  /\ \A arm \in Arms : /\ arm.session \in Sessions /\ arm.hook \in Hooks
                       /\ arm.code \in FaultCodes /\ arm.occurrences \in Int

VARIABLES armed,     \* the controller's dictionary: (session, hook) to list, 0 if absent
          lists,     \* the list objects: sequences of faults
          faults,    \* the fault objects: what was armed, and the occurrences left
          shown,     \* history: requests each fault was returned to, by session and hook
          pending,   \* the tokens in the store
          issued,    \* history: the form behind each token
          opened,    \* history: accounts opened with each token
          resets,    \* history: the tokens that resets threw away
          request,   \* what each thread serves: [session, kind, about]
          stage,     \* where it is: "idle", "peek", "settle", "handle", "show"
          held,      \* the list and the fault consume() returned to it, and the
                     \* token it issued, 0 for none
          answer     \* the page the server answered with last

store == <<pending, issued, opened, resets>>
controller == <<armed, lists, faults, shown>>
vars == <<controller, store, request, stage, held, answer>>

NoRequest == [session |-> "none", kind |-> "none", about |-> "nothing"]
Nothing == [list |-> 0, fault |-> 0, token |-> 0]

Init ==
  /\ armed = [key \in Sessions \X Hooks |-> 0]
  /\ lists = <<>> /\ faults = <<>> /\ shown = <<>>
  /\ pending = {} /\ issued = <<>> /\ opened = <<>> /\ resets = {}
  /\ request = [t \in Threads |-> NoRequest]
  /\ stage = [t \in Threads |-> "idle"]
  /\ held = [t \in Threads |-> Nothing]
  /\ answer = "none"

-----------------------------------------------------------------------------
(***************************************************************************)
(* The debug routes.                                                       *)
(***************************************************************************)

\* Mutant: every session shares the faults of a hook.
KeyOfHook(session, hook) == <<CHOOSE s \in Sessions : TRUE, hook>>

Key(session, hook) == <<session, hook>>

\* FaultController.arm
Arm(arm) ==
  LET key   == Key(arm.session, arm.hook)
      fault == [session |-> arm.session, hook |-> arm.hook, code |-> arm.code,
                occurrences |-> arm.occurrences, left |-> arm.occurrences]
      id    == Len(faults) + 1
  IN  /\ id <= MaxFaults
      /\ faults' = Append(faults, fault)
      /\ shown' = Append(shown, <<>>)
      /\ IF armed[key] = 0
         THEN /\ lists' = Append(lists, <<id>>)
              /\ armed' = [armed EXCEPT ![key] = Len(lists) + 1]
         ELSE /\ lists' = [lists EXCEPT ![armed[key]] = Append(@, id)]
              /\ UNCHANGED armed
      /\ UNCHANGED <<store, request, stage, held, answer>>

\* FaultController.clear, of one hook or of all: the lists are dropped from the
\* dictionary, not emptied.
Clear(session, hooks) ==
  /\ armed' = [key \in DOMAIN armed |->
                 IF key[1] = session /\ key[2] \in hooks THEN 0 ELSE armed[key]]
  /\ UNCHANGED <<lists, faults, shown, store, request, stage, held, answer>>

\* reset_state puts a new store and a new controller in the old ones' place.
Reset ==
  /\ armed' = [key \in DOMAIN armed |-> 0]
  /\ pending' = {}
  /\ resets' = resets \cup pending
  /\ UNCHANGED <<lists, faults, shown, issued, opened, request, stage, held, answer>>

-----------------------------------------------------------------------------
(***************************************************************************)
(* A request comes in; a handler without a hook skips check_fault.         *)
(***************************************************************************)

Hook(kind) == CASE kind \in {"search_form", "search"} -> "search"
                [] kind = "detail"  -> "detail"
                [] kind = "submit"  -> "subaccount_new_submit"
                [] kind = "confirm" -> "subaccount_confirm"

\* 0 is a token nobody was given.
Asked == Asks \cup [kind : {"confirm"}, about : 0..Len(issued)]

Receive(t, session, ask) ==
  /\ stage[t] = "idle"
  /\ \A other \in Threads :
       stage[other] # "idle" /\ request[other].session = session => Overlap
  /\ request' = [request EXCEPT ![t] = [session |-> session, kind |-> ask.kind,
                                        about |-> ask.about]]
  /\ stage' = [stage EXCEPT ![t] = IF ask.kind = "form" THEN "handle" ELSE "peek"]
  /\ UNCHANGED <<controller, store, held, answer>>

Answer(t, page) ==
  /\ answer' = page
  /\ stage' = [stage EXCEPT ![t] = "idle"]
  /\ request' = [request EXCEPT ![t] = NoRequest]
  /\ held' = [held EXCEPT ![t] = Nothing]

\* The first half of FaultController.consume: the head of the queue is read and
\* copied (a call, at which the thread may be switched out).
Peek(t) ==
  LET key == Key(request[t].session, Hook(request[t].kind))
      q   == armed[key]
  IN  /\ stage[t] = "peek"
      /\ IF q # 0 /\ lists[q] # <<>>
         THEN /\ held' = [held EXCEPT ![t].list = q, ![t].fault = Head(lists[q])]
              /\ shown' = [shown EXCEPT ![Head(lists[q])] =
                             Append(@, Key(request[t].session, Hook(request[t].kind)))]
              /\ stage' = [stage EXCEPT ![t] = "settle"]
         ELSE /\ stage' = [stage EXCEPT ![t] = "handle"]
              /\ UNCHANGED <<held, shown>>
      /\ UNCHANGED <<armed, lists, faults, store, request, answer>>

\* Mutant: a fault lasts one occurrence too long.
SettleLate(t) ==
  LET f == held[t].fault
      q == held[t].list
  IN  /\ stage[t] = "settle"
      /\ faults' = [faults EXCEPT ![f].left = @ - 1]
      /\ IF faults'[f].left < 0
         THEN /\ lists' = [lists EXCEPT ![q] = Tail(@)]
              /\ stage' = [stage EXCEPT ![t] = "handle"]
         ELSE stage' = [stage EXCEPT ![t] = "handle"] /\ UNCHANGED lists
      /\ UNCHANGED <<armed, shown, store, request, held, answer>>

\* The second half: the fault is counted down, and the queue popped once it is
\* used up.  Popping an empty list raises, and the server answers 500.
Settle(t) ==
  LET f == held[t].fault
      q == held[t].list
  IN  /\ stage[t] = "settle"
      /\ faults' = [faults EXCEPT ![f].left = @ - 1]
      /\ \/ /\ faults'[f].left > 0
            /\ stage' = [stage EXCEPT ![t] = "handle"]
            /\ UNCHANGED <<lists, request, held, answer>>
         \/ /\ faults'[f].left <= 0 /\ lists[q] # <<>>
            /\ lists' = [lists EXCEPT ![q] = Tail(@)]
            /\ stage' = [stage EXCEPT ![t] = "handle"]
            /\ UNCHANGED <<request, held, answer>>
         \/ /\ faults'[f].left <= 0 /\ lists[q] = <<>>
            /\ Answer(t, "server error")
            /\ UNCHANGED lists
      /\ UNCHANGED <<armed, shown, store>>

-----------------------------------------------------------------------------
(***************************************************************************)
(* The rest of the handler.                                                *)
(***************************************************************************)

Code(t) == IF held[t].fault = 0 THEN "none" ELSE faults[held[t].fault].code

\* render_generic_fault answers in the handler's place.
ShowFault(t) ==
  /\ stage[t] = "handle"
  /\ Code(t) \in FaultPages
  /\ Answer(t, Code(t))
  /\ UNCHANGED <<controller, store>>

\* It does not: there is no fault, it was a delay, or it is the handler's job
\* (which only that of the sub-account form does: elsewhere it is dropped).
Handling(t, kinds) ==
  /\ stage[t] = "handle"
  /\ Code(t) \notin FaultPages
  /\ request[t].kind \in kinds

\* get_search, post_search, get_detail and get_subaccount_new only look up.
ShowPage(t) ==
  LET known == request[t].about = "member"
  IN  /\ Handling(t, {"search_form", "search", "detail", "form"})
      /\ Answer(t, CASE request[t].kind = "search_form"      -> "search"
                     [] request[t].kind = "search" /\ known  -> "redirect to detail"
                     [] request[t].kind = "detail" /\ known  -> "detail"
                     [] request[t].kind = "form" /\ known    -> "form"
                     [] OTHER                                -> "not found")
      /\ UNCHANGED <<controller, store>>

\* post_subaccount_new: round() of an infinite deposit raises OverflowError,
\* which is not the ValueError the handler catches.
Raises(form) == form.deposit \in {"infinite", "minus infinity"}
Accepted(form) == form.deposit = "enough" /\ form.complete

CrashOnDeposit(t) ==
  /\ Handling(t, {"submit"})
  /\ Code(t) # "validation_error"
  /\ Raises(request[t].about)
  /\ Answer(t, "server error")
  /\ UNCHANGED <<controller, store>>

RefuseForm(t) ==
  /\ Handling(t, {"submit"})
  /\ \/ Code(t) = "validation_error"
     \/ ~Raises(request[t].about) /\ ~Accepted(request[t].about)
  /\ Answer(t, "errors")
  /\ UNCHANGED <<controller, store>>

\* Mutant: the forced validation error does not stop the form.
IssueTokenAnyway(t) ==
  /\ Handling(t, {"submit"})
  /\ Accepted(request[t].about)
  /\ Len(issued) < MaxTokens
  /\ issued' = Append(issued, [form |-> request[t].about, code |-> Code(t)])
  /\ pending' = pending \cup {Len(issued) + 1}
  /\ opened' = Append(opened, 0)
  /\ held' = [held EXCEPT ![t].token = Len(issued) + 1]
  /\ stage' = [stage EXCEPT ![t] = "show"]
  /\ UNCHANGED <<controller, resets, request, answer>>

\* pending.create, under a token nobody else has.
IssueToken(t) ==
  /\ Handling(t, {"submit"})
  /\ Code(t) # "validation_error"
  /\ Accepted(request[t].about)
  /\ Len(issued) < MaxTokens
  /\ issued' = Append(issued, [form |-> request[t].about, code |-> Code(t)])
  /\ pending' = pending \cup {Len(issued) + 1}
  /\ opened' = Append(opened, 0)
  /\ held' = [held EXCEPT ![t].token = Len(issued) + 1]
  /\ stage' = [stage EXCEPT ![t] = "show"]
  /\ UNCHANGED <<controller, resets, request, answer>>

\* pending.get, on whichever store is there by now; None breaks the template.
ShowConfirmation(t) ==
  /\ stage[t] = "show"
  /\ Answer(t, IF held[t].token \in pending THEN "confirm" ELSE "server error")
  /\ UNCHANGED <<controller, store>>

\* Mutant: the token is looked up and left in the store.
OpenAccountAgain(t) ==
  LET token == request[t].about
  IN  /\ Handling(t, {"confirm"})
      /\ token \in pending
      /\ opened' = [opened EXCEPT ![token] = @ + 1]
      /\ Answer(t, "success")
      /\ UNCHANGED <<controller, pending, issued, resets>>

\* post_subaccount_confirm: pending.consume takes the token, once.
OpenAccount(t) ==
  LET token == request[t].about
  IN  /\ Handling(t, {"confirm"})
      /\ token \in pending
      /\ pending' = pending \ {token}
      /\ opened' = [opened EXCEPT ![token] = @ + 1]
      /\ Answer(t, "success")
      /\ UNCHANGED <<controller, issued, resets>>

\* Mutant: the token is taken before the fault is shown.
RefuseConfirmationTaken(t) ==
  /\ stage[t] = "handle"
  /\ request[t].kind = "confirm"
  /\ Code(t) \in FaultPages \/ request[t].about \notin pending
  /\ pending' = pending \ {request[t].about}
  /\ Answer(t, "expired")
  /\ UNCHANGED <<controller, issued, opened, resets>>

RefuseConfirmation(t) ==
  /\ Handling(t, {"confirm"})
  /\ request[t].about \notin pending
  /\ Answer(t, "expired")
  /\ UNCHANGED <<controller, store>>

Serve(t) == \/ Peek(t) \/ Settle(t) \/ ShowFault(t) \/ ShowPage(t)
            \/ CrashOnDeposit(t) \/ RefuseForm(t) \/ IssueToken(t) \/ ShowConfirmation(t)
            \/ OpenAccount(t) \/ RefuseConfirmation(t)

Next == \/ \E arm \in Arms : Arm(arm)
        \/ \E session \in Sessions, hooks \in {Hooks} \cup {{h} : h \in Hooks} :
             Clear(session, hooks)
        \/ Reset
        \/ \E t \in Threads, session \in Sessions, ask \in Asked : Receive(t, session, ask)
        \/ \E t \in Threads : Serve(t)

Spec == Init /\ [][Next]_vars

-----------------------------------------------------------------------------
\* Type correctness: what the threads, the dictionary and the store refer to
\* exists.
TypeOK ==
  /\ \A key \in DOMAIN armed : armed[key] \in 0..Len(lists)
  /\ \A q \in DOMAIN lists : \A i \in DOMAIN lists[q] : lists[q][i] \in DOMAIN faults
  /\ Len(shown) = Len(faults) /\ Len(opened) = Len(issued)
  /\ pending \subseteq DOMAIN issued
  /\ \A t \in Threads :
       /\ stage[t] \in {"idle", "peek", "settle", "handle", "show"}
       /\ stage[t] = "settle" => held[t].fault \in DOMAIN faults
       /\ stage[t] = "show" => held[t].token \in DOMAIN issued

\* "One-time use": however often and however concurrently a confirmation is
\* submitted, resubmitted after a fault or repeated by another session, one
\* account at most is opened with it.
OneAccountPerToken == \A token \in DOMAIN opened : opened[token] <= 1

\* Nothing is opened, or ever could be, from a form the handler did not accept:
\* a forced validation error leaves no token behind.
OnlyAcceptedFormsHaveTokens ==
  \A token \in DOMAIN issued :
    Accepted(issued[token].form) /\ issued[token].code # "validation_error"

\* A confirmation answered with a time-out, a denial or a dialog can be sent
\* again: a token leaves the store only by opening its account or by a reset.
ConfirmationSurvivesFaults ==
  \A token \in DOMAIN issued :
    \/ token \in pending
    \/ opened[token] = 1
    \/ token \in resets

\* "Faults for one session are invisible to every other session ... and faults
\* for one hook point don't leak into another", whoever arms, clears, resets
\* and asks at the same time.
FaultsStayWhereArmed ==
  \A f \in DOMAIN faults : \A i \in DOMAIN shown[f] :
    shown[f][i] = <<faults[f].session, faults[f].hook>>

\* The "next armed fault" is returned "decrementing its remaining occurrences
\* and dropping it once exhausted": to as many requests as it has occurrences
\* (or to one), and it is not dropped before.
DeliveredAsArmed ==
  \A f \in DOMAIN faults :
    LET due    == IF faults[f].occurrences < 1 THEN 1 ELSE faults[f].occurrences
        queued == \E q \in DOMAIN lists : \E i \in DOMAIN lists[q] : lists[q][i] = f
    IN  /\ Len(shown[f]) <= due
        /\ queued \/ Len(shown[f]) = due
=============================================================================
