--------------------------- MODULE TargetApp_proofs ---------------------------
(***************************************************************************)
(* Proofs about TargetApp, for any sessions, threads, requests and faults, *)
(* overlapping requests of one session included.                           *)
(***************************************************************************)
EXTENDS TargetApp, TLAPS

Keys == Sessions \X Hooks
Kinds == {"search_form", "search", "detail", "form", "submit", "confirm"}
Abouts == Forms \cup {"member", "stranger", "nothing"} \cup Nat
ArmedFault == [session : Sessions, hook : Hooks, code : FaultCodes, occurrences : Int, left : Int]
Token == [form : Forms, code : FaultCodes \cup {"none"}]

\* Every thread that is at work serves a request of a session, and what it
\* holds exists.
Requests ==
  /\ request \in [Threads -> [session : Sessions \cup {"none"}, kind : Kinds \cup {"none"},
                              about : Abouts]]
  /\ stage \in [Threads -> {"idle", "peek", "settle", "handle", "show"}]
  /\ held \in [Threads -> [list : Nat, fault : Nat, token : Nat]]
  /\ \A t \in Threads :
       /\ stage[t] # "idle" => request[t].session \in Sessions
       /\ stage[t] = "peek" => request[t].kind \in Kinds \ {"form"}
       /\ request[t].kind = "submit" => request[t].about \in Forms
       /\ held[t].fault \in 0..Len(faults)
       /\ stage[t] = "settle" => held[t].list \in DOMAIN lists /\ held[t].fault # 0
       /\ stage[t] = "show" => held[t].token \in DOMAIN issued

\* What is stored is well formed, and refers to what exists.
Objects ==
  /\ armed \in [Keys -> 0..Len(lists)]
  /\ lists \in Seq(Seq(Nat))
  /\ faults \in Seq(ArmedFault)
  /\ shown \in Seq(Seq(Keys))
  /\ Len(shown) = Len(faults)
  /\ \A q \in DOMAIN lists : \A i \in DOMAIN lists[q] : lists[q][i] \in DOMAIN faults

\* The dictionary's lists hold faults of their own key only, and no list is
\* under two keys.
Queues ==
  /\ \A key \in Keys : armed[key] # 0 =>
       \A i \in DOMAIN lists[armed[key]] :
         <<faults[lists[armed[key]][i]].session, faults[lists[armed[key]][i]].hook>> = key
  /\ \A one, other \in Keys : (armed[one] = armed[other] /\ armed[one] # 0) => one = other

\* A token in the store has opened nothing yet; one that is gone has opened its
\* one account or was thrown away.
Tokens ==
  /\ issued \in Seq(Token) /\ opened \in Seq(Nat) /\ Len(opened) = Len(issued)
  /\ pending \subseteq DOMAIN issued
  /\ \A token \in DOMAIN issued :
       /\ opened[token] <= 1
       /\ token \in pending => opened[token] = 0

AppInv == Requests /\ Objects /\ Queues /\ Tokens /\ FaultsStayWhereArmed
          /\ OnlyAcceptedFormsHaveTokens /\ ConfirmationSurvivesFaults

LEMMA InitEstablishes == Init => AppInv
<1> SUFFICES ASSUME Init PROVE AppInv
  OBVIOUS
<1>1. Requests
  BY DEF Init, Requests, NoRequest, Nothing, Abouts
<1>2. Objects
  BY DEF Init, Objects, Keys
<1>3. Queues /\ FaultsStayWhereArmed
  BY DEF Init, Queues, Keys, FaultsStayWhereArmed
<1>4. Tokens /\ OnlyAcceptedFormsHaveTokens /\ ConfirmationSurvivesFaults
  BY DEF Init, Tokens, OnlyAcceptedFormsHaveTokens, ConfirmationSurvivesFaults
<1> QED
  BY <1>1, <1>2, <1>3, <1>4 DEF AppInv

(***************************************************************************)
(* The threads.                                                            *)
(***************************************************************************)

\* A thread that has answered is as it was before it was asked anything.
LEMMA AnswerFrees ==
  ASSUME Requests, Objects, NEW t \in Threads, NEW page, Answer(t, page),
         Len(faults') = Len(faults), DOMAIN lists' = DOMAIN lists, UNCHANGED issued
  PROVE  Requests'
<1>1. request' \in [Threads -> [session : Sessions \cup {"none"}, kind : Kinds \cup {"none"},
                                about : Abouts]]
  BY DEF Requests, Answer, NoRequest, Abouts
<1>2. /\ stage' \in [Threads -> {"idle", "peek", "settle", "handle", "show"}]
      /\ held' \in [Threads -> [list : Nat, fault : Nat, token : Nat]]
  BY DEF Requests, Answer, Nothing
<1>3. ASSUME NEW u \in Threads
      PROVE  /\ stage'[u] # "idle" => request'[u].session \in Sessions
             /\ stage'[u] = "peek" => request'[u].kind \in Kinds \ {"form"}
             /\ request'[u].kind = "submit" => request'[u].about \in Forms
             /\ held'[u].fault \in 0..Len(faults')
             /\ stage'[u] = "settle" => held'[u].list \in DOMAIN lists' /\ held'[u].fault # 0
             /\ stage'[u] = "show" => held'[u].token \in DOMAIN issued'
  <2>1. CASE u = t
    <3>1. stage'[u] = "idle" /\ request'[u] = NoRequest /\ held'[u] = Nothing
      BY <2>1 DEF Requests, Answer
    <3>2. Len(faults') \in Nat
      BY DEF Objects
    <3> QED
      BY <3>1, <3>2 DEF NoRequest, Nothing
  <2>2. CASE u # t
    <3>1. stage'[u] = stage[u] /\ request'[u] = request[u] /\ held'[u] = held[u]
      BY <2>2 DEF Requests, Answer
    <3> QED
      BY <3>1 DEF Requests
  <2> QED
    BY <2>1, <2>2
<1> QED
  BY <1>1, <1>2, <1>3 DEF Requests

(***************************************************************************)
(* The debug routes.                                                       *)
(***************************************************************************)

LEMMA ArmStep ==
  ASSUME AppInv, NEW arm \in Arms, Arm(arm)
  PROVE  AppInv'
<1> DEFINE key == Key(arm.session, arm.hook)
           fault == [session |-> arm.session, hook |-> arm.hook, code |-> arm.code,
                     occurrences |-> arm.occurrences, left |-> arm.occurrences]
           id == Len(faults) + 1
<1> USE DEF AppInv
<1>1. /\ key \in Keys /\ fault \in ArmedFault /\ key = <<fault.session, fault.hook>>
      /\ id \in Nat /\ Len(lists) \in Nat
  BY TargetAppAssumption DEF Key, Keys, ArmedFault, Objects
<1>2. /\ faults' = Append(faults, fault) /\ shown' = Append(shown, <<>>)
      /\ UNCHANGED <<pending, issued, opened, resets, request, stage, held>>
      /\ \/ /\ armed[key] = 0 /\ lists' = Append(lists, <<id>>)
            /\ armed' = [armed EXCEPT ![key] = Len(lists) + 1]
         \/ /\ armed[key] # 0 /\ armed' = armed
            /\ lists' = [lists EXCEPT ![armed[key]] = Append(@, id)]
  BY DEF Arm, store
<1>3. /\ faults' \in Seq(ArmedFault) /\ Len(faults') = id /\ faults'[id] = fault
      /\ \A f \in DOMAIN faults : f \in DOMAIN faults' /\ f # id /\ faults'[f] = faults[f]
      /\ DOMAIN faults' = DOMAIN faults \cup {id}
  BY <1>1, <1>2 DEF Objects
<1>4. /\ shown' \in Seq(Seq(Keys)) /\ Len(shown') = id /\ shown'[id] = <<>>
      /\ \A f \in DOMAIN faults : shown'[f] = shown[f]
  BY <1>1, <1>2 DEF Objects
<1> HIDE DEF fault, id, key
<1>5. Objects' /\ Queues' /\ DOMAIN lists \subseteq DOMAIN lists'
  <2>1. CASE armed[key] = 0
    <3>1. /\ lists' = Append(lists, <<id>>) /\ armed' = [armed EXCEPT ![key] = Len(lists) + 1]
      BY <1>2, <2>1
    <3>2. /\ lists' \in Seq(Seq(Nat)) /\ Len(lists') = Len(lists) + 1
          /\ lists'[Len(lists) + 1] = <<id>>
          /\ \A q \in DOMAIN lists : q \in DOMAIN lists' /\ lists'[q] = lists[q]
          /\ DOMAIN lists' = DOMAIN lists \cup {Len(lists) + 1}
      BY <1>1, <3>1 DEF Objects
    <3>3. /\ armed' \in [Keys -> 0..Len(lists')] /\ armed'[key] = Len(lists) + 1
          /\ \A other \in Keys \ {key} : armed'[other] = armed[other]
      BY <1>1, <3>1, <3>2 DEF Objects
    <3>4. Objects'
      <4>1. ASSUME NEW q \in DOMAIN lists', NEW i \in DOMAIN lists'[q]
            PROVE  lists'[q][i] \in DOMAIN faults'
        <5>1. CASE q \in DOMAIN lists
          BY <1>3, <3>2, <5>1 DEF Objects
        <5>2. CASE q = Len(lists) + 1
          BY <1>3, <3>2, <5>2
        <5> QED
          BY <3>2, <5>1, <5>2
      <4> QED
        BY <1>3, <1>4, <3>2, <3>3, <4>1 DEF Objects
    <3>5. ASSUME NEW other \in Keys, armed'[other] # 0, NEW i \in DOMAIN lists'[armed'[other]]
          PROVE  <<faults'[lists'[armed'[other]][i]].session,
                   faults'[lists'[armed'[other]][i]].hook>> = other
      <4>1. CASE other = key
        BY <1>1, <1>3, <3>2, <3>3, <3>5, <4>1
      <4>2. CASE other # key
        <5>1. armed'[other] = armed[other] /\ armed[other] \in DOMAIN lists
          BY <3>3, <3>5, <4>2 DEF Objects
        <5>2. lists'[armed'[other]] = lists[armed[other]]
          BY <3>2, <5>1
        <5>3. lists[armed[other]][i] \in DOMAIN faults
          BY <3>5, <5>1, <5>2 DEF Objects
        <5> QED
          BY <1>3, <3>5, <5>1, <5>2, <5>3 DEF Queues
      <4> QED
        BY <4>1, <4>2
    <3>6. ASSUME NEW one \in Keys, NEW other \in Keys, armed'[one] = armed'[other], armed'[one] # 0
          PROVE  one = other
      <4>1. \A k \in Keys : armed[k] # Len(lists) + 1
        BY <1>1 DEF Objects
      <4> QED
        BY <3>3, <3>6, <4>1 DEF Queues
    <3> QED
      BY <3>2, <3>4, <3>5, <3>6 DEF Queues
  <2>2. CASE armed[key] # 0
    <3> DEFINE q == armed[key]
    <3>1. /\ armed' = armed /\ lists' = [lists EXCEPT ![q] = Append(@, id)]
      BY <1>2, <2>2
    <3>2. q \in DOMAIN lists /\ lists[q] \in Seq(Nat)
      BY <1>1, <2>2 DEF Objects
    <3> HIDE DEF q
    <3>3. /\ lists' \in Seq(Seq(Nat)) /\ Len(lists') = Len(lists) /\ DOMAIN lists' = DOMAIN lists
          /\ lists'[q] = Append(lists[q], id)
          /\ \A p \in DOMAIN lists \ {q} : lists'[p] = lists[p]
      BY <1>1, <3>1, <3>2 DEF Objects
    <3>4. \A i \in DOMAIN lists'[q] :
            (i \in DOMAIN lists[q] /\ lists'[q][i] = lists[q][i]) \/ lists'[q][i] = id
      BY <1>1, <3>2, <3>3
    <3>5. Objects'
      <4>1. ASSUME NEW p \in DOMAIN lists', NEW i \in DOMAIN lists'[p]
            PROVE  lists'[p][i] \in DOMAIN faults'
        <5>1. CASE p = q
          BY <1>3, <3>2, <3>4, <5>1 DEF Objects
        <5>2. CASE p # q
          BY <1>3, <3>3, <5>2 DEF Objects
        <5> QED
          BY <5>1, <5>2
      <4> QED
        BY <1>3, <1>4, <3>1, <3>3, <4>1 DEF Objects
    <3>6. ASSUME NEW other \in Keys, armed'[other] # 0, NEW i \in DOMAIN lists'[armed'[other]]
          PROVE  <<faults'[lists'[armed'[other]][i]].session,
                   faults'[lists'[armed'[other]][i]].hook>> = other
      <4>1. armed'[other] = armed[other] /\ armed[other] \in DOMAIN lists
        BY <3>1, <3>6 DEF Objects
      <4>2. CASE armed[other] = q
        <5>1. other = key
          BY <1>1, <2>2, <4>2 DEF Queues, q
        <5>2. CASE lists'[q][i] = id
          BY <1>1, <1>3, <4>1, <4>2, <5>1, <5>2
        <5>3. CASE i \in DOMAIN lists[q] /\ lists'[q][i] = lists[q][i]
          <6>1. lists[q][i] \in DOMAIN faults
            BY <3>2, <5>3 DEF Objects
          <6> QED
            BY <1>3, <3>6, <4>1, <4>2, <5>3, <6>1 DEF Queues
        <5> QED
          BY <3>4, <3>6, <4>1, <4>2, <5>2, <5>3
      <4>3. CASE armed[other] # q
        <5>1. lists'[armed'[other]] = lists[armed[other]]
          BY <3>3, <4>1, <4>3
        <5>2. lists[armed[other]][i] \in DOMAIN faults
          BY <3>6, <4>1, <5>1 DEF Objects
        <5> QED
          BY <1>3, <3>6, <4>1, <5>1, <5>2 DEF Queues
      <4> QED
        BY <4>2, <4>3
    <3>7. \A one, other \in Keys : (armed'[one] = armed'[other] /\ armed'[one] # 0) => one = other
      BY <3>1 DEF Queues
    <3> QED
      BY <3>3, <3>5, <3>6, <3>7 DEF Queues
  <2> QED
    BY <2>1, <2>2
<1>6. Requests'
  <2>1. \A n : n \in 0..Len(faults) => n \in 0..Len(faults')
    BY <1>1, <1>3 DEF id, Objects
  <2> QED
    BY <1>2, <1>5, <2>1 DEF Requests
<1>7. Tokens' /\ OnlyAcceptedFormsHaveTokens' /\ ConfirmationSurvivesFaults'
  BY <1>2 DEF Tokens, OnlyAcceptedFormsHaveTokens, ConfirmationSurvivesFaults
<1>8. FaultsStayWhereArmed'
  <2> SUFFICES ASSUME NEW f \in DOMAIN faults', NEW i \in DOMAIN shown'[f]
               PROVE  shown'[f][i] = <<faults'[f].session, faults'[f].hook>>
    BY DEF FaultsStayWhereArmed
  <2>1. CASE f = id
    BY <1>4, <2>1
  <2>2. CASE f \in DOMAIN faults
    BY <1>3, <1>4, <2>2 DEF FaultsStayWhereArmed
  <2> QED
    BY <1>3, <2>1, <2>2
<1> QED
  BY <1>5, <1>6, <1>7, <1>8

\* Clear and Reset: the dictionary forgets lists, and knows no other for it.
LEMMA ForgetStep ==
  ASSUME AppInv, armed' \in [Keys -> 0..Len(lists)],
         \A key \in Keys : armed'[key] \in {0, armed[key]},
         UNCHANGED <<lists, faults, shown>>
  PROVE  Objects' /\ Queues' /\ FaultsStayWhereArmed'
<1>1. Objects'
  BY DEF AppInv, Objects
<1>2. Queues'
  BY DEF AppInv, Queues
<1>3. FaultsStayWhereArmed'
  BY DEF AppInv, FaultsStayWhereArmed
<1> QED
  BY <1>1, <1>2, <1>3

LEMMA ClearStep ==
  ASSUME AppInv, NEW session, NEW hooks, Clear(session, hooks)
  PROVE  AppInv'
<1>1. /\ UNCHANGED <<lists, faults, shown, store, request, stage, held>>
      /\ armed' = [key \in Keys |->
                     IF key[1] = session /\ key[2] \in hooks THEN 0 ELSE armed[key]]
  BY DEF Clear, AppInv, Objects
<1>2. Objects' /\ Queues' /\ FaultsStayWhereArmed'
  <2>1. armed' \in [Keys -> 0..Len(lists)]
    BY <1>1 DEF AppInv, Objects
  <2>2. \A key \in Keys : armed'[key] \in {0, armed[key]}
    BY <1>1
  <2> QED
    BY <1>1, <2>1, <2>2, ForgetStep
<1>3. Requests'
  BY <1>1 DEF AppInv, Requests, store
<1>4. Tokens' /\ OnlyAcceptedFormsHaveTokens' /\ ConfirmationSurvivesFaults'
  BY <1>1 DEF AppInv, Tokens, OnlyAcceptedFormsHaveTokens, ConfirmationSurvivesFaults, store
<1> QED
  BY <1>2, <1>3, <1>4 DEF AppInv

LEMMA ResetStep ==
  ASSUME AppInv, Reset
  PROVE  AppInv'
<1>1. /\ UNCHANGED <<lists, faults, shown, issued, opened, request, stage, held>>
      /\ armed' = [key \in Keys |-> 0] /\ pending' = {} /\ resets' = resets \cup pending
  BY DEF Reset, AppInv, Objects
<1>2. Objects' /\ Queues' /\ FaultsStayWhereArmed'
  <2>1. armed' \in [Keys -> 0..Len(lists)]
    BY <1>1 DEF AppInv, Objects
  <2>2. \A key \in Keys : armed'[key] \in {0, armed[key]}
    BY <1>1
  <2> QED
    BY <1>1, <2>1, <2>2, ForgetStep
<1>3. Requests'
  BY <1>1 DEF AppInv, Requests
<1>4. Tokens' /\ OnlyAcceptedFormsHaveTokens' /\ ConfirmationSurvivesFaults'
  BY <1>1 DEF AppInv, Tokens, OnlyAcceptedFormsHaveTokens, ConfirmationSurvivesFaults
<1> QED
  BY <1>2, <1>3, <1>4 DEF AppInv

(***************************************************************************)
(* The steps of a request.                                                 *)
(***************************************************************************)

\* What a step that leaves the controller alone need not look at.
LEMMA ControllerKept ==
  ASSUME AppInv, UNCHANGED controller
  PROVE  Objects' /\ Queues' /\ FaultsStayWhereArmed'
<1>1. Objects'
  BY DEF AppInv, Objects, controller
<1>2. Queues' /\ FaultsStayWhereArmed'
  BY DEF AppInv, Queues, FaultsStayWhereArmed, controller
<1> QED
  BY <1>1, <1>2

LEMMA StoreKept ==
  ASSUME AppInv, UNCHANGED store
  PROVE  Tokens' /\ OnlyAcceptedFormsHaveTokens' /\ ConfirmationSurvivesFaults'
BY DEF AppInv, Tokens, OnlyAcceptedFormsHaveTokens, ConfirmationSurvivesFaults, store

LEMMA ReceiveStep ==
  ASSUME AppInv, NEW t \in Threads, NEW session \in Sessions, NEW ask \in Asked,
         Receive(t, session, ask)
  PROVE  AppInv'
<1>1. /\ ask.kind \in Kinds /\ ask.about \in Abouts
      /\ ask.kind = "submit" => ask.about \in Forms
  <2>1. CASE ask \in Asks
    BY <2>1, TargetAppAssumption DEF Kinds, Abouts
  <2>2. CASE ask \in [kind : {"confirm"}, about : 0..Len(issued)]
    <3>1. Len(issued) \in Nat
      BY DEF AppInv, Tokens
    <3> QED
      BY <2>2, <3>1 DEF Kinds, Abouts
  <2> QED
    BY <2>1, <2>2 DEF Asked
<1> DEFINE asked == [session |-> session, kind |-> ask.kind, about |-> ask.about]
           begun == IF ask.kind = "form" THEN "handle" ELSE "peek"
<1>2. /\ request' = [request EXCEPT ![t] = asked]
      /\ stage' = [stage EXCEPT ![t] = begun]
      /\ UNCHANGED <<controller, store, held>>
  BY DEF Receive
<1>3. Requests'
  <2>1. /\ request' \in [Threads -> [session : Sessions \cup {"none"}, kind : Kinds \cup {"none"},
                                     about : Abouts]]
        /\ stage' \in [Threads -> {"idle", "peek", "settle", "handle", "show"}]
    BY <1>1, <1>2 DEF AppInv, Requests
  <2>2. ASSUME NEW u \in Threads
        PROVE  /\ stage'[u] # "idle" => request'[u].session \in Sessions
               /\ stage'[u] = "peek" => request'[u].kind \in Kinds \ {"form"}
               /\ request'[u].kind = "submit" => request'[u].about \in Forms
               /\ held'[u].fault \in 0..Len(faults')
               /\ stage'[u] = "settle" => held'[u].list \in DOMAIN lists' /\ held'[u].fault # 0
               /\ stage'[u] = "show" => held'[u].token \in DOMAIN issued'
    <3>1. held' = held /\ faults' = faults /\ lists' = lists /\ issued' = issued
      BY <1>2 DEF controller, store
    <3>2. CASE u = t
      <4>1. request'[u] = asked /\ stage'[u] = begun
        BY <1>2, <3>2 DEF AppInv, Requests
      <4> QED
        BY <1>1, <3>1, <4>1 DEF AppInv, Requests
    <3>3. CASE u # t
      <4>1. request'[u] = request[u] /\ stage'[u] = stage[u]
        BY <1>2, <3>3 DEF AppInv, Requests
      <4> QED
        BY <3>1, <4>1 DEF AppInv, Requests
    <3> QED
      BY <3>2, <3>3
  <2> QED
    BY <1>2, <2>1, <2>2 DEF AppInv, Requests
<1> QED
  BY <1>2, <1>3, ControllerKept, StoreKept DEF AppInv

\* The fault that a request is given heads the list of the request's own key.
LEMMA PeekStep ==
  ASSUME AppInv, NEW t \in Threads, Peek(t)
  PROVE  AppInv'
<1> DEFINE key == Key(request[t].session, Hook(request[t].kind))
           q == armed[key]
           f == Head(lists[q])
<1>1. key \in Keys
  <2>1. request[t].session \in Sessions /\ request[t].kind \in Kinds \ {"form"}
    BY DEF Peek, AppInv, Requests
  <2>2. Hook(request[t].kind) \in Hooks
    BY <2>1 DEF Hook, Hooks, Kinds
  <2> QED
    BY <2>1, <2>2 DEF Key, Keys
<1>2. /\ stage[t] = "peek"
      /\ UNCHANGED <<armed, lists, faults, store, request>>
      /\ \/ /\ q # 0 /\ lists[q] # <<>>
            /\ held' = [held EXCEPT ![t].list = q, ![t].fault = f]
            /\ shown' = [shown EXCEPT ![f] = Append(@, key)]
            /\ stage' = [stage EXCEPT ![t] = "settle"]
         \/ stage' = [stage EXCEPT ![t] = "handle"] /\ UNCHANGED <<held, shown>>
  BY DEF Peek
<1>3. Tokens' /\ OnlyAcceptedFormsHaveTokens' /\ ConfirmationSurvivesFaults'
  BY <1>2, StoreKept
<1> HIDE DEF key, q, f
<1>4. CASE /\ q # 0 /\ lists[q] # <<>>
           /\ held' = [held EXCEPT ![t].list = q, ![t].fault = f]
           /\ shown' = [shown EXCEPT ![f] = Append(@, key)]
           /\ stage' = [stage EXCEPT ![t] = "settle"]
  <2>1. q \in DOMAIN lists /\ lists[q] \in Seq(Nat)
    BY <1>1, <1>4 DEF AppInv, Objects, q
  <2>2. 1 \in DOMAIN lists[q] /\ f = lists[q][1]
    BY <1>4, <2>1 DEF f
  <2>3. f \in DOMAIN faults /\ f # 0 /\ f \in Nat
    BY <2>1, <2>2 DEF AppInv, Objects
  <2>4. <<faults[f].session, faults[f].hook>> = key
    BY <1>1, <1>4, <2>2 DEF AppInv, Queues, q
  <2>5. shown \in Seq(Seq(Keys)) /\ DOMAIN shown = DOMAIN faults /\ Len(shown) = Len(faults)
    BY DEF AppInv, Objects
  <2>6. /\ shown' \in Seq(Seq(Keys)) /\ Len(shown') = Len(shown) /\ DOMAIN shown' = DOMAIN shown
        /\ shown'[f] = Append(shown[f], key) /\ shown[f] \in Seq(Keys)
        /\ \A g \in DOMAIN shown \ {f} : shown'[g] = shown[g]
    BY <1>1, <1>4, <2>3, <2>5
  <2>7. Objects' /\ Queues'
    BY <1>2, <2>6 DEF AppInv, Objects, Queues
  <2>8. FaultsStayWhereArmed'
    <3> SUFFICES ASSUME NEW g \in DOMAIN faults', NEW i \in DOMAIN shown'[g]
                 PROVE  shown'[g][i] = <<faults'[g].session, faults'[g].hook>>
      BY DEF FaultsStayWhereArmed
    <3>1. faults' = faults
      BY <1>2
    <3>2. CASE g = f
      <4>1. (i \in DOMAIN shown[f] /\ shown'[f][i] = shown[f][i]) \/ shown'[f][i] = key
        BY <1>1, <2>6, <3>2
      <4> QED
        BY <2>3, <2>4, <3>1, <3>2, <4>1 DEF AppInv, FaultsStayWhereArmed
    <3>3. CASE g # f
      <4>1. g \in DOMAIN shown \ {f}
        BY <2>5, <3>1, <3>3
      <4> QED
        BY <2>6, <3>1, <4>1 DEF AppInv, FaultsStayWhereArmed
    <3> QED
      BY <3>2, <3>3
  <2>9. Requests'
    <3>1. /\ held' \in [Threads -> [list : Nat, fault : Nat, token : Nat]]
          /\ held'[t].list = q /\ held'[t].fault = f
          /\ \A u \in Threads \ {t} : held'[u] = held[u]
      <4>1. q \in Nat
        BY <2>1 DEF AppInv, Objects
      <4> QED
        BY <1>4, <2>3, <4>1 DEF AppInv, Requests
    <3>2. /\ stage' \in [Threads -> {"idle", "peek", "settle", "handle", "show"}]
          /\ stage'[t] = "settle"
          /\ \A u \in Threads \ {t} : stage'[u] = stage[u]
      BY <1>4 DEF AppInv, Requests
    <3>3. request[t].session \in Sessions
      BY <1>2 DEF AppInv, Requests
    <3>4. request' = request /\ faults' = faults /\ lists' = lists /\ issued' = issued
      BY <1>2 DEF store
    <3>5. f \in 0..Len(faults)
      BY <2>3 DEF AppInv, Objects
    <3> QED
      BY <2>1, <2>3, <3>1, <3>2, <3>3, <3>4, <3>5 DEF AppInv, Requests
  <2> QED
    BY <1>3, <2>7, <2>8, <2>9 DEF AppInv
<1>5. CASE stage' = [stage EXCEPT ![t] = "handle"] /\ UNCHANGED <<held, shown>>
  <2>1. Objects' /\ Queues' /\ FaultsStayWhereArmed'
    BY <1>2, <1>5, ControllerKept DEF controller
  <2>2. Requests'
    <3>1. request' = request /\ held' = held /\ faults' = faults /\ lists' = lists
          /\ issued' = issued
      BY <1>2, <1>5 DEF store
    <3> QED
      BY <1>2, <1>5, <3>1 DEF AppInv, Requests
  <2> QED
    BY <1>3, <2>1, <2>2 DEF AppInv
<1> QED
  BY <1>2, <1>4, <1>5

\* Only the occurrences of a fault change, and a list only loses its head:
\* whatever a list holds was armed where the list hangs.
LEMMA SettleStep ==
  ASSUME AppInv, NEW t \in Threads, Settle(t)
  PROVE  AppInv'
<1> DEFINE f == held[t].fault
           q == held[t].list
<1>1. /\ stage[t] = "settle"
      /\ faults' = [faults EXCEPT ![f].left = @ - 1]
      /\ UNCHANGED <<armed, shown, store>>
      /\ \/ lists' = lists
         \/ lists[q] # <<>> /\ lists' = [lists EXCEPT ![q] = Tail(@)]
      /\ \/ stage' = [stage EXCEPT ![t] = "handle"] /\ UNCHANGED <<request, held>>
         \/ Answer(t, "server error")
  BY DEF Settle
<1>2. f \in DOMAIN faults /\ q \in DOMAIN lists
  <2>1. f \in 0..Len(faults) /\ f # 0 /\ q \in DOMAIN lists
    <3>1. stage[t] = "settle"
      BY <1>1
    <3> QED
      BY <3>1 DEF AppInv, Requests
  <2>2. DOMAIN faults = 1..Len(faults) /\ Len(faults) \in Nat
    BY DEF AppInv, Objects
  <2> HIDE DEF f
  <2> QED
    BY <2>1, <2>2
<1>10. armed' = armed /\ shown' = shown
  BY <1>1
<1>11. faults' = [faults EXCEPT ![f].left = @ - 1]
  BY <1>1
<1> HIDE DEF f, q
<1>3. /\ faults' \in Seq(ArmedFault) /\ Len(faults') = Len(faults) /\ DOMAIN faults' = DOMAIN faults
      /\ \A g \in DOMAIN faults : /\ faults'[g].session = faults[g].session
                                  /\ faults'[g].hook = faults[g].hook
  <2>1. faults \in Seq(ArmedFault)
    BY DEF AppInv, Objects
  <2>2. [faults[f] EXCEPT !.left = @ - 1] \in ArmedFault
    <3>1. faults[f] \in ArmedFault
      BY <1>2, <2>1
    <3> QED
      BY <3>1 DEF ArmedFault
  <2>3. /\ faults' \in Seq(ArmedFault) /\ Len(faults') = Len(faults)
        /\ DOMAIN faults' = DOMAIN faults
        /\ faults'[f] = [faults[f] EXCEPT !.left = @ - 1]
        /\ \A g \in DOMAIN faults \ {f} : faults'[g] = faults[g]
    BY <1>11, <1>2, <2>1, <2>2
  <2>4. /\ faults'[f].session = faults[f].session /\ faults'[f].hook = faults[f].hook
    <3>1. faults[f] \in ArmedFault
      BY <1>2, <2>1
    <3> QED
      BY <2>3, <3>1 DEF ArmedFault
  <2> QED
    BY <2>3, <2>4
<1>4. /\ lists' \in Seq(Seq(Nat)) /\ Len(lists') = Len(lists) /\ DOMAIN lists' = DOMAIN lists
      /\ \A p \in DOMAIN lists : \A i \in DOMAIN lists'[p] :
           \E j \in DOMAIN lists[p] : lists'[p][i] = lists[p][j]
  <2>1. lists \in Seq(Seq(Nat))
    BY DEF AppInv, Objects
  <2>2. CASE lists' = lists
    BY <2>1, <2>2
  <2>3. CASE lists[q] # <<>> /\ lists' = [lists EXCEPT ![q] = Tail(@)]
    <3>1. lists[q] \in Seq(Nat) /\ Tail(lists[q]) \in Seq(Nat)
      BY <1>2, <2>1, <2>3
    <3>2. \A i \in DOMAIN Tail(lists[q]) : i + 1 \in DOMAIN lists[q]
                                          /\ Tail(lists[q])[i] = lists[q][i + 1]
      BY <2>3, <3>1
    <3>3. /\ lists' \in Seq(Seq(Nat)) /\ Len(lists') = Len(lists) /\ DOMAIN lists' = DOMAIN lists
          /\ lists'[q] = Tail(lists[q])
          /\ \A p \in DOMAIN lists \ {q} : lists'[p] = lists[p]
      BY <1>2, <2>1, <2>3, <3>1
    <3> QED
      BY <3>2, <3>3
  <2> QED
    BY <1>1, <2>2, <2>3
<1>5. Objects'
  <2>1. ASSUME NEW p \in DOMAIN lists', NEW i \in DOMAIN lists'[p]
        PROVE  lists'[p][i] \in DOMAIN faults'
    BY <1>3, <1>4 DEF AppInv, Objects
  <2> QED
    BY <1>10, <1>3, <1>4, <2>1 DEF AppInv, Objects
<1>6. Queues'
  <2>1. ASSUME NEW key \in Keys, armed'[key] # 0, NEW i \in DOMAIN lists'[armed'[key]]
        PROVE  <<faults'[lists'[armed'[key]][i]].session,
                 faults'[lists'[armed'[key]][i]].hook>> = key
    <3>1. armed'[key] = armed[key] /\ armed[key] \in DOMAIN lists
      BY <1>10, <2>1 DEF AppInv, Objects
    <3>2. PICK j \in DOMAIN lists[armed[key]] : lists'[armed[key]][i] = lists[armed[key]][j]
      BY <1>4, <2>1, <3>1
    <3>3. lists[armed[key]][j] \in DOMAIN faults
      BY <3>1 DEF AppInv, Objects
    <3> QED
      BY <1>3, <2>1, <3>1, <3>2, <3>3 DEF AppInv, Queues
  <2> QED
    BY <1>10, <2>1 DEF AppInv, Queues
<1>7. FaultsStayWhereArmed'
  BY <1>10, <1>3 DEF AppInv, FaultsStayWhereArmed
<1>8. Tokens' /\ OnlyAcceptedFormsHaveTokens' /\ ConfirmationSurvivesFaults'
  BY <1>1, StoreKept
<1>9. Requests'
  <2>1. issued' = issued
    BY <1>1 DEF store
  <2>2. CASE stage' = [stage EXCEPT ![t] = "handle"] /\ UNCHANGED <<request, held>>
    BY <1>1, <1>3, <1>4, <2>1, <2>2 DEF AppInv, Requests
  <2>3. CASE Answer(t, "server error")
    BY <1>3, <1>4, <2>1, <2>3, AnswerFrees DEF AppInv
  <2> QED
    BY <1>1, <2>2, <2>3
<1> QED
  BY <1>5, <1>6, <1>7, <1>8, <1>9 DEF AppInv

\* A fault page, a looked-up page, a refusal: nothing but the thread changes.
LEMMA AnswerStep ==
  ASSUME AppInv, NEW t \in Threads, NEW page, Answer(t, page), UNCHANGED <<controller, store>>
  PROVE  AppInv'
<1>1. Requests'
  BY AnswerFrees DEF AppInv, controller, store
<1> QED
  BY <1>1, ControllerKept, StoreKept DEF AppInv

\* A token is a new one, and nothing was opened with it.
LEMMA IssueStep ==
  ASSUME AppInv, NEW t \in Threads, IssueToken(t)
  PROVE  AppInv'
<1> DEFINE token == [form |-> request[t].about, code |-> Code(t)]
           id == Len(issued) + 1
<1>1. /\ stage[t] = "handle" /\ request[t].kind = "submit"
      /\ Code(t) # "validation_error" /\ Accepted(request[t].about)
      /\ issued' = Append(issued, token) /\ pending' = pending \cup {id}
      /\ opened' = Append(opened, 0)
      /\ held' = [held EXCEPT ![t].token = id]
      /\ stage' = [stage EXCEPT ![t] = "show"]
      /\ UNCHANGED <<controller, resets, request>>
  BY DEF IssueToken, Handling
<1>2. token \in Token
  <2>1. request[t].about \in Forms
    BY <1>1 DEF AppInv, Requests
  <2>2. Code(t) \in FaultCodes \cup {"none"}
    <3>1. CASE held[t].fault = 0
      BY <3>1 DEF Code
    <3>2. CASE held[t].fault # 0
      <4>1. held[t].fault \in 0..Len(faults) /\ faults \in Seq(ArmedFault)
        BY DEF AppInv, Requests, Objects
      <4>2. faults[held[t].fault] \in ArmedFault
        BY <3>2, <4>1
      <4> QED
        BY <3>2, <4>2 DEF Code, ArmedFault
    <3> QED
      BY <3>1, <3>2
  <2> QED
    BY <2>1, <2>2 DEF Token
<1>3. issued \in Seq(Token) /\ opened \in Seq(Nat) /\ Len(opened) = Len(issued) /\ id \in Nat
  BY DEF AppInv, Tokens
<1>4. token.form = request[t].about /\ token.code = Code(t)
  OBVIOUS
<1> HIDE DEF token, id
<1>5. /\ issued' \in Seq(Token) /\ opened' \in Seq(Nat) /\ Len(opened') = Len(issued')
      /\ issued'[id] = token /\ opened'[id] = 0 /\ id \notin DOMAIN issued
      /\ DOMAIN issued' = DOMAIN issued \cup {id} /\ DOMAIN opened = DOMAIN issued
      /\ \A k \in DOMAIN issued : issued'[k] = issued[k] /\ opened'[k] = opened[k]
  BY <1>1, <1>2, <1>3 DEF id
<1>6. pending' = pending \cup {id} /\ resets' = resets
  BY <1>1
<1>7. Tokens'
  BY <1>5, <1>6 DEF AppInv, Tokens
<1>8. OnlyAcceptedFormsHaveTokens'
  <2>1. Accepted(token.form) /\ token.code # "validation_error"
    BY <1>1, <1>4
  <2> QED
    BY <1>5, <2>1 DEF AppInv, OnlyAcceptedFormsHaveTokens
<1>9. ConfirmationSurvivesFaults'
  BY <1>5, <1>6 DEF AppInv, ConfirmationSurvivesFaults
<1>10. Requests'
  <2>1. /\ held' \in [Threads -> [list : Nat, fault : Nat, token : Nat]]
        /\ \A u \in Threads : held'[u].fault = held[u].fault /\ held'[u].list = held[u].list
        /\ held'[t].token = id
        /\ \A u \in Threads \ {t} : held'[u] = held[u]
    BY <1>1, <1>3 DEF AppInv, Requests
  <2>2. /\ stage' \in [Threads -> {"idle", "peek", "settle", "handle", "show"}]
        /\ stage'[t] = "show"
        /\ \A u \in Threads \ {t} : stage'[u] = stage[u]
    BY <1>1 DEF AppInv, Requests
  <2>3. request[t].session \in Sessions
    BY <1>1 DEF AppInv, Requests
  <2>4. request' = request /\ faults' = faults /\ lists' = lists
    BY <1>1 DEF controller
  <2> QED
    BY <1>5, <2>1, <2>2, <2>3, <2>4 DEF AppInv, Requests
<1> QED
  BY <1>1, <1>7, <1>8, <1>9, <1>10, ControllerKept DEF AppInv

\* The account is opened in the step that takes the token out of the store.
LEMMA OpenStep ==
  ASSUME AppInv, NEW t \in Threads, OpenAccount(t)
  PROVE  AppInv'
<1> DEFINE token == request[t].about
<1>1. /\ token \in pending /\ pending' = pending \ {token}
      /\ opened' = [opened EXCEPT ![token] = @ + 1]
      /\ Answer(t, "success") /\ UNCHANGED <<controller, issued, resets>>
  BY DEF OpenAccount
<1> HIDE DEF token
<1>2. /\ token \in DOMAIN issued /\ opened[token] = 0 /\ DOMAIN opened = DOMAIN issued
      /\ opened \in Seq(Nat)
  BY <1>1 DEF AppInv, Tokens
<1>3. /\ opened' \in Seq(Nat) /\ Len(opened') = Len(opened) /\ opened'[token] = 1
      /\ \A k \in DOMAIN issued \ {token} : opened'[k] = opened[k]
  BY <1>1, <1>2
<1>4. pending' = pending \ {token} /\ issued' = issued /\ resets' = resets
  BY <1>1
<1>5. Tokens'
  BY <1>3, <1>4 DEF AppInv, Tokens
<1>6. OnlyAcceptedFormsHaveTokens'
  BY <1>4 DEF AppInv, OnlyAcceptedFormsHaveTokens
<1>7. ConfirmationSurvivesFaults'
  BY <1>3, <1>4 DEF AppInv, ConfirmationSurvivesFaults
<1>8. Requests'
  BY <1>1, <1>4, AnswerFrees DEF AppInv, controller
<1> QED
  BY <1>1, <1>5, <1>6, <1>7, <1>8, ControllerKept DEF AppInv

LEMMA StepPreserves == AppInv /\ [Next]_vars => AppInv'
<1> SUFFICES ASSUME AppInv, [Next]_vars PROVE AppInv'
  OBVIOUS
<1>1. ASSUME NEW arm \in Arms, Arm(arm) PROVE AppInv'
  BY <1>1, ArmStep
<1>2. ASSUME NEW session \in Sessions, NEW hooks, Clear(session, hooks) PROVE AppInv'
  BY <1>2, ClearStep
<1>3. CASE Reset
  BY <1>3, ResetStep
<1>4. ASSUME NEW t \in Threads, NEW session \in Sessions, NEW ask \in Asked,
             Receive(t, session, ask)
      PROVE  AppInv'
  BY <1>4, ReceiveStep
<1>5. ASSUME NEW t \in Threads, Serve(t) PROVE AppInv'
  <2>1. CASE Peek(t)
    BY <2>1, PeekStep
  <2>2. CASE Settle(t)
    BY <2>2, SettleStep
  <2>3. CASE ShowFault(t)
    BY <2>3, AnswerStep DEF ShowFault
  <2>4. CASE ShowPage(t)
    <3>1. PICK page : Answer(t, page)
      BY <2>4 DEF ShowPage
    <3>2. UNCHANGED <<controller, store>>
      BY <2>4 DEF ShowPage
    <3> QED
      BY <3>1, <3>2, AnswerStep
  <2>5. CASE CrashOnDeposit(t)
    BY <2>5, AnswerStep DEF CrashOnDeposit
  <2>6. CASE RefuseForm(t)
    BY <2>6, AnswerStep DEF RefuseForm
  <2>7. CASE IssueToken(t)
    BY <2>7, IssueStep
  <2>8. CASE ShowConfirmation(t)
    BY <2>8, AnswerStep DEF ShowConfirmation
  <2>9. CASE OpenAccount(t)
    BY <2>9, OpenStep
  <2>10. CASE RefuseConfirmation(t)
    BY <2>10, AnswerStep DEF RefuseConfirmation
  <2> QED
    BY <1>5, <2>1, <2>2, <2>3, <2>4, <2>5, <2>6, <2>7, <2>8, <2>9, <2>10 DEF Serve
<1>6. CASE UNCHANGED vars
  <2>1. UNCHANGED controller /\ UNCHANGED store /\ UNCHANGED <<request, stage, held>>
    BY <1>6 DEF vars
  <2>2. Requests'
    BY <2>1 DEF AppInv, Requests, controller, store
  <2> QED
    BY <2>1, <2>2, ControllerKept, StoreKept DEF AppInv
<1> QED
  BY <1>1, <1>2, <1>3, <1>4, <1>5, <1>6 DEF Next

(***************************************************************************)
(* What follows of the server, whatever it is asked and however its        *)
(* threads run.                                                            *)
(***************************************************************************)

\* The inductive invariant of the fault controller and the token store.
THEOREM AppInvariant == Spec => []AppInv
BY InitEstablishes, StepPreserves, PTL DEF Spec

\* Type correctness: what the threads, the dictionary and the store of
\* AppState refer to exists.
THEOREM AppTypeCorrect == Spec => []TypeOK
<1>1. AppInv => TypeOK
  <2> SUFFICES ASSUME AppInv PROVE TypeOK
    OBVIOUS
  <2>1. \A key \in DOMAIN armed : armed[key] \in 0..Len(lists)
    BY DEF AppInv, Objects
  <2>2. \A q \in DOMAIN lists : \A i \in DOMAIN lists[q] : lists[q][i] \in DOMAIN faults
    BY DEF AppInv, Objects
  <2>3. /\ Len(shown) = Len(faults) /\ Len(opened) = Len(issued)
        /\ pending \subseteq DOMAIN issued
    BY DEF AppInv, Objects, Tokens
  <2>4. ASSUME NEW t \in Threads
        PROVE  /\ stage[t] \in {"idle", "peek", "settle", "handle", "show"}
               /\ stage[t] = "settle" => held[t].fault \in DOMAIN faults
               /\ stage[t] = "show" => held[t].token \in DOMAIN issued
    BY DEF AppInv, Requests, Objects
  <2> QED
    BY <2>1, <2>2, <2>3, <2>4 DEF TypeOK
<1> QED
  BY <1>1, AppInvariant, PTL

\* FaultController keys its queues by (session, hook): a fault is returned only
\* to requests of the session and the hook it was armed for.
THEOREM NoFaultLeaks == Spec => []FaultsStayWhereArmed
<1>1. AppInv => FaultsStayWhereArmed
  BY DEF AppInv
<1> QED
  BY <1>1, AppInvariant, PTL

\* PendingStore.consume takes the token it returns: a confirmation opens one
\* account at most.
THEOREM ConfirmedOnce == Spec => []OneAccountPerToken
<1>1. AppInv => OneAccountPerToken
  BY DEF AppInv, Tokens, OneAccountPerToken
<1> QED
  BY <1>1, AppInvariant, PTL

\* post_subaccount_new stores nothing for a form it refuses or a forced
\* validation error.
THEOREM TokensAreForAcceptedForms == Spec => []OnlyAcceptedFormsHaveTokens
<1>1. AppInv => OnlyAcceptedFormsHaveTokens
  BY DEF AppInv
<1> QED
  BY <1>1, AppInvariant, PTL

\* post_subaccount_confirm answers an injected fault before it touches the
\* store: the token is still there to be sent again.
THEOREM TokensSurviveFaults == Spec => []ConfirmationSurvivesFaults
<1>1. AppInv => ConfirmationSurvivesFaults
  BY DEF AppInv
<1> QED
  BY <1>1, AppInvariant, PTL

(***************************************************************************)
(* Faults are delivered as armed, when a session asks one thing at a time. *)
(***************************************************************************)

Settling(f) == \E t \in Threads : stage[t] = "settle" /\ held[t].fault = f
Queued(f) == \E q \in DOMAIN lists : \E i \in DOMAIN lists[q] : lists[q][i] = f

\* A session has one request in flight at most.
Alone ==
  \A t, u \in Threads :
    (stage[t] # "idle" /\ stage[u] # "idle" /\ request[t].session = request[u].session) => t = u

\* A fault is at one place of one list at most, the dropped lists included.
OnePlace ==
  \A q, r \in DOMAIN lists : \A i \in DOMAIN lists[q], j \in DOMAIN lists[r] :
    lists[q][i] = lists[r][j] => q = r /\ i = j

\* A thread in the middle of consume() has the head of its session's list.
AtTheHead ==
  \A t \in Threads : stage[t] = "settle" =>
    /\ 1 \in DOMAIN lists[held[t].list]
    /\ lists[held[t].list][1] = held[t].fault
    /\ faults[held[t].fault].session = request[t].session

\* A fault has been returned as often as it was counted down, and once more if
\* it is about to be; it is queued while occurrences are left, or while it has
\* not been counted down at all, and dropped when it has been returned as due.
Counted ==
  \A f \in DOMAIN faults :
    /\ faults[f].left <= faults[f].occurrences
    /\ Settling(f) => Len(shown[f]) = faults[f].occurrences - faults[f].left + 1
    /\ ~Settling(f) => Len(shown[f]) = faults[f].occurrences - faults[f].left
    /\ Queued(f) => faults[f].left > 0 \/ faults[f].left = faults[f].occurrences
    /\ ~Queued(f) => faults[f].occurrences - faults[f].left =
                       IF faults[f].occurrences < 1 THEN 1 ELSE faults[f].occurrences

Delivery == OnePlace /\ AtTheHead /\ Counted

\* What a thread that answers or goes on does to the others, and with what.
LEMMA ThreadMoves ==
  ASSUME Requests, NEW t \in Threads, Serve(t)
  PROVE  /\ stage[t] # "idle"
         /\ \A u \in Threads \ {t} :
              stage'[u] = stage[u] /\ request'[u] = request[u] /\ held'[u] = held[u]
         /\ stage'[t] # "idle" => request'[t] = request[t]
<1>1. ASSUME NEW page, Answer(t, page)
      PROVE  /\ stage'[t] = "idle"
             /\ \A u \in Threads \ {t} :
                  stage'[u] = stage[u] /\ request'[u] = request[u] /\ held'[u] = held[u]
  BY <1>1 DEF Answer, Requests
<1>2. ASSUME NEW s, stage' = [stage EXCEPT ![t] = s], UNCHANGED request,
             \A u \in Threads \ {t} : held'[u] = held[u]
      PROVE  \A u \in Threads \ {t} :
               stage'[u] = stage[u] /\ request'[u] = request[u] /\ held'[u] = held[u]
  BY <1>2 DEF Requests
<1>3. CASE Peek(t)
  <2>1. UNCHANGED held \/ \E q, f : held' = [held EXCEPT ![t].list = q, ![t].fault = f]
    BY <1>3 DEF Peek
  <2>2. \A u \in Threads \ {t} : held'[u] = held[u]
    BY <2>1 DEF Requests
  <2> QED
    BY <1>2, <1>3, <2>2 DEF Peek
<1>4. CASE Settle(t)
  BY <1>1, <1>2, <1>4 DEF Settle
<1>5. CASE IssueToken(t)
  <2>1. held' = [held EXCEPT ![t].token = Len(issued) + 1]
    BY <1>5 DEF IssueToken
  <2>2. \A u \in Threads \ {t} : held'[u] = held[u]
    BY <2>1 DEF Requests
  <2> QED
    BY <1>2, <1>5, <2>2 DEF IssueToken, Handling
<1>6. CASE \/ ShowFault(t) \/ ShowPage(t) \/ CrashOnDeposit(t) \/ RefuseForm(t)
           \/ ShowConfirmation(t) \/ OpenAccount(t) \/ RefuseConfirmation(t)
  <2>1. stage[t] # "idle" /\ \E page : Answer(t, page)
    BY <1>6 DEF ShowFault, ShowPage, CrashOnDeposit, RefuseForm, ShowConfirmation, OpenAccount,
                RefuseConfirmation, Handling
  <2> QED
    BY <1>1, <2>1
<1> QED
  BY <1>3, <1>4, <1>5, <1>6 DEF Serve

LEMMA AloneStep ==
  ASSUME ~Overlap, Requests, Alone, [Next]_vars
  PROVE  Alone'
<1>1. ASSUME \A u \in Threads : stage'[u] # "idle" =>
               stage[u] # "idle" /\ request'[u].session = request[u].session
      PROVE  Alone'
  BY <1>1 DEF Alone
<1>2. ASSUME NEW t \in Threads, NEW session \in Sessions, NEW ask \in Asked,
             Receive(t, session, ask)
      PROVE  Alone'
  <2>1. \A u \in Threads : stage[u] # "idle" => request[u].session # session
    BY <1>2 DEF Receive
  <2>2. \A u \in Threads \ {t} : stage'[u] = stage[u] /\ request'[u] = request[u]
    BY <1>2 DEF Receive, Requests
  <2>3. request'[t].session = session
    BY <1>2 DEF Receive, Requests
  <2> QED
    BY <2>1, <2>2, <2>3 DEF Alone
<1>3. ASSUME NEW t \in Threads, Serve(t) PROVE Alone'
  BY <1>1, <1>3, ThreadMoves
<1>4. ASSUME UNCHANGED <<stage, request>> PROVE Alone'
  BY <1>4 DEF Alone
<1>5. ASSUME NEW arm \in Arms, Arm(arm) PROVE Alone'
  BY <1>4, <1>5 DEF Arm
<1>6. ASSUME NEW session \in Sessions, NEW hooks, Clear(session, hooks) PROVE Alone'
  BY <1>4, <1>6 DEF Clear
<1>7. CASE Reset \/ UNCHANGED vars
  BY <1>4, <1>7 DEF Reset, vars
<1> QED
  BY <1>2, <1>3, <1>5, <1>6, <1>7 DEF Next

\* Outside of consume() a request has nothing to do with the queues.
LEMMA QueuesKept ==
  ASSUME Delivery, UNCHANGED <<lists, faults, shown>>,
         \A u \in Threads : stage'[u] = "settle" <=> stage[u] = "settle",
         \A u \in Threads : stage[u] = "settle" =>
           held'[u] = held[u] /\ request'[u] = request[u]
  PROVE  Delivery'
<1>1. \A f : Settling(f)' <=> Settling(f)
  BY DEF Settling
<1>2. \A f : Queued(f)' <=> Queued(f)
  BY DEF Queued
<1>3. OnePlace'
  BY DEF Delivery, OnePlace
<1>4. AtTheHead'
  BY DEF Delivery, AtTheHead
<1>5. Counted'
  BY <1>1, <1>2 DEF Delivery, Counted
<1> QED
  BY <1>3, <1>4, <1>5 DEF Delivery

\* The first half of consume(): the fault at the head is returned once more, and
\* no other thread is in the middle of returning it.
LEMMA PeekDelivers ==
  ASSUME AppInv, Alone, Delivery, NEW t \in Threads, Peek(t)
  PROVE  Delivery'
<1> DEFINE key == Key(request[t].session, Hook(request[t].kind))
           q == armed[key]
           f == Head(lists[q])
<1>1. /\ key \in Keys /\ key[1] = request[t].session
  <2>1. request[t].session \in Sessions /\ request[t].kind \in Kinds \ {"form"}
    BY DEF Peek, AppInv, Requests
  <2>2. Hook(request[t].kind) \in Hooks
    BY <2>1 DEF Hook, Hooks, Kinds
  <2> QED
    BY <2>1, <2>2 DEF Key, Keys
<1>2. /\ stage[t] = "peek"
      /\ UNCHANGED <<lists, faults, request>>
      /\ \/ /\ q # 0 /\ lists[q] # <<>>
            /\ held' = [held EXCEPT ![t].list = q, ![t].fault = f]
            /\ shown' = [shown EXCEPT ![f] = Append(@, key)]
            /\ stage' = [stage EXCEPT ![t] = "settle"]
         \/ stage' = [stage EXCEPT ![t] = "handle"] /\ UNCHANGED <<held, shown>>
  BY DEF Peek
<1> HIDE DEF key, q, f
<1>3. CASE stage' = [stage EXCEPT ![t] = "handle"] /\ UNCHANGED <<held, shown>>
  <2>1. \A u \in Threads : stage'[u] = "settle" <=> stage[u] = "settle"
    BY <1>2, <1>3 DEF AppInv, Requests
  <2> QED
    BY <1>2, <1>3, <2>1, QueuesKept
<1>4. CASE /\ q # 0 /\ lists[q] # <<>>
           /\ held' = [held EXCEPT ![t].list = q, ![t].fault = f]
           /\ shown' = [shown EXCEPT ![f] = Append(@, key)]
           /\ stage' = [stage EXCEPT ![t] = "settle"]
  <2>1. q \in DOMAIN lists /\ lists[q] \in Seq(Nat) /\ q \in Nat
    BY <1>1, <1>4 DEF AppInv, Objects, q
  <2>2. 1 \in DOMAIN lists[q] /\ f = lists[q][1]
    BY <1>4, <2>1 DEF f
  <2>3. f \in DOMAIN faults /\ f \in Nat
    BY <2>1, <2>2 DEF AppInv, Objects
  <2>4. faults[f].session = request[t].session
    <3>1. <<faults[f].session, faults[f].hook>> = key
      BY <1>1, <1>4, <2>2 DEF AppInv, Queues, q
    <3> QED
      BY <1>1, <3>1
  <2>5. /\ shown[f] \in Seq(Keys) /\ shown'[f] = Append(shown[f], key)
        /\ \A g \in DOMAIN faults \ {f} : shown'[g] = shown[g]
    <3>1. shown \in Seq(Seq(Keys)) /\ DOMAIN shown = DOMAIN faults
      BY DEF AppInv, Objects
    <3> QED
      BY <1>4, <2>3, <3>1
  <2>6. Len(shown'[f]) = Len(shown[f]) + 1 /\ Len(shown[f]) \in Nat
    BY <1>1, <2>5
  <2>7. /\ stage'[t] = "settle" /\ held'[t].list = q /\ held'[t].fault = f
        /\ \A u \in Threads \ {t} : stage'[u] = stage[u] /\ held'[u] = held[u]
    BY <1>4 DEF AppInv, Requests
  <2>8. ~Settling(f)
    <3> SUFFICES ASSUME NEW u \in Threads, stage[u] = "settle", held[u].fault = f PROVE FALSE
      BY DEF Settling
    <3>1. request[u].session = request[t].session
      BY <2>4 DEF Delivery, AtTheHead
    <3> QED
      BY <1>2, <3>1 DEF Alone
  <2>9. \A g : Settling(g)' <=> (g = f \/ Settling(g))
    BY <1>2, <2>7 DEF Settling
  <2>10. Queued(f) /\ \A g : Queued(g)' <=> Queued(g)
    BY <1>2, <2>1, <2>2 DEF Queued
  <2>11. OnePlace'
    BY <1>2 DEF Delivery, OnePlace
  <2>12. AtTheHead'
    BY <1>2, <2>2, <2>4, <2>7 DEF Delivery, AtTheHead
  <2>13. Counted'
    <3> SUFFICES ASSUME NEW g \in DOMAIN faults
                 PROVE  /\ faults[g].left <= faults[g].occurrences
                        /\ Settling(g)' =>
                             Len(shown'[g]) = faults[g].occurrences - faults[g].left + 1
                        /\ ~Settling(g)' => Len(shown'[g]) = faults[g].occurrences - faults[g].left
                        /\ Queued(g)' =>
                             faults[g].left > 0 \/ faults[g].left = faults[g].occurrences
                        /\ ~Queued(g)' => faults[g].occurrences - faults[g].left =
                             IF faults[g].occurrences < 1 THEN 1 ELSE faults[g].occurrences
      BY <1>2 DEF Counted
    <3>1. CASE g = f
      BY <2>6, <2>8, <2>9, <2>10, <3>1 DEF Delivery, Counted
    <3>2. CASE g # f
      BY <2>5, <2>9, <2>10, <3>2 DEF Delivery, Counted
    <3> QED
      BY <3>1, <3>2
  <2> QED
    BY <2>11, <2>12, <2>13 DEF Delivery
<1> QED
  BY <1>2, <1>3, <1>4

\* The second half: the head that is counted down is the fault that was
\* returned, and it is popped exactly when it has been returned as due.
LEMMA SettleDelivers ==
  ASSUME AppInv, Alone, Delivery, NEW t \in Threads, Settle(t)
  PROVE  Delivery'
<1> DEFINE f == held[t].fault
           q == held[t].list
<1>1. /\ stage[t] = "settle" /\ stage[t] # "idle"
      /\ faults' = [faults EXCEPT ![f].left = @ - 1]
      /\ UNCHANGED shown
      /\ \/ /\ faults'[f].left > 0 /\ stage' = [stage EXCEPT ![t] = "handle"]
            /\ UNCHANGED <<lists, request, held>>
         \/ /\ faults'[f].left <= 0 /\ lists' = [lists EXCEPT ![q] = Tail(@)]
            /\ stage' = [stage EXCEPT ![t] = "handle"]
            /\ UNCHANGED <<request, held>>
         \/ lists[q] = <<>>
  BY DEF Settle
<1>2. /\ 1 \in DOMAIN lists[q] /\ lists[q][1] = f
      /\ faults[f].session = request[t].session
  BY <1>1 DEF Delivery, AtTheHead
<1>3. f \in DOMAIN faults /\ q \in DOMAIN lists
  <2>1. f \in 0..Len(faults) /\ f # 0 /\ q \in DOMAIN lists
    <3>1. stage[t] = "settle"
      BY <1>1
    <3> QED
      BY <3>1 DEF AppInv, Requests
  <2>2. DOMAIN faults = 1..Len(faults) /\ Len(faults) \in Nat
    BY DEF AppInv, Objects
  <2> HIDE DEF f
  <2> QED
    BY <2>1, <2>2
<1>4. \A u \in Threads \ {t} : stage[u] = "settle" => held[u].fault # f
  BY <1>1, <1>2 DEF Delivery, AtTheHead, Alone
<1>5. \A u \in Threads \ {t} : stage[u] = "settle" => held[u].list # q
  BY <1>2, <1>4 DEF Delivery, AtTheHead
<1>6. Settling(f)
  BY <1>1 DEF Settling
<1> HIDE DEF f, q
<1>7. /\ DOMAIN faults' = DOMAIN faults
      /\ faults[f].left \in Int /\ faults[f].occurrences \in Int
      /\ faults'[f].left = faults[f].left - 1
      /\ faults'[f].occurrences = faults[f].occurrences
      /\ faults'[f].session = faults[f].session
      /\ \A g \in DOMAIN faults \ {f} : faults'[g] = faults[g]
  <2>1. faults \in Seq(ArmedFault)
    BY DEF AppInv, Objects
  <2>2. faults[f] \in ArmedFault
    BY <1>3, <2>1
  <2>3. /\ DOMAIN faults' = DOMAIN faults
        /\ faults'[f] = [faults[f] EXCEPT !.left = @ - 1]
        /\ \A g \in DOMAIN faults \ {f} : faults'[g] = faults[g]
    BY <1>1, <1>3, <2>1
  <2>4. /\ faults'[f].left = faults[f].left - 1
        /\ faults'[f].occurrences = faults[f].occurrences
        /\ faults'[f].session = faults[f].session
        /\ faults[f].left \in Int /\ faults[f].occurrences \in Int
    BY <2>2, <2>3 DEF ArmedFault
  <2> QED
    BY <2>3, <2>4
<1>8. lists \in Seq(Seq(Nat)) /\ lists[q] \in Seq(Nat) /\ lists[q] # <<>>
  BY <1>2, <1>3 DEF AppInv, Objects
<1>9. /\ stage' = [stage EXCEPT ![t] = "handle"] /\ UNCHANGED <<request, held>>
      /\ \A u \in Threads : stage'[u] = IF u = t THEN "handle" ELSE stage[u]
  BY <1>1, <1>8 DEF AppInv, Requests
<1>10. \A g : Settling(g)' <=> (g # f /\ Settling(g))
  BY <1>4, <1>9 DEF Settling, f
<1>11. ASSUME NEW u \in Threads, stage[u] = "settle"
       PROVE  held[u].list \in DOMAIN lists /\ held[u].fault \in DOMAIN faults
  <2> DEFINE g == held[u].fault
  <2>1. g \in 0..Len(faults) /\ g # 0 /\ held[u].list \in DOMAIN lists
    BY <1>11 DEF AppInv, Requests
  <2>2. DOMAIN faults = 1..Len(faults) /\ Len(faults) \in Nat
    BY DEF AppInv, Objects
  <2> HIDE DEF g
  <2>3. g \in DOMAIN faults
    BY <2>1, <2>2
  <2> QED
    BY <2>1, <2>3 DEF g
<1>12. CASE faults'[f].left > 0 /\ UNCHANGED lists
  <2>1. \A g : Queued(g)' <=> Queued(g)
    BY <1>12 DEF Queued
  <2>2. OnePlace' /\ AtTheHead'
    <3>1. OnePlace'
      BY <1>12 DEF Delivery, OnePlace
    <3>2. AtTheHead'
      <4> SUFFICES ASSUME NEW u \in Threads \ {t}, stage[u] = "settle"
                   PROVE  /\ 1 \in DOMAIN lists[held[u].list]
                          /\ lists[held[u].list][1] = held[u].fault
                          /\ faults'[held[u].fault].session = request[u].session
        BY <1>9, <1>12 DEF AtTheHead
      <4>1. held[u].fault \in DOMAIN faults /\ held[u].fault # f
        BY <1>4, <1>11
      <4> QED
        BY <1>7, <4>1 DEF Delivery, AtTheHead
    <3> QED
      BY <3>1, <3>2
  <2>3. Counted'
    BY <1>1, <1>6, <1>7, <1>10, <1>12, <2>1 DEF Delivery, Counted
  <2> QED
    BY <2>2, <2>3 DEF Delivery
<1>13. CASE faults'[f].left <= 0 /\ lists' = [lists EXCEPT ![q] = Tail(@)]
  <2>1. /\ DOMAIN lists' = DOMAIN lists
        /\ lists'[q] = Tail(lists[q])
        /\ \A p \in DOMAIN lists \ {q} : lists'[p] = lists[p]
    BY <1>3, <1>8, <1>13
  <2>2. /\ \A i \in DOMAIN lists'[q] : i + 1 \in DOMAIN lists[q] /\ i + 1 # 1 /\ i \in Nat
                                       /\ lists'[q][i] = lists[q][i + 1]
        /\ \A j \in DOMAIN lists[q] : j # 1 =>
             j - 1 \in DOMAIN lists'[q] /\ lists'[q][j - 1] = lists[q][j]
    <3> DEFINE s == lists[q]
    <3>1. s \in Seq(Nat) /\ s # <<>> /\ lists'[q] = Tail(s)
      BY <1>8, <2>1
    <3> HIDE DEF s
    <3>2. /\ Len(s) \in Nat /\ DOMAIN s = 1..Len(s) /\ DOMAIN Tail(s) = 1..(Len(s) - 1)
          /\ \A i \in 1..(Len(s) - 1) : Tail(s)[i] = s[i + 1]
      BY <3>1
    <3>3. \A j \in DOMAIN s : j # 1 => j - 1 \in 1..(Len(s) - 1) /\ (j - 1) + 1 = j
      BY <3>2
    <3>4. \A i \in 1..(Len(s) - 1) : i + 1 \in DOMAIN s /\ i + 1 # 1 /\ i \in Nat
      BY <3>2
    <3> QED
      BY <3>1, <3>2, <3>3, <3>4 DEF s
  <2>3. ASSUME NEW g PROVE Queued(g)' <=> (g # f /\ Queued(g))
    <3>1. ASSUME NEW p \in DOMAIN lists, NEW i \in DOMAIN lists'[p], lists'[p][i] = g
          PROVE  g # f /\ Queued(g)
      <4>1. CASE p = q
        <5>1. i + 1 \in DOMAIN lists[q] /\ i + 1 # 1 /\ lists[q][i + 1] = g
          BY <2>2, <3>1, <4>1
        <5>2. g # f
          BY <1>2, <1>3, <5>1 DEF Delivery, OnePlace
        <5> QED
          BY <1>3, <5>1, <5>2 DEF Queued
      <4>2. CASE p # q
        <5>1. i \in DOMAIN lists[p] /\ lists[p][i] = g
          BY <2>1, <3>1, <4>2
        <5>2. g # f
          BY <1>2, <1>3, <4>2, <5>1 DEF Delivery, OnePlace
        <5> QED
          BY <5>1, <5>2 DEF Queued
      <4> QED
        BY <4>1, <4>2
    <3>2. ASSUME g # f, NEW p \in DOMAIN lists, NEW i \in DOMAIN lists[p], lists[p][i] = g
          PROVE  \E r \in DOMAIN lists' : \E j \in DOMAIN lists'[r] : lists'[r][j] = g
      <4>1. CASE p = q
        <5>1. i # 1
          BY <1>2, <3>2, <4>1
        <5>2. i - 1 \in DOMAIN lists'[q] /\ lists'[q][i - 1] = g
          BY <2>2, <3>2, <4>1, <5>1
        <5> QED
          BY <1>3, <2>1, <5>2
      <4>2. CASE p # q
        BY <2>1, <3>2, <4>2
      <4> QED
        BY <4>1, <4>2
    <3> QED
      BY <2>1, <3>1, <3>2 DEF Queued
  <2>4. OnePlace'
    <3> SUFFICES ASSUME NEW p \in DOMAIN lists, NEW r \in DOMAIN lists,
                        NEW i \in DOMAIN lists'[p], NEW j \in DOMAIN lists'[r],
                        lists'[p][i] = lists'[r][j]
                 PROVE  p = r /\ i = j
      BY <2>1 DEF OnePlace
    <3>1. CASE p = q /\ r = q
      <4>1. /\ i + 1 \in DOMAIN lists[q] /\ j + 1 \in DOMAIN lists[q] /\ i \in Nat /\ j \in Nat
            /\ lists[q][i + 1] = lists[q][j + 1]
        BY <2>2, <3>1
      <4>2. i + 1 = j + 1
        BY <1>3, <4>1 DEF Delivery, OnePlace
      <4> QED
        BY <3>1, <4>1, <4>2
    <3>2. CASE p = q /\ r # q
      <4>1. i + 1 \in DOMAIN lists[q] /\ j \in DOMAIN lists[r] /\ lists[q][i + 1] = lists[r][j]
        BY <2>1, <2>2, <3>2
      <4> QED
        BY <1>3, <3>2, <4>1 DEF Delivery, OnePlace
    <3>3. CASE p # q /\ r = q
      <4>1. i \in DOMAIN lists[p] /\ j + 1 \in DOMAIN lists[q] /\ lists[p][i] = lists[q][j + 1]
        BY <2>1, <2>2, <3>3
      <4> QED
        BY <1>3, <3>3, <4>1 DEF Delivery, OnePlace
    <3>4. CASE p # q /\ r # q
      BY <2>1, <3>4 DEF Delivery, OnePlace
    <3> QED
      BY <3>1, <3>2, <3>3, <3>4
  <2>5. AtTheHead'
    <3> SUFFICES ASSUME NEW u \in Threads \ {t}, stage[u] = "settle"
                 PROVE  /\ 1 \in DOMAIN lists'[held[u].list]
                        /\ lists'[held[u].list][1] = held[u].fault
                        /\ faults'[held[u].fault].session = request[u].session
      BY <1>9 DEF AtTheHead
    <3>1. /\ held[u].list # q /\ held[u].fault # f
          /\ held[u].list \in DOMAIN lists /\ held[u].fault \in DOMAIN faults
      BY <1>4, <1>5, <1>11
    <3> QED
      BY <1>7, <2>1, <3>1 DEF Delivery, AtTheHead
  <2>6. Queued(f)
    BY <1>2, <1>3 DEF Queued
  <2>7. Counted'
    BY <1>1, <1>6, <1>7, <1>10, <1>13, <2>3, <2>6 DEF Delivery, Counted
  <2> QED
    BY <2>4, <2>5, <2>7 DEF Delivery
<1> QED
  BY <1>1, <1>8, <1>12, <1>13

\* An armed fault gets one place, at the end of its queue, and has been returned
\* to nobody.
LEMMA ArmDelivers ==
  ASSUME AppInv, Delivery, NEW arm \in Arms, Arm(arm)
  PROVE  Delivery'
<1> DEFINE key == Key(arm.session, arm.hook)
           fault == [session |-> arm.session, hook |-> arm.hook, code |-> arm.code,
                     occurrences |-> arm.occurrences, left |-> arm.occurrences]
           id == Len(faults) + 1
<1>1. /\ key \in Keys /\ fault \in ArmedFault /\ id \in Nat /\ Len(lists) \in Nat
      /\ fault.left = fault.occurrences /\ fault.occurrences \in Int
  BY TargetAppAssumption DEF Key, Keys, ArmedFault, AppInv, Objects
<1>2. /\ faults' = Append(faults, fault) /\ shown' = Append(shown, <<>>)
      /\ UNCHANGED <<request, stage, held>>
      /\ \/ armed[key] = 0 /\ lists' = Append(lists, <<id>>)
         \/ armed[key] # 0 /\ lists' = [lists EXCEPT ![armed[key]] = Append(@, id)]
  BY DEF Arm
<1>3. /\ DOMAIN faults' = DOMAIN faults \cup {id} /\ faults'[id] = fault
      /\ \A f \in DOMAIN faults : f # id /\ faults'[f] = faults[f]
  BY <1>1, <1>2 DEF AppInv, Objects
<1>4. /\ shown'[id] = <<>>
      /\ \A f \in DOMAIN faults : shown'[f] = shown[f]
  BY <1>1, <1>2 DEF AppInv, Objects
<1>5. /\ \A q \in DOMAIN lists : \A i \in DOMAIN lists[q] : lists[q][i] \in DOMAIN faults
      /\ \A u \in Threads : stage[u] = "settle" =>
           held[u].fault \in DOMAIN faults /\ held[u].list \in DOMAIN lists
  <2>1. ASSUME NEW u \in Threads, stage[u] = "settle"
        PROVE  held[u].list \in DOMAIN lists /\ held[u].fault \in DOMAIN faults
    <3> DEFINE g == held[u].fault
    <3>1. g \in 0..Len(faults) /\ g # 0 /\ held[u].list \in DOMAIN lists
      BY <2>1 DEF AppInv, Requests
    <3>2. DOMAIN faults = 1..Len(faults) /\ Len(faults) \in Nat
      BY DEF AppInv, Objects
    <3> HIDE DEF g
    <3>3. g \in DOMAIN faults
      BY <3>1, <3>2
    <3> QED
      BY <3>1, <3>3 DEF g
  <2> QED
    BY <2>1 DEF AppInv, Objects
<1> HIDE DEF fault, id, key
<1>6. PICK Q \in DOMAIN lists', I \in Nat :
        /\ I \in DOMAIN lists'[Q] /\ lists'[Q][I] = id
        /\ \A q \in DOMAIN lists' : \A i \in DOMAIN lists'[q] :
             \/ q = Q /\ i = I
             \/ q \in DOMAIN lists /\ i \in DOMAIN lists[q] /\ lists'[q][i] = lists[q][i]
        /\ \A q \in DOMAIN lists : \A i \in DOMAIN lists[q] :
             q \in DOMAIN lists' /\ i \in DOMAIN lists'[q] /\ lists'[q][i] = lists[q][i]
  <2>1. CASE lists' = Append(lists, <<id>>)
    <3>1. /\ lists'[Len(lists) + 1] = <<id>>
          /\ DOMAIN lists' = DOMAIN lists \cup {Len(lists) + 1}
          /\ \A q \in DOMAIN lists : lists'[q] = lists[q]
      BY <1>1, <2>1 DEF AppInv, Objects
    <3>2. DOMAIN <<id>> = {1} /\ <<id>>[1] = id
      OBVIOUS
    <3>3. Len(lists) + 1 \in DOMAIN lists'
      BY <3>1
    <3> QED
      BY <3>1, <3>2, <3>3
  <2>2. CASE armed[key] # 0 /\ lists' = [lists EXCEPT ![armed[key]] = Append(@, id)]
    <3> DEFINE q == armed[key]
    <3>1. q \in DOMAIN lists /\ lists[q] \in Seq(Nat)
      BY <1>1, <2>2 DEF AppInv, Objects
    <3> HIDE DEF q
    <3>2. /\ DOMAIN lists' = DOMAIN lists /\ lists'[q] = Append(lists[q], id)
          /\ \A p \in DOMAIN lists \ {q} : lists'[p] = lists[p]
      BY <2>2, <3>1 DEF AppInv, Objects, q
    <3>3. /\ DOMAIN lists'[q] = DOMAIN lists[q] \cup {Len(lists[q]) + 1}
          /\ lists'[q][Len(lists[q]) + 1] = id
          /\ \A i \in DOMAIN lists[q] : lists'[q][i] = lists[q][i]
      BY <1>1, <3>1, <3>2
    <3>4. Len(lists[q]) + 1 \in Nat /\ q \in DOMAIN lists'
      BY <3>1, <3>2
    <3> QED
      BY <3>1, <3>2, <3>3, <3>4
  <2> QED
    BY <1>2, <2>1, <2>2
<1>7. \A f \in DOMAIN faults' : Queued(f)' <=> (f = id \/ Queued(f))
  BY <1>3, <1>5, <1>6 DEF Queued
<1>8. \A f : Settling(f)' <=> Settling(f)
  BY <1>2 DEF Settling
<1>9. ~Settling(id)
  BY <1>3, <1>5 DEF Settling
<1>10. OnePlace'
  <2> SUFFICES ASSUME NEW q \in DOMAIN lists', NEW r \in DOMAIN lists',
                      NEW i \in DOMAIN lists'[q], NEW j \in DOMAIN lists'[r],
                      lists'[q][i] = lists'[r][j]
               PROVE  q = r /\ i = j
    BY DEF OnePlace
  <2> QED
    BY <1>3, <1>5, <1>6 DEF Delivery, OnePlace
<1>11. AtTheHead'
  <2> SUFFICES ASSUME NEW u \in Threads, stage[u] = "settle"
               PROVE  /\ 1 \in DOMAIN lists'[held[u].list]
                      /\ lists'[held[u].list][1] = held[u].fault
                      /\ faults'[held[u].fault].session = request[u].session
    BY <1>2 DEF AtTheHead
  <2> QED
    BY <1>3, <1>5, <1>6 DEF Delivery, AtTheHead
<1>12. Counted'
  <2> SUFFICES ASSUME NEW f \in DOMAIN faults'
               PROVE  /\ faults'[f].left <= faults'[f].occurrences
                      /\ Settling(f)' =>
                           Len(shown'[f]) = faults'[f].occurrences - faults'[f].left + 1
                      /\ ~Settling(f)' =>
                           Len(shown'[f]) = faults'[f].occurrences - faults'[f].left
                      /\ Queued(f)' =>
                           faults'[f].left > 0 \/ faults'[f].left = faults'[f].occurrences
                      /\ ~Queued(f)' => faults'[f].occurrences - faults'[f].left =
                           IF faults'[f].occurrences < 1 THEN 1 ELSE faults'[f].occurrences
    BY DEF Counted
  <2>1. CASE f = id
    <3>1. Len(shown'[id]) = 0
      BY <1>4
    <3> QED
      BY <1>1, <1>3, <1>7, <1>8, <1>9, <2>1, <3>1
  <2>2. CASE f # id
    BY <1>3, <1>4, <1>7, <1>8, <2>2 DEF Delivery, Counted
  <2> QED
    BY <2>1, <2>2
<1> QED
  BY <1>10, <1>11, <1>12 DEF Delivery

LEMMA DeliveryStep ==
  ASSUME AppInv, Alone, Delivery, [Next]_vars
  PROVE  Delivery'
<1>1. ASSUME NEW t \in Threads, UNCHANGED <<lists, faults, shown>>,
             stage[t] # "settle", stage'[t] # "settle",
             \A u \in Threads \ {t} :
               stage'[u] = stage[u] /\ held'[u] = held[u] /\ request'[u] = request[u]
      PROVE  Delivery'
  BY <1>1, QueuesKept
<1>2. ASSUME UNCHANGED <<lists, faults, shown, stage, held, request>> PROVE Delivery'
  BY <1>2, QueuesKept
<1>3. ASSUME NEW t \in Threads, NEW session \in Sessions, NEW ask \in Asked,
             Receive(t, session, ask)
      PROVE  Delivery'
  <2>1. stage[t] # "settle" /\ stage'[t] # "settle"
    BY <1>3 DEF Receive, AppInv, Requests
  <2>2. \A u \in Threads \ {t} :
          stage'[u] = stage[u] /\ held'[u] = held[u] /\ request'[u] = request[u]
    BY <1>3 DEF Receive, AppInv, Requests
  <2> QED
    BY <1>1, <1>3, <2>1, <2>2 DEF Receive, controller
<1>4. ASSUME NEW t \in Threads, Serve(t), ~Peek(t), ~Settle(t) PROVE Delivery'
  <2>1. CASE IssueToken(t)
    <3>1. /\ held' = [held EXCEPT ![t].token = Len(issued) + 1]
          /\ stage' = [stage EXCEPT ![t] = "show"] /\ request' = request
          /\ stage[t] = "handle" /\ UNCHANGED <<lists, faults, shown>>
      BY <2>1 DEF IssueToken, Handling, controller
    <3>2. /\ stage'[t] # "settle"
          /\ \A u \in Threads \ {t} :
               stage'[u] = stage[u] /\ held'[u] = held[u] /\ request'[u] = request[u]
      BY <3>1 DEF AppInv, Requests
    <3> QED
      BY <1>1, <3>1, <3>2
  <2>2. CASE \/ ShowFault(t) \/ ShowPage(t) \/ CrashOnDeposit(t) \/ RefuseForm(t)
             \/ ShowConfirmation(t) \/ OpenAccount(t) \/ RefuseConfirmation(t)
    <3>1. /\ stage[t] # "settle" /\ UNCHANGED <<lists, faults, shown>>
          /\ \E page : Answer(t, page)
      BY <2>2 DEF ShowFault, ShowPage, CrashOnDeposit, RefuseForm, ShowConfirmation,
                  OpenAccount, RefuseConfirmation, Handling, controller
    <3>2. /\ stage'[t] # "settle"
          /\ \A u \in Threads \ {t} :
               stage'[u] = stage[u] /\ held'[u] = held[u] /\ request'[u] = request[u]
      BY <3>1 DEF Answer, AppInv, Requests
    <3> QED
      BY <1>1, <3>1, <3>2
  <2> QED
    BY <1>4, <2>1, <2>2 DEF Serve
<1>5. ASSUME NEW session \in Sessions, NEW hooks, Clear(session, hooks) PROVE Delivery'
  BY <1>2, <1>5 DEF Clear
<1>6. CASE Reset \/ UNCHANGED vars
  BY <1>2, <1>6 DEF Reset, vars, controller
<1>7. ASSUME NEW t \in Threads, Peek(t) \/ Settle(t) PROVE Delivery'
  BY <1>7, PeekDelivers, SettleDelivers
<1>8. ASSUME NEW arm \in Arms, Arm(arm) PROVE Delivery'
  BY <1>8, ArmDelivers
<1> QED
  BY <1>3, <1>4, <1>5, <1>6, <1>7, <1>8 DEF Next

\* The "next armed fault" is returned "decrementing its remaining occurrences
\* and dropping it once exhausted" (faults.py, FaultController.consume): to as
\* many requests as it has occurrences, or to one, and it is not dropped before,
\* however arming, clearing, resetting and the other sessions' requests fall in
\* between.  The hypothesis is what the theorem is about: a session that sends a
\* request only when the last one is answered.  Two requests of one session can
\* both be inside consume(), and then a fault is lost or returned too often.
THEOREM DeliveredOneAtATime ==
  ASSUME ~Overlap
  PROVE  Spec => []DeliveredAsArmed
<1>1. Init => AppInv /\ Alone /\ Delivery
  <2>1. ASSUME Init PROVE Alone /\ Delivery
    BY <2>1 DEF Init, Alone, Delivery, OnePlace, AtTheHead, Counted
  <2> QED
    BY <2>1, InitEstablishes
<1>2. AppInv /\ Alone /\ Delivery /\ [Next]_vars => (AppInv /\ Alone /\ Delivery)'
  BY StepPreserves, AloneStep, DeliveryStep DEF AppInv
<1>3. AppInv /\ Delivery => DeliveredAsArmed
  <2> SUFFICES ASSUME AppInv, Delivery, NEW f \in DOMAIN faults
               PROVE  LET due == IF faults[f].occurrences < 1 THEN 1 ELSE faults[f].occurrences
                      IN  Len(shown[f]) <= due /\ (Queued(f) \/ Len(shown[f]) = due)
    BY DEF DeliveredAsArmed, Queued
  <2>1. /\ faults[f].occurrences \in Int /\ faults[f].left \in Int
        /\ Settling(f) => Queued(f)
    <3>1. faults[f] \in ArmedFault
      BY DEF AppInv, Objects
    <3>2. ASSUME NEW t \in Threads, stage[t] = "settle", held[t].fault = f PROVE Queued(f)
      BY <3>2 DEF AppInv, Requests, Delivery, AtTheHead, Queued
    <3> QED
      BY <3>1, <3>2 DEF ArmedFault, Settling
  <2> QED
    BY <2>1 DEF Delivery, Counted
<1> QED
  BY <1>1, <1>2, <1>3, PTL DEF Spec

=============================================================================
