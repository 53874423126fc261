----------------------------- MODULE Replay_proofs -----------------------------
(***************************************************************************)
(* Theorems about Replay, for every artifact, every set of pages and every *)
(* set of invocations.                                                     *)
(***************************************************************************)
EXTENDS Replay, WellFoundedInduction, TLAPS

(***************************************************************************)
(* Facts about the operators the engine is built from.                     *)
(***************************************************************************)

\* Min of FiniteSetsExt does what its name says on the natural numbers.
LEMMA MinOfNaturals ==
  ASSUME NEW S \in SUBSET Nat, S # {}
  PROVE  Min(S) \in S /\ \A n \in S : Min(S) <= n
<1> DEFINE less == OpToRel(<, Nat)
<1>1. IsWellFoundedOn(less, Nat)
  BY NatLessThanWellFounded
<1>2. \A m, n \in Nat : n < m => <<n, m>> \in less
  BY DEF OpToRel
<1> HIDE DEF less
<1>3. PICK m \in S : \A n \in S : ~ (<<n, m>> \in less)
  BY <1>1, WFMin
<1>4. ASSUME NEW n \in S
      PROVE  m <= n
  <2>1. m \in Nat /\ n \in Nat
    OBVIOUS
  <2>2. ~ (<<n, m>> \in less)
    BY <1>3
  <2>3. ~ (n < m)
    BY <1>2, <2>1, <2>2
  <2> QED
    BY <2>1, <2>3
<1> QED
  BY <1>4 DEF Min

\* _match_known_outcome returns None or one of the declared outcomes.
LEMMA KnownOutcomeType ==
  ASSUME NEW obs
  PROVE  /\ KnownOutcome(obs) \in 0..Len(Capability.outcomes)
         /\ KnownOutcome(obs) # 0 =>
              Capability.outcomes[KnownOutcome(obs)].category \in Category
<1> DEFINE shown == {k \in DOMAIN Capability.outcomes :
                       TierMatches(obs, Capability.outcomes[k].detection) # {}}
<1>1. DOMAIN Capability.outcomes = 1..Len(Capability.outcomes)
      /\ Len(Capability.outcomes) \in Nat
  BY CapabilityAssumption
<1>2. shown \in SUBSET Nat
  BY <1>1
<1>3. CASE shown = {}
  BY <1>1, <1>3 DEF KnownOutcome
<1>4. CASE shown # {}
  <2>1. Min(shown) \in shown
    BY <1>2, <1>4, MinOfNaturals
  <2>2. KnownOutcome(obs) = Min(shown)
    BY <1>4 DEF KnownOutcome
  <2>3. Min(shown) \in 1..Len(Capability.outcomes)
    BY <2>1, <1>1
  <2>4. Capability.outcomes[Min(shown)].category \in Category
    BY <2>3, <1>1, CapabilityAssumption
  <2>5. Min(shown) \in 0..Len(Capability.outcomes)
    BY <2>3, <1>1
  <2> QED
    BY <2>2, <2>4, <2>5
<1> QED
  BY <1>3, <1>4

\* The loop body begins at a call of the surface, and only past the last step
\* at the final check.
LEMMA EntryType ==
  ASSUME NEW i \in 1..(N + 1), NEW g \in BOOLEAN
  PROVE  /\ Entry(i, g) \in {"guard", "navigate", "attempt", "final"}
         /\ Entry(i, g) = "final" <=> i = N + 1
         /\ Entry(i, g) = "guard" => g
         /\ Entry(i, g) \in {"navigate", "attempt"} => ~g
         /\ Entry(i, g) = "navigate" => Steps[i].action = "navigate"
         /\ Entry(i, g) = "attempt" => Steps[i].action # "navigate"
<1>1. N \in Nat \ {0}
  BY CapabilityAssumption
<1>2. CASE i > N
  BY <1>1, <1>2 DEF Entry
<1>3. CASE i <= N /\ g
  BY <1>1, <1>3 DEF Entry
<1>4. CASE i <= N /\ ~g /\ Steps[i].action = "navigate"
  BY <1>1, <1>4 DEF Entry
<1>5. CASE i <= N /\ ~g /\ Steps[i].action # "navigate"
  BY <1>1, <1>5 DEF Entry
<1> QED
  BY <1>1, <1>2, <1>3, <1>4, <1>5

(***************************************************************************)
(* Type correctness.                                                       *)
(***************************************************************************)

LEMMA TypeInit == Init => TypeOK
  BY CapabilityAssumption, NoneAssumption DEF Init, TypeOK, Results

\* What Return hands back is a result.
LEMMA ReturnType ==
  ASSUME step \in 1..(N + 1), NEW s \in Statuses, NEW o \in 0..Len(Capability.outcomes),
         NEW l \in Observations \cup {None}, Return(s, o, l)
  PROVE  result' \in Results /\ pc' = "done" /\ result' # None
<1>1. N \in Nat \ {0}
  BY CapabilityAssumption
<1>2. (IF s = "success" THEN 0 ELSE IF step > N THEN N ELSE step) \in 0..N
  BY <1>1
<1>3. result' \in Results
  BY <1>2 DEF Return, Results
<1> QED
  BY <1>3, NoneAssumption DEF Return

LEMMA TypeStep == TypeOK /\ [Next]_vars => TypeOK'
<1> SUFFICES ASSUME TypeOK, [Next]_vars
             PROVE  TypeOK'
  OBVIOUS
<1> USE DEF TypeOK
<1>0. N \in Nat \ {0}
  BY CapabilityAssumption
<1>1. call.guarded \in BOOLEAN
  BY CallsAssumption
<1>2. {"input_error", "assertion_error", "surface_error", "policy_blocked", "success",
       "unrecognized"} \subseteq Statuses /\ Category \subseteq Statuses
  BY DEF Statuses
<1>3. 0 \in 0..Len(Capability.outcomes)
  BY CapabilityAssumption
<1>4. CASE ValidateInputs
  <2>1. 1 \in 1..(N + 1)
    BY <1>0
  <2>2. pc' \in {"guard", "navigate", "attempt", "final"} /\ (pc' = "final" <=> 1 = N + 1)
    BY <1>1, <1>4, <2>1, EntryType DEF ValidateInputs
  <2> QED
    BY <1>0, <1>4, <2>1, <2>2 DEF ValidateInputs
<1>5. CASE RefuseInputs
  <2>1. result' \in Results /\ pc' = "done" /\ result' # None
    BY <1>2, <1>3, <1>5, ReturnType DEF RefuseInputs
  <2> QED
    BY <1>5, <2>1 DEF RefuseInputs
<1>6. CASE CheckGuard
  <2>1. CASE GuardAllows(step, seen')
    <3>1. step \in 1..N /\ step # N + 1
      BY <1>0, <1>6 DEF CheckGuard
    <3>2. pc' \in {"navigate", "attempt"}
      BY <1>0, <1>6, <2>1, <3>1, EntryType DEF CheckGuard
    <3> QED
      BY <1>6, <2>1, <3>1, <3>2 DEF CheckGuard, Observe
  <2>2. CASE ~GuardAllows(step, seen')
    <3>1. Return("policy_blocked", 0, seen') /\ seen' \in Observations \cup {None}
      BY <1>6, <2>2 DEF CheckGuard, Observe
    <3>2. result' \in Results /\ pc' = "done" /\ result' # None
      BY <1>2, <1>3, <3>1, ReturnType
    <3> QED
      BY <1>6, <3>1, <3>2 DEF CheckGuard
  <2> QED
    BY <2>1, <2>2
<1>7. CASE FindOutcome
  <2> DEFINE k == KnownOutcome(seen')
  <2>1. k \in 0..Len(Capability.outcomes) /\ Capability.outcomes[k].category \in Statuses
    BY <1>2, <1>7, KnownOutcomeType DEF FindOutcome
  <2>2. Return(Capability.outcomes[k].category, k, seen') /\ seen' \in Observations \cup {None}
    BY <1>7 DEF FindOutcome, Observe
  <2>3. result' \in Results /\ pc' = "done" /\ result' # None
    BY <2>1, <2>2, ReturnType
  <2> QED
    BY <1>7, <2>2, <2>3 DEF FindOutcome
<1>8. CASE FindTarget
  BY <1>8 DEF FindTarget, Attempting, Observe
<1>9. CASE MissTarget
  <2>1. seen' \in Observations \cup {None}
    BY <1>9 DEF MissTarget, Observe
  <2>2. CASE LastAttempt
    <3>1. result' \in Results /\ pc' = "done" /\ result' # None
      BY <1>2, <1>3, <1>9, <2>1, <2>2, ReturnType DEF MissTarget
    <3> QED
      BY <1>9, <2>1, <2>2, <3>1 DEF MissTarget
  <2>3. CASE ~LastAttempt
    BY <1>9, <2>1, <2>3 DEF MissTarget, Attempting
  <2> QED
    BY <2>2, <2>3
<1>10. CASE RaiseUnreachable
  <2>1. result' \in Results /\ pc' = "done" /\ result' # None
    BY <1>2, <1>3, <1>10, ReturnType DEF RaiseUnreachable
  <2> QED
    BY <1>10, <2>1 DEF RaiseUnreachable
<1>11. ASSUME Proceed, pc \in {"act", "navigate"}
       PROVE  /\ step' \in 1..(N + 1) /\ attempt' \in Nat /\ taken' \in [1..N -> Nat]
              /\ pc' \in {"guard", "navigate", "attempt", "final"}
              /\ pc' \in {"guard", "navigate", "attempt"} => step' \in 1..N
  <2>1. N \in Nat /\ step \in 1..N
    BY <1>0, <1>11
  <2>2. step + 1 \in 1..(N + 1) /\ (step + 1 # N + 1 => step + 1 \in 1..N)
    BY <2>1
  <2>3. step' = step + 1 /\ attempt' = 0 /\ pc' = Entry(step + 1, call.guarded)
    BY <1>11 DEF Proceed
  <2>4. /\ pc' \in {"guard", "navigate", "attempt", "final"}
        /\ pc' = "final" <=> step + 1 = N + 1
    BY <1>1, <2>2, <2>3, EntryType
  <2>5. taken' \in [1..N -> Nat]
    BY <1>11, <2>1 DEF Proceed
  <2> QED
    BY <2>2, <2>3, <2>4, <2>5
<1>12. Tried /\ step \in 1..N => acts' \in [1..N -> Nat]
  BY DEF Tried
<1>13. CASE ActSucceeds
  BY <1>11, <1>12, <1>13 DEF ActSucceeds
<1>14. CASE ActFails
  <2>1. CASE LastAttempt
    <3>1. result' \in Results /\ pc' = "done" /\ result' # None
      BY <1>2, <1>3, <1>14, <2>1, ReturnType DEF ActFails
    <3> QED
      BY <1>12, <1>14, <2>1, <3>1 DEF ActFails
  <2>2. CASE ~LastAttempt
    BY <1>12, <1>14, <2>2 DEF ActFails
  <2> QED
    BY <2>1, <2>2
<1>15. CASE NavigateSucceeds
  BY <1>11, <1>12, <1>15 DEF NavigateSucceeds
<1>16. CASE NavigateFails
  <2>1. CASE attempt < Steps[step].retries
    BY <1>12, <1>16, <2>1 DEF NavigateFails
  <2>2. CASE ~(attempt < Steps[step].retries)
    <3>1. result' \in Results /\ pc' = "done" /\ result' # None
      BY <1>2, <1>3, <1>16, <2>2, ReturnType DEF NavigateFails
    <3> QED
      BY <1>12, <1>16, <2>2, <3>1 DEF NavigateFails
  <2> QED
    BY <2>1, <2>2
<1>17. CASE Finish
  <2> DEFINE k == KnownOutcome(seen')
  <2>1. seen' \in Observations \cup {None}
    BY <1>17 DEF Finish, Observe
  <2>2. /\ k \in 0..Len(Capability.outcomes)
        /\ k # 0 => Capability.outcomes[k].category \in Statuses
    BY <1>2, KnownOutcomeType
  <2>3. \/ k # 0 /\ Return(Capability.outcomes[k].category, k, seen')
        \/ Return("success", 0, seen')
        \/ Return("unrecognized", 0, seen')
    BY <1>17 DEF Finish
  <2>4. result' \in Results /\ pc' = "done" /\ result' # None
    BY <1>2, <1>3, <2>1, <2>2, <2>3, ReturnType
  <2> QED
    BY <1>17, <2>1, <2>4 DEF Finish
<1>18. CASE ObserveRaises
  <2>1. result' \in Results /\ pc' = "done" /\ result' # None
    BY <1>2, <1>3, <1>18, ReturnType DEF ObserveRaises
  <2> QED
    BY <1>18, <2>1 DEF ObserveRaises
<1>19. CASE PageChanges
  BY <1>19 DEF PageChanges
<1>20. CASE UNCHANGED vars
  BY <1>20 DEF vars
<1> QED
  BY <1>4, <1>5, <1>6, <1>7, <1>8, <1>9, <1>10, <1>13, <1>14, <1>15, <1>16, <1>17,
     <1>18, <1>19, <1>20 DEF Next, Engine

\* The engine's state is what its types say, whatever artifact it is given.
THEOREM TypeCorrect == Spec => []TypeOK
  BY TypeInit, TypeStep, PTL DEF Spec

(***************************************************************************)
(* The inductive invariant.  The properties say what the histories acts    *)
(* and taken look like; these parts say, at each of the engine's calls,    *)
(* what its own loop variables have to do with them.                       *)
(***************************************************************************)

\* Where the cursor stands, and that the guard is asked before the first try.
Cursor ==
  /\ pc = "start" => step = 1
  /\ pc = "final" => step = N + 1
  /\ pc \in {"start", "guard"} => attempt = 0 /\ acts[step] = 0
  /\ pc \in {"navigate", "attempt", "act"} => acts[step] <= attempt
  /\ pc = "act" => attempt <= Steps[step].retries
  /\ pc = "navigate" => attempt <= IF Steps[step].retries < 0 THEN 0 ELSE Steps[step].retries

\* What has been acted on, or is about to be, the guard let through.
Cleared ==
  call.guarded =>
    /\ pc \in {"navigate", "attempt", "act"} => RiskPermitted(step)
    /\ \A i \in 1..N : acts[i] > 0 => RiskPermitted(i)

Inv == TypeOK /\ StepsInOrderOnce /\ Cursor

LEMMA InvInit == Init => Inv
<1> SUFFICES ASSUME Init
             PROVE  Inv
  OBVIOUS
<1>1. N \in Nat \ {0}
  BY CapabilityAssumption
<1>2. TypeOK
  BY TypeInit
<1>3. StepsInOrderOnce
  BY <1>1 DEF Init, StepsInOrderOnce
<1>4. Cursor
  BY <1>1 DEF Init, Cursor
<1> QED
  BY <1>2, <1>3, <1>4 DEF Inv

LEMMA InvStep == Inv /\ [Next]_vars => Inv'
<1> SUFFICES ASSUME Inv, [Next]_vars
             PROVE  Inv'
  OBVIOUS
<1> USE DEF Inv
<1>1. TypeOK'
  BY TypeStep
<1> SUFFICES (StepsInOrderOnce /\ Cursor)'
  BY <1>1
<1>2. N \in Nat \ {0} /\ \A i \in 1..N : Steps[i].retries \in Int
  BY CapabilityAssumption
<1>3. call.guarded \in BOOLEAN
  BY CallsAssumption DEF TypeOK
\* A return, or anything else that acts on nothing and moves no cursor.
<1>4. ASSUME pc' = "done", UNCHANGED <<step, acts, taken>>
      PROVE  (StepsInOrderOnce /\ Cursor)'
  BY <1>4 DEF StepsInOrderOnce, Cursor
<1>5. CASE ValidateInputs
  <2>1. pc' \in {"guard", "navigate", "attempt"}
    <3>1. 1 \in 1..(N + 1) /\ 1 # N + 1
      BY <1>2
    <3> QED
      BY <1>3, <1>5, <3>1, EntryType DEF ValidateInputs
  <2> QED
    BY <1>2, <1>5, <2>1 DEF ValidateInputs, StepsInOrderOnce, Cursor, TypeOK
<1>6. CASE RefuseInputs
  BY <1>4, <1>6 DEF RefuseInputs, Return
<1>7. CASE CheckGuard
  <2>1. CASE GuardAllows(step, seen')
    <3>1. step \in 1..N /\ step \in 1..(N + 1) /\ step # N + 1
      BY <1>2, <1>7 DEF CheckGuard, TypeOK
    <3>2. pc' \in {"navigate", "attempt"}
      BY <1>2, <1>7, <2>1, <3>1, EntryType DEF CheckGuard
    <3>3. attempt' = 0 /\ acts'[step'] = 0 /\ Steps[step'].retries \in Int
      BY <1>2, <1>7, <3>1 DEF CheckGuard, Cursor
    <3>4. Cursor'
      BY <3>2, <3>3 DEF Cursor
    <3> QED
      BY <1>7, <3>4 DEF CheckGuard, StepsInOrderOnce
  <2>2. CASE ~GuardAllows(step, seen')
    BY <1>4, <1>7, <2>2 DEF CheckGuard, Return
  <2> QED
    BY <2>1, <2>2
<1>8. CASE FindOutcome
  BY <1>4, <1>8 DEF FindOutcome, Return
<1>9. CASE FindTarget
  BY <1>9 DEF FindTarget, Attempting, StepsInOrderOnce, Cursor
<1>10. CASE MissTarget
  <2>1. CASE LastAttempt
    BY <1>4, <1>10, <2>1 DEF MissTarget, Return
  <2>2. CASE ~LastAttempt
    BY <1>2, <1>10, <2>2 DEF MissTarget, Attempting, StepsInOrderOnce, Cursor, TypeOK
  <2> QED
    BY <2>1, <2>2
<1>11. CASE RaiseUnreachable
  BY <1>4, <1>11 DEF RaiseUnreachable, Return
\* A successful act moves the cursor over the step it was made of.
<1>12. ASSUME Tried, Proceed, pc \in {"act", "navigate"}
       PROVE  (StepsInOrderOnce /\ Cursor)'
  <2>1. step \in 1..N /\ step + 1 \in 1..(N + 1) /\ step' = step + 1
    BY <1>2, <1>12 DEF TypeOK, Proceed
  <2>2. /\ pc' \in {"guard", "navigate", "attempt", "final"}
        /\ pc' = "final" <=> step' = N + 1
    BY <1>3, <1>12, <2>1, EntryType DEF Proceed
  <2>3. \A i \in 1..N : acts'[i] = IF i = step THEN acts[i] + 1 ELSE acts[i]
    BY <1>12 DEF Tried, TypeOK
  <2>4. \A i \in 1..N : taken'[i] = IF i = step THEN taken[i] + 1 ELSE taken[i]
    BY <1>12 DEF Proceed, TypeOK
  <2>5. ASSUME NEW i \in 1..N
        PROVE  /\ taken'[i] = IF i < step' THEN 1 ELSE 0
               /\ acts'[i] > 0 => i <= step'
    <3>1. CASE i = step
      BY <1>2, <2>1, <2>4, <3>1 DEF StepsInOrderOnce
    <3>2. CASE i < step
      BY <1>2, <2>1, <2>4, <3>2 DEF StepsInOrderOnce
    <3>3. CASE i > step
      BY <1>2, <2>1, <2>3, <2>4, <3>3 DEF StepsInOrderOnce
    <3> QED
      BY <1>2, <2>1, <3>1, <3>2, <3>3
  <2>6. attempt' = 0 /\ (step' \in 1..N => acts'[step'] = 0)
    BY <1>2, <1>12, <2>1, <2>3 DEF Proceed, StepsInOrderOnce, TypeOK
  <2>7. pc' # "final" => step' \in 1..N /\ Steps[step'].retries \in Int /\ acts'[step'] = 0
    BY <1>2, <2>1, <2>2, <2>6
  <2>8. Cursor'
    BY <2>2, <2>6, <2>7 DEF Cursor
  <2> QED
    BY <2>5, <2>8 DEF StepsInOrderOnce
\* A failed act that is tried again costs an attempt.
<1>13. ASSUME Tried, attempt' = attempt + 1, UNCHANGED <<step, taken>>, step \in 1..N,
              \/ pc = "act" /\ pc' = "attempt"
              \/ pc = "navigate" /\ pc' = "navigate" /\ attempt < Steps[step].retries
       PROVE  (StepsInOrderOnce /\ Cursor)'
  <2>1. \A i \in 1..N : acts'[i] = IF i = step THEN acts[i] + 1 ELSE acts[i]
    BY <1>13 DEF Tried, TypeOK
  <2>2. StepsInOrderOnce'
    BY <1>13, <2>1 DEF StepsInOrderOnce, TypeOK
  <2>3. Cursor'
    BY <1>1, <1>2, <1>13, <2>1 DEF Cursor, TypeOK
  <2> QED
    BY <2>2, <2>3
\* A failed act that is the last one ends the call.
<1>14. ASSUME Tried, pc' = "done", UNCHANGED <<step, taken>>, step \in 1..N
       PROVE  (StepsInOrderOnce /\ Cursor)'
  <2>1. \A i \in 1..N : acts'[i] = IF i = step THEN acts[i] + 1 ELSE acts[i]
    BY <1>14 DEF Tried, TypeOK
  <2> QED
    BY <1>14, <2>1 DEF StepsInOrderOnce, Cursor, TypeOK
<1>15. CASE ActSucceeds
  BY <1>12, <1>15 DEF ActSucceeds
<1>16. CASE ActFails
  <2>1. step \in 1..N
    BY <1>16 DEF ActFails, TypeOK
  <2> QED
    BY <1>13, <1>14, <1>16, <2>1 DEF ActFails, Return
<1>17. CASE NavigateSucceeds
  BY <1>12, <1>17 DEF NavigateSucceeds
<1>18. CASE NavigateFails
  <2>1. step \in 1..N
    BY <1>18 DEF NavigateFails, TypeOK
  <2>2. CASE attempt < Steps[step].retries
    BY <1>13, <1>18, <2>1, <2>2 DEF NavigateFails
  <2>3. CASE ~(attempt < Steps[step].retries)
    BY <1>14, <1>18, <2>1, <2>3 DEF NavigateFails, Return
  <2> QED
    BY <2>2, <2>3
<1>19. CASE Finish
  BY <1>4, <1>19 DEF Finish, Return
<1>20. CASE ObserveRaises
  BY <1>4, <1>20 DEF ObserveRaises, Return
<1>21. CASE PageChanges
  BY <1>21 DEF PageChanges, StepsInOrderOnce, Cursor
<1>22. CASE UNCHANGED vars
  BY <1>22 DEF vars, StepsInOrderOnce, Cursor
<1> QED
  BY <1>1, <1>5, <1>6, <1>7, <1>8, <1>9, <1>10, <1>11, <1>15, <1>16, <1>17, <1>18,
     <1>19, <1>20, <1>21, <1>22 DEF Next, Engine

LEMMA Invariance == Spec => []Inv
  BY InvInit, InvStep, PTL DEF Spec

\* The steps of any artifact are carried out in order and once each, whatever
\* its retries and whatever the page does meanwhile.
THEOREM CarriedOutInOrderOnce == Spec => []StepsInOrderOnce
<1>1. Inv => StepsInOrderOnce
  BY DEF Inv
<1> QED
  BY <1>1, Invariance, PTL

(***************************************************************************)
(* What is acted on.                                                       *)
(***************************************************************************)

\* Only the four calls of act() count as acts, and only of the current step.
LEMMA ActsOfTheStep ==
  ASSUME TypeOK, [Next]_vars
  PROVE  /\ UNCHANGED call
         /\ \/ UNCHANGED acts
            \/ /\ pc \in {"act", "navigate"} /\ step \in 1..N
               /\ Tried
               /\ \A i \in 1..N : acts'[i] = IF i = step THEN acts[i] + 1 ELSE acts[i]
<1>1. UNCHANGED call
  BY DEF Next, Engine, vars, ValidateInputs, RefuseInputs, CheckGuard, FindOutcome, FindTarget,
         MissTarget, RaiseUnreachable, ActSucceeds, ActFails, NavigateSucceeds, NavigateFails,
         Finish, ObserveRaises, PageChanges
<1>2. \/ UNCHANGED acts
      \/ pc \in {"act", "navigate"} /\ Tried
  BY DEF Next, Engine, vars, ValidateInputs, RefuseInputs, CheckGuard, FindOutcome, FindTarget,
         MissTarget, RaiseUnreachable, ActSucceeds, ActFails, NavigateSucceeds, NavigateFails,
         Finish, ObserveRaises, PageChanges
<1>3. ASSUME pc \in {"act", "navigate"}, Tried
      PROVE  /\ step \in 1..N
             /\ \A i \in 1..N : acts'[i] = IF i = step THEN acts[i] + 1 ELSE acts[i]
  BY <1>3 DEF TypeOK, Tried
<1> QED
  BY <1>1, <1>2, <1>3

LEMMA AttemptsStep == Inv /\ AttemptsBounded /\ [Next]_vars => AttemptsBounded'
<1> SUFFICES ASSUME Inv, AttemptsBounded, [Next]_vars, NEW i \in 1..N
             PROVE  acts'[i] <= IF Steps[i].retries < 0 THEN 1 ELSE Steps[i].retries + 1
  BY DEF AttemptsBounded
<1>1. acts[i] <= IF Steps[i].retries < 0 THEN 1 ELSE Steps[i].retries + 1
  BY DEF AttemptsBounded
<1>2. Steps[i].retries \in Int /\ acts[i] \in Nat /\ attempt \in Nat
  BY CapabilityAssumption DEF Inv, TypeOK
<1>3. CASE UNCHANGED acts
  BY <1>1, <1>3
<1>4. CASE /\ pc \in {"act", "navigate"}
           /\ acts'[i] = IF i = step THEN acts[i] + 1 ELSE acts[i]
  <2>1. CASE i # step
    BY <1>1, <1>4, <2>1
  <2>2. CASE i = step
    <3>1. /\ acts[i] <= attempt
          /\ attempt <= IF Steps[i].retries < 0 THEN 0 ELSE Steps[i].retries
      BY <1>2, <1>4, <2>2 DEF Inv, Cursor
    <3> QED
      BY <1>2, <1>4, <2>2, <3>1
  <2> QED
    BY <2>1, <2>2
<1> QED
  BY <1>3, <1>4, ActsOfTheStep DEF Inv

\* max_retries bounds the acts of a step, over both kinds of retry.
THEOREM RetriesBoundActs == Spec => []AttemptsBounded
<1>1. Init => AttemptsBounded
  BY CapabilityAssumption DEF Init, AttemptsBounded
<1> QED
  BY <1>1, AttemptsStep, Invariance, PTL DEF Spec

LEMMA ClearedStep == Inv /\ Cleared /\ [Next]_vars => Cleared'
<1> SUFFICES ASSUME Inv, Cleared, [Next]_vars, call.guarded
             PROVE  Cleared'
  BY ActsOfTheStep DEF Cleared, Inv
<1>1. UNCHANGED call /\ \A i : RiskPermitted(i)' <=> RiskPermitted(i)
  BY ActsOfTheStep DEF Inv, RiskPermitted
<1>2. N \in Nat \ {0}
  BY CapabilityAssumption
<1>3. \A i \in 1..N : acts'[i] > 0 => RiskPermitted(i)
  BY ActsOfTheStep DEF Inv, Cleared
<1>4. pc' \in {"navigate", "attempt", "act"} => RiskPermitted(step')
  <2>1. CASE ValidateInputs
    <3>1. 1 \in 1..(N + 1)
      BY <1>2
    <3> QED
      BY <2>1, <3>1, EntryType DEF ValidateInputs
  <2>2. CASE CheckGuard
    BY <2>2 DEF CheckGuard, GuardAllows, Return
  <2>3. ASSUME Proceed, pc \in {"act", "navigate"}
        PROVE  pc' \notin {"navigate", "attempt", "act"}
    <3>1. step + 1 \in 1..(N + 1)
      BY <1>2, <2>3 DEF Inv, TypeOK
    <3>2. Entry(step + 1, TRUE) \notin {"navigate", "attempt", "act"}
      BY <3>1, EntryType
    <3>3. call.guarded = TRUE
      BY CallsAssumption DEF Inv, TypeOK
    <3> QED
      BY <2>3, <3>2, <3>3 DEF Proceed
  <2>4. CASE ActSucceeds \/ NavigateSucceeds
    BY <2>3, <2>4 DEF ActSucceeds, NavigateSucceeds
  <2>5. CASE RefuseInputs \/ FindOutcome \/ RaiseUnreachable \/ Finish \/ ObserveRaises
    BY <2>5 DEF RefuseInputs, FindOutcome, RaiseUnreachable, Finish, ObserveRaises, Return
  <2>6. CASE FindTarget \/ MissTarget \/ ActFails \/ NavigateFails
    BY <2>6 DEF FindTarget, MissTarget, ActFails, NavigateFails, Attempting, Cleared, Return
  <2>7. CASE PageChanges \/ UNCHANGED vars
    BY <2>7 DEF PageChanges, vars, Cleared
  <2> QED
    BY <2>1, <2>2, <2>4, <2>5, <2>6, <2>7 DEF Next, Engine
<1> QED
  BY <1>1, <1>3, <1>4 DEF Cleared

LEMMA ClearedInvariance == Spec => []Cleared
<1>1. Init => Cleared
  BY DEF Init, Cleared
<1> QED
  BY <1>1, ClearedStep, Invariance, PTL DEF Spec

\* Whatever the artifact and the page, guarded_replay acts on no irreversible
\* step that the call did not authorize.
THEOREM IrreversibleNeedsAuthorization == Spec => []RiskyNeedsAuthorization
<1>1. Cleared => RiskyNeedsAuthorization
  BY DEF Cleared, RiskyNeedsAuthorization, RiskPermitted
<1> QED
  BY <1>1, ClearedInvariance, PTL

-----------------------------------------------------------------------------
(***************************************************************************)
(* What an act was aimed by, what each verdict means, and that the engine  *)
(* implements ReplayContract.                                              *)
(***************************************************************************)

\* What the engine knows of the page it last saw when it is about to act.
Sighted ==
  /\ pc = "navigate" => Steps[step].action = "navigate"
  /\ pc = "act" =>
       LET found == ResolveTarget(seen, Steps[step].target)
       IN  /\ seen # None
           /\ KnownOutcome(seen) = 0
           /\ found.status = "resolved"
           /\ aim = [frame |-> seen.nodes[found.node].frame, ref |-> seen.nodes[found.node].ref]

\* The values of the EXTRACT steps behind the cursor have been kept.
Extracted ==
  \A i \in 1..N : (i < step /\ Steps[i].action = "extract") => Steps[i].output \in DOMAIN outputs

\* Only a guarded call asks the guard.
Asked == pc = "guard" => call.guarded

(***************************************************************************)
(* Acts.                                                                   *)
(***************************************************************************)

LEMMA SightedStep == Inv /\ Sighted /\ [Next]_vars => Sighted'
<1> SUFFICES ASSUME Inv, Sighted, [Next]_vars
             PROVE  Sighted'
  OBVIOUS
<1>1. N \in Nat \ {0} /\ call.guarded \in BOOLEAN
  BY CapabilityAssumption, CallsAssumption DEF Inv, TypeOK
<1>2. CASE ValidateInputs
  <2>1. 1 \in 1..(N + 1) /\ step = 1
    BY <1>1, <1>2 DEF ValidateInputs, Inv, Cursor
  <2> QED
    BY <1>1, <1>2, <2>1, EntryType DEF ValidateInputs, Sighted
<1>3. CASE CheckGuard
  <2>1. step \in 1..(N + 1)
    BY DEF Inv, TypeOK
  <2> QED
    BY <1>3, <2>1, EntryType DEF CheckGuard, Return, Sighted
<1>4. CASE FindTarget
  <2>1. seen' # None
    BY <1>4, NoneAssumption DEF FindTarget, Observe, Inv, TypeOK
  <2> QED
    BY <1>4, <2>1 DEF FindTarget, Target, Sighted, KnownOutcome
<1>5. ASSUME Proceed, pc \in {"act", "navigate"}
      PROVE  Sighted'
  <2>1. step + 1 \in 1..(N + 1)
    BY <1>1, <1>5 DEF Inv, TypeOK
  <2> QED
    BY <1>1, <1>5, <2>1, EntryType DEF Proceed, Sighted
<1>6. CASE ActSucceeds \/ NavigateSucceeds
  BY <1>5, <1>6 DEF ActSucceeds, NavigateSucceeds
<1>7. CASE RefuseInputs \/ FindOutcome \/ RaiseUnreachable \/ Finish \/ ObserveRaises
  BY <1>7 DEF RefuseInputs, FindOutcome, RaiseUnreachable, Finish, ObserveRaises, Return, Sighted
<1>8. CASE MissTarget \/ ActFails
  BY <1>8 DEF MissTarget, ActFails, Attempting, Return, Sighted
<1>9. CASE NavigateFails
  BY <1>9 DEF NavigateFails, Return, Sighted
<1>10. CASE PageChanges \/ UNCHANGED vars
  BY <1>10 DEF PageChanges, vars, Sighted, KnownOutcome
<1> QED
  BY <1>2, <1>3, <1>4, <1>6, <1>7, <1>8, <1>9, <1>10 DEF Next, Engine

LEMMA SightedInvariance == Spec => []Sighted
<1>1. Init => Sighted
  BY DEF Init, Sighted
<1> QED
  BY <1>1, SightedStep, Invariance, PTL DEF Spec

\* Every act of a targeted step, on a first try or a retry, aims at what its
\* target uniquely resolves to on the last observation, which shows no outcome.
THEOREM ActsAimAtAFreshResolution == Spec => ActsOnlyOnWhatItSaw
<1> DEFINE Aimed ==
      \A i \in 1..N :
        (acts'[i] # acts[i] /\ Steps[i].action # "navigate") =>
          LET found == ResolveTarget(seen, Steps[i].target)
          IN  /\ KnownOutcome(seen) = 0
              /\ found.status = "resolved"
              /\ aim.ref = seen.nodes[found.node].ref
              /\ aim.frame = seen.nodes[found.node].frame
<1>1. ASSUME Inv, Sighted, [Next]_vars
      PROVE  Aimed
  <2> SUFFICES ASSUME NEW i \in 1..N, acts'[i] # acts[i], Steps[i].action # "navigate"
               PROVE  LET found == ResolveTarget(seen, Steps[i].target)
                      IN  /\ KnownOutcome(seen) = 0
                          /\ found.status = "resolved"
                          /\ aim.ref = seen.nodes[found.node].ref
                          /\ aim.frame = seen.nodes[found.node].frame
    BY DEF Aimed
  <2>1. pc \in {"act", "navigate"} /\ i = step
    BY <1>1, ActsOfTheStep DEF Inv
  <2>2. pc = "act"
    BY <1>1, <2>1 DEF Sighted
  <2> QED
    BY <1>1, <2>1, <2>2 DEF Sighted
<1>2. Inv /\ Sighted /\ [Next]_vars => [Aimed]_vars
  BY <1>1
<1> QED
  BY <1>2, Invariance, SightedInvariance, PTL DEF Spec, ActsOnlyOnWhatItSaw

(***************************************************************************)
(* Verdicts.                                                               *)
(***************************************************************************)

\* A target of one rung resolves only when that rung has one hit.
LEMMA OneRungResolves ==
  ASSUME NEW obs, NEW rung,
         IsResolved(obs, [tiers |-> <<rung>>, policy |-> "escalate_on_ambiguous"])
  PROVE  HitCount(obs, rung) = 1
<1> DEFINE target == [tiers |-> <<rung>>, policy |-> "escalate_on_ambiguous"]
<1>1. HitCount(obs, rung) # 1 =>
        ResolveTarget(obs, target) \in {NotFound, Ambiguous(1)}
  <2> SUFFICES ASSUME HitCount(obs, rung) # 1
               PROVE  ResolveTarget(obs, target) \in {NotFound, Ambiguous(1)}
    OBVIOUS
  <2>1. target.tiers = <<rung>> /\ target.policy = "escalate_on_ambiguous"
    OBVIOUS
  <2>2. {t \in DOMAIN <<rung>> : HitCount(obs, <<rung>>[t]) = 1} = {}
    OBVIOUS
  <2>3. {t \in DOMAIN <<rung>> : HitCount(obs, <<rung>>[t]) > 1} \in {{}, {1}}
    OBVIOUS
  <2>4. Min({1}) = 1
    BY MinOfNaturals
  <2>5. Verdict(obs, <<rung>>, 1) = Ambiguous(1)
    BY DEF Verdict
  <2> HIDE DEF target
  <2> QED
    BY <2>1, <2>2, <2>3, <2>4, <2>5 DEF ResolveTarget
<1> QED
  BY <1>1 DEF IsResolved, NotFound, Ambiguous

\* A verdict, once given, stays.
LEMMA VerdictStays ==
  ASSUME TypeOK, [Next]_vars, result # None
  PROVE  UNCHANGED <<call, step, result, outputs, acts, taken>>
<1>1. pc = "done"
  BY DEF TypeOK
<1> QED
  BY <1>1 DEF Next, Engine, vars, ValidateInputs, RefuseInputs, CheckGuard, FindOutcome, FindTarget,
       MissTarget, RaiseUnreachable, ActSucceeds, ActFails, NavigateSucceeds, NavigateFails,
       Finish, ObserveRaises, PageChanges, Attempting

LEMMA OutcomeStep == Inv /\ Sighted /\ DeclaredOutcomeWins /\ [Next]_vars => DeclaredOutcomeWins'
<1> SUFFICES ASSUME Inv, Sighted, DeclaredOutcomeWins, [Next]_vars
             PROVE  DeclaredOutcomeWins'
  OBVIOUS
<1> USE DEF DeclaredOutcomeWins
<1>1. CASE result # None
  BY <1>1, VerdictStays DEF Inv, KnownOutcome
<1>2. ASSUME UNCHANGED result, result = None
      PROVE  DeclaredOutcomeWins'
  BY <1>2
<1>3. ASSUME NEW status, NEW last, Return(status, 0, last), KnownOutcome(last) = 0
      PROVE  DeclaredOutcomeWins'
  BY <1>3 DEF Return, KnownOutcome
<1>4. ASSUME NEW status, Return(status, 0, None)
      PROVE  DeclaredOutcomeWins'
  BY <1>4 DEF Return
<1>5. ASSUME Return(Capability.outcomes[KnownOutcome(seen')].category, KnownOutcome(seen'), seen')
      PROVE  DeclaredOutcomeWins'
  BY <1>5 DEF Return, KnownOutcome
<1>6. ASSUME Return("policy_blocked", 0, seen')
      PROVE  DeclaredOutcomeWins'
  BY <1>6 DEF Return
<1>7. CASE ValidateInputs \/ FindTarget \/ ActSucceeds \/ NavigateSucceeds \/ PageChanges
           \/ UNCHANGED vars
  BY <1>1, <1>2, <1>7 DEF ValidateInputs, FindTarget, ActSucceeds, NavigateSucceeds, PageChanges, vars
<1>8. CASE RefuseInputs \/ RaiseUnreachable \/ ObserveRaises
  BY <1>4, <1>8 DEF RefuseInputs, RaiseUnreachable, ObserveRaises
<1>9. CASE CheckGuard
  BY <1>1, <1>2, <1>6, <1>9 DEF CheckGuard
<1>10. CASE FindOutcome
  BY <1>5, <1>10 DEF FindOutcome
<1>11. CASE MissTarget
  <2>1. KnownOutcome(seen') = 0
    BY <1>11 DEF MissTarget
  <2> QED
    BY <1>1, <1>2, <1>3, <1>11, <2>1 DEF MissTarget
<1>12. CASE ActFails
  <2>1. KnownOutcome(seen) = 0
    BY <1>12 DEF ActFails, Sighted
  <2> QED
    BY <1>1, <1>2, <1>3, <1>12, <2>1 DEF ActFails
<1>13. CASE NavigateFails
  BY <1>1, <1>2, <1>4, <1>13 DEF NavigateFails
<1>14. CASE Finish
  <2>1. CASE KnownOutcome(seen') # 0
    BY <1>5, <1>14, <2>1 DEF Finish
  <2>2. CASE KnownOutcome(seen') = 0
    BY <1>3, <1>14, <2>2 DEF Finish
  <2> QED
    BY <2>1, <2>2
<1> QED
  BY <1>7, <1>8, <1>9, <1>10, <1>11, <1>12, <1>13, <1>14 DEF Next, Engine

\* A declared outcome wins outright over every verdict of the engine's own but
\* the guard's.
THEOREM OutcomeWins == Spec => []DeclaredOutcomeWins
<1>1. Init => DeclaredOutcomeWins
  BY DEF Init, DeclaredOutcomeWins
<1> QED
  BY <1>1, OutcomeStep, Invariance, SightedInvariance, PTL DEF Spec

LEMMA ExtractedStep == Inv /\ Sighted /\ Extracted /\ [Next]_vars => Extracted'
<1> SUFFICES ASSUME Inv, Sighted, Extracted, [Next]_vars
             PROVE  Extracted'
  OBVIOUS
<1>1. N \in Nat \ {0} /\ step \in 1..(N + 1)
  BY CapabilityAssumption DEF Inv, TypeOK
<1>2. ASSUME UNCHANGED <<step, outputs>>
      PROVE  Extracted'
  BY <1>2 DEF Extracted
<1>3. CASE ActSucceeds
  <2>1. step \in 1..N /\ step' = step + 1
    BY <1>3 DEF ActSucceeds, Proceed, Inv, TypeOK
  <2> SUFFICES ASSUME NEW i \in 1..N, i < step', Steps[i].action = "extract"
               PROVE  Steps[i].output \in DOMAIN outputs'
    BY DEF Extracted
  <2>2. CASE i < step
    BY <1>3, <2>2 DEF ActSucceeds, Extracted
  <2>3. CASE i = step
    BY <1>3, <2>3 DEF ActSucceeds
  <2> QED
    BY <1>1, <2>1, <2>2, <2>3
<1>4. CASE NavigateSucceeds
  <2>1. Steps[step].action = "navigate" /\ step' = step + 1 /\ UNCHANGED outputs
    BY <1>4 DEF NavigateSucceeds, Proceed, Sighted
  <2>2. \A i \in 1..N : i < step' => i < step \/ i = step
    BY <1>1, <2>1
  <2> QED
    BY <2>1, <2>2 DEF Extracted
<1>5. CASE ValidateInputs \/ RefuseInputs \/ CheckGuard \/ FindOutcome \/ FindTarget \/ MissTarget
           \/ RaiseUnreachable \/ ActFails \/ NavigateFails \/ Finish \/ ObserveRaises
           \/ PageChanges \/ UNCHANGED vars
  BY <1>2, <1>5 DEF ValidateInputs, RefuseInputs, CheckGuard, FindOutcome, FindTarget, MissTarget,
     RaiseUnreachable, ActFails, NavigateFails, Finish, ObserveRaises, PageChanges, vars
<1> QED
  BY <1>3, <1>4, <1>5 DEF Next, Engine

LEMMA ExtractedInvariance == Spec => []Extracted
<1>1. Init => Extracted
  <2>1. N \in Nat \ {0}
    BY CapabilityAssumption
  <2> QED
    BY <2>1 DEF Init, Extracted
<1> QED
  BY <1>1, ExtractedStep, Invariance, SightedInvariance, PTL DEF Spec

\* A declared outcome's category is no other verdict.
LEMMA OutcomeCategory ==
  ASSUME NEW obs, KnownOutcome(obs) # 0
  PROVE  Capability.outcomes[KnownOutcome(obs)].category \in Category
  BY KnownOutcomeType

LEMMA SuccessStep ==
  Inv /\ Extracted /\ SuccessIsConfirmed /\ [Next]_vars => SuccessIsConfirmed'
<1> SUFFICES ASSUME Inv, Extracted, SuccessIsConfirmed, [Next]_vars
             PROVE  SuccessIsConfirmed'
  OBVIOUS
<1>1. CASE result # None
  BY <1>1, VerdictStays DEF Inv, SuccessIsConfirmed, KnownOutcome
<1>2. ASSUME UNCHANGED result, result = None
      PROVE  SuccessIsConfirmed'
  BY <1>2 DEF SuccessIsConfirmed
<1>3. ASSUME NEW status, NEW outcome, NEW last, Return(status, outcome, last), status # "success"
      PROVE  SuccessIsConfirmed'
  BY <1>3 DEF Return, SuccessIsConfirmed
<1>4. ASSUME KnownOutcome(seen') # 0,
             Return(Capability.outcomes[KnownOutcome(seen')].category, KnownOutcome(seen'), seen')
      PROVE  SuccessIsConfirmed'
  BY <1>3, <1>4, OutcomeCategory DEF Category
<1>5. CASE ValidateInputs \/ FindTarget \/ ActSucceeds \/ NavigateSucceeds \/ PageChanges
           \/ UNCHANGED vars
  BY <1>1, <1>2, <1>5 DEF ValidateInputs, FindTarget, ActSucceeds, NavigateSucceeds, PageChanges, vars
<1>6. CASE RefuseInputs \/ RaiseUnreachable \/ ObserveRaises
  BY <1>3, <1>6 DEF RefuseInputs, RaiseUnreachable, ObserveRaises
<1>7. CASE CheckGuard
  BY <1>1, <1>2, <1>3, <1>7 DEF CheckGuard
<1>8. CASE FindOutcome
  BY <1>4, <1>8 DEF FindOutcome
<1>9. CASE MissTarget
  BY <1>1, <1>2, <1>3, <1>9 DEF MissTarget
<1>10. CASE ActFails
  BY <1>1, <1>2, <1>3, <1>10 DEF ActFails
<1>11. CASE NavigateFails
  BY <1>1, <1>2, <1>3, <1>11 DEF NavigateFails
<1>12. CASE Finish
  <2> DEFINE target == [tiers |-> <<Capability.checkpoint>>, policy |-> "escalate_on_ambiguous"]
  <2>1. CASE KnownOutcome(seen') # 0
    BY <1>4, <1>12, <2>1 DEF Finish
  <2>2. CASE KnownOutcome(seen') = 0 /\ ~IsResolved(seen', target)
    BY <1>3, <1>12, <2>2 DEF Finish
  <2>3. CASE KnownOutcome(seen') = 0 /\ IsResolved(seen', target)
    <3>1. HitCount(seen', Capability.checkpoint) = 1
      BY <2>3, OneRungResolves
    <3>2. step = N + 1 /\ N \in Nat \ {0}
      BY <1>12, CapabilityAssumption DEF Finish, Inv, Cursor
    <3>3. \A i \in 1..N : taken[i] = 1
      BY <3>2 DEF Inv, StepsInOrderOnce
    <3>4. \A i \in 1..N : Steps[i].action = "extract" => Steps[i].output \in DOMAIN outputs
      BY <3>2 DEF Extracted
    <3>5. result'.last = seen' /\ UNCHANGED <<outputs, taken>>
      BY <1>12, <2>3 DEF Finish, Return
    <3> QED
      BY <2>3, <3>1, <3>3, <3>4, <3>5 DEF SuccessIsConfirmed, KnownOutcome
  <2> QED
    BY <2>1, <2>2, <2>3
<1> QED
  BY <1>5, <1>6, <1>7, <1>8, <1>9, <1>10, <1>11, <1>12 DEF Next, Engine

\* SUCCESS is never only "the step list was finished".
THEOREM SuccessMeansSuccess == Spec => []SuccessIsConfirmed
<1>1. Init => SuccessIsConfirmed
  BY DEF Init, SuccessIsConfirmed
<1> QED
  BY <1>1, SuccessStep, Invariance, ExtractedInvariance, PTL DEF Spec

(***************************************************************************)
(* The guard's verdict.                                                    *)
(***************************************************************************)

LEMMA AskedStep == Inv /\ Asked /\ [Next]_vars => Asked'
<1> SUFFICES ASSUME Inv, Asked, [Next]_vars
             PROVE  Asked'
  OBVIOUS
<1>1. N \in Nat \ {0} /\ call.guarded \in BOOLEAN /\ UNCHANGED call
  BY CapabilityAssumption, CallsAssumption, ActsOfTheStep DEF Inv, TypeOK
<1>2. CASE ValidateInputs
  <2>1. 1 \in 1..(N + 1)
    BY <1>1
  <2> QED
    BY <1>1, <1>2, <2>1, EntryType DEF ValidateInputs, Asked
<1>3. CASE CheckGuard
  <2>1. step \in 1..(N + 1)
    BY DEF Inv, TypeOK
  <2> QED
    BY <1>3, <2>1, EntryType DEF CheckGuard, Return, Asked
<1>4. ASSUME Proceed, pc \in {"act", "navigate"}
      PROVE  Asked'
  <2>1. step + 1 \in 1..(N + 1)
    BY <1>1, <1>4 DEF Inv, TypeOK
  <2> QED
    BY <1>1, <1>4, <2>1, EntryType DEF Proceed, Asked
<1>5. CASE ActSucceeds \/ NavigateSucceeds
  BY <1>4, <1>5 DEF ActSucceeds, NavigateSucceeds
<1>6. CASE RefuseInputs \/ FindOutcome \/ RaiseUnreachable \/ Finish \/ ObserveRaises
  BY <1>6 DEF RefuseInputs, FindOutcome, RaiseUnreachable, Finish, ObserveRaises, Return, Asked
<1>7. CASE FindTarget \/ MissTarget \/ ActFails \/ NavigateFails
  BY <1>7 DEF FindTarget, MissTarget, ActFails, NavigateFails, Attempting, Return, Asked
<1>8. CASE PageChanges \/ UNCHANGED vars
  BY <1>8 DEF PageChanges, vars, Asked
<1> QED
  BY <1>2, <1>3, <1>5, <1>6, <1>7, <1>8 DEF Next, Engine

LEMMA AskedInvariance == Spec => []Asked
<1>1. Init => Asked
  BY DEF Init, Asked
<1> QED
  BY <1>1, AskedStep, Invariance, PTL DEF Spec

LEMMA BlockedStep ==
  Inv /\ Asked /\ BlockedStepNeverActed /\ [Next]_vars => BlockedStepNeverActed'
<1> SUFFICES ASSUME Inv, Asked, BlockedStepNeverActed, [Next]_vars
             PROVE  BlockedStepNeverActed'
  OBVIOUS
<1>1. CASE result # None
  BY <1>1, VerdictStays DEF Inv, BlockedStepNeverActed
<1>2. ASSUME UNCHANGED result, result = None
      PROVE  BlockedStepNeverActed'
  BY <1>2 DEF BlockedStepNeverActed
<1>3. ASSUME NEW status, NEW outcome, NEW last, Return(status, outcome, last),
             status # "policy_blocked"
      PROVE  BlockedStepNeverActed'
  BY <1>3 DEF Return, BlockedStepNeverActed
<1>4. ASSUME KnownOutcome(seen') # 0,
             Return(Capability.outcomes[KnownOutcome(seen')].category, KnownOutcome(seen'), seen')
      PROVE  BlockedStepNeverActed'
  BY <1>3, <1>4, OutcomeCategory DEF Category
<1>5. CASE ValidateInputs \/ FindTarget \/ ActSucceeds \/ NavigateSucceeds \/ PageChanges
           \/ UNCHANGED vars
  BY <1>1, <1>2, <1>5 DEF ValidateInputs, FindTarget, ActSucceeds, NavigateSucceeds, PageChanges, vars
<1>6. CASE RefuseInputs \/ RaiseUnreachable \/ ObserveRaises
  BY <1>3, <1>6 DEF RefuseInputs, RaiseUnreachable, ObserveRaises
<1>7. CASE CheckGuard
  <2>1. CASE GuardAllows(step, seen')
    BY <1>1, <1>2, <1>7, <2>1 DEF CheckGuard
  <2>2. CASE ~GuardAllows(step, seen')
    <3>1. call'.guarded /\ acts'[step] = 0 /\ step \in 1..N
      BY <1>7, <2>2 DEF CheckGuard, Asked, Inv, Cursor, TypeOK
    <3>2. ~(step > N)
      BY <3>1, CapabilityAssumption
    <3> QED
      BY <1>7, <2>2, <3>1, <3>2 DEF CheckGuard, Return, BlockedStepNeverActed
  <2> QED
    BY <2>1, <2>2
<1>8. CASE FindOutcome
  BY <1>4, <1>8 DEF FindOutcome
<1>9. CASE MissTarget \/ ActFails \/ NavigateFails
  BY <1>1, <1>2, <1>3, <1>9 DEF MissTarget, ActFails, NavigateFails
<1>10. CASE Finish
  BY <1>3, <1>4, <1>10 DEF Finish
<1> QED
  BY <1>5, <1>6, <1>7, <1>8, <1>9, <1>10 DEF Next, Engine

\* A step the guard declined was not acted on, not even by an earlier attempt.
THEOREM GuardDeclinesFirst == Spec => []BlockedStepNeverActed
<1>1. Init => BlockedStepNeverActed
  BY DEF Init, BlockedStepNeverActed
<1> QED
  BY <1>1, BlockedStep, Invariance, AskedInvariance, PTL DEF Spec

(***************************************************************************)
(* ReplayContract.                                                         *)
(***************************************************************************)

LEMMA ContractInit == Init => Contract!Init
<1>1. N \in Nat \ {0}
  BY CapabilityAssumption
<1> QED
  BY <1>1 DEF Init, Contract!Init

LEMMA ContractStep ==
  Inv /\ Cleared /\ [Next]_vars => [Contract!Next]_(Contract!vars)
<1> SUFFICES ASSUME Inv, Cleared, [Next]_vars
             PROVE  [Contract!Next]_(Contract!vars)
  OBVIOUS
<1> DEFINE permitted == {i \in 1..N : call.guarded => RiskPermitted(i)}
<1>1. /\ N \in Nat \ {0} /\ step \in 1..(N + 1) /\ acts \in [1..N -> Nat]
      /\ result = None <=> pc # "done"
      /\ result' = None <=> pc' # "done"
  BY CapabilityAssumption, TypeStep DEF Inv, TypeOK
<1>2. permitted' = permitted
  BY ActsOfTheStep DEF Inv, RiskPermitted
<1>3. \A i \in 1..N : acts[i] > 0 => i <= step
  BY DEF Inv, StepsInOrderOnce
\* A step that leaves what the contract speaks of alone.
<1>4. ASSUME UNCHANGED <<step, acts, result>>
      PROVE  [Contract!Next]_(Contract!vars)
  BY <1>2, <1>4 DEF Contract!vars
\* A verdict with no act.
<1>5. ASSUME NEW status \in Statuses, NEW outcome, NEW last, Return(status, outcome, last),
             result = None, UNCHANGED <<step, acts>>,
             status = "success" => step = N + 1,
             status \in {"policy_blocked", "input_error"} => step \in 1..N /\ acts[step] = 0,
             status = "input_error" => step = 1
      PROVE  [Contract!Next]_(Contract!vars)
  <2>1. result'.status = status /\ result' # None
    BY <1>1, <1>5 DEF Return
  <2>2. Contract!Conclude(status)
    BY <1>1, <1>2, <1>5, <2>1 DEF Contract!Conclude
  <2> QED
    BY <1>5, <2>2 DEF Contract!Next
\* What an act finds: the step is the contract's next, and it is permitted.
<1>6. ASSUME pc \in {"act", "navigate"}, Tried
      PROVE  /\ result = None /\ step \in 1..N /\ step \in permitted
             /\ \A i \in 1..N : acts'[i] = IF i = step THEN acts[i] + 1 ELSE acts[i]
             /\ acts'[step] > 0
  <2>1. result = None /\ step \in 1..N
    BY <1>6 DEF Inv, TypeOK
  <2>2. step \in permitted
    BY <1>6, <2>1 DEF Cleared
  <2>3. \A i \in 1..N : acts'[i] = IF i = step THEN acts[i] + 1 ELSE acts[i]
    BY <1>1, <1>6 DEF Tried
  <2> QED
    BY <1>1, <2>1, <2>2, <2>3
<1> HIDE DEF permitted
\* It succeeds.
<1>7. ASSUME pc \in {"act", "navigate"}, Tried, Proceed, UNCHANGED result
      PROVE  [Contract!Next]_(Contract!vars)
  <2>1. step' = step + 1
    BY <1>7 DEF Proceed
  <2>2. step' \in 1..N => acts'[step'] = 0
    BY <1>1, <1>3, <1>6, <1>7, <2>1
  <2>3. ~(step' \in 1..N /\ acts'[step'] > 0) /\ step' - 1 = step /\ step - 1 + 1 = step
    BY <1>1, <2>1, <2>2
  <2>4. Contract!Act
    BY <1>1, <1>2, <1>6, <1>7, <2>1, <2>3 DEF Contract!Act, permitted
  <2> QED
    BY <2>4 DEF Contract!Next
\* It fails, and is tried again.
<1>8. ASSUME pc \in {"act", "navigate"}, Tried, UNCHANGED <<step, result>>
      PROVE  [Contract!Next]_(Contract!vars)
  <2>1. Contract!Act
    BY <1>1, <1>2, <1>6, <1>8 DEF Contract!Act, permitted
  <2> QED
    BY <2>1 DEF Contract!Next
\* It fails for the last time.
<1>9. ASSUME pc \in {"act", "navigate"}, Tried, UNCHANGED step,
             NEW last, Return("unrecognized", 0, last)
      PROVE  [Contract!Next]_(Contract!vars)
  <2>1. result'.status = "unrecognized" /\ result' # None /\ "unrecognized" \in Statuses
    BY <1>1, <1>9 DEF Return, Statuses
  <2>2. Contract!Conclude("unrecognized")
    BY <1>1, <1>2, <1>6, <1>9, <2>1 DEF Contract!Conclude, permitted
  <2> QED
    BY <2>1, <2>2 DEF Contract!Next
<1>10. CASE ValidateInputs \/ FindTarget \/ PageChanges \/ UNCHANGED vars
  BY <1>4, <1>10 DEF ValidateInputs, FindTarget, PageChanges, vars
<1>11. CASE RefuseInputs
  <2>1. result = None /\ step = 1 /\ step \in 1..N /\ acts[step] = 0
    BY <1>1, <1>11 DEF RefuseInputs, Inv, Cursor
  <2>2. "input_error" \in Statuses
    BY DEF Statuses
  <2> QED
    BY <1>5, <1>11, <2>1, <2>2 DEF RefuseInputs
<1>12. CASE CheckGuard
  <2>1. result = None /\ step \in 1..N /\ acts[step] = 0
    BY <1>1, <1>12 DEF CheckGuard, Inv, Cursor, TypeOK
  <2>2. CASE GuardAllows(step, seen')
    BY <1>4, <1>12, <2>2 DEF CheckGuard
  <2>3. CASE ~GuardAllows(step, seen')
    BY <1>5, <1>12, <2>1, <2>3 DEF CheckGuard, Statuses
  <2> QED
    BY <2>2, <2>3
\* A declared outcome ends the call.
<1>13. ASSUME KnownOutcome(seen') # 0, pc \in {"attempt", "final"}, UNCHANGED <<step, acts>>,
              Return(Capability.outcomes[KnownOutcome(seen')].category, KnownOutcome(seen'), seen')
       PROVE  [Contract!Next]_(Contract!vars)
  <2>1. result = None
    BY <1>1, <1>13
  <2> QED
    BY <1>5, <1>13, <2>1, OutcomeCategory DEF Statuses, Category
<1>14. CASE FindOutcome
  BY <1>13, <1>14 DEF FindOutcome, Attempting
<1>15. CASE MissTarget
  <2>1. result = None
    BY <1>1, <1>15 DEF MissTarget, Attempting
  <2>2. CASE LastAttempt
    BY <1>5, <1>15, <2>1, <2>2 DEF MissTarget, Statuses
  <2>3. CASE ~LastAttempt
    BY <1>4, <1>15, <2>3 DEF MissTarget
  <2> QED
    BY <2>2, <2>3
<1>16. CASE RaiseUnreachable
  <2>1. result = None
    BY <1>1, <1>16 DEF RaiseUnreachable
  <2> QED
    BY <1>5, <1>16, <2>1 DEF RaiseUnreachable, Statuses
<1>17. CASE ActSucceeds \/ NavigateSucceeds
  BY <1>7, <1>17 DEF ActSucceeds, NavigateSucceeds
<1>18. CASE ActFails
  BY <1>8, <1>9, <1>18 DEF ActFails
<1>19. CASE NavigateFails
  BY <1>8, <1>9, <1>19 DEF NavigateFails
<1>20. CASE Finish
  <2>1. result = None /\ step = N + 1
    BY <1>1, <1>20 DEF Finish, Inv, Cursor
  <2>2. CASE KnownOutcome(seen') # 0
    BY <1>13, <1>20, <2>2 DEF Finish
  <2>3. CASE KnownOutcome(seen') = 0
    BY <1>5, <1>20, <2>1, <2>3 DEF Finish, Statuses
  <2> QED
    BY <2>2, <2>3
<1>21. CASE ObserveRaises
  <2>1. result = None
    BY <1>1, <1>21 DEF ObserveRaises
  <2> QED
    BY <1>5, <1>21, <2>1 DEF ObserveRaises, Statuses
<1> QED
  BY <1>10, <1>11, <1>12, <1>14, <1>15, <1>16, <1>17, <1>18, <1>19, <1>20, <1>21 DEF Next, Engine

\* The engine, guarded or not, implements ReplayContract but for its liveness.
THEOREM ImplementsContract == Spec => Contract!Init /\ [][Contract!Next]_(Contract!vars)
  BY ContractInit, ContractStep, Invariance, ClearedInvariance, PTL DEF Spec

-----------------------------------------------------------------------------
(***************************************************************************)
(* That it comes back: what is left to do, which every step makes less.    *)
(***************************************************************************)

Less == OpToRel(<, Nat)

\* Fewer steps ahead; as many, and fewer attempts left; or as many of those too,
\* and fewer calls before the next act.
Before == LexPairOrdering(Less, LexPairOrdering(Less, Less, Nat, Nat), Nat, Nat \X Nat)

LEMMA BeforeIsWellFounded == IsWellFoundedOn(Before, Nat \X (Nat \X Nat))
<1>1. IsWellFoundedOn(Less, Nat)
  BY NatLessThanWellFounded DEF Less
<1> DEFINE inner == LexPairOrdering(Less, Less, Nat, Nat)
           pairs == Nat \X Nat
<1>2. IsWellFoundedOn(inner, pairs)
  BY <1>1, WFLexPairOrdering
<1> HIDE DEF inner, pairs
<1>3. IsWellFoundedOn(LexPairOrdering(Less, inner, Nat, pairs), Nat \X pairs)
  BY <1>1, <1>2, WFLexPairOrdering
<1> QED
  BY <1>3 DEF Before, inner, pairs

StepsAhead ==
  CASE pc = "start" -> N + 2
    [] pc = "done"  -> 0
    [] OTHER        -> N + 2 - step

AttemptsLeft ==
  IF pc \in {"guard", "navigate", "attempt", "act"} /\ attempt <= Steps[step].retries
  THEN Steps[step].retries - attempt ELSE 0

CallsLeft ==
  CASE pc = "guard"   -> 2
    [] pc = "attempt" -> 1
    [] OTHER          -> 0

Rank == <<StepsAhead, <<AttemptsLeft, CallsLeft>>>>

Ranked == /\ StepsAhead \in Nat /\ AttemptsLeft \in Nat /\ CallsLeft \in Nat
          /\ pc # "done" => StepsAhead > 0

LEMMA RankType == TypeOK => Ranked
<1> SUFFICES ASSUME TypeOK PROVE Ranked
  OBVIOUS
<1>1. N \in Nat \ {0} /\ step \in 1..(N + 1) /\ attempt \in Nat
  BY CapabilityAssumption DEF TypeOK
<1>2. pc \in {"guard", "navigate", "attempt", "act"} =>
        step \in 1..N /\ Steps[step].retries \in Int
  BY CapabilityAssumption DEF TypeOK
<1>3. StepsAhead \in Nat /\ (pc # "done" => StepsAhead > 0)
  BY <1>1 DEF StepsAhead
<1>4. AttemptsLeft \in Nat
  BY <1>1, <1>2 DEF AttemptsLeft
<1> QED
  BY <1>3, <1>4 DEF CallsLeft, Ranked

LEMMA RankTypeNext == TypeOK' => Ranked'
  BY RankType, PTL

LEMMA BeforeIs ==
  ASSUME NEW a \in Nat, NEW b \in Nat, NEW c \in Nat, NEW x \in Nat, NEW y \in Nat, NEW z \in Nat,
         \/ a < x
         \/ a = x /\ b < y
         \/ a = x /\ b = y /\ c < z
  PROVE  <<<<a, <<b, c>>>>, <<x, <<y, z>>>>>> \in Before
<1>1. \A m, n \in Nat : m < n => <<m, n>> \in Less
  BY DEF Less, OpToRel
<1> DEFINE inner == LexPairOrdering(Less, Less, Nat, Nat)
           pairs == Nat \X Nat
           p     == <<b, c>>
           q     == <<y, z>>
<1>2. p \in pairs /\ q \in pairs
  OBVIOUS
<1>3. (b < y \/ (b = y /\ c < z)) => <<p, q>> \in inner
  BY <1>1, <1>2 DEF LexPairOrdering
<1> HIDE DEF inner, pairs, p, q
<1>4. <<<<a, p>>, <<x, q>>>> \in LexPairOrdering(Less, inner, Nat, pairs)
  BY <1>1, <1>2, <1>3 DEF LexPairOrdering
<1> QED
  BY <1>4 DEF Before, inner, pairs, p, q

\* The ways to be less.
LEMMA RankLess ==
  ASSUME TypeOK, TypeOK',
         \/ StepsAhead' < StepsAhead
         \/ StepsAhead' = StepsAhead /\ AttemptsLeft' < AttemptsLeft
         \/ /\ StepsAhead' = StepsAhead /\ AttemptsLeft' = AttemptsLeft
            /\ CallsLeft' < CallsLeft
  PROVE  <<Rank', Rank>> \in Before
<1>1. /\ StepsAhead \in Nat /\ AttemptsLeft \in Nat /\ CallsLeft \in Nat
      /\ StepsAhead' \in Nat /\ AttemptsLeft' \in Nat /\ CallsLeft' \in Nat
  BY RankType, RankTypeNext DEF Ranked
<1>2. <<<<StepsAhead', <<AttemptsLeft', CallsLeft'>>>>,
        <<StepsAhead, <<AttemptsLeft, CallsLeft>>>>>> \in Before
  BY <1>1, BeforeIs
<1> QED
  BY <1>2 DEF Rank

\* A verdict is the end.
LEMMA DoneIsLess ==
  ASSUME TypeOK, pc # "done", pc' = "done"
  PROVE  StepsAhead' < StepsAhead
<1>1. StepsAhead' = 0
  BY DEF StepsAhead
<1> QED
  BY <1>1, RankType DEF Ranked

\* So is a step that succeeded, of what it had to do.
LEMMA ProceedIsLess ==
  ASSUME TypeOK, TypeOK', pc \in {"act", "navigate"}, Proceed
  PROVE  StepsAhead' < StepsAhead
<1>1. N \in Nat \ {0} /\ step \in 1..N /\ step + 1 \in 1..(N + 1) /\ call.guarded \in BOOLEAN
  BY CapabilityAssumption, CallsAssumption DEF TypeOK
<1>2. step' = step + 1 /\ pc' \in {"guard", "navigate", "attempt", "final"}
  BY <1>1, EntryType DEF Proceed
<1>3. StepsAhead = N + 2 - step /\ StepsAhead' = N + 2 - step'
  BY <1>2 DEF StepsAhead
<1> QED
  BY <1>1, <1>2, <1>3

\* A try that failed, and is made again, leaves fewer.
LEMMA RetryIsLess ==
  ASSUME TypeOK, pc \in {"attempt", "act", "navigate"}, pc' \in {"attempt", "navigate"},
         step' = step, attempt' = attempt + 1, attempt < Steps[step].retries
  PROVE  StepsAhead' = StepsAhead /\ AttemptsLeft' < AttemptsLeft
<1>1. N \in Nat \ {0} /\ step \in 1..N /\ attempt \in Nat /\ Steps[step].retries \in Int
  BY CapabilityAssumption DEF TypeOK
<1>2. StepsAhead = N + 2 - step /\ StepsAhead' = N + 2 - step'
  BY DEF StepsAhead
<1>3. AttemptsLeft = Steps[step].retries - attempt
  BY <1>1 DEF AttemptsLeft
<1>4. AttemptsLeft' = Steps[step].retries - (attempt + 1)
  BY <1>1 DEF AttemptsLeft
<1> QED
  BY <1>1, <1>2, <1>3, <1>4

\* replay() always comes back: whatever it is shown and whatever its acts come to,
\* a step of it leaves less to be done, in an order without infinite descent.  What
\* max_retries bounds, the loop counts down (engine.py, _run_targeted_step and
\* _act_with_retries).
THEOREM EngineRunsOut == Spec => [][Engine => <<Rank', Rank>> \in Before]_vars
<1>1. ASSUME Inv, Inv', Engine
      PROVE  <<Rank', Rank>> \in Before
  <2>0. TypeOK /\ TypeOK'
    BY <1>1 DEF Inv
  <2>1. CASE ValidateInputs
    <3>1. /\ pc = "start" /\ step' = step /\ step \in 1..(N + 1) /\ N \in Nat \ {0}
          /\ pc' = Entry(1, call.guarded) /\ call.guarded \in BOOLEAN
      BY <2>0, <2>1, CapabilityAssumption, CallsAssumption DEF ValidateInputs, TypeOK
    <3>2. pc' \in {"guard", "navigate", "attempt", "final"}
      <4>1. 1 \in 1..(N + 1)
        BY <3>1
      <4> QED
        BY <3>1, <4>1, EntryType
    <3>3. StepsAhead = N + 2 /\ StepsAhead' = N + 2 - step
      BY <3>1, <3>2 DEF StepsAhead
    <3> QED
      BY <2>0, <3>1, <3>3, RankLess
  <2>2. CASE pc # "done" /\ pc' = "done"
    BY <2>0, <2>2, DoneIsLess, RankLess
  <2>3. CASE CheckGuard /\ pc' # "done"
    <3>1. /\ pc = "guard" /\ step' = step /\ attempt' = attempt
          /\ pc' = Entry(step, FALSE) /\ step \in 1..N /\ N \in Nat \ {0}
      BY <2>0, <2>3, CapabilityAssumption DEF CheckGuard, Return, TypeOK
    <3>2. pc' \in {"navigate", "attempt"}
      <4>1. step \in 1..(N + 1) /\ step # N + 1
        BY <3>1
      <4>2. Entry(step, FALSE) \in {"navigate", "attempt"}
        BY <4>1, EntryType
      <4> QED
        BY <3>1, <4>2
    <3>3. /\ StepsAhead' = StepsAhead /\ AttemptsLeft' = AttemptsLeft
          /\ CallsLeft = 2 /\ CallsLeft' \in {0, 1}
      BY <3>1, <3>2 DEF StepsAhead, AttemptsLeft, CallsLeft
    <3> QED
      BY <2>0, <3>3, RankLess
  <2>4. CASE FindTarget
    <3>1. /\ pc = "attempt" /\ pc' = "act" /\ step' = step /\ attempt' = attempt
      BY <2>4 DEF FindTarget, Attempting
    <3>2. /\ StepsAhead' = StepsAhead /\ AttemptsLeft' = AttemptsLeft
          /\ CallsLeft = 1 /\ CallsLeft' = 0
      BY <3>1 DEF StepsAhead, AttemptsLeft, CallsLeft
    <3> QED
      BY <2>0, <3>2, RankLess
  <2>5. CASE (MissTarget \/ ActFails \/ NavigateFails) /\ pc' # "done"
    <3>1. /\ pc \in {"attempt", "act", "navigate"} /\ pc' \in {"attempt", "navigate"}
          /\ step' = step /\ attempt' = attempt + 1
          /\ \/ attempt < Steps[step].retries
             \/ attempt <= Steps[step].retries /\ attempt # Steps[step].retries
      BY <1>1, <2>5 DEF MissTarget, ActFails, NavigateFails, Attempting, LastAttempt, Return,
                        Inv, Cursor
    <3>2. attempt \in Nat /\ Steps[step].retries \in Int
      BY <2>0, <3>1, CapabilityAssumption DEF TypeOK
    <3>3. attempt < Steps[step].retries
      BY <3>1, <3>2
    <3> QED
      BY <2>0, <3>1, <3>3, RetryIsLess, RankLess
  <2>6. CASE ActSucceeds \/ NavigateSucceeds
    <3>1. pc \in {"act", "navigate"} /\ Proceed
      BY <2>6 DEF ActSucceeds, NavigateSucceeds
    <3> QED
      BY <2>0, <3>1, ProceedIsLess, RankLess
  <2>7. CASE RefuseInputs \/ FindOutcome \/ RaiseUnreachable \/ Finish \/ ObserveRaises
    <3>1. pc # "done" /\ pc' = "done"
      BY <2>7 DEF RefuseInputs, FindOutcome, RaiseUnreachable, Finish, ObserveRaises,
                  Attempting, Return
    <3> QED
      BY <2>2, <3>1
  <2>8. CASE CheckGuard \/ MissTarget \/ ActFails \/ NavigateFails
    <3>1. pc # "done"
      BY <2>8 DEF CheckGuard, MissTarget, ActFails, NavigateFails, Attempting
    <3> QED
      BY <2>2, <2>3, <2>5, <2>8, <3>1
  <2> QED
    BY <1>1, <2>1, <2>4, <2>6, <2>7, <2>8 DEF Engine
<1>2. Inv /\ Inv' /\ [Next]_vars => [Engine => <<Rank', Rank>> \in Before]_vars
  BY <1>1
<1> QED
  BY <1>2, Invariance, PTL DEF Spec
=============================================================================
