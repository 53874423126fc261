---------------------------- MODULE ReplayContract ----------------------------
(***************************************************************************)
(* What a caller of guarded_replay is promised, with no word of pages,     *)
(* locators, observations or retries: the steps are acted on in order,     *)
(* only those this invocation permits, each until it succeeds; then, or    *)
(* before, there is one verdict and nothing more is done.                  *)
(***************************************************************************)
EXTENDS Naturals

CONSTANTS Length,       \* the number of steps, one or more
          Verdicts      \* what the call may come back with

VARIABLES permitted,    \* the steps this invocation may act on
          tried,        \* the last step acted on
          complete,     \* the last step that succeeded
          verdict       \* "none" until the call comes back

vars == <<permitted, tried, complete, verdict>>

Init == /\ permitted \subseteq 1..Length
        /\ tried = 0
        /\ complete = 0
        /\ verdict = "none"

\* Act on the next step, for the first time or again; it may succeed.
Act == /\ verdict = "none"
       /\ complete < Length
       /\ complete + 1 \in permitted
       /\ tried' = complete + 1
       /\ complete' \in {complete, complete + 1}
       /\ UNCHANGED <<permitted, verdict>>

\* The last try of a step may be what ends the call.
Conclude(v) ==
  /\ verdict = "none"
  /\ verdict' = v
  /\ \/ UNCHANGED tried
     \/ /\ v = "unrecognized"
        /\ complete < Length
        /\ complete + 1 \in permitted
        /\ tried' = complete + 1
  /\ v = "success" => complete = Length
  /\ v \in {"policy_blocked", "input_error"} => tried = complete
  /\ v = "input_error" => complete = 0
  /\ UNCHANGED <<permitted, complete>>

Next == Act \/ \E v \in Verdicts : Conclude(v)

Spec == Init /\ [][Next]_vars /\ WF_vars(\E v \in Verdicts : Conclude(v))
=============================================================================
