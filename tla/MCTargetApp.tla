----------------------------- MODULE MCTargetApp -----------------------------
(***************************************************************************)
(* Two sessions, which look members up, fill in the sub-account form and   *)
(* confirm it.                                                             *)
(***************************************************************************)
EXTENDS TargetApp, TLC

Ask(kind, about) == [kind |-> kind, about |-> about]
Form(deposit, complete) == [deposit |-> deposit, complete |-> complete]
Fault(session, hook, code, occurrences) ==
  [session |-> session, hook |-> hook, code |-> code, occurrences |-> occurrences]

MCAsks == {Ask("search", "stranger"), Ask("form", "member"),
           Ask("submit", Form("enough", TRUE)), Ask("submit", Form("enough", FALSE)),
           Ask("submit", Form("minus infinity", TRUE))}

MCArms == {Fault("agent", "search", "session_timeout", 2),
           Fault("operator", "search", "slow_load", 0),
           Fault("agent", "subaccount_new_submit", "validation_error", 1),
           Fault("agent", "subaccount_confirm", "session_timeout", 1),
           Fault("agent", "subaccount_confirm", "validation_error", 1)}

\* Which thread serves a request does not matter, and the page answered with
\* decides nothing.
Symmetry == Permutations(Threads)
View == <<controller, store, request, stage, held>>
=============================================================================
