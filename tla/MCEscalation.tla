----------------------------- MODULE MCEscalation -----------------------------
\* Two tabs, two operators: neither the tabs nor the operators are special.
EXTENDS Escalation, TLC

Symmetry == Permutations(Operators)
=============================================================================
