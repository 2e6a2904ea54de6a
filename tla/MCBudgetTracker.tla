--------------------------- MODULE MCBudgetTracker ---------------------------
EXTENDS BudgetTracker, TLC

CONSTANTS c1, c2, c3, c4, loop, other

\* Three identical calls and one of another kind.
MCFingerprint == [c \in Calls |-> IF c = c4 THEN other ELSE loop]

\* A watched loop, the same with its maximum raised and a ceiling on time,
\* and a disabled breaker under a ceiling on calls.
MCLimits ==
    {[calls |-> 2, seconds |-> 2, runaway |-> 1],
     [calls |-> 3, seconds |-> Unlimited, runaway |-> 2],
     [calls |-> 3, seconds |-> Unlimited, runaway |-> 0]}

Symmetry == Permutations({c1, c2, c3})
=============================================================================
