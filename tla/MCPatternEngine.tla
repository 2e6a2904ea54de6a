--------------------------- MODULE MCPatternEngine ---------------------------
EXTENDS PatternEngine, TLC

CONSTANTS c1, c2, c3, c4

E(approved, hourly, daily, threshold) ==
    [approved |-> approved, expires |-> 3, hourly |-> hourly, daily |-> daily,
     threshold |-> threshold, pause |-> 2]

\* Two patterns: the caps of the first are widened, then it is revoked; the
\* second is removed and put back.
TwoBooks ==
    (0 :> (1 :> E(TRUE, 1, 2, 2) @@ 2 :> E(TRUE, 1, 2, 2))) @@
    (1 :> (1 :> E(TRUE, 2, 2, 1) @@ 2 :> Absent)) @@
    (2 :> (1 :> E(FALSE, 2, 2, 1) @@ 2 :> E(TRUE, 1, 0, 2)))

Symmetry == Permutations({c1, c2, c3, c4} \cap Calls)
=============================================================================
