--------------------------- MODULE MCEstateReports ---------------------------
(* Two clusters, of two hosts and of one, one of which has no nodeCount, one  *)
(* storage container, a level that is rounded up to the lower threshold and one *)
(* at the upper, and lists cut at two rows.                                   *)
EXTENDS EstateReports, TLC

CONSTANTS k1, k2, a1, a2, b1, box

MCClusters == {k1, k2}
MCNodes == {a1, a2, b1}
MCBoxes == {box}
MCCounted == {k1}
MCRounded == (7996 :> 800) @@ (9000 :> 900)
MCLevels == DOMAIN MCRounded
MCFirstHomes == {(a1 :> k1) @@ (a2 :> k1) @@ (b1 :> k2)}

Symmetry == Permutations({a1, a2})
=============================================================================
