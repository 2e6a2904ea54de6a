---------------------------- MODULE MCAuditLedger ----------------------------
(* AuditLedger on small instances: two processes, two or three calls.      *)
EXTENDS AuditLedger, TLC

Symmetry == Permutations(Procs) \cup Permutations(Writes) \cup Permutations(Reads)
=============================================================================
