--------------------------- MODULE MCSecretStore ---------------------------
EXTENDS SecretStore, TLC

CONSTANTS n1, n2, v1

MCLegacy == <<[do |-> "set", name |-> n1, value |-> v1],
              [do |-> "set", name |-> n2, value |-> v1]>>

\* Two commands and one process that looks passwords up.
OneReader ==
    \E p \in Procs : /\ ask[p].op \in {"none", "resolve"}
                     /\ \A q \in Procs \ {p} : ask[q].op # "resolve"

Symmetry == Permutations(Procs) \cup Permutations(Passwords)
=============================================================================
