---------------------------- MODULE MCPrismTasks ----------------------------
EXTENDS PrismTasks, TLC

\* The calls of one behaviour are of one group: two snapshots at most with lists and
\* undos, or LCM calls, for which the snapshots that exist do not matter.
Apart ==
    \/ /\ \A c \in Calls : pc[c] # "idle" => ask[c].op \in {"list", "snapshot", "undo"}
       /\ \E c \in Calls : ask[c].op # "snapshot"
       /\ purged = {}
    \/ /\ \A c \in Calls : pc[c] # "idle" => ask[c].op \in {"precheck", "update", "preview"}
       /\ shots = <<>>

\* Paging only reads, so that the lists of two calls do not affect each other.
OneList ==
    \A c, d \in Calls :
        \/ c = d
        \/ ~(ask[c].op = "list" /\ ask[d].op = "list")
           /\ ~(pc[c] \in {"pages", "paged"} /\ pc[d] \in {"pages", "paged"})

\* A list that fills more than one page and may still be whole (a limit above the
\* page, or a fourth snapshot) is one call's alone: only other clients act with it.
LongListsAlone ==
    \/ Len(shots) < 4 /\ \A c \in Calls : ask[c].op = "list" => Clamp(ask[c].limit) <= PageSize
    \/ \E c \in Calls : \A d \in Calls \ {c} : pc[d] = "idle"

Symmetry == Permutations(Calls) \cup Permutations(Names)
=============================================================================
