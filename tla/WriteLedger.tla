----------------------------- MODULE WriteLedger -----------------------------
(***************************************************************************)
(* What the audit trail promises about governed calls, with no processes,  *)
(* no files and no locks: README.md "Real writes require a committed       *)
(* `pending` audit row and stop before contacting the platform if storage  *)
(* is unavailable", SECURITY.md "Audit availability and telemetry".        *)
(*                                                                         *)
(* Every call has at most one entry.  A write enters as "pending", may     *)
(* then reach Prism Central, and its entry is resolved once; any call that *)
(* never reached Prism as a write may be noted directly.  Entries are      *)
(* never removed, except that resolved ones expire with old archives.      *)
(***************************************************************************)
CONSTANTS Writes,   \* calls of tools whose risk level is above low
          Reads     \* low-risk calls and dry-run previews

VARIABLES entry,    \* entry[c]: the state of the audit entry of call c
          world     \* the writes that have been sent to Prism

ledgerVars == <<entry, world>>

AllCalls == Writes \cup Reads

\* The statuses a finished call can be recorded with.
Verdicts == {"ok", "error", "unknown", "budget_exceeded"}
Entries == {"none", "pending", "expired"} \cup Verdicts

LedgerTypeOK ==
    /\ entry \in [AllCalls -> Entries]
    /\ world \subseteq Writes

LedgerInit ==
    /\ entry = [c \in AllCalls |-> "none"]
    /\ world = {}

\* The intent of a write is durable before anything is sent.
Intend(c) ==
    /\ entry[c] = "none"
    /\ c \notin world
    /\ entry' = [entry EXCEPT ![c] = "pending"]
    /\ UNCHANGED world

\* A write reaches Prism at most once, and only under a pending intent.
Transmit(c) ==
    /\ entry[c] = "pending"
    /\ c \notin world
    /\ world' = world \cup {c}
    /\ UNCHANGED entry

\* The intent is resolved, once.
Resolve(c, v) ==
    /\ entry[c] = "pending"
    /\ entry' = [entry EXCEPT ![c] = v]
    /\ UNCHANGED world

\* A call that sent nothing is recorded when it ends.
Note(c, v) ==
    /\ entry[c] = "none"
    /\ c \notin world
    /\ entry' = [entry EXCEPT ![c] = v]
    /\ UNCHANGED world

\* Retention removes resolved entries, never an intent.
Expire(S) ==
    /\ \A c \in S : entry[c] \in Verdicts
    /\ entry' = [c \in AllCalls |-> IF c \in S THEN "expired" ELSE entry[c]]
    /\ UNCHANGED world

LedgerNext ==
    \/ \E c \in Writes : Intend(c) \/ Transmit(c) \/ \E v \in Verdicts : Resolve(c, v)
    \/ \E c \in AllCalls, v \in Verdicts : Note(c, v)
    \/ \E S \in SUBSET AllCalls : Expire(S)

LedgerSpec == LedgerInit /\ [][LedgerNext]_ledgerVars

=============================================================================
