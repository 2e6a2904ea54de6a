------------------------------ MODULE PrismVms ------------------------------
(***************************************************************************)
(* The VM writes of ops/vms.py over the ETag helpers of connection.py:     *)
(* every write reads the VM and its ETag, then sends one request carrying  *)
(* that ETag.  Several calls run at once, and other clients of Prism       *)
(* Central change VMs in between.                                          *)
(***************************************************************************)
EXTENDS Naturals, FiniteSets

CONSTANTS Calls,         \* write calls
          Vms,           \* VMs of one Prism Central
          ActionFields,  \* set by a POST $action: power state, host
          SizeFields,    \* set by the PUT of update_vm: sockets, memory
          Values,        \* values of a field
          Keep,          \* an argument left out: the field is not asked for
          NoTag,         \* the ETag of a server that sends none
          EtagsServed,   \* whether Prism Central sends ETags
          MaxDrift,      \* changes by other clients in a behaviour
          MaxCrashes     \* calls that die with their process in a behaviour

Fields == ActionFields \cup SizeFields

ASSUME VmsAssumption ==
    /\ ActionFields \cap SizeFields = {}
    /\ Keep \notin Values
    /\ NoTag \notin Nat
    /\ EtagsServed \in BOOLEAN
    /\ MaxDrift \in Nat /\ MaxCrashes \in Nat

VARIABLES vm,        \* vm[v]: the configuration of v
          tag,       \* tag[v]: its ETag
          gone,      \* VMs deleted
          phase,     \* phase[c]: where call c is
          on, ask,   \* the VM and the request of c
          seen,      \* seen[c]: what the GET of c returned
          etag,      \* etag[c]: the ETag it returned
          outcome,   \* outcome[c]: what the caller is told
          drift, crashes,
          applied,   \* history: calls whose request Prism carried out
          before     \* history: before[c], the VM just before it did

worldVars == <<vm, tag, gone>>
callVars == <<phase, on, ask, seen, etag, outcome>>
historyVars == <<applied, before>>
vmsVars == <<worldVars, callVars, drift, crashes, historyVars>>

-----------------------------------------------------------------------------
Configs == [Fields -> Values]

\* A change names a value for some fields.
Changes == [Fields -> Values \cup {Keep}]

Nothing == [f \in Fields |-> Keep]

Touches(x, F) == \A f \in Fields : x[f] # Keep => f \in F

\* $actions set one field, update_vm any of the sizes, delete_vm none.
Requests ==
    {r \in [kind : {"action", "resize", "delete"}, change : Changes] :
        CASE r.kind = "action" -> \E g \in ActionFields : Touches(r.change, {g})
          [] r.kind = "resize" -> Touches(r.change, SizeFields)
          [] OTHER -> r.change = Nothing}

Phases == {"idle", "reading", "holding", "answered", "done", "dead"}

Init ==
    /\ vm \in [Vms -> Configs]
    /\ tag = [v \in Vms |-> 0]
    /\ gone = {}
    /\ phase = [c \in Calls |-> "idle"]
    /\ on \in [Calls -> Vms]
    /\ ask = [c \in Calls |-> [kind |-> "delete", change |-> Nothing]]
    /\ seen = [c \in Calls |-> vm[on[c]]]
    /\ etag = [c \in Calls |-> NoTag]
    /\ outcome = [c \in Calls |-> "none"]
    /\ drift = 0 /\ crashes = 0
    /\ applied = {}
    /\ before = seen

-----------------------------------------------------------------------------
\* A tool is called on a VM.
Call(c, v, r) ==
    /\ phase[c] = "idle"
    /\ phase' = [phase EXCEPT ![c] = "reading"]
    /\ on' = [on EXCEPT ![c] = v]
    /\ ask' = [ask EXCEPT ![c] = r]
    /\ UNCHANGED <<worldVars, seen, etag, outcome, drift, crashes, historyVars>>

\* Variant: the tag in the answer is not kept.
TagUnread(v) == NoTag

TagOf(v) == IF EtagsServed THEN tag[v] ELSE NoTag

\* _vm_raw: one GET returns the record and its ETag.
Read(c) ==
    /\ phase[c] = "reading"
    /\ on[c] \notin gone
    /\ seen' = [seen EXCEPT ![c] = vm[on[c]]]
    /\ etag' = [etag EXCEPT ![c] = TagOf(on[c])]
    /\ phase' = [phase EXCEPT ![c] = "holding"]
    /\ UNCHANGED <<worldVars, on, ask, outcome, drift, crashes, historyVars>>

Answer(c, o) ==
    /\ outcome' = [outcome EXCEPT ![c] = o]
    /\ phase' = [phase EXCEPT ![c] = "answered"]

\* If-Match is sent when the GET returned a tag.
Matches(c) == etag[c] = NoTag \/ etag[c] = tag[on[c]]

\* The configuration a request leaves behind: $actions change one field; the
\* PUT of update_vm carries the whole record the call read.
Result(c) ==
    LET change == ask[c].change IN
    [f \in Fields |->
        IF change[f] # Keep THEN change[f]
        ELSE IF ask[c].kind = "resize" THEN seen[c][f]
        ELSE vm[on[c]][f]]

\* Prism Central carries the request out; its answer may be lost, which _raw
\* reports as an error.
Accept(c) ==
    /\ phase[c] = "holding"
    /\ on[c] \notin gone
    /\ Matches(c)
    /\ before' = [before EXCEPT ![c] = vm[on[c]]]
    /\ vm' = [vm EXCEPT ![on[c]] = Result(c)]
    /\ tag' = [tag EXCEPT ![on[c]] = @ + 1]
    /\ gone' = IF ask[c].kind = "delete" THEN gone \cup {on[c]} ELSE gone
    /\ applied' = applied \cup {c}
    /\ \E o \in {"ok", "error"} : Answer(c, o)
    /\ UNCHANGED <<on, ask, seen, etag, drift, crashes>>

\* The VM is missing, the self-lockout guard refuses, the tag is stale or
\* Prism says no: an error, and nothing has changed.
Refuse(c) ==
    /\ phase[c] \in {"reading", "holding"}
    /\ Answer(c, "error")
    /\ UNCHANGED <<worldVars, on, ask, seen, etag, drift, crashes, historyVars>>

Return(c) ==
    /\ phase[c] = "answered"
    /\ phase' = [phase EXCEPT ![c] = "done"]
    /\ UNCHANGED <<worldVars, on, ask, seen, etag, outcome, drift, crashes,
                   historyVars>>

\* The process of a call dies.
Die(c) ==
    /\ phase[c] \in {"reading", "holding", "answered"}
    /\ crashes < MaxCrashes
    /\ crashes' = crashes + 1
    /\ phase' = [phase EXCEPT ![c] = "dead"]
    /\ UNCHANGED <<worldVars, on, ask, seen, etag, outcome, drift, historyVars>>

\* Another client of Prism Central changes a VM.
Drift(v, x) ==
    /\ drift < MaxDrift
    /\ v \notin gone
    /\ vm' = [vm EXCEPT ![v] = x]
    /\ tag' = [tag EXCEPT ![v] = @ + 1]
    /\ drift' = drift + 1
    /\ UNCHANGED <<gone, callVars, crashes, historyVars>>

Over(c) == phase[c] \in {"done", "dead"}

Quiescent == (\A c \in Calls : Over(c)) /\ UNCHANGED vmsVars

Next ==
    \/ \E c \in Calls, v \in Vms, r \in Requests : Call(c, v, r)
    \/ \E c \in Calls : Read(c) \/ Accept(c) \/ Refuse(c) \/ Return(c) \/ Die(c)
    \/ \E v \in Vms, x \in Configs : Drift(v, x)
    \/ Quiescent

Spec == Init /\ [][Next]_vmsVars

-----------------------------------------------------------------------------
\* Every variable holds a value of its kind.
TypeOK ==
    /\ vm \in [Vms -> Configs] /\ tag \in [Vms -> Nat] /\ gone \subseteq Vms
    /\ phase \in [Calls -> Phases]
    /\ on \in [Calls -> Vms]
    /\ ask \in [Calls -> Requests]
    /\ seen \in [Calls -> Configs]
    /\ etag \in [Calls -> Nat \cup {NoTag}]
    /\ outcome \in [Calls -> {"none", "ok", "error"}]
    /\ drift \in Nat /\ crashes \in Nat
    /\ applied \subseteq Calls
    /\ before \in [Calls -> Configs]

\* A write changes only what it was asked to change, although update_vm sends
\* back the whole record it read: what others changed since then survives.
NoLostUpdate ==
    [][EtagsServed =>
          \A c \in Calls : c \notin applied /\ c \in applied' =>
              \A f \in Fields : ask[c].change[f] = Keep =>
                  vm'[on[c]][f] = vm[on[c]][f]]_vmsVars

\* The prior state a write reports, from which its inverse is computed, is
\* what the write replaced, not what some earlier reader saw.
PriorIsReplaced ==
    EtagsServed => \A c \in Calls : c \in applied => seen[c] = before[c]

-----------------------------------------------------------------------------
(* The inductive invariant behind PriorIsReplaced and NoLostUpdate.        *)

\* A tag that still matches proves that the record read is the current one.
TagsCertify ==
    EtagsServed =>
        \A c \in Calls : phase[c] = "holding" =>
            /\ etag[c] \in Nat /\ etag[c] <= tag[on[c]]
            /\ etag[c] = tag[on[c]] => seen[c] = vm[on[c]]

\* Requests are carried out once per call, before the call is answered.
AppliedOnceAnswered ==
    \A c \in Calls :
        /\ c \in applied => phase[c] \in {"answered", "done", "dead"} /\ outcome[c] # "none"
        /\ outcome[c] = "ok" => c \in applied

VmsInv == TypeOK /\ TagsCertify /\ AppliedOnceAnswered /\ PriorIsReplaced
=============================================================================
