---------------------------- MODULE GovernedCall ----------------------------
(***************************************************************************)
(* One governed call from end to end: the wrapper of                       *)
(* governance/decorators.py around a tool (its state, the checks before    *)
(* the body, what it makes of the result), the body as a tool writes it    *)
(* (a connection, a read, the self-lockout guard, one request),            *)
(* tool_errors, the hand-over of a write's before-state (outcome.py), the  *)
(* inner call undo_apply makes, and the exit status of a CLI command.      *)
(* Calls run on threads of several processes; a thread serves one call     *)
(* after the other.                                                        *)
(*                                                                         *)
(* What the other modules are about is a choice here: the budget           *)
(* (BudgetTracker), whether an intent is committed (AuditLedger), the race *)
(* of two replays and failures of the undo store (UndoTokens).             *)
(***************************************************************************)
EXTENDS PrismTargets, FiniteSets

CONSTANTS Calls, NoCall,
          Threads, NoThread,
          ProcOf,       \* the process of a thread
          Clis,         \* processes that are CLI commands
          Asks,         \* what callers ask for
          Literals,     \* hosts configured by address: they need no look-up
          Lost,         \* what a lost response comes to: "error" if connection.py
                        \* sent the request, "unknown" if the tool itself did,
                        \* "interrupted" by a KeyboardInterrupt
          Stops,        \* rows of calls the wrapper stops before their body
          Captures,     \* whether bodies stash the before-state they read
          Reporting,    \* hosts whose VM reports its address at first
          EtagsServed,  \* whether Prism Central sends ETags
          AtOnce,       \* calls in progress at a time
          MaxMoves      \* times a Prism Central VM changes address

Tools == {"read", "power", "on", "delete", "apply"}

\* "pc" is the VM a Prism Central runs on, "work" any other.
AllAsks == [tool : Tools, vm : {"pc", "work"}, target : Names \cup {Omitted},
            dry : BOOLEAN, of : Calls \cup {NoCall}]

ASSUME CallAssumption ==
    /\ NoCall \notin Calls /\ NoThread \notin Threads
    /\ ProcOf \in [Threads -> Procs] /\ Clis \subseteq Procs
    /\ Asks \subseteq AllAsks /\ Literals \subseteq Hosts /\ Reporting \subseteq Hosts
    /\ \A a \in Asks : a.tool = "apply" => a.of # NoCall
    /\ Lost \subseteq {"error", "unknown", "interrupted"}
    /\ Stops \subseteq {"budget_exceeded", "error"}
    /\ Captures \in BOOLEAN /\ EtagsServed \in BOOLEAN
    /\ MaxMoves \in Nat /\ AtOnce \in Nat

VARIABLES pc, ask, thread,  \* where call c is, what it was asked, its thread
          inner,            \* inner[a]: the call undo_apply a makes
          loaded,           \* loaded[c]: a configuration read and not yet installed
          reach,            \* reach[c]: the Prism Central c talks to
          etag,             \* etag[c]: the version of the VM that c read
          result,           \* result[c]: what its body came to
          row, exit,        \* its audit row, the exit status of its command
          token,            \* token[c]: whose before-state its undo token restores
          spent,            \* tokens marked applied
          slot,             \* slot[t]: the before-state stashed on t
          nic, moves,       \* nic[h]: what the VM of h reports; its version
          landed,           \* history: calls Prism Central carried out
          unheard,          \* history: calls whose response was lost
          fatal,            \* history: those that hit the VM answering them
          refused,          \* history: calls the guard refused
          blind             \* history: calls whose guard got no address

callVars == <<pc, ask, thread, inner, loaded, reach, etag, result>>
recordVars == <<row, exit, token, spent, slot>>
worldVars == <<nic, moves>>
historyVars == <<landed, unheard, fatal, refused, blind>>
vars == <<targetsVars, callVars, recordVars, worldVars, historyVars>>

NoTag == MaxMoves + 1

\* The exit status of a command that has not ended, and of a call of the server.
Running == 3

Nothing == [tool |-> "read", vm |-> "work", target |-> Omitted, dry |-> FALSE, of |-> NoCall]

Init ==
    /\ TargetsInit
    /\ pc = [c \in Calls |-> "idle"]
    /\ ask = [c \in Calls |-> Nothing]
    /\ thread = [c \in Calls |-> NoThread]
    /\ inner = [c \in Calls |-> NoCall]
    /\ loaded = [c \in Calls |-> Empty]
    /\ reach = [c \in Calls |-> NoHost]
    /\ etag = [c \in Calls |-> NoTag]
    /\ result = [c \in Calls |-> "none"]
    /\ row = [c \in Calls |-> "none"]
    /\ exit = [c \in Calls |-> Running]
    /\ token = [c \in Calls |-> NoCall]
    /\ spent = {}
    /\ slot = [t \in Threads |-> NoCall]
    /\ nic = [h \in Hosts |-> IF h \in Reporting THEN "own" ELSE "other"]
    /\ moves = [h \in Hosts |-> 0]
    /\ landed = {} /\ unheard = {} /\ fatal = {} /\ refused = {} /\ blind = {}

Goto(c, at) == pc' = [pc EXCEPT ![c] = at]

\* The body returns, or tool_errors turns its exception into a value.
Answer(c, r) == Goto(c, "answered") /\ result' = [result EXCEPT ![c] = r]

Proc(c) == ProcOf[thread[c]]

\* An inner call of undo_apply.
Nested(c) == \E a \in Calls : inner[a] = c

\* Variant: the process of a command ends with the first call it makes.
EndsAtOnce(c) == Proc(c) \in Clis

\* A command ends with the call it makes.
Ends(c) == Proc(c) \in Clis /\ ~Nested(c)

Writes(a) == a.tool # "read"
Requests(a) == a.tool \in {"power", "on", "delete"} /\ ~a.dry
Reversible(a) == a.tool \in {"power", "on"}
Destructive(a) == a.tool \in {"power", "delete"}

-----------------------------------------------------------------------------
(* The wrapper before the body.                                            *)

\* Variant: what an earlier call stashed stays.
StashKept(t) == UNCHANGED slot

StashCleared(t) == slot' = [slot EXCEPT ![t] = NoCall]

FreeThread(t) == \A c \in Calls : thread[c] = t => pc[c] = "over"

\* An agent or an operator makes a call.  _CallState, _pre_check, _begin_write:
\* it starts with nothing stashed and reaches its body unless the budget or the
\* audit store stops it.
Invoke(c, t, a) ==
    /\ pc[c] = "idle" /\ FreeThread(t)
    /\ Cardinality({u \in Threads : ~FreeThread(u)}) < AtOnce
    /\ ask' = [ask EXCEPT ![c] = a]
    /\ thread' = [thread EXCEPT ![c] = t]
    /\ StashCleared(t)
    /\ UNCHANGED <<targetsVars, inner, loaded, reach, etag, token, spent, worldVars, historyVars>>
    /\ \/ /\ Goto(c, "body")
          /\ UNCHANGED <<result, row, exit>>
       \/ /\ Goto(c, "over")
          /\ result' = [result EXCEPT ![c] = "raised"]
          /\ \E r \in Stops :
                /\ r = "error" => Writes(a) /\ ~a.dry
                /\ row' = [row EXCEPT ![c] = r]
          /\ exit' = IF ProcOf[t] \in Clis THEN [exit EXCEPT ![c] = 1] ELSE exit

-----------------------------------------------------------------------------
(* The body of a tool.                                                     *)

\* _get_connection of the first call of a process reads the configuration, or
\* finds none and keeps nothing...
LoadBook(c) ==
    /\ pc[c] = "body" /\ ask[c].tool # "apply"
    /\ book[Proc(c)] = NoBook
    /\ \/ /\ ~Missing
          /\ loaded' = [loaded EXCEPT ![c] = Contents]
          /\ Goto(c, "loading")
          /\ UNCHANGED result
       \/ /\ Missing
          /\ Answer(c, "error")
          /\ UNCHANGED loaded
    /\ UNCHANGED <<targetsVars, ask, thread, inner, reach, etag, recordVars, worldVars,
                   historyVars>>

\* ... and installs it, over what another thread may have installed since.
InstallBook(c) ==
    /\ pc[c] = "loading"
    /\ book' = [book EXCEPT ![Proc(c)] = loaded[c]]
    /\ loaded' = [loaded EXCEPT ![c] = Empty]
    /\ Goto(c, "body")
    /\ UNCHANGED <<file, whole, wizardVars, editVars, ask, thread, inner, reach, etag, result,
                   recordVars, worldVars, historyVars>>

\* connect; a target that is not configured is an error.
Connect(c) ==
    /\ pc[c] = "body" /\ ask[c].tool # "apply"
    /\ book[Proc(c)] # NoBook
    /\ \/ /\ \E h \in Hosts :
                /\ h = Addressed(book[Proc(c)], ask[c].target)
                /\ reach' = [reach EXCEPT ![c] = h]
          /\ Goto(c, "read")
          /\ UNCHANGED result
       \/ /\ Addressed(book[Proc(c)], ask[c].target) = NoHost
          /\ Answer(c, "error")
          /\ UNCHANGED reach
    /\ UNCHANGED <<targetsVars, ask, thread, inner, loaded, etag, recordVars, worldVars,
                   historyVars>>

\* Variant: a preview does not run the guard.
GuardedOnlyReally(c) == Destructive(ask[c]) /\ ~ask[c].dry

\* power-off, shutdown, delete and revert pass refuse_self, their previews too.
Guarded(c) == Destructive(ask[c])

\* is_prism_central: an address of the VM is the one the target is reached at;
\* a name that is not resolved in time proves nothing.
IsPrismCentral(c, resolved) == ask[c].vm = "pc" /\ nic[reach[c]] = "own" /\ resolved

\* _vm_raw: the GET of the VM and its ETag, then the guard on what it returned.
Read(c) ==
    /\ pc[c] = "read"
    /\ etag' = [etag EXCEPT ![c] = moves[reach[c]]]
    /\ \E resolved \in {TRUE} \cup IF reach[c] \in Literals THEN {} ELSE {FALSE} :
          LET self == Guarded(c) /\ IsPrismCentral(c, resolved)
          IN  /\ refused' = IF self THEN refused \cup {c} ELSE refused
              /\ blind' = IF resolved THEN blind ELSE blind \cup {c}
              /\ IF self THEN Answer(c, "error")
                 ELSE IF ask[c].dry \/ ~Writes(ask[c]) THEN Answer(c, "ok")
                 ELSE Goto(c, "hold") /\ UNCHANGED result
    /\ UNCHANGED <<targetsVars, ask, thread, inner, loaded, reach, recordVars, worldVars,
                   landed, unheard, fatal>>

\* What a lost response comes to: a verdict of tool_errors, or, while a command
\* waits for it, a KeyboardInterrupt, which nothing below the wrapper catches.
Unheard(c) == IF Proc(c) \in Clis THEN Lost ELSE Lost \ {"interrupted"}

\* The GET fails, or its response is lost.  A command that reads calls no tool,
\* so nothing turns its exception into a value.
ReadFails(c) ==
    /\ pc[c] = "read"
    /\ \E r \in {"error"} \cup Unheard(c) :
          /\ r = "unknown" => Proc(c) \notin Clis \/ Writes(ask[c])
          /\ Answer(c, r)
    /\ UNCHANGED <<targetsVars, ask, thread, inner, loaded, reach, etag, recordVars,
                   worldVars, historyVars>>

\* Variant: the tag is not sent.
MatchesAlways(c) == TRUE

\* mutate sends If-Match when the GET returned a tag.
Matches(c) == EtagsServed => etag[c] = moves[reach[c]]

\* capture_prior_state, before the request.
Stash(c) ==
    slot' = IF Captures /\ Reversible(ask[c]) THEN [slot EXCEPT ![thread[c]] = c] ELSE slot

\* Prism Central carries the request out; its response may be lost.
Land(c) ==
    /\ pc[c] = "hold"
    /\ Matches(c)
    /\ Stash(c)
    /\ landed' = landed \cup {c}
    /\ fatal' = IF Destructive(ask[c]) /\ ask[c].vm = "pc" /\ nic[reach[c]] = "own"
                THEN fatal \cup {c} ELSE fatal
    /\ \/ Answer(c, "ok") /\ UNCHANGED unheard
       \/ /\ \E r \in Unheard(c) : Answer(c, r)
          /\ unheard' = unheard \cup {c}
    /\ UNCHANGED <<targetsVars, ask, thread, inner, loaded, reach, etag, row, exit, token, spent,
                   worldVars, refused, blind>>

\* The request is refused, the tag is stale, or the request never arrives.
Fail(c) ==
    /\ pc[c] = "hold"
    /\ Stash(c)
    /\ \/ Answer(c, "error") /\ UNCHANGED unheard
       \/ /\ \E r \in Unheard(c) : Answer(c, r)
          /\ unheard' = unheard \cup {c}
    /\ UNCHANGED <<targetsVars, ask, thread, inner, loaded, reach, etag, row, exit, token, spent,
                   worldVars, landed, fatal, refused, blind>>

-----------------------------------------------------------------------------
(* undo_apply.                                                             *)

\* The token is looked up; a preview shows the inverse call and makes none.
LookUp(a) ==
    /\ pc[a] = "body" /\ ask[a].tool = "apply"
    /\ IF token[ask[a].of] = NoCall \/ ask[a].of \in spent THEN Answer(a, "error")
       ELSE IF ask[a].dry THEN Answer(a, "ok")
       ELSE Goto(a, "dispatch") /\ UNCHANGED result
    /\ UNCHANGED <<targetsVars, ask, thread, inner, loaded, reach, etag, recordVars,
                   worldVars, historyVars>>

\* Variant: the inverse runs on the default target.
DefaultTarget(a) == ask[a].target

\* The target the caller names, or the one of the call that is undone
\* (_origin_target).
ReplayTarget(a) ==
    IF ask[a].target # Omitted THEN ask[a].target ELSE ask[ask[a].of].target

\* The inverse tool runs as a governed call on the same thread; the power state
\* found before the call (UndoTokens) says which tool it is.
Dispatch(a, i) ==
    /\ pc[a] = "dispatch"
    /\ LET c == ask[a].of IN
       /\ pc[i] = "idle"
       /\ \E tool \in {"on", "power"} :
             ask' = [ask EXCEPT ![i] = [tool |-> tool, vm |-> ask[c].vm,
                                        target |-> ReplayTarget(a), dry |-> FALSE,
                                        of |-> NoCall]]
       /\ thread' = [thread EXCEPT ![i] = thread[a]]
       /\ inner' = [inner EXCEPT ![a] = i]
       /\ StashCleared(thread[a])
       /\ \/ /\ pc' = [pc EXCEPT ![a] = "waiting", ![i] = "body"]
             /\ UNCHANGED <<result, row>>
          \/ /\ pc' = [pc EXCEPT ![a] = "waiting", ![i] = "returned"]
             /\ result' = [result EXCEPT ![i] = "raised"]
             /\ \E r \in Stops : row' = [row EXCEPT ![i] = r]
    /\ UNCHANGED <<targetsVars, loaded, reach, etag, exit, token, spent, worldVars, historyVars>>

\* What an exception of the inverse makes of undo_apply.
Passed(r) == CASE r = "raised" -> "error" [] r = "interrupted" -> r [] OTHER -> "ok"

\* The token is marked unless the inverse returned an error or raised.
Conclude(a) ==
    /\ pc[a] = "waiting" /\ pc[inner[a]] = "returned"
    /\ spent' = IF result[inner[a]] = "ok" THEN spent \cup {ask[a].of} ELSE spent
    /\ result' = [result EXCEPT ![a] = Passed(result[inner[a]])]
    /\ pc' = [pc EXCEPT ![a] = "answered", ![inner[a]] = "over"]
    /\ UNCHANGED <<targetsVars, ask, thread, inner, loaded, reach, etag, row, exit, token, slot,
                   worldVars, historyVars>>

-----------------------------------------------------------------------------
(* The wrapper after the body.                                             *)

\* _record_undo: from the result of a confirmed write, from the stash of one
\* whose outcome is unknown; the undo store may fail.
RecordUndo(c) ==
    LET live == Reversible(ask[c]) /\ ~ask[c].dry
        unknown == result[c] = "unknown"
        prior == IF ~live THEN NoCall
                 ELSE IF unknown THEN slot[thread[c]]
                 ELSE IF result[c] = "ok" THEN c
                 ELSE NoCall
    IN  \E kept \in {prior, NoCall} : token' = [token EXCEPT ![c] = kept]

\* Variant: the error is judged before the outcome.
CheckedErrorFirst(r) == IF r = "ok" THEN 0 ELSE 1

\* checked: what `vm delete`, `vm migrate` and `undo apply` do with a result.
Checked(r) == CASE r = "ok" -> 0 [] r = "unknown" -> 2 [] OTHER -> 1

\* `vm power` prints what its tool returned.
Bare(a) == a.tool \in {"power", "on"} /\ ~a.dry

\* dry_run_preview, audited and cli_errors know one failure.
ExitStatus(a, r) ==
    IF r \in {"raised", "interrupted"} THEN 1
    ELSE IF Bare(a) THEN 0
    ELSE IF a.dry \/ ~Writes(a) THEN IF r = "ok" THEN 0 ELSE 1
    ELSE Checked(r)

\* _finalize: a call starts as ok, and an exception that is no Exception leaves
\* it so.
Audited(r) == IF r = "interrupted" THEN "ok" ELSE r

\* _annotate_result and _finalize; the caller gets its answer.  The process of
\* a command ends with it, and what it kept in memory is gone.
Return(c) ==
    /\ pc[c] = "answered"
    /\ RecordUndo(c)
    /\ row' = [row EXCEPT ![c] = Audited(result[c])]
    /\ IF Nested(c) THEN Goto(c, "returned") ELSE Goto(c, "over")
    /\ slot' = IF Ends(c) \/ (result[c] = "unknown" /\ Reversible(ask[c]) /\ ~ask[c].dry)
               THEN [slot EXCEPT ![thread[c]] = NoCall] ELSE slot
    /\ exit' = IF Ends(c) THEN [exit EXCEPT ![c] = ExitStatus(ask[c], result[c])] ELSE exit
    /\ book' = IF Ends(c) THEN [book EXCEPT ![Proc(c)] = NoBook] ELSE book
    /\ UNCHANGED <<file, whole, wizardVars, editVars, ask, thread, inner, loaded, reach, etag,
                   result, spent, worldVars, historyVars>>

-----------------------------------------------------------------------------
\* The VM of a Prism Central changes address, or Prism stops reporting it.
Move(h) ==
    /\ moves[h] < MaxMoves
    /\ moves' = [moves EXCEPT ![h] = @ + 1]
    /\ nic' = [nic EXCEPT ![h] = IF @ = "own" THEN "other" ELSE "own"]
    /\ UNCHANGED <<targetsVars, callVars, recordVars, historyVars>>

Setup == Wizard /\ UNCHANGED <<callVars, recordVars, worldVars, historyVars>>

Quiescent == (\A c \in Calls : pc[c] \in {"over", "dispatch"}) /\ UNCHANGED vars

Next ==
    \/ \E c \in Calls, t \in Threads, a \in Asks : Invoke(c, t, a)
    \/ \E c \in Calls :
          \/ LoadBook(c) \/ InstallBook(c) \/ Connect(c)
          \/ Read(c) \/ ReadFails(c) \/ Land(c) \/ Fail(c)
          \/ LookUp(c) \/ Conclude(c) \/ Return(c)
    \/ \E a, i \in Calls : Dispatch(a, i)
    \/ \E h \in Hosts : Move(h)
    \/ Setup
    \/ Quiescent

Spec == Init /\ [][Next]_vars

-----------------------------------------------------------------------------
Verdicts == {"none", "ok", "error", "unknown", "raised", "interrupted"}

Places == {"idle", "body", "loading", "read", "hold", "dispatch", "waiting", "answered",
           "returned", "over"}

CallTypeOK ==
    /\ pc \in [Calls -> Places]
    /\ ask \in [Calls -> AllAsks]
    /\ thread \in [Calls -> Threads \cup {NoThread}]
    /\ inner \in [Calls -> Calls \cup {NoCall}]
    /\ reach \in [Calls -> Hosts \cup {NoHost}]
    /\ etag \in [Calls -> 0 .. NoTag]
    /\ result \in [Calls -> Verdicts]
    /\ row \in [Calls -> Verdicts \cup {"budget_exceeded"}]
    /\ exit \in [Calls -> 0 .. Running]
    /\ token \in [Calls -> Calls \cup {NoCall}] /\ spent \subseteq Calls
    /\ slot \in [Threads -> Calls \cup {NoCall}]
    /\ nic \in [Hosts -> {"own", "other"}] /\ moves \in [Hosts -> 0 .. MaxMoves]
    /\ landed \subseteq Calls /\ unheard \subseteq Calls /\ fatal \subseteq Calls
    /\ refused \subseteq Calls /\ blind \subseteq Calls

TypeOK == CallTypeOK /\ TargetsTypeOK /\ loaded \in [Calls -> Books]

\* The undo token of a call restores what that call found, never the
\* before-state another call left on the thread when it failed
\* (decorators.py, clear_prior_state; outcome.py).
PriorIsOwn == \A c \in Calls : token[c] \in {NoCall, c}

RowIsTrue(c) ==
    /\ row[c] = "ok" /\ Requests(ask[c]) => c \in landed \/ result[c] = "interrupted"
    /\ row[c] = "error" /\ c \in landed => c \in unheard

ExitIsRow(c) ==
    exit[c] # Running /\ ~Bare(ask[c]) /\ result[c] # "interrupted" =>
        /\ exit[c] = 0 <=> row[c] = "ok"
        /\ exit[c] = 2 <=> row[c] = "unknown" /\ Writes(ask[c]) /\ ~ask[c].dry

\* A row says ok of a write Prism Central carried out, unless the command was
\* interrupted, and error of one it did not, unless connection.py had turned a
\* lost response into an error; and what a command other than `vm power` tells
\* the shell is what its row says: 0 for ok, 2 for a write whose outcome is
\* unknown, 1 for the rest (decorators.py _finalize, cli/_common.py checked).
VerdictsAgree == \A c \in Calls : RowIsTrue(c) /\ ExitIsRow(c)

\* A request that would stop the VM which answers it, by the addresses that VM
\* reports when it arrives, is one whose guard had no address to compare: the
\* tag of the guarded read keeps a VM that took the address since from being
\* hit (_selfguard.py, vms.py _vm_raw, connection.py mutate).
NoSelfLockout == EtagsServed => fatal \subseteq blind

\* A preview and a write that read the same VM and got an address to compare
\* are refused, or not, together (vms.py preview_power, preview_delete_vm).
PreviewsAgree ==
    \A c, d \in Calls :
        (/\ ask[c].tool = ask[d].tool /\ ask[c].vm = ask[d].vm
         /\ reach[c] = reach[d] /\ reach[c] # NoHost
         /\ etag[c] = etag[d] /\ etag[c] # NoTag
         /\ {c, d} \cap blind = {})
        => (c \in refused <=> d \in refused)

\* A replay that leaves its target to the record reaches the Prism Central the
\* write ran on, unless a wizard has since given the name another address, or,
\* for a write that named none, has entered the first target again, or has
\* written over a file it had not seen (tools/undo.py _origin_target).
ReplayGoesHome ==
    \A a \in Calls :
        (inner[a] # NoCall /\ reach[inner[a]] # NoHost /\ ask[a].target = Omitted) =>
            LET c == ask[a].of
            IN  \/ reach[inner[a]] = reach[c]
                \/ disturbed
                \/ IF ask[c].target # Omitted THEN ask[c].target \in overwritten
                   ELSE displaced

\* A command that ends with status 0 did what it was asked to do.
CommandsTellTheTruth ==
    \A c \in Calls :
        exit[c] = 0 /\ Writes(ask[c]) /\ ~ask[c].dry =>
            c \in landed \/ (inner[c] # NoCall /\ inner[c] \in landed)

-----------------------------------------------------------------------------
(* What holds in every state, for the proofs (GovernedCallProofs).         *)

Busy(c) == pc[c] \notin {"idle", "over"}

\* A thread serves one call at a time, apart from an undo_apply that waits for
\* the call it made.
Serial ==
    /\ \A c \in Calls : Busy(c) => thread[c] \in Threads
    /\ \A c, d \in Calls :
          c # d /\ Busy(c) /\ Busy(d) /\ thread[c] = thread[d] =>
              \/ pc[c] = "waiting" /\ inner[c] = d
              \/ pc[d] = "waiting" /\ inner[d] = c

Nesting ==
    \A a \in Calls :
        /\ ask[a].tool = "apply" => ask[a].of \in Calls
        /\ pc[a] \in {"dispatch", "waiting"} => ask[a].tool = "apply"
        /\ pc[a] = "waiting" => inner[a] \in Calls
        /\ pc[a] \in {"idle", "body", "loading", "read", "hold", "dispatch"} => inner[a] = NoCall
        /\ inner[a] # NoCall => pc[inner[a]] # "idle" /\ ask[inner[a]].tool \in {"on", "power"}

StashIsOwn ==
    \A c \in Calls :
        Busy(c) /\ ask[c].tool # "apply" => slot[thread[c]] \in {NoCall, c}

\* Whether the VM of h reports the address of its Prism Central at version n.
OwnAt(h, n) == h \in Reporting <=> n % 2 = 0

Versions == \A h \in Hosts : nic[h] = "own" <=> OwnAt(h, moves[h])

Untagged == {"idle", "body", "loading", "read"}

\* The guard judged a VM by the version whose tag the call holds.
TagsJudge ==
    \A c \in Calls :
        /\ pc[c] \in Untagged => etag[c] = NoTag /\ c \notin refused
        /\ pc[c] \in {"read", "hold"} => reach[c] \in Hosts
        /\ pc[c] = "hold" => etag[c] # NoTag /\ c \notin refused
        /\ etag[c] # NoTag /\ c \notin blind =>
              (c \in refused <=> Guarded(c) /\ ask[c].vm = "pc" /\ OwnAt(reach[c], etag[c]))

VerdictsKept ==
    \A c \in Calls :
        /\ pc[c] \notin {"returned", "over"} => row[c] = "none"
        /\ pc[c] = "answered" => result[c] \in {"ok", "error", "unknown", "interrupted"}
        /\ pc[c] = "answered" /\ Requests(ask[c]) /\ result[c] = "ok" => c \in landed
        /\ pc[c] = "answered" /\ c \in landed => result[c] = "ok" \/ c \in unheard
        /\ c \in landed => pc[c] \in {"answered", "returned", "over"}
        /\ exit[c] # Running => pc[c] = "over"

CallInv ==
    /\ CallTypeOK /\ Serial /\ Nesting /\ StashIsOwn /\ Versions /\ TagsJudge /\ VerdictsKept
    /\ PriorIsOwn /\ VerdictsAgree /\ NoSelfLockout

\* A request was sent, a before-state stashed and a token recorded on the way
\* from a Prism Central that was reached.
ReachedBefore ==
    \A c \in Calls :
        /\ pc[c] \in {"idle", "body", "loading"} => reach[c] = NoHost
        /\ c \in landed => reach[c] \in Hosts
        /\ \A t \in Threads : slot[t] = c => reach[c] \in Hosts
        /\ token[c] # NoCall => reach[c] \in Hosts

\* An undo_apply that found a token, and the call it makes for its target.
ReplaysFollowTokens ==
    \A a \in Calls :
        /\ pc[a] = "dispatch" => reach[ask[a].of] \in Hosts
        /\ inner[a] # NoCall =>
              /\ ask[a].of \in Calls /\ reach[ask[a].of] \in Hosts
              /\ ask[a].target = Omitted => ask[inner[a]].target = ask[ask[a].of].target

\* What was read, is being read or was reached, the file says still.
BooksFollow ==
    ~disturbed =>
        /\ \A p \in Procs : book[p] # NoBook => Follows(Stable, book[p], file)
        /\ \A c \in Calls : Follows(Stable, loaded[c], file)
        /\ \A c \in Calls :
              reach[c] \in Hosts /\ ask[c].target \in Stable =>
                  Addressed(file, ask[c].target) = reach[c]

TargetsInv ==
    LinesInTurn /\ WizardsInTurn /\ ReachedBefore /\ ReplaysFollowTokens /\ BooksFollow

GovernedInv == TypeOK /\ CallInv /\ TargetsInv
=============================================================================
