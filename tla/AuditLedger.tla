----------------------------- MODULE AuditLedger -----------------------------
(***************************************************************************)
(* The shared audit database of governance/audit.py and the part of        *)
(* governance/decorators.py that brackets every governed call with it.     *)
(*                                                                         *)
(* Several operating-system processes (an MCP server, CLI invocations)     *)
(* each hold one AuditEngine over the same audit.db.  A write commits a    *)
(* "pending" row, sends its request to Prism Central, then resolves the    *)
(* row; every other call is inserted when it ends.  Insertions and         *)
(* rotation run under one file lock; resolving, reconciling and opening    *)
(* the database do not.  Processes crash, storage fails, and rotation      *)
(* moves the database file away and starts ids again from 1.               *)
(***************************************************************************)
EXTENDS Naturals, FiniteSets

CONSTANTS Procs,        \* operating-system processes
          Writes,       \* governed calls above low risk, not dry runs
          Reads,        \* low-risk calls and dry-run previews
          NoProc,       \* owner of a call no living process remembers
          Free,         \* value of the lock when nobody holds it
          RowLimit,     \* rows at which the database file is due to rotate
          MaxArchives,  \* archives retention keeps
          Replies,      \* how a sent request may end for the caller
          Concurrency,  \* governed calls a process may have in progress
          MaxFaults,    \* storage failures in a behaviour
          MaxCrashes    \* process crashes in a behaviour

Calls == Writes \cup Reads

ASSUME CallsAssumption ==
    /\ Writes \cap Reads = {}
    /\ NoProc \notin Procs
    /\ Free \notin Calls

ASSUME BoundsAssumption ==
    /\ RowLimit \in Nat \ {0}
    /\ MaxArchives \in Nat
    /\ Concurrency \in Nat \ {0}
    /\ MaxFaults \in Nat
    /\ MaxCrashes \in Nat
    /\ {"confirmed", "refused"} \subseteq Replies
    /\ Replies \subseteq {"confirmed", "refused", "lost", "interrupted"}

VARIABLES
    up,        \* processes that are running
    ok,        \* engine._ok: processes whose engine opened the database
    blocked,   \* engine._write_blocked: processes that refuse new writes
    phase,     \* phase[c]: where call c is
    owner,     \* owner[c]: the process executing c
    intent,    \* intent[c]: state.intent_id, 0 while None
    verdict,   \* verdict[c]: state.status, "none" until the call has one
    row,       \* row[c]: the audit_log row of c
    stray,     \* pending rows whose call was told that they were not stored
    file,      \* what the path audit.db names
    gen,       \* how many times the path was given a new file
    nextId,    \* the id AUTOINCREMENT gives next in the current file
    wal,       \* calls with row contents only in the -wal sidecar
    archives,  \* generations kept as audit.<time>.db
    guard,     \* the call holding audit.lock
    faults, crashes,
    sent,      \* history: writes whose request left the process
    applied,   \* history: writes Prism carried out
    late,      \* history: calls started after an intent of their process stuck
    lost       \* history: calls whose row contents no file holds any more

engineVars  == <<up, ok, blocked>>
callVars    == <<phase, owner, intent, verdict>>
fileVars    == <<stray, file, gen, nextId, wal, archives>>
boundVars   == <<faults, crashes>>
worldVars   == <<sent, applied>>
historyVars == <<late, lost>>
vars == <<up, ok, blocked, phase, owner, intent, verdict, row, stray, file, gen,
          nextId, wal, archives, guard, faults, crashes, sent, applied,
          late, lost>>

-----------------------------------------------------------------------------
Verdicts == {"ok", "error", "unknown", "budget_exceeded"}

Phases == {"idle", "begin", "log", "lock", "rotate", "rename", "reopen",
           "insert", "intended", "awaiting", "finish", "done", "dead"}

\* Calls in these phases hold the rotation guard.
Guarded == {"rotate", "rename", "reopen", "insert"}

\* Calls in these phases have a pending intent in hand.
Intending == {"intended", "awaiting", "finish"}

Over == {"done", "dead"}

NoRow == [gen |-> 0, id |-> 0, status |-> "none"]

Active(c) == phase[c] \notin {"idle"} \cup Over
ActiveIn(p) == {c \in Calls : Active(c) /\ owner[c] = p}

\* Strict insertions are those of an intent: the call has no verdict yet.
Strict(c) == verdict[c] = "none"

Pending(c) == row[c].status = "pending"

\* The rows a statement "... WHERE id = i AND status = 'pending'" matches:
\* it runs on whatever file the path names now.
Matching(i) ==
    {c \in Calls : row[c].gen = gen /\ row[c].id = i /\ Pending(c)}

Init ==
    /\ up = {} /\ ok = {} /\ blocked = {}
    /\ phase = [c \in Calls |-> "idle"]
    /\ owner = [c \in Calls |-> NoProc]
    /\ intent = [c \in Calls |-> 0]
    /\ verdict = [c \in Calls |-> "none"]
    /\ row = [c \in Calls |-> NoRow]
    /\ stray = {}
    /\ file = "missing" /\ gen = 1 /\ nextId = 1
    /\ wal = {} /\ archives = {}
    /\ guard = Free
    /\ faults = 0 /\ crashes = 0
    /\ sent = {} /\ applied = {} /\ late = {} /\ lost = {}

Fault == faults < MaxFaults /\ faults' = faults + 1
NoFault == UNCHANGED faults

-----------------------------------------------------------------------------
(* Processes.                                                              *)

\* A connection that gets no further than sqlite3.connect may create the file.
Opened == IF file = "missing" THEN "empty" ELSE file

\* get_engine() builds the engine; _init_db runs without the rotation guard.
Boot(p) ==
    /\ p \notin up
    /\ up' = up \cup {p}
    /\ blocked' = blocked \ {p}
    /\ \/ NoFault /\ file' = "ready" /\ ok' = ok \cup {p}
       \/ Fault /\ file' \in {file, Opened} /\ ok' = ok \ {p}
    /\ UNCHANGED <<callVars, row, stray, gen, nextId, wal, archives, guard, crashes,
                   worldVars, historyVars>>

\* The process dies: the lock is released by the kernel, rows stay.
Crash(p) ==
    /\ p \in up
    /\ crashes < MaxCrashes
    /\ crashes' = crashes + 1
    /\ up' = up \ {p}
    /\ ok' = ok \ {p}
    /\ phase' = [c \in Calls |-> IF c \in ActiveIn(p) THEN "dead" ELSE phase[c]]
    /\ owner' = [c \in Calls |-> IF owner[c] = p THEN NoProc ELSE owner[c]]
    /\ guard' = IF guard \in ActiveIn(p) THEN Free ELSE guard
    /\ UNCHANGED <<blocked, intent, verdict, row, fileVars, faults, worldVars,
                   historyVars>>

\* health(), query() and stats() connect without the guard, and sqlite3
\* creates an empty file where the path names none.
ReaderConnects(p) ==
    /\ p \in up
    /\ file = "missing"
    /\ file' = Opened
    /\ UNCHANGED <<engineVars, callVars, row, stray, gen, nextId, wal, archives,
                   guard, boundVars, worldVars, historyVars>>

-----------------------------------------------------------------------------
(* The wrapper of a governed call.                                         *)

\* A process whose engine gave up on an intent of its own.
Stuck(p) ==
    \E d \in Calls : owner[d] = p /\ phase[d] = "done" /\ Pending(d)

\* _CallState and _pre_check.  The budget guard may stop any call; a call
\* that writes nothing runs and is left with the verdict of its result.
Start(c, p) ==
    /\ phase[c] = "idle"
    /\ p \in up
    /\ Cardinality(ActiveIn(p)) < Concurrency
    /\ owner' = [owner EXCEPT ![c] = p]
    /\ late' = IF Stuck(p) THEN late \cup {c} ELSE late
    /\ \/ /\ phase' = [phase EXCEPT ![c] = "log"]
          /\ \/ verdict' = [verdict EXCEPT ![c] = "budget_exceeded"]
             \/ c \in Reads /\ \E v \in {"ok", "error"} : verdict' = [verdict EXCEPT ![c] = v]
       \/ /\ c \in Writes
          /\ phase' = [phase EXCEPT ![c] = "begin"]
          /\ UNCHANGED verdict
    /\ UNCHANGED <<engineVars, intent, row, fileVars, guard, boundVars,
                   worldVars, lost>>

\* Variant: begin_write without the check of _write_blocked.
BeginWriteWhileBlocked(c) ==
    /\ phase[c] = "begin"
    /\ phase' = [phase EXCEPT ![c] = "log"]
    /\ UNCHANGED <<engineVars, owner, intent, verdict, row, fileVars, guard,
                   boundVars, worldVars, historyVars>>

\* begin_write: a blocked engine raises before anything is logged, and
\* _capture_error turns that into a call that ends with status "error".
BeginWrite(c) ==
    /\ phase[c] = "begin"
    /\ phase' = [phase EXCEPT ![c] = "log"]
    /\ IF owner[c] \in blocked
       THEN verdict' = [verdict EXCEPT ![c] = "error"]
       ELSE UNCHANGED verdict
    /\ UNCHANGED <<engineVars, owner, intent, row, fileVars, guard, boundVars,
                   worldVars, historyVars>>

\* Variant: an intent that cannot be stored is only warned about, as the
\* final record of a read is.
LogGivesUpOpen(c) ==
    /\ phase' = [phase EXCEPT ![c] = IF Strict(c) THEN "intended" ELSE "done"]
    /\ UNCHANGED <<blocked, verdict>>

\* The failure branch shared by every way log() can fail: an intent blocks
\* the engine and ends the call, a final record is dropped with a warning.
LogGivesUp(c) ==
    IF Strict(c)
    THEN /\ blocked' = blocked \cup {owner[c]}
         /\ verdict' = [verdict EXCEPT ![c] = "error"]
         /\ phase' = [phase EXCEPT ![c] = "log"]
    ELSE /\ phase' = [phase EXCEPT ![c] = "done"]
         /\ UNCHANGED <<blocked, verdict>>

\* log(): an engine that never opened the database fails at once.
LogEntry(c) ==
    /\ phase[c] = "log"
    /\ IF owner[c] \in ok
       THEN /\ phase' = [phase EXCEPT ![c] = "lock"]
            /\ UNCHANGED <<blocked, verdict>>
       ELSE LogGivesUp(c)
    /\ UNCHANGED <<up, ok, owner, intent, row, fileVars, guard, boundVars,
                   worldVars, historyVars>>

\* _rotation_guard: the thread lock, then flock on audit.lock.
AcquireGuard(c) ==
    /\ phase[c] = "lock"
    /\ guard = Free
    /\ guard' = c
    /\ phase' = [phase EXCEPT ![c] = "rotate"]
    /\ UNCHANGED <<engineVars, owner, intent, verdict, row, fileVars,
                   boundVars, worldVars, historyVars>>

-----------------------------------------------------------------------------
(* _maybe_rotate, under the guard.                                         *)

\* Variant: rotation looks at the size only.
RotationDueBySize == file # "missing" /\ nextId > RowLimit

RotationDue ==
    /\ file # "missing"
    /\ nextId > RowLimit
    /\ \A c \in Calls : Pending(c) => row[c].gen # gen
    /\ \A r \in stray : r.gen # gen

\* Not due, or an exception on the way (a busy checkpoint, a failed rename)
\* is swallowed: the insertion goes on.
KeepFile(c) ==
    /\ \/ phase[c] = "rotate" /\ ~RotationDue /\ NoFault
       \/ phase[c] = "rotate" /\ RotationDue /\ Fault
       \/ phase[c] = "rename" /\ Fault
    /\ phase' = [phase EXCEPT ![c] = "insert"]
    /\ UNCHANGED <<engineVars, owner, intent, verdict, row, fileVars, guard,
                   crashes, worldVars, historyVars>>

\* Variant: rename without checkpointing the -wal first.
CheckpointSkipped(c) ==
    /\ phase[c] = "rotate"
    /\ RotationDue
    /\ phase' = [phase EXCEPT ![c] = "rename"]
    /\ UNCHANGED <<engineVars, owner, intent, verdict, row, fileVars, guard,
                   boundVars, worldVars, historyVars>>

Checkpoint(c) ==
    /\ phase[c] = "rotate"
    /\ RotationDue
    /\ wal' = {}
    /\ phase' = [phase EXCEPT ![c] = "rename"]
    /\ UNCHANGED <<engineVars, owner, intent, verdict, row, stray, file, gen, nextId,
                   archives, guard, boundVars, worldVars, historyVars>>

\* The main file becomes an archive; its -wal sidecar stays under the old
\* name and is unlinked, with whatever it still holds.
Rename(c) ==
    /\ phase[c] = "rename"
    /\ file' = "missing"
    /\ archives' = archives \cup {gen}
    /\ gen' = gen + 1
    /\ nextId' = 1
    /\ lost' = lost \cup wal
    /\ wal' = {}
    /\ phase' = [phase EXCEPT ![c] = "reopen"]
    /\ UNCHANGED <<engineVars, owner, intent, verdict, row, stray, guard, boundVars,
                   worldVars, late>>

\* The archives retention keeps: the newest MaxArchives.
Kept == {g \in archives : Cardinality({h \in archives : h > g}) < MaxArchives}

\* _init_db and _cleanup_archives, which deletes one archive after another; an
\* exception is swallowed.
Reopen(c) ==
    /\ phase[c] = "reopen"
    /\ \/ NoFault /\ file' = "ready" /\ archives' = Kept
       \/ Fault /\ file' \in {file, Opened} /\ UNCHANGED archives
       \/ Fault /\ file' = "ready" /\ \E S \in SUBSET (archives \ Kept) : archives' = archives \ S
    /\ phase' = [phase EXCEPT ![c] = "insert"]
    /\ UNCHANGED <<engineVars, owner, intent, verdict, row, stray, gen, nextId, wal,
                   guard, crashes, worldVars, historyVars>>

-----------------------------------------------------------------------------
(* The insertion and what follows it.                                      *)

NewRow(c) ==
    [gen |-> gen, id |-> nextId, status |-> IF Strict(c) THEN "pending" ELSE verdict[c]]

\* A commit leaves the row in the -wal while another connection is open, in
\* the main file otherwise.
Committed(S) == wal' \in {wal, wal \cup S}

Insert(c) ==
    /\ phase[c] = "insert"
    /\ file = "ready"
    /\ row' = [row EXCEPT ![c] = NewRow(c)]
    /\ nextId' = nextId + 1
    /\ Committed({c})
    /\ guard' = Free
    /\ IF Strict(c)
       THEN /\ intent' = [intent EXCEPT ![c] = nextId]
            /\ phase' = [phase EXCEPT ![c] = "intended"]
       ELSE /\ phase' = [phase EXCEPT ![c] = "done"]
            /\ UNCHANGED intent
    /\ UNCHANGED <<engineVars, owner, verdict, stray, file, gen, archives, boundVars,
                   worldVars, historyVars>>

\* Variant: the guard is released on success only.
InsertFailsHoldingGuard(c) ==
    /\ phase[c] = "insert"
    /\ \/ file # "ready" /\ file' = Opened /\ NoFault
       \/ Fault /\ UNCHANGED file
    /\ LogGivesUp(c)
    /\ UNCHANGED <<up, ok, owner, intent, row, stray, gen, nextId, wal, archives,
                   guard, crashes, worldVars, historyVars>>

\* The insertion fails: there is no table, or storage fails.
InsertFails(c) ==
    /\ phase[c] = "insert"
    /\ \/ file # "ready" /\ file' = Opened /\ NoFault
       \/ Fault /\ UNCHANGED file
    /\ guard' = Free
    /\ LogGivesUp(c)
    /\ UNCHANGED <<up, ok, owner, intent, row, stray, gen, nextId, wal, archives,
                   crashes, worldVars, historyVars>>

\* A commit that raises although the row is durable.  Nobody owns up to the row of
\* an intent then: its call ends, and its record is a second row.
InsertUnheard(c) ==
    /\ phase[c] = "insert"
    /\ file = "ready" /\ Fault
    /\ nextId' = nextId + 1
    /\ guard' = Free
    /\ LogGivesUp(c)
    /\ IF Strict(c)
       THEN /\ stray' = stray \cup {[gen |-> gen, id |-> nextId]}
            /\ UNCHANGED <<row, wal>>
       ELSE /\ row' = [row EXCEPT ![c] = NewRow(c)]
            /\ Committed({c})
            /\ UNCHANGED stray
    /\ UNCHANGED <<up, ok, owner, intent, file, gen, archives, crashes, worldVars,
                   historyVars>>

\* The tool body sends its one mutating request; Prism may carry it out.
Send(c) ==
    /\ phase[c] = "intended"
    /\ sent' = sent \cup {c}
    /\ applied' \in {applied, applied \cup {c}}
    /\ phase' = [phase EXCEPT ![c] = "awaiting"]
    /\ UNCHANGED <<engineVars, owner, intent, verdict, row, fileVars, guard,
                   boundVars, historyVars>>

\* Variants: a lost response counts as success; an interrupt counts as an error.
ConclusionLostIsOk(r) == IF r = "refused" THEN "error" ELSE "ok"
ConclusionInterruptedIsError(r) == IF r = "confirmed" THEN "ok" ELSE "error"

\* What the wrapper concludes: _raw makes a lost response an ordinary error,
\* and an exception that is not an Exception leaves the initial "ok".
Conclusion(r) == IF r \in {"confirmed", "interrupted"} THEN "ok" ELSE "error"

EndBody(c, r) ==
    /\ verdict' = [verdict EXCEPT ![c] = Conclusion(r)]
    /\ phase' = [phase EXCEPT ![c] = "finish"]
    /\ UNCHANGED <<engineVars, owner, intent, row, fileVars, guard, boundVars,
                   worldVars, historyVars>>

\* The request ends for the caller.
Receive(c, r) ==
    /\ phase[c] = "awaiting"
    /\ r = "confirmed" => c \in applied
    /\ r = "refused" => c \notin applied
    /\ EndBody(c, r)

\* The body ends without sending: a guard or a lookup in it fails.
Decline(c, r) ==
    /\ phase[c] = "intended"
    /\ r \in {"refused", "interrupted"}
    /\ EndBody(c, r)

\* finish_write: one UPDATE outside the guard that must match one row.
Finish(c) ==
    /\ phase[c] = "finish"
    /\ file = "ready"
    /\ Cardinality(Matching(intent[c])) = 1
    /\ row' = [d \in Calls |-> IF d \in Matching(intent[c])
                               THEN [row[d] EXCEPT !.status = verdict[c]]
                               ELSE row[d]]
    /\ Committed(Matching(intent[c]))
    /\ phase' = [phase EXCEPT ![c] = "done"]
    /\ UNCHANGED <<engineVars, owner, intent, verdict, stray, file, gen, nextId,
                   archives, guard, boundVars, worldVars, historyVars>>

FinishFails(c) ==
    /\ phase[c] = "finish"
    /\ \/ Fault /\ UNCHANGED file
       \/ /\ file # "ready" \/ Cardinality(Matching(intent[c])) # 1
          /\ file' = Opened
          /\ NoFault
    /\ blocked' = blocked \cup {owner[c]}
    /\ phase' = [phase EXCEPT ![c] = "done"]
    /\ UNCHANGED <<up, ok, owner, intent, verdict, row, stray, gen, nextId, wal,
                   archives, guard, crashes, worldVars, historyVars>>

\* An UPDATE that raises although it is durable.
FinishUnheard(c) ==
    /\ phase[c] = "finish"
    /\ file = "ready" /\ Fault
    /\ Cardinality(Matching(intent[c])) = 1
    /\ row' = [d \in Calls |-> IF d \in Matching(intent[c])
                               THEN [row[d] EXCEPT !.status = verdict[c]]
                               ELSE row[d]]
    /\ Committed(Matching(intent[c]))
    /\ blocked' = blocked \cup {owner[c]}
    /\ phase' = [phase EXCEPT ![c] = "done"]
    /\ UNCHANGED <<up, ok, owner, intent, verdict, stray, file, gen, nextId, archives,
                   guard, crashes, worldVars, historyVars>>

-----------------------------------------------------------------------------
\* Variant: pending rows are reconciled without asking whether the call runs.
ReconcileRunning(c) ==
    /\ file = "ready"
    /\ c \in Matching(row[c].id)
    /\ row' = [d \in Calls |-> IF d \in Matching(row[c].id)
                               THEN [row[d] EXCEPT !.status = "unknown"]
                               ELSE row[d]]
    /\ Committed(Matching(row[c].id))
    /\ UNCHANGED <<engineVars, callVars, stray, file, gen, nextId, archives, guard,
                   boundVars, worldVars, historyVars>>

\* reconcile_pending, by an operator who checked that the call is not being
\* executed any more.
Reconcile(c) ==
    /\ phase[c] \in Over
    /\ file = "ready"
    /\ c \in Matching(row[c].id)
    /\ row' = [d \in Calls |-> IF d \in Matching(row[c].id)
                               THEN [row[d] EXCEPT !.status = "unknown"]
                               ELSE row[d]]
    /\ Committed(Matching(row[c].id))
    /\ UNCHANGED <<engineVars, callVars, stray, file, gen, nextId, archives, guard,
                   boundVars, worldVars, historyVars>>

\* Reconcile, of a row whose call is over by definition.
ReconcileStray(r) ==
    /\ file = "ready" /\ r.gen = gen
    /\ stray' = stray \ {r}
    /\ UNCHANGED <<engineVars, callVars, row, file, gen, nextId, wal, archives, guard,
                   boundVars, worldVars, historyVars>>

\* Every call of the instance is over.
Quiescent == (\A c \in Calls : phase[c] \in Over) /\ UNCHANGED vars

\* The steps a call takes by itself once started.
CallStep(c) ==
    \/ BeginWrite(c) \/ LogEntry(c) \/ AcquireGuard(c)
    \/ KeepFile(c) \/ Checkpoint(c) \/ Rename(c) \/ Reopen(c)
    \/ Insert(c) \/ InsertFails(c) \/ InsertUnheard(c)
    \/ Send(c) \/ (\E r \in Replies : Receive(c, r) \/ Decline(c, r))
    \/ Finish(c) \/ FinishFails(c) \/ FinishUnheard(c)

Next ==
    \/ \E p \in Procs : Boot(p) \/ Crash(p) \/ ReaderConnects(p)
    \/ \E c \in Calls, p \in Procs : Start(c, p)
    \/ \E c \in Calls : CallStep(c) \/ Reconcile(c)
    \/ \E r \in stray : ReconcileStray(r)
    \/ Quiescent

Spec == Init /\ [][Next]_vars

\* A running call keeps running: its process is scheduled, requests time
\* out, and flock is granted.
FairSpec == Spec /\ \A c \in Calls : WF_vars(CallStep(c))

-----------------------------------------------------------------------------
Rows == [gen : Nat, id : Nat, status : {"none", "pending"} \cup Verdicts]

\* Every variable holds a value of its kind.
TypeOK ==
    /\ up \subseteq Procs /\ ok \subseteq up /\ blocked \subseteq Procs
    /\ phase \in [Calls -> Phases]
    /\ owner \in [Calls -> Procs \cup {NoProc}]
    /\ intent \in [Calls -> Nat]
    /\ verdict \in [Calls -> {"none"} \cup Verdicts]
    /\ row \in [Calls -> Rows]
    /\ stray \subseteq [gen : Nat, id : Nat]
    /\ file \in {"missing", "empty", "ready"}
    /\ gen \in Nat \ {0} /\ nextId \in Nat \ {0}
    /\ wal \subseteq Calls /\ archives \subseteq Nat
    /\ guard \in Calls \cup {Free}
    /\ faults \in Nat /\ crashes \in Nat
    /\ sent \subseteq Calls /\ applied \subseteq Calls
    /\ late \subseteq Calls /\ lost \subseteq Calls

\* An intent stays where health() and an operator look for it: rotation never
\* takes a pending row out of the database the path names (_maybe_rotate).
IntentsStayVisible ==
    /\ \A c \in Calls : Pending(c) => row[c].gen = gen /\ file = "ready"
    /\ \A r \in stray : r.gen = gen /\ file = "ready"

\* Whatever left for Prism has a row, and no rotation, crash or checkpoint
\* dropped that row or its last contents on the way to an archive.
EffectsOnRecord ==
    /\ \A c \in sent : row[c].status # "none"
    /\ lost = {}

\* After a process failed to resolve an intent, no call it starts later
\* reaches Prism (SECURITY.md: "further writes in that process are blocked").
FailClosed == late \cap sent = {}

\* An engine blocks itself only over a storage failure or a crash, never
\* because two processes rotated, inserted and resolved in some order.
BlockedNeedsCause == blocked # {} => faults > 0 \/ crashes > 0

\* While no body is interrupted, a write audited "ok" was carried out
\* (_finalize: a failure "must not be audited as success").
OkMeansApplied == \A c \in Writes : row[c].status = "ok" => c \in applied

\* While no response is lost, a write audited "error" changed nothing
\* (_finalize: "the row must not assert a failure the tool cannot actually
\* vouch for").
ErrorMeansUntouched == \A c \in Writes : row[c].status = "error" => c \notin applied

\* An intent is resolved with the verdict of its own call, or as "unknown" by
\* an operator once the call is over: no other call's UPDATE ever hits it,
\* although ids start again from 1 in each new file.
ResolvedByItsCall ==
    [][\A c \in Calls : Pending(c) /\ ~Pending(c)' =>
          \/ phase[c] = "finish" /\ phase'[c] = "done" /\ row'[c].status = verdict[c]
          \/ phase[c] \in Over /\ row'[c].status = "unknown"]_vars

\* Every started call ends or dies with its process: the guard is always
\* released, whatever fails while it is held.
CallsEnd == \A c \in Calls : Active(c) ~> phase[c] \in Over

-----------------------------------------------------------------------------
(* The inductive invariant behind the safety properties.                   *)

\* Calls that have inserted nothing yet.
Unrecorded == {"idle", "begin", "log", "lock"} \cup Guarded

GuardExcludes == \A c \in Calls : phase[c] \in Guarded <=> guard = c

OwnersRun ==
    \A c \in Calls : /\ owner[c] # NoProc => owner[c] \in up
                     /\ Active(c) => owner[c] # NoProc
                     /\ phase[c] \in {"lock"} \cup Guarded \cup Intending => owner[c] \in ok

\* (gen, id) is a key, and the next id is fresh.
RowsKeyed ==
    /\ \A c \in Calls : /\ row[c].gen <= gen
                        /\ row[c].gen = gen => row[c].id < nextId
                        /\ row[c].status = "none" <=> row[c].gen = 0
                        /\ phase[c] \in Unrecorded => row[c].status = "none"
    /\ \A c, d \in Calls :
          row[c].gen # 0 /\ row[c].gen = row[d].gen /\ row[c].id = row[d].id => c = d

IntentsInHand ==
    \A c \in Calls :
        /\ phase[c] \in Intending => row[c].gen = gen /\ row[c].id = intent[c] /\ Pending(c)
        /\ phase[c] = "finish" => ~Strict(c)

\* Nothing can be committed between the checkpoint and the new file.
RotationIsolated ==
    \A c \in Calls :
        /\ phase[c] = "rename" => wal = {} /\ stray = {} /\ \A d \in Calls : ~Pending(d)
        /\ phase[c] = "reopen" => \A d \in Calls : row[d].gen # gen

EffectsFollowIntents ==
    /\ lost = {}
    /\ \A c \in sent : phase[c] \in {"awaiting", "finish"} \cup Over /\ row[c].status # "none"

LateCallsRefused ==
    /\ \A c \in Calls : phase[c] = "done" /\ Pending(c) /\ owner[c] # NoProc
                        => owner[c] \in blocked
    /\ \A c \in late :
          /\ phase[c] \notin {"idle"} \cup Intending /\ c \notin sent
          /\ phase[c] = "begin" => owner[c] \in blocked
          /\ phase[c] \in {"log", "lock"} \cup Guarded => ~Strict(c)

\* A call that writes nothing never asks for an intent.
ReadsConcluded ==
    \A c \in Calls : c \in Reads =>
        /\ phase[c] \notin {"begin"} \cup Intending
        /\ phase[c] # "idle" => ~Strict(c)
        /\ ~Pending(c)

LedgerInv ==
    /\ TypeOK /\ IntentsStayVisible /\ GuardExcludes /\ OwnersRun /\ RowsKeyed
    /\ IntentsInHand /\ RotationIsolated /\ EffectsFollowIntents /\ LateCallsRefused
    /\ ReadsConcluded

\* Further, while nothing failed and nothing crashed: the table is missing
\* only before the first engine opens it and while a rotation replaces it.
TableInPlace ==
    faults = 0 /\ crashes = 0 =>
        /\ blocked = {}
        /\ up = ok
        /\ file = "ready" \/ ok = {} \/ \E c \in Calls : phase[c] = "reopen"

\* Further, while no body is interrupted: "ok" is concluded from an answer.
OkConfirmed ==
    \A c \in Writes : verdict[c] = "ok" \/ row[c].status = "ok" => c \in applied

\* Further, while no response is lost: "error" is concluded from a refusal, or
\* before anything was sent.
ErrorsUntouched ==
    \A c \in Writes :
        /\ verdict[c] = "error" \/ row[c].status = "error" => c \notin applied
        /\ phase[c] \in Unrecorded \cup {"intended"} => c \notin applied
        /\ phase[c] = "intended" => Strict(c)

-----------------------------------------------------------------------------
\* The audit trail as its readers see it: rows by call, expired once the
\* archive that held them is deleted, absent when no file ever kept them.
EntryOf(c) ==
    IF c \in lost THEN "none"
    ELSE IF row[c].status \in Verdicts /\ row[c].gen \notin archives \cup {gen}
         THEN "expired"
         ELSE row[c].status

Ledger == INSTANCE WriteLedger WITH
    entry <- [c \in Calls |-> EntryOf(c)],
    world <- sent

\* The engine implements the ledger it promises.
ImplementsLedger == Ledger!LedgerSpec

=============================================================================
