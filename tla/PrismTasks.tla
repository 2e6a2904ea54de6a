----------------------------- MODULE PrismTasks -----------------------------
(***************************************************************************)
(* The operations that Prism Central carries out as tasks, and the paged   *)
(* lists that calls look their results up in: snapshots of one VM          *)
(* (ops/dataprotection.py, with the undo of a snapshot), LCM prechecks and *)
(* updates (ops/lcm.py), and list reads (connection.list_all, ops/_util).  *)
(* A POST answers before its task has run; other clients add and delete    *)
(* snapshots meanwhile, also between two pages of one list.                *)
(***************************************************************************)
EXTENDS Naturals, SequencesExt

CONSTANTS Calls,         \* tool calls; a call also names the task it starts
          Names,         \* names of snapshots
          Others,        \* the other clients of Prism Central
          Nobody,
          PageSize,      \* rows of a page
          Limits,        \* values of a caller's limit
          DefaultLimit,  \* the limit of the look-up inside create_snapshot
          MaxLimit,      \* the ceiling a limit is clamped to
          MaxShots,      \* snapshots in a behaviour
          MaxDrift       \* snapshots added or deleted by other clients

ASSUME TasksAssumption ==
    /\ Others \notin Calls /\ Nobody \notin Calls /\ Others # Nobody
    /\ PageSize \in Nat \ {0} /\ MaxLimit \in Nat \ {0}
    /\ Limits \subseteq Nat /\ DefaultLimit \in Nat
    /\ MaxShots \in Nat /\ MaxDrift \in Nat

VARIABLES shots,    \* every snapshot the VM ever had, by its extId: its name, who
                    \* asked for it, and the undo that deleted it
          rows,     \* Prism: the snapshots that exist, in the order they are listed
          task,     \* task[c]: the status of the task that c started
          purged,   \* tasks that Prism no longer keeps
          drift,
          ask, pc,  \* the request of call c and where it is
          page, got,  \* list_all: the next page, the rows collected
          token,    \* token[c]: the snapshot that the undo token of c deletes
          verdict,  \* verdict[c]: what require_passed_precheck returned
          start,    \* history: rows when the paging of c began
          grew, shrank,  \* history: calls under whose paging rows came or went
          promised  \* history: calls whose precheck task a preview had verified

prismVars == <<shots, rows, task, purged, drift>>
walkVars == <<page, got, start, grew, shrank>>
tasksVars == <<prismVars, ask, pc, walkVars, token, verdict, promised>>

-----------------------------------------------------------------------------
ShotIds == 1 .. Len(shots)
NoShot == 0

Shots == [name : Names, maker : Calls \cup {Others},
          remover : Calls \cup {Nobody}]

\* of: the call whose token is replayed, or whose task is handed back.
Asks == [op : {"list"}, limit : Limits] \cup [op : {"snapshot"}, name : Names]
        \cup [op : {"precheck"}]
        \cup [op : {"undo", "update", "preview"}, of : Calls]

Statuses == {"none", "RUNNING", "SUCCEEDED", "FAILED"}
Verdicts == {"none", "verified", "unstated", "refused"}

Prefix(s, n) == SubSeq(s, 1, IF n < Len(s) THEN n ELSE Len(s))

-----------------------------------------------------------------------------
(* Paged lists.                                                            *)

Clamp(n) == IF n < 1 THEN 1 ELSE IF n > MaxLimit THEN MaxLimit ELSE n

LimitOf(c) == Clamp(IF ask[c].op = "list" THEN ask[c].limit ELSE DefaultLimit)

\* Mutant: no row beyond the limit is asked for.
MaxItemsAtLimit(c) == LimitOf(c)

\* One row more than the limit is asked for, so that truncation is observed.
MaxItems(c) == LimitOf(c) + 1

Page(n) ==
    SubSeq(rows, n * PageSize + 1,
           IF (n + 1) * PageSize < Len(rows) THEN (n + 1) * PageSize ELSE Len(rows))

LastPage(c, served, collected) ==
    Len(served) < PageSize \/ Len(collected) >= MaxItems(c)

Listed(c) == Prefix(got[c], LimitOf(c))

\* Mutant: a row that came twice counts once, although it takes two places.
TruncatedDistinct(c) == Cardinality(Range(got[c])) > LimitOf(c)

Truncated(c) == Len(Prefix(got[c], MaxItems(c))) > LimitOf(c)

\* Mutant: the newest row is taken for the snapshot, whatever its name.
ResolvesToFirst(i, found, n) ==
    IF found = <<>> THEN i = NoShot ELSE i = found[1]

\* create_snapshot takes the first listed snapshot of the name it asked for.
ResolvesTo(i, found, n) ==
    \/ /\ i = NoShot
       /\ \A j \in DOMAIN found : shots[found[j]].name # n
    \/ \E k \in DOMAIN found :
          /\ i = found[k]
          /\ shots[i].name = n
          /\ \A j \in 1 .. k - 1 : shots[found[j]].name # n

StartPaging(c) ==
    /\ start' = [start EXCEPT ![c] = rows]
    /\ UNCHANGED <<page, got, grew, shrank>>

\* What list_all collected is gone when the call ends.
EndPaging(c) ==
    /\ page' = [page EXCEPT ![c] = 0]
    /\ got' = [got EXCEPT ![c] = <<>>]
    /\ start' = [start EXCEPT ![c] = <<>>]
    /\ grew' = grew \ {c}
    /\ shrank' = shrank \ {c}

NextPage(c) ==
    LET served == Page(page[c])
        collected == got[c] \o served
    IN  /\ pc[c] = "pages"
        /\ got' = [got EXCEPT ![c] = collected]
        /\ IF LastPage(c, served, collected)
             THEN /\ pc' = [pc EXCEPT ![c] = "paged"]
                  /\ UNCHANGED page
             ELSE /\ page' = [page EXCEPT ![c] = @ + 1]
                  /\ UNCHANGED pc
        /\ UNCHANGED <<prismVars, ask, start, grew, shrank, token, verdict, promised>>

\* The envelope of a list, or the undo token of a snapshot.
Envelope(c) ==
    /\ pc[c] = "paged"
    /\ pc' = [pc EXCEPT ![c] = "done"]
    /\ IF ask[c].op = "snapshot"
         THEN \E i \in ShotIds \cup {NoShot} :
                 /\ ResolvesTo(i, Listed(c), ask[c].name)
                 /\ token' = [token EXCEPT ![c] = i]
         ELSE UNCHANGED token
    /\ EndPaging(c)
    /\ UNCHANGED <<prismVars, ask, verdict, promised>>

\* A page that fails: create_snapshot goes on without the snapshot's extId.
PageFails(c) ==
    /\ pc[c] = "pages"
    /\ pc' = [pc EXCEPT ![c] = IF ask[c].op = "snapshot" THEN "done" ELSE "failed"]
    /\ EndPaging(c)
    /\ UNCHANGED <<prismVars, ask, token, verdict, promised>>
-----------------------------------------------------------------------------
(* Calls.                                                                  *)

FirstStep(a) ==
    CASE a.op = "list" -> "pages"
      [] a.op = "undo" -> "delete"
      [] a.op \in {"update", "preview"} -> "verify"
      [] OTHER -> "post"

\* undo_apply needs a token; a task handed back may be any extId.
Invoke(c, a) ==
    /\ pc[c] = "idle"
    /\ a.op = "undo" => token[a.of] # NoShot
    /\ ask' = [ask EXCEPT ![c] = a]
    /\ pc' = [pc EXCEPT ![c] = FirstStep(a)]
    /\ IF a.op = "list" THEN StartPaging(c) ELSE UNCHANGED walkVars
    /\ promised' =
         IF /\ a.op = "update"
            /\ \E p \in Calls : /\ ask[p].op = "preview" /\ ask[p].of = a.of
                                /\ verdict[p] = "verified"
           THEN promised \cup {c} ELSE promised
    /\ UNCHANGED <<prismVars, token, verdict>>

\* The POST of create_snapshot, run_precheck or perform_update: Prism starts a
\* task and answers with its extId.
Post(c) ==
    /\ pc[c] = "post"
    /\ task' = [task EXCEPT ![c] = "RUNNING"]
    /\ IF ask[c].op = "snapshot"
         THEN pc' = [pc EXCEPT ![c] = "pages"] /\ StartPaging(c)
         ELSE pc' = [pc EXCEPT ![c] = "done"] /\ UNCHANGED walkVars
    /\ UNCHANGED <<shots, rows, purged, drift, ask, token, verdict, promised>>

\* A request is refused, its answer is lost, or the process dies.
CallFails(c) ==
    /\ pc[c] \in {"pages", "paged", "post", "verify", "delete"}
    /\ pc' = [pc EXCEPT ![c] = "failed"]
    /\ EndPaging(c)
    /\ UNCHANGED <<prismVars, ask, token, verdict, promised>>

Unlist(k) ==
    /\ rows' = RemoveAt(rows, k)
    /\ shrank' = shrank \cup {c \in Calls : pc[c] = "pages"}

\* The inverse of snapshot_create.  A snapshot that is gone is a 404: CallFails.
Delete(c) ==
    /\ pc[c] = "delete"
    /\ pc' = [pc EXCEPT ![c] = "done"]
    /\ \E k \in DOMAIN rows :
          /\ rows[k] = token[ask[c].of]
          /\ Unlist(k)
          /\ shots' = [shots EXCEPT ![rows[k]].remover = c]
    /\ UNCHANGED <<task, purged, drift, ask, page, got, start, grew, token, verdict, promised>>
-----------------------------------------------------------------------------
(* LCM.                                                                    *)

\* Mutant: only a failed precheck is refused, a running one passes.
PrecheckNotFailed(status) == status # "FAILED"

PrecheckPassed(status) == status = "SUCCEEDED"

\* require_passed_precheck looks at the status of the task it is handed, not at
\* what the task was for; a record without a status is let through.
Judged(t) ==
    IF t \in purged \/ task[t] = "none" THEN {"refused"}
    ELSE {IF PrecheckPassed(task[t]) THEN "verified" ELSE "refused", "unstated"}

AfterPrecheck(c, v) ==
    IF v = "refused" THEN "failed" ELSE IF ask[c].op = "preview" THEN "done" ELSE "post"

RequirePassedPrecheck(c) ==
    /\ pc[c] = "verify"
    /\ \E v \in Judged(ask[c].of) :
          /\ verdict' = [verdict EXCEPT ![c] = v]
          /\ pc' = [pc EXCEPT ![c] = AfterPrecheck(c, v)]
    /\ UNCHANGED <<prismVars, ask, walkVars, token, promised>>
-----------------------------------------------------------------------------
(* Prism Central and its other clients.                                    *)

\* Prism promises no order of a list: a new snapshot may be listed anywhere.
Add(n, who) ==
    /\ Len(shots) < MaxShots
    /\ shots' = Append(shots, [name |-> n, maker |-> who, remover |-> Nobody])
    /\ \E k \in 1 .. Len(rows) + 1 : rows' = InsertAt(rows, k, Len(shots) + 1)
    /\ grew' = grew \cup {c \in Calls : pc[c] = "pages"}

TaskSucceeds(c) ==
    /\ task[c] = "RUNNING"
    /\ task' = [task EXCEPT ![c] = "SUCCEEDED"]
    /\ IF ask[c].op = "snapshot" THEN Add(ask[c].name, c)
                                 ELSE UNCHANGED <<shots, rows, grew>>
    /\ UNCHANGED <<purged, drift, ask, pc, page, got, start, shrank, token, verdict, promised>>

TaskFails(c) ==
    /\ task[c] = "RUNNING"
    /\ task' = [task EXCEPT ![c] = "FAILED"]
    /\ UNCHANGED <<shots, rows, purged, drift, ask, pc, walkVars, token, verdict, promised>>

PurgeTask(c) ==
    /\ task[c] \in {"SUCCEEDED", "FAILED"}
    /\ purged' = purged \cup {c}
    /\ UNCHANGED <<shots, rows, task, drift, ask, pc, walkVars, token, verdict, promised>>

OthersAdd ==
    /\ drift < MaxDrift /\ drift' = drift + 1
    /\ \E n \in Names : Add(n, Others)
    /\ UNCHANGED <<task, purged, ask, pc, page, got, start, shrank, token, verdict, promised>>

OthersDelete ==
    /\ drift < MaxDrift /\ drift' = drift + 1
    /\ \E k \in DOMAIN rows : Unlist(k)
    /\ UNCHANGED <<shots, task, purged, ask, pc, page, got, start, grew, token, verdict, promised>>
-----------------------------------------------------------------------------
Init ==
    /\ \E n \in 0 .. MaxShots :
         /\ shots \in [1 .. n -> [name : Names, maker : {Others}, remover : {Nobody}]]
         /\ rows = [i \in 1 .. n |-> i]
    /\ task = [c \in Calls |-> "none"]
    /\ purged = {} /\ drift = 0
    /\ ask = [c \in Calls |-> [op |-> "precheck"]]
    /\ pc = [c \in Calls |-> "idle"]
    /\ page = [c \in Calls |-> 0]
    /\ got = [c \in Calls |-> <<>>]
    /\ token = [c \in Calls |-> NoShot]
    /\ verdict = [c \in Calls |-> "none"]
    /\ start = [c \in Calls |-> <<>>]
    /\ grew = {} /\ shrank = {} /\ promised = {}

CallStep(c) ==
    \/ \E a \in Asks : Invoke(c, a)
    \/ Post(c) \/ NextPage(c) \/ PageFails(c) \/ Envelope(c)
    \/ RequirePassedPrecheck(c) \/ Delete(c) \/ CallFails(c)

PrismStep ==
    \/ \E c \in Calls : TaskSucceeds(c) \/ TaskFails(c) \/ PurgeTask(c)
    \/ OthersAdd \/ OthersDelete

Next == PrismStep \/ \E c \in Calls : CallStep(c)

Spec == Init /\ [][Next]_tasksVars
-----------------------------------------------------------------------------
\* Type correctness.
TypeOK ==
    /\ shots \in Seq(Shots)
    /\ rows \in Seq(ShotIds)
    /\ task \in [Calls -> Statuses]
    /\ purged \subseteq Calls /\ drift \in 0 .. MaxDrift
    /\ ask \in [Calls -> Asks]
    /\ pc \in [Calls -> {"idle", "pages", "paged", "post", "verify", "delete",
                         "done", "failed"}]
    /\ page \in [Calls -> Nat]
    /\ got \in [Calls -> Seq(ShotIds)]
    /\ token \in [Calls -> ShotIds \cup {NoShot}]
    /\ verdict \in [Calls -> Verdicts]
    /\ start \in [Calls -> Seq(ShotIds)]
    /\ grew \subseteq Calls /\ shrank \subseteq Calls /\ promised \subseteq Calls

\* A list that was paged while no snapshot came or went is the first rows of
\* the list, as many as the limit, and says truncated exactly if there are more
\* (fetch_page asks for one row more than it returns; list_all stops early).
QuietListsAreExact ==
    \A c \in Calls : pc[c] = "paged" /\ c \notin grew \cup shrank =>
        /\ Listed(c) = Prefix(start[c], LimitOf(c))
        /\ Truncated(c) <=> Len(start[c]) > LimitOf(c)

\* A list that does not say truncated misses none of the snapshots there were
\* when it began, unless one was deleted meanwhile: one that is added pushes
\* rows to later pages, so that rows may come twice but never be skipped.
NothingSkipped ==
    \A c \in Calls : pc[c] = "paged" /\ ~Truncated(c) /\ c \notin shrank =>
        Range(start[c]) \subseteq Range(Listed(c))

\* What the properties below rest on: a token names a listed snapshot of the name
\* its call asked for, and a call past the precheck guard was let through by it.
CallsInOrder ==
    \A c \in Calls :
        /\ pc[c] = "idle" => verdict[c] = "none"
        /\ pc[c] \in {"idle", "post", "verify"} => task[c] = "none"
        /\ pc[c] \in {"pages", "paged"} => ask[c].op \in {"list", "snapshot"}
        /\ pc[c] = "verify" => ask[c].op \in {"update", "preview"}
        /\ pc[c] = "delete" => ask[c].op = "undo"
        /\ pc[c] \in {"idle", "pages", "paged", "post", "verify", "delete"} =>
             token[c] = NoShot
        /\ token[c] # NoShot =>
             ask[c].op = "snapshot" /\ shots[token[c]].name = ask[c].name
        /\ pc[c] # "idle" /\ ask[c].op = "undo" => token[ask[c].of] # NoShot

GuardsHold ==
    \A c \in Calls :
        /\ ask[c].op = "update" /\ (pc[c] = "post" \/ task[c] # "none") =>
             verdict[c] \in {"verified", "unstated"}
        /\ verdict[c] # "none" => ask[c].op \in {"update", "preview"}
        /\ verdict[c] = "verified" => task[ask[c].of] = "SUCCEEDED"
        /\ c \in promised =>
             /\ pc[c] # "idle" /\ ask[c].op = "update"
             /\ task[ask[c].of] = "SUCCEEDED"
             /\ verdict[c] = "refused" => ask[c].of \in purged

UndosHold ==
    \A i \in ShotIds :
        LET who == shots[i].remover
        IN  who \in Calls =>
              /\ pc[who] # "idle" /\ ask[who].op = "undo"
              /\ ask[ask[who].of].op = "snapshot"
              /\ shots[i].name = ask[ask[who].of].name

\* list_all in progress: whole pages so far; nothing is behind it that it has not
\* seen, unless rows were deleted; it is a prefix of the list if nothing changed.
WalksHold ==
    \A c \in Calls :
        /\ pc[c] = "pages" =>
             /\ Len(got[c]) = page[c] * PageSize
             /\ c \notin shrank => \A i \in DOMAIN start[c] :
                  \/ start[c][i] \in Range(got[c])
                  \/ \E k \in DOMAIN rows : k > Len(got[c]) /\ rows[k] = start[c][i]
             /\ c \notin grew \cup shrank => rows = start[c] /\ got[c] = Prefix(rows, Len(got[c]))
        /\ pc[c] = "paged" =>
             /\ c \notin shrank =>
                  Len(got[c]) >= MaxItems(c) \/ Range(start[c]) \subseteq Range(got[c])
             /\ c \notin grew \cup shrank =>
                  /\ got[c] = Prefix(start[c], Len(got[c]))
                  /\ Len(got[c]) >= MaxItems(c) \/ got[c] = start[c]
        /\ pc[c] \notin {"pages", "paged"} =>
             got[c] = <<>> /\ page[c] = 0 /\ c \notin grew \cup shrank

\* The inductive invariant.
TasksInv ==
    TypeOK /\ CallsInOrder /\ GuardsHold /\ UndosHold /\ WalksHold

\* The undo of a snapshot deletes a snapshot of the name that was asked for,
\* whatever was created, listed and deleted in the meantime
\* (create_snapshot looks the extId up by name).
UndoKeepsToItsName ==
    \A i \in ShotIds :
        LET who == shots[i].remover
        IN  who \in Calls => shots[i].name = ask[ask[who].of].name

\* An LCM update that Prism was asked for follows a task that had succeeded,
\* however tasks and calls interleave, or one whose status Prism did not state
\* (require_passed_precheck, the one case it fails open on).
UpdatesFollowSuccess ==
    \A c \in Calls : ask[c].op = "update" /\ task[c] # "none" =>
        \/ task[ask[c].of] = "SUCCEEDED"
        \/ verdict[c] = "unstated"

\* An update is not refused after a dry run verified the task it hands back
\* (tools/lcm.py: a preview never reports an update that the call would refuse),
\* unless Prism has purged the task.
PreviewsKeepTheirPromise ==
    \A c \in promised : verdict[c] = "refused" => ask[c].of \in purged
=============================================================================
