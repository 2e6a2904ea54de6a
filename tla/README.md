# Verification of nutanix-aiops

TLA+ specifications of the governance core of `nutanix_aiops`, of the writes it
governs, of the calls that carry them and of the reports it makes, model-checked
with TLC; every safety property is also proved with TLAPS.
Paths below are relative to `src/nutanix_aiops/` unless they begin with `docs/`
or name a file of the repository root. `PROJECT.json` maps every definition to
the lines it models.

## 1. The system

`nutanix-aiops` lets agents (over MCP) and operators (over a Typer CLI) read
and change a Nutanix Prism Central. Every one of its 51 tools is wrapped by
`@governed_tool`: the call passes a budget, is matched against approved
remediation patterns, is recorded in an audit database that several processes
share, and, where the tool has an inverse, leaves an undo token. MCP runs
synchronous tools on worker threads, so governed calls of one process
interleave; the CLI and the MCP server are processes of their own, so calls of
several processes interleave on the files below `~/.nutanix-aiops`.

### Components

| component | state | operations | what makes it correct |
|---|---|---|---|
| Audit engine `governance/audit.py` | `audit.db` and its `-wal`, archives, `audit.lock`, `_ok` and `_write_blocked` per process | `begin_write`, `finish_write`, `log`, rotation, `reconcile_pending`, reads | a write leaves for Prism only under a committed intent; an intent is never archived; it is resolved once, by its own call; if it cannot be, the process stops writing |
| Wrapper `governance/decorators.py` | `_CallState` of each call | pre-check, intent, body, undo token, final row | what the row says is what happened |
| Budget `governance/budget.py` | totals, one window of time stamps for each distinct call | `check_and_record`, `add_duration` | ceilings and the runaway maximum hold for threads that arrive together; no refusal without cause |
| Patterns `governance/patterns.py` | loaded patterns, their time stamps, counters by pattern and target | `match`, `report_outcome`, hot reload | caps hold in every window; failures make a pattern rest; edits take effect |
| Undo store `governance/undo.py`, `mcp_server/tools/undo.py` | `undo_log` | record, list, `undo_apply`, mark | a token tells what its write replaced; it is replayed once |
| Connection `connection.py` | HTTP client, one connection for each target | `_raw`, `get_with_etag`, `mutate`, `list_all` | a write carries the ETag of the record it read; lists are complete or say they are not |
| VM writes `ops/vms.py` | Prism's VMs | power, resize, migrate, delete, create, clone | no lost update; the prior state reported is the one replaced |
| Verdicts `governance/outcome.py`, `mcp_server/_shared.py` | - | `tool_errors` | "error" means that nothing changed, "unknown" that nobody can tell |
| LCM `ops/lcm.py` | Prism's tasks | precheck, update | no update without the precheck it is for |
| Snapshots `ops/dataprotection.py` | a VM's snapshots | create, delete, restore | the undo of a snapshot deletes that snapshot |
| Secret store `secretstore.py` | one encrypted file | unlock, set, delete, rotate, migrate | the file is whole after any crash, changes only as asked, and nothing is lost in a migration |
| Inventory `ops/_util.py`, list operations | - | paged reads, limits, envelopes | `truncated` is told truly |
| Self-lockout guard `ops/_selfguard.py` | - | refuse to stop one's own Prism Central | no request that would stop the VM that answers it; fails open only when identity is unknown |
| Targets and setup wizard `config.py`, `cli/init.py` | `config.yaml`, the configuration each process has read | load, look up, `init` | a call reaches the Prism Central that was meant; a replay reaches the one its write ran on |
| Storage, network, catalog, alert writes | Prism's entities | one request each | as VM writes |
| Diagnostics and reports `ops/diagnostics.py`, `ops/clusters.py`, `ops/overview.py` | - | several reads, then findings | findings follow from the estate; counts are never silently understated |
| CLI `cli/` | one process per command | calls of governed tools in process | a failure is a nonzero exit |
| MCP server `mcp_server/` | threads of one process | registration, calls of governed tools | - |

### How they interact

A governed call runs `_pre_check` (budget, then pattern match), `_begin_write`
for a real write (audit intent), the tool body (connection, Prism), then
`_annotate_result` (undo token) and `_finalize` (duration to the budget,
outcome to the pattern engine, resolution or insertion of the audit row).
`undo_apply` is a governed call whose body makes another governed call. A body
asks `ConnectionManager` for a session, and the first to do so in a process reads
`config.yaml`, which the wizard may be rewriting. What a write found is handed
to the wrapper in its result or, if its response is lost, by a context variable of
the thread; a CLI command turns the result into an exit status.
Threads share the budget, the patterns and the audit engine's flags; processes
share the audit database, its lock file, the undo database, the secret file and
Prism itself.

### What is hard

- rotation of the audit file, in four steps, while other processes commit,
  resolve and reconcile rows without the lock that serialises insertions;
- crashes and storage failures between any two of those steps;
- requests that Prism carried out and whose answer was lost, and tool bodies
  that end by something that is not an `Exception`;
- time stamps read before a lock is taken;
- pattern files that are read without a lock while being edited;
- a record read, then written back whole, while other clients change it;
- lists that grow and shrink between two pages, and tasks that end long after the
  call that started them;
- tokens that are checked, replayed and marked in three transactions;
- one temporary file that several processes write and rename without a lock;
- a guard that judges a VM by the addresses it had at the last read;
- a before-state left on a thread for whichever call comes to fetch it;
- a configuration that is edited under the names tokens and callers go by;
- reports put together from reads made one after the other, some of which fail.

`PROJECT.json` lists each of them at its line under `hazards`, with the
properties that watch it.

## 2. Modules

| module | models | abstraction of |
|---|---|---|
| `WriteLedger` | the abstract audit trail: intend, transmit, resolve, note, expire | `AuditLedger` refines it |
| `AuditLedger` | audit engine, and the wrapper around it | files, locks, processes |
| `BudgetTracker` | the budget and runaway guard | |
| `PatternEngine` | selection, caps, breaker, hot reload | |
| `PrismVms` | VM writes over ETags | other clients of Prism as `Drift` |
| `UndoTokens` (extends `PrismVms`) | undo store, recording, `undo_apply` | |
| `PrismTargets` | `config.yaml`, the wizard that edits it, how a target is looked up | |
| `GovernedCall` (extends `PrismTargets`) | one call end to end: wrapper, tool body, self-lockout guard, verdict, before-state, replay, exit status | budget, audit store and undo store as choices |
| `PrismTasks` | paged lists, snapshots with their undo, the LCM precheck guard | other clients of Prism as `OthersAdd`, `OthersDelete` |
| `SecretStore` | the secret file, its commands, the import of `.env`, look-ups of passwords | |
| `EstateReports` | the health report of all clusters and the overview's counts | a paged list as one read |
| `AuditLedgerProofs`, `BudgetTrackerProofs`, `PatternEngineProofs`, `UndoTokensProofs` (also of `PrismVms`), `GovernedCallProofs`, `PrismTasksProofs`, `SecretStoreProofs`, `EstateReportsProofs` | theorems | |
| `MC...` | instances for TLC | |

### AuditLedger

One record `row[c]` per call stands for its line of `audit_log`: the generation
of the file that holds it, its id, its status. `gen` counts the files the path
`audit.db` has named; `file` is `missing`, `empty` (no table) or `ready`; `wal`
holds the rows whose contents are only in the sidecar. `guard` is `audit.lock`.
A call is at a `phase`: it asks for its intent (`begin`), passes the checks of
`_insert`, waits for the lock, looks at the size and at pending rows, checkpoints
(`rotate`), renames (`rename`), opens a new file (`reopen`) and inserts; a write
then sends its request, gets a reply, and resolves its row by
`UPDATE ... WHERE id = ? AND status = 'pending'`, without the lock. `Matching`
evaluates that statement on the file the path names at that moment, so a row
that has been archived is not found and a row of another call with the same id
would be. Each storage operation may fail (`Fault`), with what the code does in
that branch; a failure may also come late: the commit of an insertion or of a
resolution is durable and raises all the same (`InsertUnheard`, `FinishUnheard`), or
the new file is there and deleting old archives fails half-way (`Reopen`). A row
whose call was told that it was not stored is in `stray`: it blocks rotation like
any pending row until an operator reconciles it, and its call has a second row,
"error". `Crash` ends a process and the kernel releases its lock. Replies
are `confirmed`, `refused`, `lost` (Prism may have carried the request out; the
caller sees an error) and `interrupted` (the body ends by a `BaseException`).
The reads `query`, `stats` and `health` are one action: opening a connection
may create an empty file at the path. `Reconcile` asks that the call is over. The
code does not: its docstring makes that check the operator's duty
(`governance/audit.py:261-266`), and the model relies on it, so that an operator
who reconciles an intent whose call still runs is not watched.

### BudgetTracker

`window[f]` is the set of calls whose time stamp is in the deque of fingerprint
`f` and `place[c]` their order of arrival; `Recent` drops from the front up to
the first fresh stamp, as the code does. `Begin` reads the time; `Admit` and
`Refuse` are what happens once the lock is held. `MaxSkew` bounds the wait in
between: the properties are stated with it, since the code's guarantee is
weaker by that much. `RaiseLimits` models the environment, which is read on
every check and may be raised in the middle of a session.

### PatternEngine

`Books[v]` are the patterns after `v` edits. A pattern is picked by its place in
the file (`First`). `disk`, `book` and `mtimes` are the
versions on disk, in `_patterns` and in `_mtimes`; a reload is four steps
(stat, read, keep the patterns, keep the time stamps) that no lock protects.
Selection and arming are two steps, arming under the lock. Outcomes arrive in
any order. That a file is unreadable, and how a file is validated, are left out:
validation decides what is an `Entry`.

### PrismVms and UndoTokens

A write reads the VM and its ETag in one GET and sends one request. `Accept` is
Prism carrying it out, `Result` the configuration it leaves: a `$action` sets
one field, while the PUT of `update_vm` carries every field as it was read, but for
the sizes it sets. `SizeFields` are the sizes. `$action` tasks are taken to
complete when they are accepted. `Refuse` covers a missing VM, the
self-lockout guard (in full in `GovernedCall`), a stale tag and every other error. `EtagsServed` says
whether Prism sends ETags; `get_with_etag` accepts a server that does not, and
then nothing protects a write.

`UndoTokens` adds the row of `undo_log` each call may leave and the steps of
`undo_apply`: `Check`, `Dispatch` (the inverse tool, as another call), `Mark`.
History, token by token: `contested` (two calls held it at once), `unstored` (the
store failed to record it) and `unmarked` (a crash or a failing store came between
its replay and its mark). The properties excuse these tokens and no others.
`Restorable` are the values that have an inverse call: a VM that was on or off
can be put back, one in another power state cannot.

### PrismTargets and GovernedCall

`file` is the list of targets in `config.yaml`: a function from lines to entries,
whose order is that of the lines. An entry the wizard adds or overwrites gets a line
after all others, as it is appended to the list; the lines of dropped entries stay
unused. `whole` is false
between the two halves of `write_text`, which empties the file and then fills it,
and a process that reads it meanwhile finds no target (`Contents`). Before a first
target was written there is no file (`Missing`): a look-up then fails and keeps
nothing, and the next one tries again. A wizard
keeps its list (`draft`) from the moment it starts, enters one target after
another and may end or die anywhere, in a write too. `book[p]` is the
configuration process `p` keeps; a look-up takes the first entry
(`DefaultHost`) or the first of that name (`HostOf`); `Foremost` is that line. Sessions need no variable:
a session kept for a target goes where a new one of the same configuration
would, also when two threads open one each.

A call begins with `Invoke`: a thread that is free takes it, drops what an
earlier call stashed, and reaches the body unless the budget or the audit store
stops it (`Stops`). The body of a tool is `LoadBook` and `InstallBook` (two steps,
no lock), `Connect`, `Read` (the GET of the VM, its tag, and the guard on what it
reported), and `Land` or `Fail` for its request. `Land` needs the tag that was read
to be current where Prism sends tags; the response may be lost, with one of the
outcomes in `Lost`. `LookUp`, `Dispatch` and `Conclude` are `undo_apply`: it reads
the token, makes the inverse call on its own thread and waits for it. `Return` is
what the wrapper does with the result: `RecordUndo`, the audit row, the exit status
of a command, whose process ends. `Move` lets the VM a Prism Central runs on take
or give up the address it is reached at.

`slot[t]` is the before-state stashed on thread `t`, named by the call that
found it, and `token[c]` tells whose before-state the token of `c` restores.
History: `landed` (requests Prism carried out), `unheard` (those whose response was
lost), `fatal` (those that hit the VM which answers them), `refused` and `blind`
(calls the guard refused, or had no address to judge by); and of the wizards,
`overwritten`, `displaced`, `disturbed`. Taken from the outside: Prism gives a VM
a new ETag when the addresses it reports change, as part of its record.

Two parameters describe what tools there are. No tool of the repository calls
`capture_prior_state`, which `outcome.py` offers to bodies, and `connection.py` turns
every transport error of its own requests into an ordinary one; so today
`Captures` is FALSE and a lost response is never "unknown". The wrapper is
written for tools that do either, and the model checks it with both.

### EstateReports

`home[n]` is the cluster host `n` is a node of, if any. `Start` lets a report find the
estate in any state; the reads follow one another (`Probe` and `Utilization` of each
cluster, `ReadHosts`, and the containers in `Conclude`), each of them may fail in the
way the code handles, and `Change` alters the estate in between: hosts fail, fall
silent, join, leave and move between clusters (`Rehome`), levels and fault tolerance
change. A row of the report carries the `count` of nodes that the list of clusters
gave, then the one of the cluster's own record (`HealthRow`), or none if that record
came without a body; `Missing` compares it, as the code does, with a list of hosts
that is read later. Levels are in hundredths of a percent and `Rounded` is what
`round(_, 1)` makes of them, before the thresholds are applied (`Usage`); halfway
between two tenths it may be either.

`Findings` is the analysis, over what was read. `MustBeFound` and `MayBeFound` say, of
the estate itself, what there is to find; they differ by the levels that rounding
lifts over a threshold. `seen` collects what was to be found at some time during the
report, `failed` the reads of single clusters that failed, `cut` the lists that were
cut, `left` the clusters a host left after their nodes were counted. What the code
read is dropped when the report ends. The overview is `CountRows` for clusters and
hosts and `CountVms` for the two lists of VMs; `truth` is the number of rows there
were. The finding about an upgrade, drawn like the one about fault tolerance, is
left out.

### PrismTasks

Prism answers a POST before the work is done: `Post` starts `task[c]`, and
`TaskSucceeds`, `TaskFails` and `PurgeTask` happen whenever Prism likes. `rows`
are the snapshots of one VM in the order Prism lists them; a snapshot that
appears may be listed anywhere, since Prism promises no order and the code asks
for none. `NextPage` is one GET of `list_all`; `page` and `got` are its local
variables, and `PageSize` stands for `_PAGE_LIMIT` on both sides. Between two
pages, calls and other clients add and delete rows. `Listed` and `Truncated` are
what `fetch_page` makes of `got`. `create_snapshot` posts, pages, and takes the
first row of its name (`ResolvesTo`); `token[c]` is what its undo token names, 0
if the look-up found nothing, in which case none is recorded. `Delete` is the
replay of a token. The guard before LCM updates, `RequirePassedPrecheck`, reads
the status of the task it is handed; a record without a status is let through
(`unstated`), as the code documents. `grew`, `shrank`, `start` and `promised`
are history: they only record when rows moved under a list and what a preview
answered.

### SecretStore

`storefile` and `tempfile` are what `secrets.enc` and `secrets.enc.tmp` hold: a
whole store (`Blobs`, a password and a map), nothing, an empty file, or text that
no longer parses (`Torn`). A process unlocks (`Unlock`: reads the file once and
keeps the map in `held`), and then makes the changes in `todo` one by one. Each is
the three system calls of `_persist`: `OpenTemp` truncates the temporary file,
`WriteTemp` writes to the file that was opened, `Replace` renames whatever bears
the temporary name by then. `opened` follows a descriptor through renames by
others: what `p` opened as the temporary file may by now be `secrets.enc`
itself, or have no name at all. `Fail` is the death of a process or a full disk
between any two calls. `Resolve` is `_resolve_secret` with the store that a
process keeps once it is unlocked; `outcome` tells a stored secret from the
fall-back to the environment and from a refusal. `stale` (a process under which
the file was replaced) and `shared` (two processes had the temporary file open at
once) are history, and the properties are stated with them: no lock orders the
commands, so a command that was overtaken does drop the other's change, and two
writers at once can tear the store. Nothing in the code or its documents promises
otherwise.

## 3. Runs

Every run lists its bounds in its `.cfg`.

| run | question | bounds |
|---|---|---|
| `audit_safety` | Is every effect on record, every intent visible and resolved by its own call, whatever fails? | 2 processes, 2 writes, 1 read, row limit 1, 1 archive, 1 failure, 1 crash |
| `audit_liveness` | Does every call end, and does the engine implement the ledger? And the inductive invariant, with calls interleaved inside each process, archives deleted at once and interrupted bodies; and does "error" mean that nothing happened? | 2 processes with 2 calls at once, 1 write, 1 read, 1 failure, 1 crash |
| `budget` | Do the ceilings and the runaway maximum hold, and does every refusal have a cause? | 4 calls (3 alike), time up to 3, window 2, wait 1 |
| `patterns` | Do caps and the breaker hold with threads, and do edits take effect unless two reloads overlap? | 3 calls on 2 threads, 2 patterns, 3 versions of the files, time up to 3 |
| `governed_call` | Does the guard keep a Prism Central's own VM from being stopped, do previews agree with writes, does a token restore what its own call found, do row and exit status agree with what happened? | 2 calls, 2 threads of the server and 1 command, no, one or two targets, 1 change of address, every outcome of a lost response, both stops |
| `undo_target` | Does a replay reach the Prism Central its write ran on while the wizard edits `config.yaml`? And the inductive invariant with nested calls. | 3 calls, 1 thread of the server and 1 command, one call at a time apart from the one a replay makes, 2 targets, 1 wizard with 1 entry |
| `command_exit` | violation: a command that failed exits with 0 | 3 calls, the same, no wizard |
| `undo` | Are updates kept? Do tokens tell the truth, is none lost without a cause, do replays restore, once? | 1 VM with 3 fields, 1 call, 2 `undo_apply`, 1 change by others, 1 failure, 1 crash |
| `undo_twice` | violation: one token replayed twice | 2 `undo_apply`, nothing fails |
| `prism_tasks` | Are paged lists exact or honestly incomplete while rows come and go? Does the undo of a snapshot keep to its name? Does the precheck guard hold, and its preview agree with the call? | 3 calls, 2 names, pages of 2, limits 1, 3 and 4, 4 snapshots, 1 change by others |
| `secret_store` | Does the secret file stay whole and change only as asked, is `.env` given up only when all of it is stored, and is the environment asked only for what is not stored? | 3 processes (one of them a reader), 2 names, 1 value, 2 passwords, 2 lines of `.env` |
| `reports` | Is the report of a quiet estate exact, was every finding true at some time, and is every count that is short marked so? | 2 clusters of 2 hosts and 1, one of them without a count, 1 container, levels of 79.96 and 90%, lists cut at 2, up to 3 rows counted, 1 change |

Why these bounds are enough. The hazards of the audit engine are between two
actors: one that rotates and one that commits, resolves or opens. Two processes
with two writes and a row limit of 1 put a rotation between any two steps of
the other write, and a third call makes a second rotation, which deletes an
archive. One crash and one failure suffice to reach every branch of the code
that handles either; they occur in one behaviour in both orders. In the budget,
three identical calls against a maximum of 1, raised to 2, reach the maximum
from both sides and let stamps enter a window out of order; a fourth call of
another kind shares the totals only. The patterns' windows of 1 and 3 in a time
of 0 to 3 let both caps expire separately; three calls fill the caps of 1 and 2,
report two failures and ask again. On a VM, a write, the replays of two
`undo_apply` calls and a third party interleave in every order; a replay leaves
a token of its own, which the other `undo_apply` may replay in turn. Lists of up
to four rows on pages of two, under limits of 1 (clamped from 0), 3 and 4 (clamped
from 9), are shorter than, equal to and longer than the limit and the page, and end
inside, at and after a page boundary; a list of three rows that grows by one between
its two pages is returned whole, under a limit that does not hide it, so that what
moves from one page to the next is seen. Three constraints keep `prism_tasks` small:
`Apart` does not mix snapshots with LCM calls, which share no state in the code,
`OneList` does not let two lists page at once, since paging only reads, and
`LongListsAlone` gives lists that are whole on more than one page, and a fourth
snapshot, to one call alone, with other clients changing the list; the theorems need
none of them. In `governed_call` two calls suffice for what
the properties relate: a write and the preview that agrees or not, a call that
stashes and the next one on its thread, a guard and the other call's delay of it;
either may be the server's or a command's. Hosts are given by address (`h1`) and by
a name that may not resolve (`h2`); one move in each direction would return to
the first address, which the tag excludes and the proofs cover. `undo_target`
needs three calls because a replay makes one of its own; responses are not lost
there and nothing is stopped, as the proofs cover both for nested calls too. One
wizard with one entry can add a target, overwrite either, leave the file
half-written and displace the default; calls of two threads meet in `governed_call`; two wizards, or one that finds the file
half-written, make `disturbed` true, which excuses the property. In `reports` the
cluster of two hosts can miss one, both or none; three hosts on a list cut at two
lose one to the limit; one change lets a host leave its cluster between the count and
the list, join it or fall silent; the level of 79.96 reads as 80.0, the one of 90 is at
the upper threshold. In `secret_store` a process that dies and two that go on
meet in every order; the constraint `OneReader` keeps one process for look-ups,
which change nothing, and leaves two for commands, so that one can overtake, tear
or rotate under the other. A command writes at most twice (`init` with two
targets, `migrate` with two lines), which is what it takes to build on a change
of its own.

### What the runs found

Two runs end in a violation, of what the repository says of itself:

- **`undo_twice`**. Two concurrent `undo_apply` calls pass the same check and both
  replay the token (`mcp_server/tools/undo.py:129-185`).
- **`command_exit`**. `vm power` does not pass the result of its governed twin
  through `checked` (`cli/vm.py:87`), so a power action that was refused or failed
  ends with status 0, while its preview and the other VM commands exit with 1.
  Likewise `undo apply`, when the inverse returned an error: the tool reports
  `applied: false` without an error (`mcp_server/tools/undo.py:188`).

The others are exceptions written into properties that hold; the state spaces
contain the cases, and without the exception TLC refutes the property.

- `VerdictsAgree` excepts interrupted calls from "ok means carried out".
  `_CallState.status` starts as `"ok"` (`governance/decorators.py:192`) and only an
  `Exception` changes it, although `_finalize` says a failure must not be audited
  as success. `OkMeansApplied` of the audit engine has the same exception.
- `VerdictsAgree` excepts lost responses from "error means not carried out": `_raw`
  (`connection.py:113`) turns every transport error into `NutanixApiError`, so the
  test for undetermined outcomes in `mcp_server/_shared.py` never matches.
  `ErrorMeansUntouched` has the same exception.
- `EditsTakeEffect` has the premise that no two reloads overlapped: two threads
  that reload around an edit can leave older patterns with newer time stamps
  (`governance/patterns.py:156-157`); a revoked pattern then stays armable until the
  next edit.
- `UndoKeepsToItsName` is what remains of the promise of a snapshot's undo.
  `create_snapshot` looks its snapshot up by name right after the POST that starts
  the creation (`ops/dataprotection.py:108`). While the new one is not listed, an
  older one of that name is found, and the undo deletes it.
- `FindingsWereTrue` excepts hosts called missing in two cases. `cluster_health_rca`
  drops the `truncated` flag of `list_hosts` (`mcp_server/tools/diagnostics.py:39`)
  and calls hosts missing that are beyond the limit. And the `nodeCount` it compares
  with (`ops/diagnostics.py:166`) was read before the hosts were listed
  (`ops/clusters.py:37,125`): a host that is removed or moved in between makes a
  critical finding, "a node stopped reporting", that was true at no time.
- `QuietReportsAreExact` leaves out (`Unsaid`) the finding for a cluster none of whose
  hosts is listed, the worst case of what it reports (`ops/diagnostics.py:167`), and
  what a read that failed would have told of its own cluster: an error of the
  utilization read is dropped (`ops/clusters.py:130`), and an answer without a body
  reads as a healthy cluster without a name. It also allows a level up to a twentieth
  of a percent below a threshold to be named as above it: `_pct` rounds before the
  comparison (`ops/diagnostics.py:88`), and 79.96% is reported as "80.0% used >= 80%
  threshold".

Some disagreements need no run. The documentation of the LCM guard asks for the
precheck of the same entities, while the guard can only see that some task
succeeded (`ops/lcm.py:146`); `UpdatesFollowSuccess` therefore says "a task". The
docstring of `alert_triage_findings` measures age by the newest alert of the feed,
and the code by the newest unresolved one that has a time
(`ops/diagnostics.py:275-277`); a feed that mixes time stamps with and without zone
raises `TypeError`. An entry the wizard overwrites loses its `scheme`
(`cli/init.py:80-86`). The undo of an update cannot restore a value that was
absent, since the inverse reads None as "leave unchanged".

### Fairness

`FairSpec` of `AuditLedger` asks for weak fairness of the next step of each call
and of nothing else: not of starting calls, of booting, of crashing or of
failing. A thread that can run is scheduled by the operating system; a request
ends because `httpx` has a timeout; a call waits for `audit.lock` in `flock`,
and when the lock is free some waiter gets it. Weak fairness of each call does
not promise the lock to a particular waiter, and need not: every call takes
the lock a bounded number of times, so contention ends.

## 4. Proofs

All theorems hold for every value of the constants that the named assumptions
of the modules admit (`CallsAssumption` and `BoundsAssumption`,
`BudgetAssumption`, `PatternAssumption`, `VmsAssumption`, `UndoAssumption`,
`TargetsAssumption`, `CallAssumption`, `TasksAssumption`, `SecretsAssumption`,
`NoBlobs`, `EstateAssumption`, `RoundingAssumption`): any number of processes, calls, VMs, fields, targets,
wizards, secrets, clusters, hosts, failures and crashes.

- **Audit engine** (`AuditLedgerProofs`). The type invariant, `IntentsStayVisible`,
  `EffectsOnRecord`, `FailClosed`, `BlockedNeedsCause`, `OkMeansApplied` (while
  no body is interrupted), `ErrorMeansUntouched` (while no response is lost; from
  `ErrorsUntouched`, which follows a refusal from the reply to the row) and
  `ResolvedByItsCall`. The inductive invariant
  `LedgerInv` adds what they rest on: the guard excludes (`GuardExcludes`), ids
  are unique within a file and the next id is fresh (`RowsKeyed`), a call past its
  intent holds the id of a pending row of the current file (`IntentsInHand`), and
  between the look for pending rows and the new file nothing can be committed
  (`RotationIsolated`). That last part is why rotation is safe although
  resolving and opening take no lock: only insertions create pending rows, and
  insertions take it.
- **Refinement** (`AuditLedgerProofs`). Every step of `AuditLedger` is a step
  of `WriteLedger` or leaves it unchanged, under the mapping in `Ledger`: the
  entry of a call is the status of its row, `expired` when its archive is gone.
- **Budget** (`BudgetTrackerProofs`). `BudgetInv`, with `RunawayBounded`,
  `CallCeiling` and `RefusalJustified`. The argument: places follow time
  (`Ordered`), so what the scan drops from the front, and what it dropped before,
  is older than the window by the stamps (`WindowsHold`), and stamps lag
  admission by at most `MaxSkew` (`Timely`).
- **Patterns** (`PatternEngineProofs`). `PatternInv`, `CapsHold`,
  `FailingPatternsRest` and `EditsTakeEffect`. The counters are what happened:
  every armed call that a cap can still count is in the window of its pattern and
  target (`WindowsKnown`), a call that is armed finds it below the cap and adds
  one (`WindowGrows`), and windows that ended stay as they were
  (`OldWindowsClosed`). The failures counted are the last ones in a row, and a
  pattern with enough of them rests from the last on (`FailuresRest`). As long as
  no two reloads overlapped, at most one is under way, and the time stamps it installs are
  no newer than the patterns it read (`ReloadsInOrder`).
- **VM writes** (`UndoTokensProofs`). `VmsInv`, `PriorIsReplaced`, `NoLostUpdate`.
  `TagsCertify` is the strengthening: a held tag that equals the current one
  proves that the record held is the current one.
- **Undo tokens** (`UndoTokensProofs`). `UndoInv`, `TokensTellTheTruth`,
  `AppliedMeansReplayed`, `EffectsReversible`, `OnceUnlessDisturbed`,
  `ReplayRestores`. `EffectsReversible` and
  `OnceUnlessDisturbed` excuse single tokens, by history, not whole behaviours.
  `TokensRecordedLast` ties a token to the prior state of a
  confirmed write, `ReplaysFollowTokens` a replay to its token; `ReplaysInTurn`
  says that, of a token nothing disturbed, at most one `undo_apply` is at work, and
  that the one which replayed it marks it before another can look: there is no
  second replay.
- **One call** (`GovernedCallProofs`). `CallInv`, and from it `PriorIsOwn`,
  `VerdictsAgree`, `NoSelfLockout` and `PreviewsAgree`, with any number of calls,
  threads, processes, targets and moves. A thread serves one call at a time, apart
  from an `undo_apply` that waits (`Serial`, `Nesting`), so that what is stashed on
  a thread belongs to the call on it (`StashIsOwn`). `VerdictsKept` carries what
  Prism did from the reply to the row. `Versions` says that the version of a VM
  determines whether it bears the address, and `TagsJudge` that a call past its
  read was judged by the version whose tag it holds: a request that lands hits
  that very version, and a preview of it was judged alike.
- **Targets** (`GovernedCallProofs`). `GovernedInv`, and from it `ReplayGoesHome`,
  with any number of wizards, entries and commands. A target is `Stable` as long
  as nobody entered it over an entry (the omitted one: as long as no such entry
  led the file). While no wizard overtook another, a stable target leads to the same
  Prism Central wherever it is looked up (`Follows`): in the configuration of every
  process, in one that a process has read and not yet installed, in a draft that
  is being written, and in the file (`BooksFollow`, `WizardsInTurn`). An entry
  is added on a line after all others (`LinesInTurn`), so it comes first under its
  name only where it is alone (`EnteredFollows`). A configuration that has no entry
  for a target leads nowhere, which is why `Follows` only speaks of look-ups that
  succeed: it survives a file that reads as empty while it is written. A call that
  asked for a stable target was sent where the file leads that target still (the last
  part of `BooksFollow`), and a replay asks for the target of the write whose token
  it replays (`ReplaysFollowTokens`), which was sent before (`ReachedBefore`).
  That a set of lines has a foremost one is the least-number principle, taken
  from the library as well-foundedness of < on the naturals.
- **Tasks, lists and the precheck guard** (`PrismTasksProofs`). `TasksInv` and
  from it `QuietListsAreExact`, `NothingSkipped`, `UndoKeepsToItsName`,
  `UpdatesFollowSuccess` and `PreviewsKeepTheirPromise`, for any page size, limit
  and number of rows. The heart is `WalksHold`: `list_all` has collected whole
  pages; as long as no row was deleted, each row of the start is collected or
  still ahead (an addition only moves rows back, `AddedRowsMoveOn`); and if
  nothing changed, what is collected is a prefix of the list. A page that is not
  full therefore ends the list (`WalkAdvances`). The proofs rest on lemmas about
  prefixes, insertions, removals and pages of sequences.
- **Secret store** (`SecretStoreProofs`). `StoreInv`, and from it `StoreReadable`,
  `LegacyOnlyWithoutSecret`, `ChangesAreAsked` and `MigrationComplete`. The parts:
  as long as nobody shared it, the temporary file has one owner, is empty while
  that process writes and holds its text when it renames (`TempIsOwned`); what a
  process has in memory is what the file holds unless it was replaced under it
  (`HeldIsCurrent`); and an import that has `.env` from line k + 1 still to do has
  the first k lines in memory (`ImportsInOrder`, one line per rename by
  `ImportOneMore`).

- **Reports** (`EstateReportsProofs`). `ReportsInv`, and from it
  `QuietReportsAreExact`, `FindingsWereTrue` and `OverviewIsHonest`, for any
  clusters, hosts, moves of hosts, containers, levels, limits and changes.
  `ReadsWereTrue` ties every reading to what was seen when it was made. A finding drawn
  from one record was so when the record was read. "Node missing" is drawn from two:
  while the clusters are probed, a count bounds the hosts of its cluster unless one
  left (`CountsHold`), and when a whole list then shows fewer, one of them is silent at
  that moment (`ListsLackHosts`). `QuietReadsAreExact` says that, while nothing changed
  and no list was cut, a reading is what is so or belongs to a read that failed; the
  analysis is then compared with `MustBeFound` and `MayBeFound`, finding by finding
  (`ConcludesAll`, `ConcludedWasTrue`, `ProbesReported`), and a level is named by
  neither more nor less than its rounding (`RoundingNames`). The counts are honest
  stage by stage (`CountsAreHonest`); for VMs because rows of the two lists are only
  dropped by one of the three cuts (`OverMeans`).

Only model-checked: `CallsEnd` (liveness under fairness is beyond the prover).
What the proofs do not reach at all: `ENABLED`, and induction over data.

Only proved, without a run of their own: `BlockedNeedsCause`, `CallCeiling`,
`PriorIsReplaced`, `AppliedMeansReplayed`, `UpdatesFollowSuccess`, `StoreReadable`.

## 5. What is not modelled, and why

- Text: redaction, sanitising, wording, summaries of rows, telemetry, logs, tables,
  prompts, `doctor`. How parameters are bound to names in a row.
- Windows, where `fcntl` is missing and rotation is not serialised between
  processes; `audit.py` documents this.
- A clock that goes back: `time.time()` is taken not to decrease.
- `undo_apply` refusals that change nothing: unreadable parameters, an inverse that
  is not registered. The migration of the undo database's schema.
- Exceptions while pattern files are read.
- `create_vm` and `clone_vm`, which have no prior state.
- Reverting to a snapshot, restoring a recovery point, fail-over: one request each
  without an undo. A revert passes the guard like the actions of `GovernedCall`.
- Updates and deletes of storage containers, subnets and images are the bodies
  of `update_vm` and `delete_vm` without a guard; creations, `category_assign` and
  the two alert actions are one request each without an undo.
- How addresses are collected from a VM's record and brought to one form.
- The look-up of a snapshot is taken to be replayed as recorded; that a token is
  replayed once is the matter of `UndoTokens`.
- The loss of power: a renamed `secrets.enc` whose data never reached the disk.
  `_persist` does not call `fsync`; the model's crashes are those of processes.
- Alert triage and capacity: pure functions of one list, mostly about text.
- Registration of MCP tools, paths, TLS, file permissions.

## 6. Plan

Written, in this order: `WriteLedger` and `AuditLedger`, `BudgetTracker`,
`PrismVms`, `UndoTokens`, `PatternEngine`, `PrismTasks` and `SecretStore`,
`PrismTargets` and `GovernedCall`, and `EstateReports`, all with their proofs.

What could follow:

1. `PrismTasks`: servers that cap pages below the size asked for, and rows lost
   to a type filter (`connection.py:197`).
2. The races of two replays and the failures of the undo store, which are in
   `UndoTokens`, together with the targets of `GovernedCall`.
3. Alert triage and capacity against a reference definition.
