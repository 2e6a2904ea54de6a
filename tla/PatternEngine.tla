---------------------------- MODULE PatternEngine ----------------------------
(***************************************************************************)
(* The auto-remediation patterns of governance/patterns.py and the two     *)
(* places where governance/decorators.py consults them: match before a     *)
(* governed call runs, report_outcome when it ends.  Calls run on several  *)
(* threads.  The counters are kept under a lock; the pattern files are     *)
(* read again without one, while an operator edits them.                   *)
(***************************************************************************)
EXTENDS Integers, FiniteSets

CONSTANTS Calls,     \* governed calls of one tool in one process
          Targets,
          Patterns,  \* ids of the patterns for that tool, in the order of their files
          Absent,    \* a pattern no file defines
          NoPattern, \* the pick of a call no armable pattern matched
          Books,     \* Books[v]: the patterns after v edits of the files
          Hour, Day, \* the two windows of the rate limit
          DefaultThreshold, DefaultPause,  \* for patterns gone since they armed
          Threads,   \* governed calls in progress at once
          MaxClock   \* bound on the time of a behaviour

\* A cap of 0 is no cap.  An expiry after the end of time never happens.
Entry == [approved : BOOLEAN, expires : Nat, hourly : Nat, daily : Nat,
          threshold : Nat \ {0}, pause : Nat \ {0}]

Versions == DOMAIN Books

Keys == Patterns \X Targets

ASSUME PatternAssumption ==
    /\ IsFiniteSet(Calls)
    /\ Patterns \subseteq Nat /\ NoPattern \notin Patterns
    /\ Absent \notin Entry
    /\ 0 \in Versions /\ Versions \subseteq Nat
    /\ Books \in [Versions -> [Patterns -> Entry \cup {Absent}]]
    /\ Hour \in Nat \ {0} /\ Day \in Nat /\ Hour <= Day
    /\ DefaultThreshold \in Nat \ {0} /\ DefaultPause \in Nat \ {0}
    /\ Threads \in Nat \ {0}
    /\ MaxClock \in Nat

VARIABLES clock,
          disk,      \* the version of the files on disk
          book,      \* the version in self._patterns
          mtimes,    \* the version in self._mtimes
          phase,     \* phase[c]: where call c is
          target,    \* target[c]: state.env
          noted, got,   \* the versions a reload of c has stat'ed and read
          pick, using,  \* the pattern c selected, and the version it came from
          began,     \* began[c]: the version on disk when c consulted the engine
          armedAt,   \* armedAt[c]: when c was armed, -1 while it is not
          arms,      \* arms[k]: the calls in arm_timestamps
          fails,     \* fails[k]: consecutive_failures
          until,     \* until[k]: disabled_until
          streak,    \* history: streak[k], failures reported since a success
          lastFail,  \* history: lastFail[k], when the latest of them was
          raced      \* history: two reloads were in progress at once

fileVars == <<disk, book, mtimes>>
callVars == <<phase, target, noted, got, pick, using, began>>
counterVars == <<armedAt, arms, fails, until>>
historyVars == <<streak, lastFail, raced>>
vars == <<clock, fileVars, callVars, counterVars, historyVars>>

-----------------------------------------------------------------------------
Phases == {"idle", "stat", "read", "keep", "date", "select", "arm", "running", "done"}

Key(c) == <<pick[c], target[c]>>

Armed(k) == {c \in Calls : armedAt[c] >= 0 /\ Key(c) = k}

Init ==
    /\ clock = 0
    /\ disk = 0 /\ book = 0 /\ mtimes = 0
    /\ phase = [c \in Calls |-> "idle"]
    /\ target \in [Calls -> Targets]
    /\ noted = [c \in Calls |-> 0] /\ got = [c \in Calls |-> 0]
    /\ pick = [c \in Calls |-> NoPattern] /\ using = [c \in Calls |-> 0]
    /\ began = [c \in Calls |-> 0]
    /\ armedAt = [c \in Calls |-> -1]
    /\ arms = [k \in Keys |-> {}]
    /\ fails = [k \in Keys |-> 0]
    /\ until = [k \in Keys |-> 0]
    /\ streak = [k \in Keys |-> {}]
    /\ lastFail = [k \in Keys |-> 0]
    /\ raced = FALSE

Tick == clock < MaxClock /\ clock' = clock + 1
        /\ UNCHANGED <<fileVars, callVars, counterVars, historyVars>>

\* An operator edits, approves, revokes or removes patterns.
Edit ==
    /\ disk + 1 \in Versions
    /\ disk' = disk + 1
    /\ UNCHANGED <<clock, book, mtimes, callVars, counterVars, historyVars>>

Goto(c, p) == phase' = [phase EXCEPT ![c] = p]

Busy == {c \in Calls : phase[c] \notin {"idle", "done"}}

Reloading == {c \in Calls : phase[c] \in {"stat", "read", "keep", "date"}}

-----------------------------------------------------------------------------
(* match: the files first.                                                 *)

\* _maybe_reload: the files are read again when a time stamp differs.
Consult(c) ==
    /\ phase[c] = "idle"
    /\ Cardinality(Busy) < Threads
    /\ began' = [began EXCEPT ![c] = disk]
    /\ Goto(c, IF disk # mtimes THEN "stat" ELSE "select")
    /\ raced' = (raced \/ (disk # mtimes /\ Reloading # {}))
    /\ UNCHANGED <<clock, fileVars, target, noted, got, pick, using, counterVars,
                   streak, lastFail>>

\* _load: a file is dated, then read, so that an edit in between is noticed
\* the next time.
Stat(c) ==
    /\ phase[c] = "stat"
    /\ noted' = [noted EXCEPT ![c] = disk]
    /\ Goto(c, "read")
    /\ UNCHANGED <<clock, fileVars, target, got, pick, using, began, counterVars,
                   historyVars>>

ReadFiles(c) ==
    /\ phase[c] = "read"
    /\ got' = [got EXCEPT ![c] = disk]
    /\ Goto(c, "keep")
    /\ UNCHANGED <<clock, fileVars, target, noted, pick, using, began, counterVars,
                   historyVars>>

KeepPatterns(c) ==
    /\ phase[c] = "keep"
    /\ book' = got[c]
    /\ Goto(c, "date")
    /\ UNCHANGED <<clock, disk, mtimes, target, noted, got, pick, using, began,
                   counterVars, historyVars>>

\* Variant: the files are dated when their patterns are installed.
KeepMtimesNow(c) ==
    /\ phase[c] = "date"
    /\ mtimes' = disk
    /\ Goto(c, "select")
    /\ UNCHANGED <<clock, disk, book, target, noted, got, pick, using, began,
                   counterVars, historyVars>>

KeepMtimes(c) ==
    /\ phase[c] = "date"
    /\ mtimes' = noted[c]
    /\ Goto(c, "select")
    /\ UNCHANGED <<clock, disk, book, target, noted, got, pick, using, began,
                   counterVars, historyVars>>

-----------------------------------------------------------------------------
(* match: the pattern, then its counters, under the lock.                  *)

\* is_armable
Armable(p) ==
    /\ Books[book][p] # Absent
    /\ Books[book][p].approved
    /\ clock <= Books[book][p].expires

\* The first armable pattern is the one that decides.
First(p) == Armable(p) /\ \A q \in Patterns : Armable(q) => p <= q

Select(c) ==
    /\ phase[c] = "select"
    /\ using' = [using EXCEPT ![c] = book]
    /\ \/ /\ \E p \in Patterns : First(p) /\ pick' = [pick EXCEPT ![c] = p]
          /\ Goto(c, "arm")
       \/ /\ \A p \in Patterns : ~Armable(p)
          /\ Goto(c, "running") /\ UNCHANGED pick
    /\ UNCHANGED <<clock, fileVars, target, noted, got, began, counterVars, historyVars>>

Picked(c) == Books[using[c]][pick[c]]

\* Variant: arm_timestamps keeps the last hour only.
RecentHour(k) == {d \in arms[k] : armedAt[d] > clock - Hour}

Recent(k) == {d \in arms[k] : armedAt[d] > clock - Day}

\* Variant: a cap is compared after the call it admits.
OverLate(S, cap) == cap > 0 /\ Cardinality(S) > cap

Over(S, cap) == cap > 0 /\ Cardinality(S) >= cap

Capped(c) ==
    LET recent == Recent(Key(c)) IN
    \/ Over({d \in recent : armedAt[d] > clock - Hour}, Picked(c).hourly)
    \/ Over(recent, Picked(c).daily)

Resting(k) == clock < until[k]

\* Armed, capped, or resting after failures.
Arm(c) ==
    /\ phase[c] = "arm"
    /\ Goto(c, "running")
    /\ \/ Resting(Key(c)) /\ UNCHANGED <<arms, armedAt>>
       \/ /\ ~Resting(Key(c)) /\ Capped(c)
          /\ arms' = [arms EXCEPT ![Key(c)] = Recent(Key(c))]
          /\ UNCHANGED armedAt
       \/ /\ ~Resting(Key(c)) /\ ~Capped(c)
          /\ arms' = [arms EXCEPT ![Key(c)] = Recent(Key(c)) \cup {c}]
          /\ armedAt' = [armedAt EXCEPT ![c] = clock]
    /\ UNCHANGED <<clock, fileVars, target, noted, got, pick, using, began, fails,
                   until, historyVars>>

-----------------------------------------------------------------------------
(* report_outcome, when the call ends.                                     *)

Threshold(p) ==
    IF Books[book][p] = Absent THEN DefaultThreshold ELSE Books[book][p].threshold

Pause(p) == IF Books[book][p] = Absent THEN DefaultPause ELSE Books[book][p].pause

\* A call that was not armed reports nothing.
EndUnarmed(c) ==
    /\ phase[c] = "running" /\ armedAt[c] < 0
    /\ Goto(c, "done")
    /\ UNCHANGED <<clock, fileVars, target, noted, got, pick, using, began,
                   counterVars, historyVars>>

ReportSuccess(c) ==
    /\ phase[c] = "running" /\ armedAt[c] >= 0
    /\ Goto(c, "done")
    /\ fails' = [fails EXCEPT ![Key(c)] = 0]
    /\ streak' = [streak EXCEPT ![Key(c)] = {}]
    /\ UNCHANGED <<clock, fileVars, target, noted, got, pick, using, began, armedAt,
                   arms, until, lastFail, raced>>

\* Variant: the breaker trips once, at the threshold.
TripsAt(c, n) == n = Threshold(pick[c])

Trips(c, n) == n >= Threshold(pick[c])

ReportFailure(c) ==
    /\ phase[c] = "running" /\ armedAt[c] >= 0
    /\ Goto(c, "done")
    /\ fails' = [fails EXCEPT ![Key(c)] = @ + 1]
    /\ until' = IF Trips(c, fails[Key(c)] + 1)
                THEN [until EXCEPT ![Key(c)] = clock + Pause(pick[c])]
                ELSE until
    /\ streak' = [streak EXCEPT ![Key(c)] = @ \cup {c}]
    /\ lastFail' = [lastFail EXCEPT ![Key(c)] = clock]
    /\ UNCHANGED <<clock, fileVars, target, noted, got, pick, using, began, armedAt,
                   arms, raced>>

Quiescent == (\A c \in Calls : phase[c] = "done") /\ UNCHANGED vars

Next ==
    \/ Tick \/ Edit
    \/ \E c \in Calls :
          \/ Consult(c) \/ Stat(c) \/ ReadFiles(c) \/ KeepPatterns(c) \/ KeepMtimes(c)
          \/ Select(c) \/ Arm(c)
          \/ EndUnarmed(c) \/ ReportSuccess(c) \/ ReportFailure(c)
    \/ Quiescent

Spec == Init /\ [][Next]_vars

-----------------------------------------------------------------------------
\* Every variable holds a value of its kind.
TypeOK ==
    /\ clock \in Nat
    /\ disk \in Versions /\ book \in Versions /\ mtimes \in Versions
    /\ phase \in [Calls -> Phases]
    /\ target \in [Calls -> Targets]
    /\ noted \in [Calls -> Versions] /\ got \in [Calls -> Versions]
    /\ pick \in [Calls -> Patterns \cup {NoPattern}] /\ using \in [Calls -> Versions]
    /\ began \in [Calls -> Versions]
    /\ armedAt \in [Calls -> Nat \cup {-1}]
    /\ arms \in [Keys -> SUBSET Calls]
    /\ fails \in [Keys -> Nat] /\ until \in [Keys -> Nat]
    /\ streak \in [Keys -> SUBSET Calls] /\ lastFail \in [Keys -> Nat]
    /\ raced \in BOOLEAN

\* The calls armed for a key in the window of length w that ends at t.
ArmedWithin(k, t, w) == {c \in Armed(k) : t - w < armedAt[c] /\ armedAt[c] <= t}

\* In no hour and no day is a pattern armed more often on a target than its
\* caps allow; while they are edited, than the widest cap used in the window.
CapsHold ==
    \A k \in Keys, c \in Calls :
        LET hour == ArmedWithin(k, armedAt[c], Hour)
            day == ArmedWithin(k, armedAt[c], Day)
        IN  c \in Armed(k) =>
              /\ \E d \in hour : Picked(d).hourly = 0 \/ Cardinality(hour) <= Picked(d).hourly
              /\ \E d \in day : Picked(d).daily = 0 \/ Cardinality(day) <= Picked(d).daily

\* What a pattern may have for a threshold and a pause, in any version.
Thresholds(p) ==
    {DefaultThreshold} \cup
        {Books[v][p].threshold : v \in {w \in Versions : Books[w][p] # Absent}}
Pauses(p) ==
    {DefaultPause} \cup
        {Books[v][p].pause : v \in {w \in Versions : Books[w][p] # Absent}}

Failing(k) == \A n \in Thresholds(k[1]) : Cardinality(streak[k]) >= n
RestsUntil(k, t) == \E m \in Pauses(k[1]) : t >= lastFail[k] + m

\* After failures up to the threshold, in whatever order the answers came, a
\* pattern rests on that target; every further failure prolongs the rest.
FailingPatternsRest ==
    [][\A c \in Calls : armedAt[c] < 0 /\ armedAt'[c] >= 0 =>
          (Failing(Key(c)) => RestsUntil(Key(c), clock))]_vars

\* As long as no two reloads overlap, no call is armed by a version of the
\* files older than the one on disk when it asked: revoking a pattern takes
\* effect at once ("hot-reload on mtime change").
EditsTakeEffect == ~raced => \A c \in Calls : armedAt[c] >= 0 => using[c] >= began[c]

-----------------------------------------------------------------------------
(* The inductive invariant (PatternEngineProofs).                          *)

\* The counters tell what happened, as far back as the caps look.
CountersTrue ==
    \A k \in Keys :
        /\ arms[k] \subseteq Armed(k)
        /\ {c \in Armed(k) : armedAt[c] > clock - Day} \subseteq arms[k]
        /\ fails[k] = Cardinality(streak[k])
        /\ streak[k] \subseteq {c \in Armed(k) : phase[c] = "done"}

FailuresRest == \A k \in Keys : Failing(k) => RestsUntil(k, until[k])

ArmedCallsPicked ==
    \A c \in Calls :
        /\ armedAt[c] >= 0 => phase[c] \in {"running", "done"} /\ armedAt[c] <= clock
        /\ phase[c] = "arm" \/ armedAt[c] >= 0 => pick[c] \in Patterns /\ Picked(c) # Absent
        /\ phase[c] \notin {"arm", "running", "done"} => pick[c] = NoPattern

\* While no two reloads overlap, a reload installs no version older than one
\* that was on disk when some call asked.
ReloadsInOrder ==
    ~raced =>
        /\ mtimes <= disk /\ \A c \in Calls : began[c] <= disk
        /\ \A c, d \in Reloading : c = d
        /\ Reloading # {} => mtimes # disk
        /\ \A c \in Calls :
              /\ phase[c] = "read" => noted[c] <= disk
              /\ phase[c] = "keep" => /\ noted[c] <= got[c] /\ mtimes <= got[c]
                                     /\ got[c] <= disk
                                     /\ \A d \in Calls : began[d] <= got[c]
              /\ phase[c] = "date" => noted[c] <= book
              /\ phase[c] \in {"date", "select"} => began[c] <= book
              /\ phase[c] \in {"idle", "arm", "running", "done"} => began[c] <= using[c]
        /\ mtimes <= book /\ book <= disk

PatternInv ==
    TypeOK /\ CountersTrue /\ FailuresRest /\ ArmedCallsPicked /\ CapsHold /\ ReloadsInOrder
=============================================================================
