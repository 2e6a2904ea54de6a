------------------------ MODULE PatternEngineProofs ------------------------
(* Theorems about PatternEngine, for any number of calls, threads, targets   *)
(* and patterns, any caps, thresholds and pauses, and any edits of them.     *)
EXTENDS PatternEngine, FiniteSetTheorems, TLAPS

USE DEF fileVars, callVars, counterVars, historyVars, Phases

-----------------------------------------------------------------------------
(* What a step may change.                                                 *)

\* What the caps and the breaker count by.
counting == <<armedAt, arms, fails, until, streak, lastFail>>

LEMMA KeysAreKeys ==
    ASSUME TypeOK, NEW c \in Calls, pick[c] \in Patterns
    PROVE  Key(c) \in Keys /\ Key(c)[1] = pick[c]
BY DEF TypeOK, Key, Keys

LEMMA TypePreserved == ASSUME PatternInv, [Next]_vars PROVE TypeOK'
<1> USE PatternAssumption DEF PatternInv, TypeOK
<1>1. CASE Tick \/ Edit
  BY <1>1 DEF Tick, Edit
<1>2. ASSUME NEW c \in Calls, Consult(c) \/ Stat(c) \/ ReadFiles(c) PROVE TypeOK'
  <2>1. phase' \in [Calls -> Phases] /\ raced' \in BOOLEAN
    <3>1. CASE Consult(c)
      <4>1. phase' = [phase EXCEPT ![c] = "stat"] \/ phase' = [phase EXCEPT ![c] = "select"]
        BY <3>1 DEF Consult, Goto
      <4>2. raced' \in BOOLEAN
        BY <3>1 DEF Consult
      <4>. QED BY <4>1, <4>2 DEF Phases
    <3>2. CASE Stat(c)
      BY <3>2 DEF Stat, Goto, historyVars, Phases
    <3>3. CASE ReadFiles(c)
      BY <3>3 DEF ReadFiles, Goto, historyVars, Phases
    <3>. QED BY <1>2, <3>1, <3>2, <3>3
  <2>2. /\ noted' \in [Calls -> Versions] /\ got' \in [Calls -> Versions]
        /\ began' \in [Calls -> Versions]
    <3>1. CASE Consult(c)
      BY <3>1 DEF Consult
    <3>2. CASE Stat(c)
      BY <3>2 DEF Stat
    <3>3. CASE ReadFiles(c)
      BY <3>3 DEF ReadFiles
    <3>. QED BY <1>2, <3>1, <3>2, <3>3
  <2>3. UNCHANGED <<clock, fileVars, target, pick, using, counterVars, streak, lastFail>>
    BY <1>2 DEF Consult, Stat, ReadFiles
  <2>. QED BY <2>1, <2>2, <2>3
<1>3. ASSUME NEW c \in Calls, KeepPatterns(c) \/ KeepMtimes(c) PROVE TypeOK'
  BY <1>3 DEF KeepPatterns, KeepMtimes, Goto
<1>4. ASSUME NEW c \in Calls, Select(c) PROVE TypeOK'
  <2>1. pick' \in [Calls -> Patterns \cup {NoPattern}] /\ phase' \in [Calls -> Phases]
    BY <1>4 DEF Select, Goto
  <2>. QED BY <1>4, <2>1 DEF Select
<1>5. ASSUME NEW c \in Calls, Arm(c) PROVE TypeOK'
  <2>1. Key(c) \in Keys
    BY <1>5, KeysAreKeys DEF Arm, ArmedCallsPicked
  <2>2. Recent(Key(c)) \subseteq Calls
    BY <2>1 DEF Recent
  <2>3. arms' \in [Keys -> SUBSET Calls] /\ armedAt' \in [Calls -> Nat \cup {-1}]
    BY <1>5, <2>1, <2>2 DEF Arm
  <2>. QED BY <1>5, <2>3 DEF Arm, Goto
<1>6. ASSUME NEW c \in Calls, EndUnarmed(c) PROVE TypeOK'
  BY <1>6 DEF EndUnarmed, Goto
<1>7. ASSUME NEW c \in Calls, ReportSuccess(c) PROVE TypeOK'
  BY <1>7 DEF ReportSuccess, Goto
<1>8. ASSUME NEW c \in Calls, ReportFailure(c) PROVE TypeOK'
  <2>1. Key(c) \in Keys
    BY <1>8, KeysAreKeys DEF ReportFailure, ArmedCallsPicked
  <2>2. Pause(pick[c]) \in Nat
    BY <1>8, <2>1 DEF ReportFailure, ArmedCallsPicked, Pause, Entry, Versions
  <2>3. until' \in [Keys -> Nat]
    BY <1>8, <2>1, <2>2 DEF ReportFailure
  <2>4. fails' \in [Keys -> Nat] /\ streak' \in [Keys -> SUBSET Calls]
    BY <1>8, <2>1 DEF ReportFailure
  <2>. QED BY <1>8, <2>3, <2>4 DEF ReportFailure, Goto
<1>9. CASE UNCHANGED vars
  BY <1>9 DEF vars
<1>. QED BY <1>1, <1>2, <1>3, <1>4, <1>5, <1>6, <1>7, <1>8, <1>9 DEF Next, Quiescent

\* Only arming and reporting count; the clock never goes back.
LEMMA StepKinds ==
    ASSUME PatternInv, [Next]_vars
    PROVE  \/ UNCHANGED counting /\ clock' \in {clock, clock + 1}
           \/ \E c \in Calls : Arm(c) \/ ReportSuccess(c) \/ ReportFailure(c)
<1>1. CASE Tick \/ Edit \/ UNCHANGED vars
  BY <1>1 DEF Tick, Edit, vars, counting
<1>2. ASSUME NEW c \in Calls,
             \/ Consult(c) \/ Stat(c) \/ ReadFiles(c) \/ KeepPatterns(c) \/ KeepMtimes(c)
             \/ Select(c) \/ EndUnarmed(c)
      PROVE  UNCHANGED counting /\ clock' = clock
  BY <1>2 DEF Consult, Stat, ReadFiles, KeepPatterns, KeepMtimes, Select, EndUnarmed, counting
<1>. QED BY <1>1, <1>2 DEF Next, Quiescent

\* A call that was armed keeps its time, its key and the entry it was armed by.
LEMMA ArmedCallsStay ==
    ASSUME PatternInv, [Next]_vars, NEW c \in Calls, armedAt[c] >= 0
    PROVE  /\ armedAt'[c] = armedAt[c] /\ Key(c)' = Key(c) /\ Picked(c)' = Picked(c)
           /\ phase[c] = "done" => phase'[c] = "done"
           /\ phase'[c] \in {"running", "done"}
<1> USE DEF PatternInv, TypeOK, ArmedCallsPicked, Key, Picked, Goto
<1>0. phase[c] \in {"running", "done"}
  OBVIOUS
<1>1. CASE Tick \/ Edit \/ UNCHANGED vars
  BY <1>0, <1>1 DEF Tick, Edit, vars
<1>2. ASSUME NEW d \in Calls, Consult(d) \/ Stat(d) \/ ReadFiles(d)
      PROVE  pick' = pick /\ using' = using /\ armedAt' = armedAt /\ target' = target
             /\ phase'[c] = phase[c]
  BY <1>0, <1>2 DEF Consult, Stat, ReadFiles
<1>3. ASSUME NEW d \in Calls, KeepPatterns(d) \/ KeepMtimes(d)
      PROVE  pick' = pick /\ using' = using /\ armedAt' = armedAt /\ target' = target
             /\ phase'[c] = phase[c]
  BY <1>0, <1>3 DEF KeepPatterns, KeepMtimes
<1>4. ASSUME NEW d \in Calls, Select(d)
      PROVE  /\ pick'[c] = pick[c] /\ using'[c] = using[c] /\ armedAt' = armedAt
             /\ target' = target /\ phase'[c] = phase[c]
  BY <1>0, <1>4 DEF Select
<1>5. ASSUME NEW d \in Calls, Arm(d)
      PROVE  /\ pick' = pick /\ using' = using /\ armedAt'[c] = armedAt[c]
             /\ target' = target /\ phase'[c] = phase[c]
  BY <1>0, <1>5 DEF Arm
<1>6. ASSUME NEW d \in Calls, EndUnarmed(d) \/ ReportSuccess(d) \/ ReportFailure(d)
      PROVE  /\ pick' = pick /\ using' = using /\ armedAt' = armedAt /\ target' = target
             /\ phase'[c] = phase[c] \/ phase'[c] = "done"
  BY <1>0, <1>6 DEF EndUnarmed, ReportSuccess, ReportFailure
<1>. QED BY <1>0, <1>1, <1>2, <1>3, <1>4, <1>5, <1>6 DEF Next, Quiescent

\* The calls armed for a key change only by arming.
LEMMA ArmedStays ==
    ASSUME PatternInv, [Next]_vars, armedAt' = armedAt, NEW k \in Keys
    PROVE  /\ Armed(k)' = Armed(k)
           /\ \A a \in Int, w \in Nat : ArmedWithin(k, a, w)' = ArmedWithin(k, a, w)
<1>1. Armed(k)' = Armed(k)
  BY ArmedCallsStay DEF Armed
<1>. QED BY <1>1 DEF ArmedWithin

LEMMA ArmedAddsOne ==
    ASSUME PatternInv, [Next]_vars, NEW c \in Calls, Arm(c), armedAt' # armedAt, NEW k \in Keys
    PROVE  Armed(k)' = IF k = Key(c) THEN Armed(k) \cup {c} ELSE Armed(k)
<1> USE DEF PatternInv, TypeOK
<1>1. armedAt' = [armedAt EXCEPT ![c] = clock] /\ Key(c)' = Key(c)
  BY DEF Arm, Key
<1>2. armedAt[c] < 0
  BY DEF ArmedCallsPicked, Arm
<1>3. \A d \in Calls : armedAt[d] >= 0 => armedAt'[d] = armedAt[d] /\ Key(d)' = Key(d)
  BY ArmedCallsStay
<1>4. \A d \in Calls : d # c => armedAt'[d] = armedAt[d]
  BY <1>1
<1>5. armedAt'[c] = clock /\ clock >= 0
  BY <1>1
<1>. QED BY <1>1, <1>2, <1>3, <1>4, <1>5 DEF Armed

-----------------------------------------------------------------------------
(* The parts of the invariant.                                             *)

LEMMA PickedPreserved == ASSUME PatternInv, [Next]_vars PROVE ArmedCallsPicked'
<1> SUFFICES ASSUME NEW c \in Calls
             PROVE  /\ armedAt'[c] >= 0 => phase'[c] \in {"running", "done"}
                                           /\ armedAt'[c] <= clock'
                    /\ phase'[c] = "arm" \/ armedAt'[c] >= 0 =>
                          pick'[c] \in Patterns /\ Picked(c)' # Absent
                    /\ phase'[c] \notin {"arm", "running", "done"} => pick'[c] = NoPattern
  BY DEF ArmedCallsPicked
<1> USE DEF PatternInv, TypeOK, ArmedCallsPicked, Picked, Goto
<1>1. CASE Tick \/ Edit \/ UNCHANGED vars
  BY <1>1 DEF Tick, Edit, vars
<1>2. ASSUME NEW d \in Calls, Consult(d) \/ Stat(d) \/ ReadFiles(d)
      PROVE  /\ UNCHANGED <<armedAt, clock, pick, using>>
             /\ phase'[c] \in {"running", "done", "arm"} => phase'[c] = phase[c]
             /\ phase[c] \in {"running", "done", "arm"} => phase'[c] = phase[c]
  BY <1>2 DEF Consult, Stat, ReadFiles
<1>3. ASSUME NEW d \in Calls, KeepPatterns(d) \/ KeepMtimes(d)
      PROVE  /\ UNCHANGED <<armedAt, clock, pick, using>>
             /\ phase'[c] \in {"running", "done", "arm"} => phase'[c] = phase[c]
             /\ phase[c] \in {"running", "done", "arm"} => phase'[c] = phase[c]
  BY <1>3 DEF KeepPatterns, KeepMtimes
<1>4. ASSUME NEW d \in Calls, Select(d)
      PROVE  /\ UNCHANGED <<armedAt, clock>>
             /\ c # d => phase'[c] = phase[c] /\ pick'[c] = pick[c] /\ using'[c] = using[c]
             /\ c = d => /\ phase[c] = "select"
                         /\ \/ phase'[c] = "arm" /\ pick'[c] \in Patterns /\ Picked(c)' # Absent
                            \/ phase'[c] = "running"
  BY <1>4 DEF Select, First, Armable
<1>5. ASSUME NEW d \in Calls, Arm(d)
      PROVE  /\ UNCHANGED <<clock, pick, using>>
             /\ c # d => phase'[c] = phase[c] /\ armedAt'[c] = armedAt[c]
             /\ c = d => phase[c] = "arm" /\ phase'[c] = "running"
                         /\ armedAt'[c] \in {armedAt[c], clock}
  BY <1>5 DEF Arm
<1>6. ASSUME NEW d \in Calls, EndUnarmed(d) \/ ReportSuccess(d) \/ ReportFailure(d)
      PROVE  /\ UNCHANGED <<clock, pick, using, armedAt>>
             /\ c # d => phase'[c] = phase[c]
             /\ c = d => phase[c] = "running" /\ phase'[c] = "done"
  BY <1>6 DEF EndUnarmed, ReportSuccess, ReportFailure
<1>7. ASSUME NEW d \in Calls, Select(d)
      PROVE  /\ armedAt'[c] >= 0 => phase'[c] \in {"running", "done"} /\ armedAt'[c] <= clock'
             /\ phase'[c] = "arm" \/ armedAt'[c] >= 0 =>
                   pick'[c] \in Patterns /\ Picked(c)' # Absent
             /\ phase'[c] \notin {"arm", "running", "done"} => pick'[c] = NoPattern
  BY <1>4, <1>7
<1>. QED BY <1>1, <1>2, <1>3, <1>5, <1>6, <1>7 DEF Next, Quiescent

LEMMA CountersPreserved == ASSUME PatternInv, [Next]_vars PROVE CountersTrue'
<1> USE DEF PatternInv, TypeOK
<1> SUFFICES ASSUME NEW k \in Keys
             PROVE  /\ arms'[k] \subseteq Armed(k)'
                    /\ {c \in Armed(k)' : armedAt'[c] > clock' - Day} \subseteq arms'[k]
                    /\ fails'[k] = Cardinality(streak'[k])
                    /\ streak'[k] \subseteq {c \in Armed(k)' : phase'[c] = "done"}
  BY DEF CountersTrue
<1>0. /\ arms[k] \subseteq Armed(k)
      /\ {c \in Armed(k) : armedAt[c] > clock - Day} \subseteq arms[k]
      /\ fails[k] = Cardinality(streak[k])
      /\ streak[k] \subseteq {c \in Armed(k) : phase[c] = "done"}
  BY DEF CountersTrue
<1>1. \A c \in Armed(k) : c \in Calls /\ armedAt'[c] = armedAt[c]
                          /\ (phase[c] = "done" => phase'[c] = "done")
  BY ArmedCallsStay DEF Armed
<1>2. CASE UNCHANGED counting /\ clock' \in {clock, clock + 1}
  <2>1. Armed(k)' = Armed(k)
    BY <1>2, ArmedStays DEF counting
  <2>2. {c \in Armed(k)' : armedAt'[c] > clock' - Day}
           \subseteq {c \in Armed(k) : armedAt[c] > clock - Day}
    BY <1>1, <1>2, <2>1, PatternAssumption
  <2>. QED BY <1>0, <1>1, <1>2, <2>1, <2>2 DEF counting
<1>3. ASSUME NEW c \in Calls, Arm(c)
      PROVE  /\ arms'[k] \subseteq Armed(k)'
             /\ {d \in Armed(k)' : armedAt'[d] > clock' - Day} \subseteq arms'[k]
             /\ fails'[k] = Cardinality(streak'[k])
             /\ streak'[k] \subseteq {d \in Armed(k)' : phase'[d] = "done"}
  <2>0. UNCHANGED <<clock, fails, streak>>
    BY <1>3 DEF Arm
  <2>1. Recent(k) \subseteq Armed(k)
        /\ {d \in Armed(k) : armedAt[d] > clock - Day} \subseteq Recent(k)
    BY <1>0 DEF Recent
  <2>2. CASE armedAt' = armedAt
    <3>1. Armed(k)' = Armed(k)
      BY <2>2, ArmedStays
    <3>0. armedAt[c] < 0 /\ clock >= 0
      BY <1>3 DEF Arm, ArmedCallsPicked
    <3>2. arms'[k] = arms[k] \/ arms'[k] = Recent(k)
      BY <1>3, <2>2, <3>0 DEF Arm
    <3>. QED BY <1>0, <1>1, <2>0, <2>1, <2>2, <3>1, <3>2
  <2>3. CASE armedAt' # armedAt
    <3>1. Armed(k)' = IF k = Key(c) THEN Armed(k) \cup {c} ELSE Armed(k)
      BY <1>3, <2>3, ArmedAddsOne
    <3>2. arms'[k] = IF k = Key(c) THEN Recent(k) \cup {c} ELSE arms[k]
      BY <1>3, <2>3 DEF Arm
    <3>. QED BY <1>0, <1>1, <2>0, <2>1, <3>1, <3>2
  <2>. QED BY <2>2, <2>3
<1>4. ASSUME NEW c \in Calls, ReportSuccess(c) \/ ReportFailure(c)
      PROVE  /\ arms'[k] \subseteq Armed(k)'
             /\ {d \in Armed(k)' : armedAt'[d] > clock' - Day} \subseteq arms'[k]
             /\ fails'[k] = Cardinality(streak'[k])
             /\ streak'[k] \subseteq {d \in Armed(k)' : phase'[d] = "done"}
  <2>0. UNCHANGED <<clock, armedAt, arms>> /\ phase[c] = "running" /\ phase'[c] = "done"
        /\ armedAt[c] >= 0
    BY <1>4 DEF ReportSuccess, ReportFailure, Goto
  <2>1. Armed(k)' = Armed(k)
    BY <2>0, ArmedStays
  <2>2. CASE ReportSuccess(c) /\ k = Key(c)
    BY <1>0, <2>0, <2>1, <2>2, FS_EmptySet DEF ReportSuccess
  <2>3. CASE ReportFailure(c) /\ k = Key(c)
    <3>1. c \notin streak[k] /\ c \in Armed(k)
      BY <1>0, <2>0, <2>3 DEF Armed
    <3>2. IsFiniteSet(streak[k])
      BY FS_Subset, PatternAssumption
    <3>3. fails'[k] = fails[k] + 1 /\ streak'[k] = streak[k] \cup {c}
      BY <2>3 DEF ReportFailure
    <3>4. Cardinality(streak[k] \cup {c}) = Cardinality(streak[k]) + 1
      BY <3>1, <3>2, FS_AddElement
    <3>. QED BY <1>0, <1>1, <2>0, <2>1, <3>1, <3>3, <3>4
  <2>4. CASE k # Key(c)
    <3>1. fails'[k] = fails[k] /\ streak'[k] = streak[k]
      BY <1>4, <2>4 DEF ReportSuccess, ReportFailure
    <3>. QED BY <1>0, <1>1, <2>0, <2>1, <3>1
  <2>. QED BY <1>4, <2>2, <2>3, <2>4
<1>. QED BY <1>2, <1>3, <1>4, StepKinds

\* A rest once earned is prolonged, never cut, while the pattern goes on failing.
LEMMA RestPreserved == ASSUME PatternInv, [Next]_vars PROVE FailuresRest'
<1> USE DEF PatternInv, TypeOK
<1> SUFFICES ASSUME NEW k \in Keys, Failing(k)' PROVE RestsUntil(k, until[k])'
  BY DEF FailuresRest
<1>0. Failing(k) => RestsUntil(k, until[k])
  BY DEF FailuresRest
<1>1. CASE UNCHANGED <<until, streak, lastFail>>
  BY <1>0, <1>1 DEF Failing, RestsUntil
<1>2. ASSUME NEW c \in Calls, ReportSuccess(c) PROVE RestsUntil(k, until[k])'
  <2>1. CASE k = Key(c)
    <3>1. streak'[k] = {} /\ DefaultThreshold \in Thresholds(k[1])
      BY <1>2, <2>1 DEF ReportSuccess, Thresholds
    <3>2. Cardinality({}) >= DefaultThreshold
      BY <3>1 DEF Failing
    <3>. QED BY <3>2, FS_EmptySet, PatternAssumption
  <2>2. CASE k # Key(c)
    <3>1. UNCHANGED <<until, lastFail, streak[k]>>
      BY <1>2, <2>2 DEF ReportSuccess
    <3>. QED BY <1>0, <3>1 DEF Failing, RestsUntil
  <2>. QED BY <2>1, <2>2
<1>3. ASSUME NEW c \in Calls, ReportFailure(c) PROVE RestsUntil(k, until[k])'
  <2>1. CASE k = Key(c)
    <3>1. pick[c] \in Patterns /\ k[1] = pick[c]
      BY <1>3, <2>1, KeysAreKeys DEF ReportFailure, ArmedCallsPicked
    <3>2. Threshold(pick[c]) \in Thresholds(pick[c]) /\ Pause(pick[c]) \in Pauses(pick[c])
      BY <3>1 DEF Threshold, Thresholds, Pause, Pauses
    <3>3. Pause(pick[c]) \in Nat /\ Threshold(pick[c]) \in Nat
      BY <3>1, PatternAssumption DEF Pause, Threshold, Entry, Versions
    <3>4. Cardinality(streak'[k]) = fails[k] + 1
      <4>1. CountersTrue'
        BY CountersPreserved
      <4>2. fails'[k] = fails[k] + 1
        BY <1>3, <2>1 DEF ReportFailure
      <4>. QED BY <4>1, <4>2 DEF CountersTrue
    <3>5. Trips(c, fails[Key(c)] + 1)
      BY <2>1, <3>1, <3>2, <3>4 DEF Failing, Trips
    <3>6. until'[k] = clock + Pause(pick[c]) /\ lastFail'[k] = clock
      BY <1>3, <2>1, <3>5 DEF ReportFailure
    <3>. QED BY <3>1, <3>2, <3>3, <3>6 DEF RestsUntil
  <2>2. CASE k # Key(c)
    <3>1. UNCHANGED <<until[k], lastFail[k], streak[k]>>
      BY <1>3, <2>2 DEF ReportFailure
    <3>. QED BY <1>0, <3>1 DEF Failing, RestsUntil
  <2>. QED BY <2>1, <2>2
<1>4. ASSUME NEW c \in Calls, Arm(c) PROVE UNCHANGED <<until, streak, lastFail>>
  BY <1>4 DEF Arm
<1>. QED BY <1>1, <1>2, <1>3, <1>4, StepKinds DEF counting

-----------------------------------------------------------------------------
(* The caps.                                                               *)

\* A call about to be armed sees every call of the window in arm_timestamps.
LEMMA WindowsKnown ==
    ASSUME PatternInv, NEW k \in Keys, NEW w \in Nat, w <= Day
    PROVE  {d \in Recent(k) : armedAt[d] > clock - w} = ArmedWithin(k, clock, w)
<1>1. /\ arms[k] \subseteq Armed(k)
      /\ {c \in Armed(k) : armedAt[c] > clock - Day} \subseteq arms[k]
  BY DEF PatternInv, CountersTrue
<1>2. \A d \in Armed(k) : d \in Calls /\ armedAt[d] \in Int /\ armedAt[d] <= clock
  BY DEF PatternInv, TypeOK, Armed, ArmedCallsPicked
<1>3. clock \in Nat /\ Day \in Nat
  BY PatternAssumption DEF PatternInv, TypeOK
<1>. QED BY <1>1, <1>2, <1>3 DEF ArmedWithin, Recent

\* A window that ended before now is not entered any more; nor is another key's.
LEMMA OldWindowsClosed ==
    ASSUME PatternInv, [Next]_vars, NEW c \in Calls, Arm(c), armedAt' # armedAt,
           NEW k \in Keys, NEW a \in Int, NEW w \in Nat, a < clock \/ k # Key(c)
    PROVE  ArmedWithin(k, a, w)' = ArmedWithin(k, a, w)
<1> USE DEF PatternInv, TypeOK
<1>1. Armed(k)' = IF k = Key(c) THEN Armed(k) \cup {c} ELSE Armed(k)
  BY ArmedAddsOne
<1>2. armedAt' = [armedAt EXCEPT ![c] = clock]
  BY DEF Arm
<1>3. \A d \in Armed(k) : d \in Calls /\ armedAt'[d] = armedAt[d]
  BY ArmedCallsStay DEF Armed
<1>. QED BY <1>1, <1>2, <1>3 DEF ArmedWithin

\* A window that ends now gains the call that was armed.
LEMMA WindowGrows ==
    ASSUME PatternInv, [Next]_vars, NEW c \in Calls, Arm(c), armedAt' # armedAt,
           NEW k \in Keys, k = Key(c), NEW w \in Nat \ {0}
    PROVE  /\ ArmedWithin(k, clock, w)' = ArmedWithin(k, clock, w) \cup {c}
           /\ c \notin ArmedWithin(k, clock, w)
<1> USE DEF PatternInv, TypeOK
<1>1. Armed(k)' = Armed(k) \cup {c}
  BY ArmedAddsOne
<1>2. armedAt' = [armedAt EXCEPT ![c] = clock] /\ clock' = clock /\ armedAt[c] < 0
  BY DEF Arm, ArmedCallsPicked
<1>3. \A d \in Armed(k) : d \in Calls /\ armedAt[d] >= 0 /\ armedAt'[d] = armedAt[d]
  BY ArmedCallsStay DEF Armed
<1>. QED BY <1>1, <1>2, <1>3 DEF ArmedWithin

LEMMA CapsPreserved == ASSUME PatternInv, [Next]_vars PROVE CapsHold'
<1> USE DEF PatternInv, TypeOK
<1> DEFINE Kept(S, T) ==
             /\ \E d \in S : Picked(d).hourly = 0 \/ Cardinality(S) <= Picked(d).hourly
             /\ \E d \in T : Picked(d).daily = 0 \/ Cardinality(T) <= Picked(d).daily
           Within(k, a) == Kept(ArmedWithin(k, a, Hour), ArmedWithin(k, a, Day))
<1>0. /\ CapsHold = \A k \in Keys, c \in Calls : c \in Armed(k) => Within(k, armedAt[c])
      /\ CapsHold' = \A k \in Keys, c \in Calls : c \in Armed(k)' => Within(k, armedAt[c])'
  BY DEF CapsHold
<1> SUFFICES ASSUME NEW k \in Keys, NEW e \in Calls, e \in Armed(k)'
             PROVE  Within(k, armedAt[e])'
  BY <1>0
<1>1. Hour \in Nat \ {0} /\ Day \in Nat \ {0} /\ Hour <= Day
  BY PatternAssumption
<1>2. \A d \in Calls : armedAt[d] >= 0 =>
         armedAt'[d] = armedAt[d] /\ Key(d)' = Key(d) /\ Picked(d)' = Picked(d)
  BY ArmedCallsStay
<1>3. ASSUME e \in Armed(k), \A w \in {Hour, Day} :
                ArmedWithin(k, armedAt[e], w)' = ArmedWithin(k, armedAt[e], w)
      PROVE  Within(k, armedAt[e])'
  <2>1. Within(k, armedAt[e])
    BY <1>0, <1>3
  <2>2. \A w \in {Hour, Day} : \A d \in ArmedWithin(k, armedAt[e], w) :
           d \in Calls /\ Picked(d)' = Picked(d)
    BY <1>2 DEF ArmedWithin, Armed
  <2>. QED BY <1>3, <2>1, <2>2
<1>4. CASE armedAt' = armedAt
  <2>1. e \in Armed(k) /\ armedAt[e] \in Int
    BY <1>4, ArmedStays DEF Armed
  <2>2. \A w \in {Hour, Day} :
           ArmedWithin(k, armedAt[e], w)' = ArmedWithin(k, armedAt[e], w)
    BY <1>1, <1>4, <2>1, ArmedStays
  <2>. QED BY <1>3, <2>1, <2>2
<1>5. ASSUME NEW c \in Calls, Arm(c), armedAt' # armedAt
      PROVE  Within(k, armedAt[e])'
  <2>0. /\ armedAt' = [armedAt EXCEPT ![c] = clock] /\ clock' = clock /\ armedAt[c] < 0
        /\ Picked(c)' = Picked(c) /\ Key(c)' = Key(c) /\ ~Capped(c)
    BY <1>5 DEF Arm, ArmedCallsPicked, Picked, Key
  <2>1. Armed(k)' = IF k = Key(c) THEN Armed(k) \cup {c} ELSE Armed(k)
    BY <1>5, ArmedAddsOne
  <2>2. CASE armedAt'[e] < clock \/ k # Key(c)
    <3>1. e \in Armed(k) /\ armedAt'[e] = armedAt[e] /\ armedAt[e] \in Int
      BY <1>2, <2>0, <2>1, <2>2 DEF Armed
    <3>2. \A w \in {Hour, Day} :
             ArmedWithin(k, armedAt[e], w)' = ArmedWithin(k, armedAt[e], w)
      BY <1>1, <1>5, <2>2, <3>1, OldWindowsClosed
    <3>. QED BY <1>3, <3>1, <3>2
  <2>3. CASE k = Key(c) /\ armedAt'[e] = clock
    <3> DEFINE W(w) == ArmedWithin(k, clock, w)
    <3>1. \A w \in {Hour, Day} :
             ArmedWithin(k, armedAt[e], w)' = W(w) \cup {c} /\ c \notin W(w)
      BY <1>1, <1>5, <2>0, <2>3, WindowGrows
    <3>2. \A w \in {Hour, Day} : IsFiniteSet(W(w)) /\ Cardinality(W(w)) \in Nat
      <4>1. \A w : W(w) \subseteq Calls
        BY DEF ArmedWithin, Armed
      <4>. QED BY <4>1, FS_Subset, FS_CardinalityType, PatternAssumption
    <3>3. \A w \in {Hour, Day} : Cardinality(W(w) \cup {c}) = Cardinality(W(w)) + 1
      BY <3>1, <3>2, FS_AddElement
    <3>4. /\ {d \in Recent(k) : armedAt[d] > clock - Hour} = W(Hour)
          /\ Recent(k) = W(Day)
      <4>1. \A w \in {Hour, Day} : {d \in Recent(k) : armedAt[d] > clock - w} = W(w)
        BY <1>1, WindowsKnown
      <4>2. {d \in Recent(k) : armedAt[d] > clock - Day} = Recent(k)
        BY DEF Recent
      <4>. QED BY <4>1, <4>2
    <3>5. /\ ~Over(W(Hour), Picked(c).hourly) /\ ~Over(W(Day), Picked(c).daily)
      BY <2>0, <2>3, <3>4 DEF Capped
    <3>6. Picked(c).hourly \in Nat /\ Picked(c).daily \in Nat
      <4>1. Picked(c) \in Entry
        <5>1. phase[c] = "arm"
          BY <1>5 DEF Arm
        <5>2. pick[c] \in Patterns /\ using[c] \in Versions /\ Picked(c) # Absent
          BY <5>1 DEF ArmedCallsPicked
        <5>3. Books[using[c]] \in [Patterns -> Entry \cup {Absent}]
          BY <5>2, PatternAssumption
        <5>. QED BY <5>2, <5>3 DEF Picked
      <4>. QED BY <4>1 DEF Entry
    <3>7. /\ Picked(c).hourly = 0 \/ Cardinality(W(Hour) \cup {c}) <= Picked(c).hourly
          /\ Picked(c).daily = 0 \/ Cardinality(W(Day) \cup {c}) <= Picked(c).daily
      BY <3>2, <3>3, <3>5, <3>6 DEF Over
    <3>8. /\ ArmedWithin(k, armedAt[e], Hour)' = W(Hour) \cup {c}
          /\ ArmedWithin(k, armedAt[e], Day)' = W(Day) \cup {c}
      BY <3>1
    <3> HIDE DEF W
    <3>. QED BY <2>0, <3>7, <3>8
  <2>4. e \in Armed(k) => armedAt'[e] = armedAt[e] /\ armedAt[e] <= clock
    BY <1>2 DEF Armed, ArmedCallsPicked
  <2>. QED BY <2>0, <2>1, <2>2, <2>3, <2>4
<1>. QED BY <1>4, <1>5, StepKinds DEF counting, ReportSuccess, ReportFailure

-----------------------------------------------------------------------------
(* Reloading.                                                              *)

LEMMA ReloadsPreserved == ASSUME PatternInv, [Next]_vars PROVE ReloadsInOrder'
<1> USE DEF PatternInv, TypeOK, Versions, Reloading, Goto
<1> SUFFICES ASSUME ~raced' PROVE ReloadsInOrder'
  BY DEF ReloadsInOrder
<1>0. ~raced
  BY DEF Next, Tick, Edit, Consult, Stat, ReadFiles, KeepPatterns, KeepMtimes, Select,
         Arm, EndUnarmed, ReportSuccess, ReportFailure, Quiescent, vars
<1>1. CASE Tick \/ UNCHANGED vars
  BY <1>0, <1>1 DEF Tick, vars, ReloadsInOrder
<1>2. CASE Edit
  BY <1>0, <1>2, PatternAssumption DEF Edit, ReloadsInOrder
<1>3. ASSUME NEW c \in Calls, Consult(c) PROVE ReloadsInOrder'
  <2>1. /\ UNCHANGED <<fileVars, noted, got, using>> /\ phase[c] = "idle"
        /\ began' = [began EXCEPT ![c] = disk]
        /\ \A d \in Calls : d # c => phase'[d] = phase[d]
    BY <1>3 DEF Consult
  <2>2. CASE disk = mtimes
    <3>1. phase'[c] = "select" /\ Reloading = {}
      BY <1>0, <1>3, <2>2 DEF Consult, ReloadsInOrder
    <3>. QED BY <1>0, <2>1, <2>2, <3>1, PatternAssumption DEF ReloadsInOrder
  <2>3. CASE disk # mtimes
    <3>1. phase'[c] = "stat" /\ Reloading = {}
      BY <1>3, <2>3 DEF Consult
    <3>. QED BY <1>0, <2>1, <2>3, <3>1, PatternAssumption DEF ReloadsInOrder
  <2>. QED BY <2>2, <2>3
<1>4. ASSUME NEW c \in Calls, Stat(c) PROVE ReloadsInOrder'
  BY <1>0, <1>4, PatternAssumption DEF Stat, ReloadsInOrder
<1>5. ASSUME NEW c \in Calls, ReadFiles(c) PROVE ReloadsInOrder'
  BY <1>0, <1>5, PatternAssumption DEF ReadFiles, ReloadsInOrder
<1>6. ASSUME NEW c \in Calls, KeepPatterns(c) PROVE ReloadsInOrder'
  BY <1>0, <1>6, PatternAssumption DEF KeepPatterns, ReloadsInOrder
<1>7. ASSUME NEW c \in Calls, KeepMtimes(c) PROVE ReloadsInOrder'
  BY <1>0, <1>7, PatternAssumption DEF KeepMtimes, ReloadsInOrder
<1>8. ASSUME NEW c \in Calls, Select(c) PROVE ReloadsInOrder'
  <2>1. /\ UNCHANGED <<fileVars, noted, got, began>> /\ using' = [using EXCEPT ![c] = book]
        /\ phase[c] = "select" /\ phase'[c] \in {"arm", "running"}
        /\ \A d \in Calls : d # c => phase'[d] = phase[d]
    BY <1>8 DEF Select
  <2>. QED BY <1>0, <2>1, PatternAssumption DEF ReloadsInOrder
<1>9. ASSUME NEW c \in Calls,
             Arm(c) \/ EndUnarmed(c) \/ ReportSuccess(c) \/ ReportFailure(c)
      PROVE  ReloadsInOrder'
  <2>1. /\ UNCHANGED <<fileVars, noted, got, using, began>>
        /\ phase[c] \in {"arm", "running"} /\ phase'[c] \in {"running", "done"}
        /\ \A d \in Calls : d # c => phase'[d] = phase[d]
    BY <1>9 DEF Arm, EndUnarmed, ReportSuccess, ReportFailure
  <2>2. began[c] <= using[c] \/ raced
    BY <2>1 DEF ReloadsInOrder
  <2>3. Reloading' = Reloading
    BY <2>1 DEF Reloading
  <2>4. raced' = raced
    BY <1>9 DEF Arm, EndUnarmed, ReportSuccess, ReportFailure
  <2>. QED BY <1>0, <2>1, <2>2, <2>3, <2>4, PatternAssumption DEF ReloadsInOrder
<1>. QED BY <1>1, <1>2, <1>3, <1>4, <1>5, <1>6, <1>7, <1>8, <1>9 DEF Next, Quiescent

-----------------------------------------------------------------------------
(* The theorems.                                                           *)

LEMMA InitEstablishes == Init => PatternInv
<1> SUFFICES ASSUME Init PROVE PatternInv
  OBVIOUS
<1> USE PatternAssumption DEF Init
<1>1. TypeOK
  BY DEF TypeOK, Versions
<1>2. \A k \in Keys : Armed(k) = {}
  BY DEF Armed
<1>3. CountersTrue
  BY <1>2, FS_EmptySet DEF CountersTrue
<1>4. FailuresRest
  <2>1. \A k \in Keys : ~Failing(k)
    <3> SUFFICES ASSUME NEW k \in Keys PROVE ~Failing(k)
      OBVIOUS
    <3>1. Cardinality(streak[k]) = 0 /\ DefaultThreshold \in Thresholds(k[1])
      BY FS_EmptySet DEF Thresholds
    <3>. QED BY <3>1 DEF Failing
  <2>. QED BY <2>1 DEF FailuresRest
<1>5. ArmedCallsPicked
  BY DEF ArmedCallsPicked
<1>6. CapsHold
  BY <1>2 DEF CapsHold
<1>7. ReloadsInOrder
  BY DEF ReloadsInOrder, Reloading, Versions
<1>. QED BY <1>1, <1>3, <1>4, <1>5, <1>6, <1>7 DEF PatternInv

LEMMA StepPreserves == PatternInv /\ [Next]_vars => PatternInv'
BY TypePreserved, PickedPreserved, CountersPreserved, RestPreserved, CapsPreserved,
   ReloadsPreserved DEF PatternInv

\* The counters of match and report_outcome tell what happened, however calls,
\* answers, edits and reloads interleave.
THEOREM PatternInvariant == Spec => []PatternInv
BY InitEstablishes, StepPreserves, PTL DEF Spec

\* No hour and no day holds more armed calls of a pattern on a target than the
\* caps allow, for any number of threads.
THEOREM CapsAreKept == Spec => []CapsHold
<1>1. PatternInv => CapsHold
  BY DEF PatternInv
<1>. QED BY <1>1, PatternInvariant, PTL

\* Whatever the order in which failures are reported, a failing pattern is not
\* armed before its rest is over.
THEOREM FailuresDisarm == Spec => FailingPatternsRest
<1>1. PatternInv /\ [Next]_vars =>
        [\A c \in Calls : armedAt[c] < 0 /\ armedAt'[c] >= 0 =>
            (Failing(Key(c)) => RestsUntil(Key(c), clock))]_vars
  <2> SUFFICES ASSUME PatternInv, Next, NEW c \in Calls, armedAt[c] < 0, armedAt'[c] >= 0,
                      Failing(Key(c))
               PROVE  RestsUntil(Key(c), clock)
    OBVIOUS
  <2> USE DEF PatternInv, TypeOK
  <2>1. armedAt' # armedAt
    OBVIOUS
  <2>2. Arm(c)
    <3>1. PICK d \in Calls : Arm(d)
      BY <2>1, StepKinds DEF counting, ReportSuccess, ReportFailure
    <3>2. d # c => armedAt'[c] = armedAt[c]
      BY <3>1 DEF Arm
    <3>. QED BY <3>1, <3>2
  <2>3. pick[c] \in Patterns
    BY <2>2 DEF Arm, ArmedCallsPicked
  <2>4. Key(c) \in Keys /\ Key(c)[1] = pick[c]
    BY <2>3, KeysAreKeys
  <2>5. ~(clock < until[Key(c)])
    BY <2>1, <2>2 DEF Arm, Resting
  <2>6. PICK m \in Pauses(pick[c]) : until[Key(c)] >= lastFail[Key(c)] + m
    BY <2>4 DEF FailuresRest, RestsUntil
  <2>7. m \in Nat
    <3>1. CASE m = DefaultPause
      BY <3>1, PatternAssumption
    <3>2. ASSUME NEW v \in Versions, Books[v][pick[c]] # Absent, m = Books[v][pick[c]].pause
          PROVE  m \in Nat
      <4>0. Books[v] \in [Patterns -> Entry \cup {Absent}]
        BY PatternAssumption
      <4>1. Books[v][pick[c]] \in Entry
        BY <2>3, <3>2, <4>0
      <4>. QED BY <3>2, <4>1 DEF Entry
    <3>. QED BY <3>1, <3>2 DEF Pauses
  <2>. QED BY <2>4, <2>5, <2>6, <2>7 DEF RestsUntil
<1>. QED BY <1>1, PatternInvariant, PTL DEF Spec, FailingPatternsRest

\* As long as no two reloads overlap, no call is armed by files older than those
\* on disk when it asked.
THEOREM RevocationsTakeEffect == Spec => []EditsTakeEffect
<1>1. PatternInv => EditsTakeEffect
  <2> SUFFICES ASSUME PatternInv, ~raced, NEW c \in Calls, armedAt[c] >= 0
               PROVE  using[c] >= began[c]
    BY DEF EditsTakeEffect
  <2>1. phase[c] \in {"running", "done"}
    BY DEF PatternInv, ArmedCallsPicked
  <2>2. using[c] \in Nat /\ began[c] \in Nat
    BY PatternAssumption DEF PatternInv, TypeOK
  <2>. QED BY <2>1, <2>2 DEF PatternInv, ReloadsInOrder
<1>. QED BY <1>1, PatternInvariant, PTL
=============================================================================
