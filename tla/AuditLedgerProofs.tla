-------------------------- MODULE AuditLedgerProofs --------------------------
(* Theorems about AuditLedger, for every number of processes and calls.    *)
EXTENDS AuditLedger, TLAPS, FiniteSetTheorems

\* The definitions that only name groups of variables, of phases or of values.
USE DEF engineVars, callVars, fileVars, boundVars, worldVars, historyVars,
        Phases, Guarded, Intending, Over, Unrecorded, Active, ActiveIn, Strict,
        Pending, Opened, Fault, NoFault, Rows, Verdicts, NoRow

-----------------------------------------------------------------------------
(* The inductive invariant.                                                *)

LEMMA InitEstablishesInv == Init => LedgerInv
<1> SUFFICES ASSUME Init PROVE LedgerInv
  OBVIOUS
<1>1. TypeOK
  BY CallsAssumption DEF Init, TypeOK
<1>2. QED
  BY <1>1, CallsAssumption DEF Init, LedgerInv, IntentsStayVisible, GuardExcludes,
     OwnersRun, RowsKeyed, IntentsInHand, RotationIsolated, EffectsFollowIntents,
     LateCallsRefused, ReadsConcluded

\* Opening the database can only add the table.
LEMMA BootPreserves ==
    ASSUME LedgerInv, NEW p \in Procs, Boot(p)
    PROVE  LedgerInv'
<1> USE CallsAssumption DEF LedgerInv, Boot
<1>1. TypeOK' BY DEF TypeOK
<1>2. IntentsStayVisible' BY DEF TypeOK, IntentsStayVisible
<1>3. GuardExcludes' BY DEF TypeOK, GuardExcludes
<1>4. OwnersRun' BY DEF TypeOK, OwnersRun
<1>5. RowsKeyed' BY DEF TypeOK, RowsKeyed
<1>6. IntentsInHand' BY DEF TypeOK, IntentsInHand
<1>7. RotationIsolated' BY DEF TypeOK, RotationIsolated
<1>8. EffectsFollowIntents' BY DEF TypeOK, EffectsFollowIntents
<1>9. LateCallsRefused' BY DEF TypeOK, LateCallsRefused, OwnersRun
<1>10. ReadsConcluded' BY DEF TypeOK, ReadsConcluded
<1>. QED BY <1>1, <1>2, <1>3, <1>4, <1>5, <1>6, <1>7, <1>8, <1>9, <1>10

\* A crash frees the guard and forgets who was running what; rows stay.
LEMMA CrashPreserves ==
    ASSUME LedgerInv, NEW p \in Procs, Crash(p)
    PROVE  LedgerInv'
<1> USE CallsAssumption DEF LedgerInv, Crash
<1>1. TypeOK' BY DEF TypeOK
<1>2. IntentsStayVisible' BY DEF TypeOK, IntentsStayVisible
<1>3. GuardExcludes' BY DEF TypeOK, GuardExcludes
<1>4. OwnersRun' BY DEF TypeOK, OwnersRun
<1>5. RowsKeyed' BY DEF TypeOK, RowsKeyed
<1>6. IntentsInHand' BY DEF TypeOK, IntentsInHand
<1>7. RotationIsolated' BY DEF TypeOK, RotationIsolated
<1>8. EffectsFollowIntents' BY DEF TypeOK, EffectsFollowIntents
<1>9. LateCallsRefused' BY DEF TypeOK, LateCallsRefused, OwnersRun
<1>10. ReadsConcluded' BY DEF TypeOK, ReadsConcluded
<1>. QED BY <1>1, <1>2, <1>3, <1>4, <1>5, <1>6, <1>7, <1>8, <1>9, <1>10

LEMMA ReaderConnectsPreserves ==
    ASSUME LedgerInv, NEW p \in Procs, ReaderConnects(p)
    PROVE  LedgerInv'
<1> USE CallsAssumption DEF LedgerInv, ReaderConnects
<1>1. TypeOK' BY DEF TypeOK
<1>2. IntentsStayVisible' BY DEF TypeOK, IntentsStayVisible
<1>3. GuardExcludes' BY DEF TypeOK, GuardExcludes
<1>4. OwnersRun' BY DEF TypeOK, OwnersRun
<1>5. RowsKeyed' BY DEF TypeOK, RowsKeyed
<1>6. IntentsInHand' BY DEF TypeOK, IntentsInHand
<1>7. RotationIsolated' BY DEF TypeOK, RotationIsolated
<1>8. EffectsFollowIntents' BY DEF TypeOK, EffectsFollowIntents
<1>9. LateCallsRefused' BY DEF TypeOK, LateCallsRefused
<1>10. ReadsConcluded' BY DEF TypeOK, ReadsConcluded
<1>. QED BY <1>1, <1>2, <1>3, <1>4, <1>5, <1>6, <1>7, <1>8, <1>9, <1>10

LEMMA StartPreserves ==
    ASSUME LedgerInv, NEW c \in Calls, NEW p \in Procs, Start(c, p)
    PROVE  LedgerInv'
<1> USE CallsAssumption DEF LedgerInv, Start, Stuck
<1>1. TypeOK' BY DEF TypeOK
<1>2. IntentsStayVisible' BY DEF TypeOK, IntentsStayVisible
<1>3. GuardExcludes' BY DEF TypeOK, GuardExcludes
<1>4. OwnersRun' BY DEF TypeOK, OwnersRun
<1>5. RowsKeyed' BY DEF TypeOK, RowsKeyed
<1>6. IntentsInHand' BY DEF TypeOK, IntentsInHand
<1>7. RotationIsolated' BY DEF TypeOK, RotationIsolated
<1>8. EffectsFollowIntents' BY DEF TypeOK, EffectsFollowIntents
<1>9. LateCallsRefused'
  <2>1. Stuck(p) => p \in blocked
    BY DEF TypeOK, LateCallsRefused
  <2>2. c \notin late /\ c \notin sent
    BY DEF TypeOK, LateCallsRefused, EffectsFollowIntents
  <2>3. ASSUME NEW d \in Calls, phase'[d] = "done", Pending(d)', owner'[d] # NoProc
        PROVE  owner'[d] \in blocked'
    BY <2>3 DEF TypeOK, LateCallsRefused
  <2>4. ASSUME NEW d \in late'
        PROVE  /\ phase'[d] \notin {"idle"} \cup Intending /\ d \notin sent'
               /\ phase'[d] = "begin" => owner'[d] \in blocked'
               /\ phase'[d] \in {"log", "lock"} \cup Guarded => ~Strict(d)'
    <3>1. CASE d = c BY <2>1, <2>2, <2>4, <3>1 DEF TypeOK
    <3>2. CASE d # c BY <2>4, <3>2 DEF TypeOK, LateCallsRefused
    <3>. QED BY <3>1, <3>2
  <2>. QED BY <2>3, <2>4 DEF LateCallsRefused
<1>10. ReadsConcluded' BY DEF TypeOK, ReadsConcluded
<1>. QED BY <1>1, <1>2, <1>3, <1>4, <1>5, <1>6, <1>7, <1>8, <1>9, <1>10

LEMMA BeginWritePreserves ==
    ASSUME LedgerInv, NEW c \in Calls, BeginWrite(c)
    PROVE  LedgerInv'
<1> USE CallsAssumption DEF LedgerInv, BeginWrite
<1>1. TypeOK' BY DEF TypeOK
<1>2. IntentsStayVisible' BY DEF TypeOK, IntentsStayVisible
<1>3. GuardExcludes' BY DEF TypeOK, GuardExcludes
<1>4. OwnersRun' BY DEF TypeOK, OwnersRun
<1>5. RowsKeyed' BY DEF TypeOK, RowsKeyed
<1>6. IntentsInHand' BY DEF TypeOK, IntentsInHand
<1>7. RotationIsolated' BY DEF TypeOK, RotationIsolated
<1>8. EffectsFollowIntents' BY DEF TypeOK, EffectsFollowIntents
<1>9. LateCallsRefused' BY DEF TypeOK, LateCallsRefused
<1>10. ReadsConcluded' BY DEF TypeOK, ReadsConcluded
<1>. QED BY <1>1, <1>2, <1>3, <1>4, <1>5, <1>6, <1>7, <1>8, <1>9, <1>10

LEMMA LogEntryPreserves ==
    ASSUME LedgerInv, NEW c \in Calls, LogEntry(c)
    PROVE  LedgerInv'
<1> USE CallsAssumption DEF LedgerInv, LogEntry, LogGivesUp
<1>1. TypeOK'
  <2>1. owner[c] \in Procs BY DEF TypeOK, OwnersRun
  <2>2. CASE owner[c] \in ok BY <2>2 DEF TypeOK
  <2>3. CASE owner[c] \notin ok
    <3>1. blocked' \subseteq Procs BY <2>1, <2>3 DEF TypeOK
    <3>2. verdict' \in [Calls -> {"none"} \cup Verdicts] BY <2>3 DEF TypeOK
    <3>3. phase' \in [Calls -> Phases]
      <4>1. phase' = [phase EXCEPT ![c] = "log"] \/ phase' = [phase EXCEPT ![c] = "done"]
        BY <2>3
      <4>. QED BY ONLY <4>1, TypeOK DEF TypeOK, Phases
    <3>. QED BY <3>1, <3>2, <3>3 DEF TypeOK
  <2>. QED BY <2>2, <2>3
<1>2. IntentsStayVisible' BY DEF TypeOK, IntentsStayVisible
<1>3. GuardExcludes' BY DEF TypeOK, GuardExcludes
<1>4. OwnersRun' BY DEF TypeOK, OwnersRun
<1>5. RowsKeyed' BY DEF TypeOK, RowsKeyed
<1>6. IntentsInHand' BY DEF TypeOK, IntentsInHand
<1>7. RotationIsolated' BY DEF TypeOK, RotationIsolated
<1>8. EffectsFollowIntents' BY DEF TypeOK, EffectsFollowIntents
<1>9. LateCallsRefused' BY DEF TypeOK, LateCallsRefused, RowsKeyed
<1>10. ReadsConcluded' BY DEF TypeOK, ReadsConcluded
<1>. QED BY <1>1, <1>2, <1>3, <1>4, <1>5, <1>6, <1>7, <1>8, <1>9, <1>10

LEMMA AcquireGuardPreserves ==
    ASSUME LedgerInv, NEW c \in Calls, AcquireGuard(c)
    PROVE  LedgerInv'
<1> USE CallsAssumption DEF LedgerInv, AcquireGuard
<1>1. TypeOK' BY DEF TypeOK
<1>2. IntentsStayVisible' BY DEF TypeOK, IntentsStayVisible
<1>3. GuardExcludes' BY DEF TypeOK, GuardExcludes
<1>4. OwnersRun' BY DEF TypeOK, OwnersRun
<1>5. RowsKeyed' BY DEF TypeOK, RowsKeyed
<1>6. IntentsInHand' BY DEF TypeOK, IntentsInHand
<1>7. RotationIsolated' BY DEF TypeOK, RotationIsolated
<1>8. EffectsFollowIntents' BY DEF TypeOK, EffectsFollowIntents
<1>9. LateCallsRefused' BY DEF TypeOK, LateCallsRefused
<1>10. ReadsConcluded' BY DEF TypeOK, ReadsConcluded
<1>. QED BY <1>1, <1>2, <1>3, <1>4, <1>5, <1>6, <1>7, <1>8, <1>9, <1>10

LEMMA KeepFilePreserves ==
    ASSUME LedgerInv, NEW c \in Calls, KeepFile(c)
    PROVE  LedgerInv'
<1> USE CallsAssumption DEF LedgerInv, KeepFile, RotationDue
<1>1. TypeOK' BY DEF TypeOK
<1>2. IntentsStayVisible' BY DEF TypeOK, IntentsStayVisible
<1>3. GuardExcludes' BY DEF TypeOK, GuardExcludes
<1>4. OwnersRun' BY DEF TypeOK, OwnersRun
<1>5. RowsKeyed' BY DEF TypeOK, RowsKeyed
<1>6. IntentsInHand' BY DEF TypeOK, IntentsInHand
<1>7. RotationIsolated' BY DEF TypeOK, RotationIsolated
<1>8. EffectsFollowIntents' BY DEF TypeOK, EffectsFollowIntents
<1>9. LateCallsRefused' BY DEF TypeOK, LateCallsRefused
<1>10. ReadsConcluded' BY DEF TypeOK, ReadsConcluded
<1>. QED BY <1>1, <1>2, <1>3, <1>4, <1>5, <1>6, <1>7, <1>8, <1>9, <1>10

\* The checkpoint starts only when no intent is pending.
LEMMA CheckpointPreserves ==
    ASSUME LedgerInv, NEW c \in Calls, Checkpoint(c)
    PROVE  LedgerInv'
<1> USE CallsAssumption DEF LedgerInv, Checkpoint, RotationDue
<1>1. TypeOK' BY DEF TypeOK
<1>2. IntentsStayVisible' BY DEF TypeOK, IntentsStayVisible
<1>3. GuardExcludes' BY DEF TypeOK, GuardExcludes
<1>4. OwnersRun' BY DEF TypeOK, OwnersRun
<1>5. RowsKeyed' BY DEF TypeOK, RowsKeyed
<1>6. IntentsInHand' BY DEF TypeOK, IntentsInHand
<1>7. RotationIsolated' BY DEF TypeOK, RotationIsolated, IntentsStayVisible, GuardExcludes
<1>8. EffectsFollowIntents' BY DEF TypeOK, EffectsFollowIntents
<1>9. LateCallsRefused' BY DEF TypeOK, LateCallsRefused
<1>10. ReadsConcluded' BY DEF TypeOK, ReadsConcluded
<1>. QED BY <1>1, <1>2, <1>3, <1>4, <1>5, <1>6, <1>7, <1>8, <1>9, <1>10

\* The file leaves with an empty sidecar and no pending row.
LEMMA RenamePreserves ==
    ASSUME LedgerInv, NEW c \in Calls, Rename(c)
    PROVE  LedgerInv'
<1> USE CallsAssumption DEF LedgerInv, Rename
<1>1. TypeOK' BY DEF TypeOK
<1>2. IntentsStayVisible' BY DEF TypeOK, IntentsStayVisible, RotationIsolated
<1>3. GuardExcludes' BY DEF TypeOK, GuardExcludes
<1>4. OwnersRun' BY DEF TypeOK, OwnersRun
<1>5. RowsKeyed' BY DEF TypeOK, RowsKeyed
<1>6. IntentsInHand' BY DEF TypeOK, IntentsInHand, RotationIsolated
<1>7. RotationIsolated' BY DEF TypeOK, RotationIsolated, RowsKeyed, GuardExcludes
<1>8. EffectsFollowIntents' BY DEF TypeOK, EffectsFollowIntents, RotationIsolated
<1>9. LateCallsRefused' BY DEF TypeOK, LateCallsRefused
<1>10. ReadsConcluded' BY DEF TypeOK, ReadsConcluded
<1>. QED BY <1>1, <1>2, <1>3, <1>4, <1>5, <1>6, <1>7, <1>8, <1>9, <1>10

LEMMA ReopenPreserves ==
    ASSUME LedgerInv, NEW c \in Calls, Reopen(c)
    PROVE  LedgerInv'
<1> USE CallsAssumption DEF LedgerInv, Reopen, Kept
<1>1. TypeOK'
  <2>1. archives' \subseteq archives OBVIOUS
  <2>. QED BY <2>1 DEF TypeOK
<1>2. IntentsStayVisible' BY DEF TypeOK, IntentsStayVisible
<1>3. GuardExcludes' BY DEF TypeOK, GuardExcludes
<1>4. OwnersRun' BY DEF TypeOK, OwnersRun
<1>5. RowsKeyed' BY DEF TypeOK, RowsKeyed
<1>6. IntentsInHand' BY DEF TypeOK, IntentsInHand
<1>7. RotationIsolated' BY DEF TypeOK, RotationIsolated
<1>8. EffectsFollowIntents' BY DEF TypeOK, EffectsFollowIntents
<1>9. LateCallsRefused' BY DEF TypeOK, LateCallsRefused
<1>10. ReadsConcluded' BY DEF TypeOK, ReadsConcluded
<1>. QED BY <1>1, <1>2, <1>3, <1>4, <1>5, <1>6, <1>7, <1>8, <1>9, <1>10

\* The new row takes the next id of the current file.
LEMMA InsertPreserves ==
    ASSUME LedgerInv, NEW c \in Calls, Insert(c)
    PROVE  LedgerInv'
<1> USE CallsAssumption DEF LedgerInv, Insert, NewRow, Committed
<1>1. TypeOK'
  <2>1. NewRow(c) \in Rows
    BY DEF TypeOK, Rows
  <2>2. row' \in [Calls -> Rows]
    BY <2>1 DEF TypeOK
  <2>3. phase' \in [Calls -> Phases]
    BY DEF TypeOK, Phases
  <2>4. nextId' \in Nat \ {0} /\ wal' \subseteq Calls
    BY DEF TypeOK
  <2>5. intent' \in [Calls -> Nat]
    <3>1. nextId \in Nat /\ intent \in [Calls -> Nat]
      BY DEF TypeOK
    <3>2. intent' = [intent EXCEPT ![c] = nextId] \/ intent' = intent
      OBVIOUS
    <3>. QED BY <3>1, <3>2
  <2>. QED BY <2>2, <2>3, <2>4, <2>5 DEF TypeOK
<1>2. IntentsStayVisible' BY DEF TypeOK, IntentsStayVisible
<1>3. GuardExcludes' BY DEF TypeOK, GuardExcludes
<1>4. OwnersRun' BY DEF TypeOK, OwnersRun
<1>5. RowsKeyed' BY DEF TypeOK, RowsKeyed
<1>6. IntentsInHand' BY DEF TypeOK, IntentsInHand, RowsKeyed
<1>7. RotationIsolated' BY DEF TypeOK, RotationIsolated, GuardExcludes
<1>8. EffectsFollowIntents' BY DEF TypeOK, EffectsFollowIntents, RowsKeyed
<1>9. LateCallsRefused' BY DEF TypeOK, LateCallsRefused, RowsKeyed
<1>10. ReadsConcluded' BY DEF TypeOK, ReadsConcluded
<1>. QED BY <1>1, <1>2, <1>3, <1>4, <1>5, <1>6, <1>7, <1>8, <1>9, <1>10

LEMMA InsertFailsPreserves ==
    ASSUME LedgerInv, NEW c \in Calls, InsertFails(c)
    PROVE  LedgerInv'
<1> USE CallsAssumption DEF LedgerInv, InsertFails, LogGivesUp
<1>1. TypeOK'
  <2>1. blocked' \subseteq Procs BY DEF TypeOK, OwnersRun
  <2>2. verdict' \in [Calls -> {"none"} \cup Verdicts] BY DEF TypeOK
  <2>3. phase' \in [Calls -> Phases] BY DEF TypeOK
  <2>. QED BY <2>1, <2>2, <2>3 DEF TypeOK
<1>2. IntentsStayVisible' BY DEF TypeOK, IntentsStayVisible
<1>3. GuardExcludes' BY DEF TypeOK, GuardExcludes
<1>4. OwnersRun' BY DEF TypeOK, OwnersRun
<1>5. RowsKeyed' BY DEF TypeOK, RowsKeyed
<1>6. IntentsInHand' BY DEF TypeOK, IntentsInHand
<1>7. RotationIsolated' BY DEF TypeOK, RotationIsolated
<1>8. EffectsFollowIntents' BY DEF TypeOK, EffectsFollowIntents
<1>9. LateCallsRefused' BY DEF TypeOK, LateCallsRefused, RowsKeyed
<1>10. ReadsConcluded' BY DEF TypeOK, ReadsConcluded
<1>. QED BY <1>1, <1>2, <1>3, <1>4, <1>5, <1>6, <1>7, <1>8, <1>9, <1>10

\* A row nobody owns up to takes the next id as well.
LEMMA InsertUnheardPreserves ==
    ASSUME LedgerInv, NEW c \in Calls, InsertUnheard(c)
    PROVE  LedgerInv'
<1> USE CallsAssumption DEF LedgerInv, InsertUnheard, LogGivesUp, NewRow, Committed
<1>1. TypeOK'
  <2>1. owner[c] \in Procs /\ NewRow(c) \in Rows /\ nextId' \in Nat \ {0}
    BY DEF TypeOK, OwnersRun
  <2>2. stray' \subseteq [gen : Nat, id : Nat]
    <3>1. gen \in Nat /\ nextId \in Nat /\ stray \subseteq [gen : Nat, id : Nat]
      BY DEF TypeOK
    <3>2. stray' = stray \/ stray' = stray \cup {[gen |-> gen, id |-> nextId]}
      OBVIOUS
    <3>. QED BY <3>1, <3>2
  <2>3. row' \in [Calls -> Rows] /\ wal' \subseteq Calls
    <3>1. (row' = row /\ wal' = wal)
          \/ (row' = [row EXCEPT ![c] = NewRow(c)] /\ wal' \in {wal, wal \cup {c}})
      OBVIOUS
    <3>. QED BY ONLY <2>1, <3>1, TypeOK DEF TypeOK
  <2>4. blocked' \subseteq Procs
    BY <2>1 DEF TypeOK
  <2>5. phase' \in [Calls -> Phases] /\ verdict' \in [Calls -> {"none"} \cup Verdicts]
    <3>1. phase' = [phase EXCEPT ![c] = "log"] \/ phase' = [phase EXCEPT ![c] = "done"]
      OBVIOUS
    <3>2. verdict' = [verdict EXCEPT ![c] = "error"] \/ verdict' = verdict
      OBVIOUS
    <3>. QED BY ONLY <3>1, <3>2, TypeOK DEF TypeOK, Phases, Verdicts
  <2>6. faults' \in Nat
    BY DEF TypeOK
  <2>. QED BY <2>1, <2>2, <2>3, <2>4, <2>5, <2>6 DEF TypeOK
<1>2. IntentsStayVisible' BY DEF TypeOK, IntentsStayVisible
<1>3. GuardExcludes' BY DEF TypeOK, GuardExcludes
<1>4. OwnersRun' BY DEF TypeOK, OwnersRun
<1>5. RowsKeyed'
  <2>1. CASE Strict(c) BY <2>1 DEF TypeOK, RowsKeyed
  <2>2. CASE ~Strict(c)
    <3>1. /\ row' = [row EXCEPT ![c] = NewRow(c)] /\ nextId' = nextId + 1 /\ gen' = gen
          /\ phase' = [phase EXCEPT ![c] = "done"] /\ verdict[c] # "none"
          /\ nextId \in Nat \ {0} /\ gen \in Nat \ {0}
      BY <2>2 DEF TypeOK, ReadsConcluded
    <3>. QED BY ONLY <2>2, <3>1, TypeOK, RowsKeyed
             DEF TypeOK, RowsKeyed, NewRow, Strict, Unrecorded, Rows
  <2>. QED BY <2>1, <2>2
<1>6. IntentsInHand' BY DEF TypeOK, IntentsInHand, RowsKeyed
<1>7. RotationIsolated' BY DEF TypeOK, RotationIsolated, GuardExcludes
<1>8. EffectsFollowIntents' BY DEF TypeOK, EffectsFollowIntents, RowsKeyed
<1>9. LateCallsRefused'
  <2>1. CASE Strict(c) BY <2>1 DEF TypeOK, LateCallsRefused, RowsKeyed
  <2>2. CASE ~Strict(c)
    <3>1. verdict' = verdict /\ phase' = [phase EXCEPT ![c] = "done"] /\ blocked' = blocked
      BY <2>2
    <3>2. verdict[c] # "pending" BY DEF TypeOK
    <3>3. ~Pending(c)' BY <2>2, <3>2 DEF TypeOK
    <3>4. \A d \in Calls : d # c => row'[d] = row[d] BY <2>2 DEF TypeOK
    <3>. QED BY <3>1, <3>3, <3>4 DEF TypeOK, LateCallsRefused
  <2>. QED BY <2>1, <2>2
<1>10. ReadsConcluded' BY DEF TypeOK, ReadsConcluded
<1>. QED BY <1>1, <1>2, <1>3, <1>4, <1>5, <1>6, <1>7, <1>8, <1>9, <1>10

\* The row of the intent is there before the request leaves.
LEMMA SendPreserves ==
    ASSUME LedgerInv, NEW c \in Calls, Send(c)
    PROVE  LedgerInv'
<1> USE CallsAssumption DEF LedgerInv, Send
<1>1. TypeOK' BY DEF TypeOK
<1>2. IntentsStayVisible' BY DEF TypeOK, IntentsStayVisible
<1>3. GuardExcludes' BY DEF TypeOK, GuardExcludes
<1>4. OwnersRun' BY DEF TypeOK, OwnersRun
<1>5. RowsKeyed' BY DEF TypeOK, RowsKeyed
<1>6. IntentsInHand' BY DEF TypeOK, IntentsInHand
<1>7. RotationIsolated' BY DEF TypeOK, RotationIsolated
<1>8. EffectsFollowIntents' BY DEF TypeOK, EffectsFollowIntents, IntentsInHand
<1>9. LateCallsRefused' BY DEF TypeOK, LateCallsRefused
<1>10. ReadsConcluded' BY DEF TypeOK, ReadsConcluded
<1>. QED BY <1>1, <1>2, <1>3, <1>4, <1>5, <1>6, <1>7, <1>8, <1>9, <1>10

LEMMA EndBodyPreserves ==
    ASSUME LedgerInv, NEW c \in Calls, NEW r, phase[c] \in {"intended", "awaiting"}, EndBody(c, r)
    PROVE  LedgerInv'
<1> USE CallsAssumption DEF LedgerInv, EndBody, Conclusion
<1>1. TypeOK' BY DEF TypeOK
<1>2. IntentsStayVisible' BY DEF TypeOK, IntentsStayVisible
<1>3. GuardExcludes' BY DEF TypeOK, GuardExcludes
<1>4. OwnersRun' BY DEF TypeOK, OwnersRun
<1>5. RowsKeyed' BY DEF TypeOK, RowsKeyed
<1>6. IntentsInHand' BY DEF TypeOK, IntentsInHand
<1>7. RotationIsolated' BY DEF TypeOK, RotationIsolated
<1>8. EffectsFollowIntents' BY DEF TypeOK, EffectsFollowIntents
<1>9. LateCallsRefused' BY DEF TypeOK, LateCallsRefused
<1>10. ReadsConcluded' BY DEF TypeOK, ReadsConcluded
<1>. QED BY <1>1, <1>2, <1>3, <1>4, <1>5, <1>6, <1>7, <1>8, <1>9, <1>10

LEMMA FinishFailsPreserves ==
    ASSUME LedgerInv, NEW c \in Calls, FinishFails(c)
    PROVE  LedgerInv'
<1> USE CallsAssumption DEF LedgerInv, FinishFails
<1>1. TypeOK' BY DEF TypeOK, OwnersRun
<1>2. IntentsStayVisible' BY DEF TypeOK, IntentsStayVisible
<1>3. GuardExcludes' BY DEF TypeOK, GuardExcludes
<1>4. OwnersRun' BY DEF TypeOK, OwnersRun
<1>5. RowsKeyed' BY DEF TypeOK, RowsKeyed
<1>6. IntentsInHand' BY DEF TypeOK, IntentsInHand
<1>7. RotationIsolated' BY DEF TypeOK, RotationIsolated
<1>8. EffectsFollowIntents' BY DEF TypeOK, EffectsFollowIntents
<1>9. LateCallsRefused' BY DEF TypeOK, LateCallsRefused
<1>10. ReadsConcluded' BY DEF TypeOK, ReadsConcluded
<1>. QED BY <1>1, <1>2, <1>3, <1>4, <1>5, <1>6, <1>7, <1>8, <1>9, <1>10

\* The (gen, id) key: an UPDATE by id that can hit a pending row of the current
\* file hits that row and no other.
LEMMA UniqueMatch ==
    ASSUME LedgerInv, NEW c \in Calls, row[c].gen = gen, Pending(c)
    PROVE  Matching(row[c].id) = {c}
BY DEF LedgerInv, TypeOK, RowsKeyed, Matching

\* Resolving one pending row of the current file: what Finish and Reconcile do.
ResolveRow(c, v) ==
    /\ row' = [d \in Calls |-> IF d \in {c} THEN [row[d] EXCEPT !.status = v] ELSE row[d]]
    /\ Committed({c})

LEMMA FinishResolvesOwn ==
    ASSUME LedgerInv, NEW c \in Calls, Finish(c)
    PROVE  /\ Matching(intent[c]) = {c} /\ ResolveRow(c, verdict[c])
           /\ row[c].gen = gen /\ Pending(c)
<1>1. row[c].gen = gen /\ row[c].id = intent[c] /\ Pending(c)
  BY DEF LedgerInv, IntentsInHand, Finish
<1>2. Matching(intent[c]) = {c}
  BY <1>1, UniqueMatch
<1>. QED BY <1>1, <1>2 DEF Finish, ResolveRow

LEMMA FinishUnheardResolvesOwn ==
    ASSUME LedgerInv, NEW c \in Calls, FinishUnheard(c)
    PROVE  /\ Matching(intent[c]) = {c} /\ ResolveRow(c, verdict[c])
           /\ row[c].gen = gen /\ Pending(c)
<1>1. row[c].gen = gen /\ row[c].id = intent[c] /\ Pending(c)
  BY DEF LedgerInv, IntentsInHand, FinishUnheard
<1>2. Matching(intent[c]) = {c}
  BY <1>1, UniqueMatch
<1>. QED BY <1>1, <1>2 DEF FinishUnheard, ResolveRow

LEMMA ReconcileResolvesOne ==
    ASSUME LedgerInv, NEW c \in Calls, Reconcile(c)
    PROVE  ResolveRow(c, "unknown") /\ row[c].gen = gen /\ Pending(c)
<1>1. row[c].gen = gen /\ Pending(c)
  BY DEF Reconcile, Matching
<1>2. Matching(row[c].id) = {c}
  BY <1>1, UniqueMatch
<1>. QED BY <1>1, <1>2 DEF Reconcile, ResolveRow

LEMMA FinishPreserves ==
    ASSUME LedgerInv, NEW c \in Calls, Finish(c)
    PROVE  LedgerInv'
<1>0. ResolveRow(c, verdict[c]) /\ row[c].gen = gen /\ Pending(c)
  BY FinishResolvesOwn
<1> USE <1>0, CallsAssumption DEF LedgerInv, Finish, ResolveRow, Committed
<1>1. TypeOK' BY DEF TypeOK
<1>2. IntentsStayVisible' BY DEF TypeOK, IntentsStayVisible
<1>3. GuardExcludes' BY DEF TypeOK, GuardExcludes
<1>4. OwnersRun' BY DEF TypeOK, OwnersRun
<1>5. RowsKeyed' BY DEF TypeOK, RowsKeyed, IntentsInHand
<1>6. IntentsInHand' BY DEF TypeOK, IntentsInHand, RowsKeyed
<1>7. RotationIsolated' BY DEF TypeOK, RotationIsolated, IntentsInHand
<1>8. EffectsFollowIntents' BY DEF TypeOK, EffectsFollowIntents, IntentsInHand
<1>9. LateCallsRefused' BY DEF TypeOK, LateCallsRefused
<1>10. ReadsConcluded' BY DEF TypeOK, ReadsConcluded, IntentsInHand
<1>. QED BY <1>1, <1>2, <1>3, <1>4, <1>5, <1>6, <1>7, <1>8, <1>9, <1>10

LEMMA FinishUnheardPreserves ==
    ASSUME LedgerInv, NEW c \in Calls, FinishUnheard(c)
    PROVE  LedgerInv'
<1>0. ResolveRow(c, verdict[c]) /\ row[c].gen = gen /\ Pending(c)
  BY FinishUnheardResolvesOwn
<1> USE <1>0, CallsAssumption DEF LedgerInv, FinishUnheard, ResolveRow, Committed
<1>1. TypeOK' BY DEF TypeOK, OwnersRun
<1>2. IntentsStayVisible' BY DEF TypeOK, IntentsStayVisible
<1>3. GuardExcludes' BY DEF TypeOK, GuardExcludes
<1>4. OwnersRun' BY DEF TypeOK, OwnersRun
<1>5. RowsKeyed' BY DEF TypeOK, RowsKeyed, IntentsInHand
<1>6. IntentsInHand' BY DEF TypeOK, IntentsInHand, RowsKeyed
<1>7. RotationIsolated' BY DEF TypeOK, RotationIsolated, IntentsInHand
<1>8. EffectsFollowIntents' BY DEF TypeOK, EffectsFollowIntents, IntentsInHand
<1>9. LateCallsRefused' BY DEF TypeOK, LateCallsRefused
<1>10. ReadsConcluded' BY DEF TypeOK, ReadsConcluded, IntentsInHand
<1>. QED BY <1>1, <1>2, <1>3, <1>4, <1>5, <1>6, <1>7, <1>8, <1>9, <1>10

LEMMA ReconcileStrayPreserves ==
    ASSUME LedgerInv, NEW r \in stray, ReconcileStray(r)
    PROVE  LedgerInv'
<1> USE DEF LedgerInv, ReconcileStray
<1>1. TypeOK' BY DEF TypeOK
<1>2. IntentsStayVisible' BY DEF IntentsStayVisible
<1>3. RotationIsolated' BY DEF RotationIsolated
<1>. QED BY <1>1, <1>2, <1>3 DEF GuardExcludes, OwnersRun, RowsKeyed, IntentsInHand,
        EffectsFollowIntents, LateCallsRefused, ReadsConcluded

LEMMA ReconcilePreserves ==
    ASSUME LedgerInv, NEW c \in Calls, Reconcile(c)
    PROVE  LedgerInv'
<1>0. ResolveRow(c, "unknown") /\ row[c].gen = gen /\ Pending(c)
  BY ReconcileResolvesOne
<1> USE <1>0, CallsAssumption DEF LedgerInv, Reconcile, ResolveRow, Committed
<1>1. TypeOK' BY DEF TypeOK
<1>2. IntentsStayVisible' BY DEF TypeOK, IntentsStayVisible
<1>3. GuardExcludes' BY DEF TypeOK, GuardExcludes
<1>4. OwnersRun' BY DEF TypeOK, OwnersRun
<1>5. RowsKeyed'
  <2>1. \A d \in Calls : /\ row'[d].gen = row[d].gen /\ row'[d].id = row[d].id
                         /\ row'[d].status = "none" <=> row[d].status = "none"
    BY DEF TypeOK
  <2>2. phase[c] \notin Unrecorded BY DEF TypeOK
  <2>. QED BY <2>1, <2>2 DEF TypeOK, RowsKeyed
<1>6. IntentsInHand' BY DEF TypeOK, IntentsInHand, RowsKeyed
<1>7. RotationIsolated' BY DEF TypeOK, RotationIsolated, IntentsInHand
<1>8. EffectsFollowIntents' BY DEF TypeOK, EffectsFollowIntents
<1>9. LateCallsRefused' BY DEF TypeOK, LateCallsRefused
<1>10. ReadsConcluded' BY DEF TypeOK, ReadsConcluded
<1>. QED BY <1>1, <1>2, <1>3, <1>4, <1>5, <1>6, <1>7, <1>8, <1>9, <1>10

LEMMA NextPreserves == LedgerInv /\ [Next]_vars => LedgerInv'
<1> SUFFICES ASSUME LedgerInv, [Next]_vars PROVE LedgerInv'
  OBVIOUS
<1>1. ASSUME NEW p \in Procs, Boot(p) \/ Crash(p) \/ ReaderConnects(p) PROVE LedgerInv'
  BY <1>1, BootPreserves, CrashPreserves, ReaderConnectsPreserves
<1>2. ASSUME NEW c \in Calls, NEW p \in Procs, Start(c, p) PROVE LedgerInv'
  BY <1>2, StartPreserves
<1>3. ASSUME NEW c \in Calls, CallStep(c) PROVE LedgerInv'
  <2>1. CASE BeginWrite(c) \/ LogEntry(c) \/ AcquireGuard(c)
    BY <2>1, BeginWritePreserves, LogEntryPreserves, AcquireGuardPreserves
  <2>2. CASE KeepFile(c) \/ Checkpoint(c) \/ Rename(c) \/ Reopen(c)
    BY <2>2, KeepFilePreserves, CheckpointPreserves, RenamePreserves, ReopenPreserves
  <2>3. CASE Insert(c) \/ InsertFails(c) \/ InsertUnheard(c) \/ Send(c)
    BY <2>3, InsertPreserves, InsertFailsPreserves, InsertUnheardPreserves, SendPreserves
  <2>4. ASSUME NEW r \in Replies, Receive(c, r) \/ Decline(c, r) PROVE LedgerInv'
    BY <2>4, EndBodyPreserves DEF Receive, Decline
  <2>5. CASE Finish(c) \/ FinishFails(c) \/ FinishUnheard(c)
    BY <2>5, FinishPreserves, FinishFailsPreserves, FinishUnheardPreserves
  <2>. QED BY <1>3, <2>1, <2>2, <2>3, <2>4, <2>5 DEF CallStep
<1>4. ASSUME NEW c \in Calls, Reconcile(c) PROVE LedgerInv'
  BY <1>4, ReconcilePreserves
<1>5. ASSUME NEW r \in stray, ReconcileStray(r) PROVE LedgerInv'
  BY <1>5, ReconcileStrayPreserves
<1>6. CASE UNCHANGED vars
  BY <1>6 DEF vars, LedgerInv, TypeOK, IntentsStayVisible, GuardExcludes, OwnersRun,
     RowsKeyed, IntentsInHand, RotationIsolated, EffectsFollowIntents, LateCallsRefused,
     ReadsConcluded
<1>. QED BY <1>1, <1>2, <1>3, <1>4, <1>6, <1>5 DEF Next, Quiescent

\* The invariant that carries the others (see AuditLedger).
THEOREM LedgerInvariant == Spec => []LedgerInv
BY InitEstablishesInv, NextPreserves, PTL DEF Spec

-----------------------------------------------------------------------------
(* What follows from it.                                                   *)

\* Every variable keeps its type.
THEOREM TypeCorrectness == Spec => []TypeOK
<1>1. LedgerInv => TypeOK BY DEF LedgerInv
<1>. QED BY <1>1, LedgerInvariant, PTL

\* A pending intent is never rotated away.
THEOREM PendingNeverArchived == Spec => []IntentsStayVisible
<1>1. LedgerInv => IntentsStayVisible BY DEF LedgerInv
<1>. QED BY <1>1, LedgerInvariant, PTL

\* Nothing reaches Prism without a row, and no row is lost.
THEOREM EffectsAreRecorded == Spec => []EffectsOnRecord
<1>1. LedgerInv => EffectsOnRecord
  BY DEF LedgerInv, EffectsFollowIntents, EffectsOnRecord
<1>. QED BY <1>1, LedgerInvariant, PTL

\* A process that could not resolve an intent starts no further effect.
THEOREM WritesFailClosed == Spec => []FailClosed
<1>1. LedgerInv => FailClosed
  BY DEF LedgerInv, LateCallsRefused, FailClosed
<1>. QED BY <1>1, LedgerInvariant, PTL

\* An intent is resolved by its own call or by an operator afterwards.
THEOREM IntentsResolvedByTheirCall == Spec => ResolvedByItsCall
<1> DEFINE Resolution(c) ==
      Pending(c) /\ ~Pending(c)' =>
        \/ phase[c] = "finish" /\ phase'[c] = "done" /\ row'[c].status = verdict[c]
        \/ phase[c] \in Over /\ row'[c].status = "unknown"
<1>1. ASSUME LedgerInv, [Next]_vars, NEW c \in Calls PROVE Resolution(c)
  <2>1. CASE UNCHANGED row
    BY <2>1
  <2>2. ASSUME NEW d \in Calls, Insert(d) PROVE Resolution(c)
    BY <1>1, <2>2 DEF LedgerInv, TypeOK, RowsKeyed, Insert
  <2>3. ASSUME NEW d \in Calls, Finish(d) PROVE Resolution(c)
    <3>1. ResolveRow(d, verdict[d]) BY <1>1, <2>3, FinishResolvesOwn
    <3>2. CASE c = d BY <1>1, <2>3, <3>1, <3>2 DEF LedgerInv, TypeOK, Finish, ResolveRow
    <3>3. CASE c # d BY <1>1, <3>1, <3>3 DEF LedgerInv, TypeOK, ResolveRow
    <3>. QED BY <3>2, <3>3
  <2>6. ASSUME NEW d \in Calls, Reconcile(d) PROVE Resolution(c)
    <3>1. ResolveRow(d, "unknown") BY <1>1, <2>6, ReconcileResolvesOne
    <3>2. CASE c = d BY <1>1, <2>6, <3>1, <3>2 DEF LedgerInv, TypeOK, Reconcile, ResolveRow
    <3>3. CASE c # d BY <1>1, <3>1, <3>3 DEF LedgerInv, TypeOK, ResolveRow
    <3>. QED BY <3>2, <3>3
  <2>4. ASSUME NEW d \in Calls, InsertUnheard(d) PROVE Resolution(c)
    BY <1>1, <2>4 DEF LedgerInv, TypeOK, RowsKeyed, InsertUnheard
  <2>5. ASSUME NEW d \in Calls, FinishUnheard(d) PROVE Resolution(c)
    <3>1. ResolveRow(d, verdict[d]) BY <1>1, <2>5, FinishUnheardResolvesOwn
    <3>2. CASE c = d BY <1>1, <2>5, <3>1, <3>2 DEF LedgerInv, TypeOK, FinishUnheard, ResolveRow
    <3>3. CASE c # d BY <1>1, <3>1, <3>3 DEF LedgerInv, TypeOK, ResolveRow
    <3>. QED BY <3>2, <3>3
  <2>7. ASSUME NEW d \in Calls, CallStep(d),
               UNCHANGED row \/ Insert(d) \/ Finish(d) \/ InsertUnheard(d) \/ FinishUnheard(d)
        PROVE  Resolution(c)
    BY <2>1, <2>2, <2>3, <2>7, <2>4, <2>5
  <2>8. ASSUME NEW d \in Calls, CallStep(d)
        PROVE  UNCHANGED row \/ Insert(d) \/ Finish(d) \/ InsertUnheard(d) \/ FinishUnheard(d)
    BY <2>8 DEF CallStep, BeginWrite, LogEntry, AcquireGuard, KeepFile, Checkpoint, Rename,
       Reopen, InsertFails, Send, Receive, Decline, EndBody, FinishFails
  <2>9. ASSUME NEW d \in Calls, NEW p \in Procs, Boot(p) \/ Crash(p) \/ ReaderConnects(p)
                                                \/ Start(d, p)
        PROVE  Resolution(c)
    BY <2>1, <2>9 DEF Boot, Crash, ReaderConnects, Start
  <2>10. CASE UNCHANGED vars
    BY <2>1, <2>10 DEF vars
  <2>11. ASSUME NEW r \in stray, ReconcileStray(r) PROVE Resolution(c)
    BY <2>1, <2>11 DEF ReconcileStray
  <2>. QED BY <1>1, <2>6, <2>7, <2>8, <2>9, <2>10, <2>11 DEF Next, Quiescent
<1>2. LedgerInv /\ [Next]_vars => [\A c \in Calls : Resolution(c)]_vars
  BY <1>1
<1>. QED BY <1>2, LedgerInvariant, PTL DEF Spec, ResolvedByItsCall

-----------------------------------------------------------------------------
(* Availability: without a failure, two processes never block each other.  *)

LEMMA TableStaysInPlace == LedgerInv /\ TableInPlace /\ [Next]_vars => TableInPlace'
<1> SUFFICES ASSUME LedgerInv, TableInPlace, [Next]_vars, faults' = 0, crashes' = 0
             PROVE  /\ blocked' = {} /\ up' = ok'
                    /\ file' = "ready" \/ ok' = {} \/ \E c \in Calls : phase'[c] = "reopen"
  BY DEF TableInPlace
<1> DEFINE InPlace == file = "ready" \/ ok = {} \/ \E c \in Calls : phase[c] = "reopen"
<1>1. faults = 0 /\ crashes = 0
  <2>1. faults \in Nat /\ crashes \in Nat BY DEF LedgerInv, TypeOK
  <2>2. faults' = faults \/ faults' = faults + 1
    BY DEF Next, Quiescent, vars, CallStep, Boot, Crash, ReaderConnects, Start, BeginWrite,
       LogEntry, AcquireGuard, KeepFile, Checkpoint, Rename, Reopen, Insert, InsertFails,
       InsertUnheard, Send, Receive, Decline, EndBody, Finish, FinishFails, FinishUnheard,
       Reconcile, ReconcileStray
  <2>3. crashes' = crashes \/ crashes' = crashes + 1
    BY DEF Next, Quiescent, vars, CallStep, Boot, Crash, ReaderConnects, Start, BeginWrite,
       LogEntry, AcquireGuard, KeepFile, Checkpoint, Rename, Reopen, Insert, InsertFails,
       InsertUnheard, Send, Receive, Decline, EndBody, Finish, FinishFails, FinishUnheard,
       Reconcile, ReconcileStray
  <2>. QED BY <2>1, <2>2, <2>3
<1>2. blocked = {} /\ up = ok /\ InPlace
  BY <1>1 DEF TableInPlace
<1>3. ASSUME NEW p \in Procs, Boot(p) \/ Crash(p) \/ ReaderConnects(p) PROVE TableInPlace'
  <2>1. CASE Boot(p)
    BY <1>1, <1>2, <2>1 DEF Boot, TableInPlace
  <2>2. CASE Crash(p)
    BY <1>1, <2>2 DEF Crash
  <2>3. CASE ReaderConnects(p)
    BY <1>1, <1>2, <2>3 DEF ReaderConnects, TableInPlace
  <2>. QED BY <1>3, <2>1, <2>2, <2>3
<1>4. ASSUME NEW c \in Calls, NEW p \in Procs, Start(c, p) PROVE TableInPlace'
  BY <1>1, <1>2, <1>4 DEF Start, LedgerInv, TypeOK, TableInPlace
<1>5. ASSUME NEW c \in Calls, CallStep(c) PROVE TableInPlace'
  <2>1. CASE BeginWrite(c) \/ AcquireGuard(c) \/ KeepFile(c) \/ Checkpoint(c)
    BY <1>1, <1>2, <2>1 DEF BeginWrite, AcquireGuard, KeepFile, Checkpoint, LedgerInv,
       TypeOK, TableInPlace
  <2>2. CASE LogEntry(c)
    <3>1. owner[c] \in ok BY <1>2, <2>2 DEF LedgerInv, OwnersRun, LogEntry
    <3>. QED BY <1>1, <1>2, <2>2, <3>1 DEF LogEntry, LedgerInv, TypeOK, TableInPlace
  <2>3. CASE Rename(c) \/ Reopen(c)
    BY <1>1, <1>2, <2>3 DEF Rename, Reopen, LedgerInv, TypeOK, TableInPlace
  <2>4. CASE Insert(c) \/ Send(c) \/ Finish(c)
    BY <1>1, <1>2, <2>4 DEF Insert, Send, Finish, LedgerInv, TypeOK, TableInPlace
  <2>5. CASE InsertFails(c)
    <3>1. owner[c] \in ok /\ guard = c
      BY <2>5 DEF LedgerInv, OwnersRun, GuardExcludes, InsertFails
    <3>2. file = "ready"
      BY <1>2, <2>5, <3>1 DEF LedgerInv, GuardExcludes, InsertFails
    <3>. QED BY <1>1, <2>5, <3>2 DEF InsertFails
  <2>6. ASSUME NEW r \in Replies, Receive(c, r) \/ Decline(c, r) PROVE TableInPlace'
    BY <1>1, <1>2, <2>6 DEF Receive, Decline, EndBody, LedgerInv, TypeOK, TableInPlace
  <2>7. CASE FinishFails(c)
    <3>1. row[c].gen = gen /\ row[c].id = intent[c] /\ Pending(c) /\ file = "ready"
      BY <2>7 DEF LedgerInv, IntentsInHand, IntentsStayVisible, FinishFails
    <3>2. Cardinality(Matching(intent[c])) = 1
      BY <3>1, UniqueMatch, FS_Singleton
    <3>. QED BY <1>1, <2>7, <3>1, <3>2 DEF FinishFails
  <2>8. CASE InsertUnheard(c) \/ FinishUnheard(c)
    BY <1>1, <2>8 DEF InsertUnheard, FinishUnheard
  <2>. QED BY <1>5, <2>1, <2>2, <2>3, <2>4, <2>5, <2>6, <2>7, <2>8 DEF CallStep
<1>6. ASSUME NEW r \in stray, ReconcileStray(r) PROVE TableInPlace'
  BY <1>1, <1>2, <1>6 DEF ReconcileStray, TableInPlace
<1>7. ASSUME NEW c \in Calls, Reconcile(c) PROVE TableInPlace'
  BY <1>1, <1>2, <1>7 DEF Reconcile, LedgerInv, TypeOK, TableInPlace
<1>8. CASE UNCHANGED vars
  BY <1>2, <1>8 DEF vars
<1>. QED BY <1>3, <1>4, <1>5, <1>7, <1>8, <1>6 DEF Next, Quiescent, TableInPlace

\* No interleaving alone makes an engine refuse writes.
THEOREM BlockedOnlyWithCause == Spec => []BlockedNeedsCause
<1>1. Init => TableInPlace
  BY DEF Init, TableInPlace
<1>2. LedgerInv /\ TableInPlace => BlockedNeedsCause
  BY DEF LedgerInv, TypeOK, TableInPlace, BlockedNeedsCause
<1>. QED BY <1>1, <1>2, TableStaysInPlace, LedgerInvariant, PTL DEF Spec

-----------------------------------------------------------------------------
(* Truthfulness, while no body is interrupted.                             *)

LEMMA OkStaysConfirmed ==
    ASSUME "interrupted" \notin Replies
    PROVE  LedgerInv /\ OkConfirmed /\ [Next]_vars => OkConfirmed'
<1> SUFFICES ASSUME LedgerInv, OkConfirmed, [Next]_vars PROVE OkConfirmed'
  OBVIOUS
<1> USE DEF OkConfirmed, Calls
<1>1. CASE UNCHANGED <<verdict, row, applied>>
  BY <1>1
<1>2. ASSUME NEW c \in Calls, NEW p \in Procs, Start(c, p) PROVE OkConfirmed'
  BY <1>2, CallsAssumption DEF Start, LedgerInv, TypeOK
<1>3. ASSUME NEW c \in Calls, BeginWrite(c) \/ LogEntry(c) \/ InsertFails(c) PROVE OkConfirmed'
  BY <1>3 DEF BeginWrite, LogEntry, InsertFails, LogGivesUp, LedgerInv, TypeOK
<1>4. ASSUME NEW c \in Calls, Insert(c) \/ InsertUnheard(c) \/ Send(c) PROVE OkConfirmed'
  BY <1>4 DEF Insert, InsertUnheard, LogGivesUp, NewRow, Send, LedgerInv, TypeOK
<1>5. ASSUME NEW c \in Calls, NEW r \in Replies, Receive(c, r) \/ Decline(c, r)
      PROVE  OkConfirmed'
  BY <1>5 DEF Receive, Decline, EndBody, Conclusion, LedgerInv, TypeOK
<1>6. ASSUME NEW c \in Calls, Finish(c) \/ FinishUnheard(c) PROVE OkConfirmed'
  <2>1. ResolveRow(c, verdict[c]) BY <1>6, FinishResolvesOwn, FinishUnheardResolvesOwn
  <2>2. UNCHANGED <<verdict, applied>> /\ phase' = [phase EXCEPT ![c] = "done"]
    BY <1>6 DEF Finish, FinishUnheard
  <2>. QED BY <2>1, <2>2 DEF ResolveRow, LedgerInv, TypeOK
<1>7. ASSUME NEW c \in Calls, Reconcile(c) PROVE OkConfirmed'
  <2>1. ResolveRow(c, "unknown") BY <1>7, ReconcileResolvesOne
  <2>. QED BY <1>7, <2>1 DEF ResolveRow, Reconcile, LedgerInv, TypeOK
<1>8. ASSUME NEW c \in Calls,
             \/ AcquireGuard(c) \/ KeepFile(c) \/ Checkpoint(c) \/ Rename(c) \/ Reopen(c)
             \/ FinishFails(c)
      PROVE  OkConfirmed'
  BY <1>1, <1>8 DEF AcquireGuard, KeepFile, Checkpoint, Rename, Reopen, FinishFails
<1>9. ASSUME NEW r \in stray, ReconcileStray(r) PROVE OkConfirmed'
  BY <1>1, <1>9 DEF ReconcileStray
<1>10. ASSUME NEW p \in Procs, Boot(p) \/ Crash(p) \/ ReaderConnects(p) PROVE OkConfirmed'
  BY <1>1, <1>10 DEF Boot, Crash, ReaderConnects
<1>11. CASE UNCHANGED vars
  BY <1>1, <1>11 DEF vars
<1>. QED BY <1>2, <1>3, <1>4, <1>5, <1>6, <1>7, <1>8, <1>10, <1>11, <1>9
        DEF Next, Quiescent, CallStep

\* While nothing interrupts a tool body, a write audited "ok" was carried out.
THEOREM OkWritesWereApplied ==
    ASSUME "interrupted" \notin Replies
    PROVE  Spec => []OkMeansApplied
<1>1. Init => OkConfirmed
  BY DEF Init, OkConfirmed, Calls
<1>2. OkConfirmed => OkMeansApplied
  BY DEF OkConfirmed, OkMeansApplied
<1>. QED BY <1>1, <1>2, OkStaysConfirmed, LedgerInvariant, PTL DEF Spec

LEMMA ErrorsStayUntouched ==
    ASSUME "lost" \notin Replies
    PROVE  LedgerInv /\ ErrorsUntouched /\ [Next]_vars => ErrorsUntouched'
<1> SUFFICES ASSUME LedgerInv, ErrorsUntouched, [Next]_vars PROVE ErrorsUntouched'
  OBVIOUS
<1> USE DEF ErrorsUntouched, Calls
<1>1. CASE UNCHANGED <<phase, verdict, row, applied>>
  BY <1>1
<1>2. ASSUME NEW c \in Calls, NEW p \in Procs, Start(c, p) PROVE ErrorsUntouched'
  BY <1>2, CallsAssumption DEF Start, LedgerInv, TypeOK
<1>3. ASSUME NEW c \in Calls, BeginWrite(c) \/ LogEntry(c) \/ InsertFails(c)
      PROVE  ErrorsUntouched'
  BY <1>3 DEF BeginWrite, LogEntry, InsertFails, LogGivesUp, LedgerInv, TypeOK
<1>4. ASSUME NEW c \in Calls, Insert(c) \/ InsertUnheard(c) \/ Send(c)
      PROVE  ErrorsUntouched'
  BY <1>4 DEF Insert, InsertUnheard, LogGivesUp, NewRow, Send, LedgerInv, TypeOK, IntentsInHand
<1>5. ASSUME NEW c \in Calls, NEW r \in Replies, Receive(c, r) \/ Decline(c, r)
      PROVE  ErrorsUntouched'
  BY <1>5, BoundsAssumption DEF Receive, Decline, EndBody, Conclusion, LedgerInv, TypeOK
<1>6. ASSUME NEW c \in Calls, Finish(c) \/ FinishUnheard(c) PROVE ErrorsUntouched'
  <2>1. ResolveRow(c, verdict[c]) BY <1>6, FinishResolvesOwn, FinishUnheardResolvesOwn
  <2>2. UNCHANGED <<verdict, applied>> /\ phase' = [phase EXCEPT ![c] = "done"]
    BY <1>6 DEF Finish, FinishUnheard
  <2>. QED BY <2>1, <2>2 DEF ResolveRow, LedgerInv, TypeOK
<1>7. ASSUME NEW c \in Calls, Reconcile(c) PROVE ErrorsUntouched'
  <2>1. ResolveRow(c, "unknown") BY <1>7, ReconcileResolvesOne
  <2>. QED BY <1>7, <2>1 DEF ResolveRow, Reconcile, LedgerInv, TypeOK
<1>8. ASSUME NEW c \in Calls,
             \/ AcquireGuard(c) \/ KeepFile(c) \/ Checkpoint(c) \/ Rename(c) \/ Reopen(c)
             \/ FinishFails(c)
      PROVE  ErrorsUntouched'
  BY <1>8 DEF AcquireGuard, KeepFile, Checkpoint, Rename, Reopen, FinishFails,
     LedgerInv, TypeOK
<1>9. ASSUME NEW p \in Procs, Boot(p) \/ ReaderConnects(p) PROVE ErrorsUntouched'
  BY <1>1, <1>9 DEF Boot, ReaderConnects
<1>10. ASSUME NEW p \in Procs, Crash(p) PROVE ErrorsUntouched'
  BY <1>10 DEF Crash, LedgerInv, TypeOK
<1>11. ASSUME NEW r \in stray, ReconcileStray(r) PROVE ErrorsUntouched'
  BY <1>1, <1>11 DEF ReconcileStray
<1>12. CASE UNCHANGED vars
  BY <1>1, <1>12 DEF vars
<1>. QED BY <1>2, <1>3, <1>4, <1>5, <1>6, <1>7, <1>8, <1>9, <1>10, <1>12, <1>11
        DEF Next, Quiescent, CallStep

\* While no response is lost, a write audited "error" changed nothing at Prism.
THEOREM ErrorWritesWereRefused ==
    ASSUME "lost" \notin Replies
    PROVE  Spec => []ErrorMeansUntouched
<1>1. Init => ErrorsUntouched
  BY DEF Init, ErrorsUntouched, Calls
<1>2. ErrorsUntouched => ErrorMeansUntouched
  BY DEF ErrorsUntouched, ErrorMeansUntouched
<1>. QED BY <1>1, <1>2, ErrorsStayUntouched, LedgerInvariant, PTL DEF Spec

-----------------------------------------------------------------------------
(* Refinement: every step of the engine is a step of the ledger its          *)
(* documentation promises (WriteLedger), or leaves the ledger alone.         *)

\* The ledger depends on five variables only.
ledgerOf == <<row, gen, archives, lost, sent>>

LEMMA InitSimulates == Init => Ledger!LedgerInit
<1> SUFFICES ASSUME Init PROVE Ledger!LedgerInit
  OBVIOUS
<1>1. [c \in Calls |-> EntryOf(c)] = [c \in Calls |-> "none"]
  BY DEF Init, EntryOf
<1>2. Ledger!AllCalls = Calls
  BY DEF Ledger!AllCalls, Calls
<1>. QED BY <1>1, <1>2 DEF Ledger!LedgerInit, Init

LEMMA SameLedger == UNCHANGED ledgerOf => UNCHANGED Ledger!ledgerVars
BY DEF ledgerOf, Ledger!ledgerVars, EntryOf

\* Between the old file and the new one nothing is dropped.
LEMMA RenameSimulates ==
    ASSUME LedgerInv, NEW c \in Calls, Rename(c)
    PROVE  UNCHANGED Ledger!ledgerVars
<1>1. lost' = lost
  BY DEF LedgerInv, TypeOK, RotationIsolated, Rename
<1>2. ASSUME NEW d \in Calls PROVE EntryOf(d)' = EntryOf(d)
  <2>1. row[d].gen # gen + 1
    BY DEF LedgerInv, TypeOK, RowsKeyed
  <2>2. row'[d] = row[d] /\ archives' \cup {gen'} = archives \cup {gen, gen + 1}
    BY DEF Rename
  <2>. QED BY <1>1, <2>1, <2>2 DEF EntryOf
<1>. QED BY <1>2 DEF Ledger!ledgerVars, Rename

\* Retention expires resolved entries.
LEMMA ReopenSimulates ==
    ASSUME LedgerInv, NEW c \in Calls, Reopen(c)
    PROVE  \E S \in SUBSET Calls : Ledger!Expire(S)
<1> DEFINE Dropped == {d \in Calls : EntryOf(d) \in Verdicts /\ row[d].gen \notin archives' \cup {gen}}
<1>1. archives' \subseteq archives /\ UNCHANGED <<row, gen, lost, sent>>
  BY DEF Reopen, Kept
<1>2. ASSUME NEW d \in Calls
      PROVE  EntryOf(d)' = IF d \in Dropped THEN "expired" ELSE EntryOf(d)
  BY <1>1 DEF LedgerInv, TypeOK, EntryOf
<1>3. Ledger!Expire(Dropped)
  BY <1>1, <1>2 DEF Ledger!Expire, Ledger!AllCalls, Ledger!Verdicts, Calls
<1>. QED BY <1>3

\* The new row is an intent of a write, or the record of a call without one.
LEMMA InsertSimulates ==
    ASSUME LedgerInv, NEW c \in Calls, Insert(c)
    PROVE  \/ c \in Writes /\ Ledger!Intend(c)
           \/ \E v \in Verdicts : Ledger!Note(c, v)
<1>1. EntryOf(c) = "none" /\ c \notin sent
  BY DEF LedgerInv, TypeOK, RowsKeyed, EffectsFollowIntents, EntryOf, Insert
<1>2. UNCHANGED <<gen, archives, lost, sent>> /\ lost = {}
  BY DEF LedgerInv, EffectsFollowIntents, Insert
<1>3. row' = [row EXCEPT ![c] = NewRow(c)]
  BY DEF Insert
<1>4. ASSUME NEW d \in Calls, d # c PROVE EntryOf(d)' = EntryOf(d)
  BY <1>2, <1>3, <1>4 DEF LedgerInv, TypeOK, EntryOf
<1>5. CASE Strict(c)
  <2>1. EntryOf(c)' = "pending"
    BY <1>2, <1>3, <1>5 DEF LedgerInv, TypeOK, EntryOf, NewRow
  <2>2. c \in Writes
    BY <1>5 DEF LedgerInv, ReadsConcluded, Insert, Calls
  <2>3. Ledger!Intend(c)
    BY <1>1, <1>2, <1>4, <2>1 DEF Ledger!Intend
  <2>. QED BY <2>2, <2>3
<1>6. CASE ~Strict(c)
  <2>1. EntryOf(c)' = verdict[c] /\ verdict[c] \in Verdicts
    BY <1>2, <1>3, <1>6 DEF LedgerInv, TypeOK, EntryOf, NewRow
  <2>2. Ledger!Note(c, verdict[c])
    BY <1>1, <1>2, <1>4, <2>1 DEF Ledger!Note
  <2>. QED BY <2>1, <2>2
<1>. QED BY <1>5, <1>6

\* So is a row that was stored although its commit raised; a stray row is no entry.
LEMMA UnheardSimulates ==
    ASSUME LedgerInv, NEW c \in Calls, InsertUnheard(c)
    PROVE  UNCHANGED ledgerOf \/ \E v \in Verdicts : Ledger!Note(c, v)
<1>1. EntryOf(c) = "none" /\ c \notin sent
  BY DEF LedgerInv, TypeOK, RowsKeyed, EffectsFollowIntents, EntryOf, InsertUnheard
<1>2. UNCHANGED <<gen, archives, lost, sent>> /\ lost = {}
  BY DEF LedgerInv, EffectsFollowIntents, InsertUnheard
<1>3. CASE Strict(c)
  BY <1>2, <1>3 DEF InsertUnheard, ledgerOf
<1>4. CASE ~Strict(c)
  <2>1. row' = [row EXCEPT ![c] = NewRow(c)]
    BY <1>4 DEF InsertUnheard
  <2>2. ASSUME NEW d \in Calls, d # c PROVE EntryOf(d)' = EntryOf(d)
    BY <1>2, <2>1, <2>2 DEF LedgerInv, TypeOK, EntryOf
  <2>3. EntryOf(c)' = verdict[c] /\ verdict[c] \in Verdicts
    BY <1>2, <1>4, <2>1 DEF LedgerInv, TypeOK, EntryOf, NewRow
  <2>4. Ledger!Note(c, verdict[c])
    BY <1>1, <1>2, <2>2, <2>3 DEF Ledger!Note
  <2>. QED BY <2>3, <2>4
<1>. QED BY <1>3, <1>4

\* A request leaves under a pending intent.
LEMMA SendSimulates ==
    ASSUME LedgerInv, NEW c \in Calls, Send(c)
    PROVE  c \in Writes /\ Ledger!Transmit(c)
<1>1. c \in Writes /\ Pending(c) /\ c \notin lost /\ c \notin sent
  BY DEF LedgerInv, IntentsInHand, EffectsFollowIntents, ReadsConcluded, Send, Calls
<1>2. UNCHANGED <<row, gen, archives, lost>> /\ sent' = sent \cup {c}
  BY DEF Send
<1>3. EntryOf(c) = "pending"
  BY <1>1 DEF EntryOf
<1>4. ASSUME NEW d \in Calls PROVE EntryOf(d)' = EntryOf(d)
  BY <1>2 DEF EntryOf
<1>. QED BY <1>1, <1>2, <1>3, <1>4 DEF Ledger!Transmit

\* Resolving a pending row of the current file resolves one intent.
LEMMA ResolveSimulates ==
    ASSUME LedgerInv, NEW c \in Calls, NEW v \in Verdicts, ResolveRow(c, v),
           row[c].gen = gen, Pending(c), UNCHANGED <<gen, archives, lost, sent>>
    PROVE  c \in Writes /\ Ledger!Resolve(c, v)
<1>1. c \in Writes /\ c \notin lost
  BY DEF LedgerInv, EffectsFollowIntents, ReadsConcluded, Calls
<1>2. EntryOf(c) = "pending"
  BY <1>1 DEF EntryOf
<1>3. EntryOf(c)' = v
  BY <1>1 DEF LedgerInv, TypeOK, ResolveRow, EntryOf
<1>4. ASSUME NEW d \in Calls, d # c PROVE EntryOf(d)' = EntryOf(d)
  BY <1>4 DEF LedgerInv, TypeOK, ResolveRow, EntryOf
<1>. QED BY <1>1, <1>2, <1>3, <1>4 DEF Ledger!Resolve

LEMMA NextSimulates ==
    LedgerInv /\ [Next]_vars => [Ledger!LedgerNext]_(Ledger!ledgerVars)
<1> SUFFICES ASSUME LedgerInv, [Next]_vars
             PROVE  Ledger!LedgerNext \/ UNCHANGED Ledger!ledgerVars
  OBVIOUS
<1> USE DEF Ledger!LedgerNext, Ledger!AllCalls, Ledger!Verdicts
<1>1. CASE UNCHANGED ledgerOf
  BY <1>1, SameLedger
<1>2. ASSUME NEW c \in Calls, Reopen(c) PROVE Ledger!LedgerNext
  BY <1>2, ReopenSimulates DEF Calls
<1>3. ASSUME NEW c \in Calls, Insert(c) PROVE Ledger!LedgerNext
  BY <1>3, InsertSimulates DEF Calls
<1>4. ASSUME NEW c \in Calls, Send(c) PROVE Ledger!LedgerNext
  BY <1>4, SendSimulates
<1>5. ASSUME NEW c \in Calls, Finish(c) \/ FinishUnheard(c) PROVE Ledger!LedgerNext
  <2>1. verdict[c] \in Verdicts
    BY <1>5 DEF LedgerInv, TypeOK, IntentsInHand, Finish, FinishUnheard
  <2>2. UNCHANGED <<gen, archives, lost, sent>>
    BY <1>5 DEF Finish, FinishUnheard
  <2>3. c \in Writes /\ Ledger!Resolve(c, verdict[c])
    BY <1>5, <2>1, <2>2, FinishResolvesOwn, FinishUnheardResolvesOwn, ResolveSimulates
  <2>. QED BY <2>1, <2>3
<1>6. ASSUME NEW c \in Calls, Reconcile(c) PROVE Ledger!LedgerNext
  <2>1. c \in Writes /\ Ledger!Resolve(c, "unknown")
    BY <1>6, ReconcileResolvesOne, ResolveSimulates DEF Reconcile
  <2>. QED BY <2>1
<1>7. ASSUME NEW c \in Calls, CallStep(c) PROVE Ledger!LedgerNext \/ UNCHANGED Ledger!ledgerVars
  <2>1. \/ UNCHANGED ledgerOf
        \/ Rename(c) \/ Reopen(c) \/ Insert(c) \/ Send(c) \/ Finish(c)
        \/ InsertUnheard(c) \/ FinishUnheard(c)
    BY <1>7 DEF CallStep, BeginWrite, LogEntry, AcquireGuard, KeepFile, Checkpoint,
       InsertFails, Receive, Decline, EndBody, FinishFails, ledgerOf
  <2>2. CASE InsertUnheard(c)
    BY <1>1, <2>2, UnheardSimulates DEF Calls
  <2>. QED BY <1>1, <1>2, <1>3, <1>4, <1>5, <2>1, <2>2, RenameSimulates
<1>8. ASSUME NEW d \in Calls, NEW p \in Procs,
             Boot(p) \/ Crash(p) \/ ReaderConnects(p) \/ Start(d, p) \/ UNCHANGED vars
      PROVE  UNCHANGED ledgerOf
  BY <1>8 DEF Boot, Crash, ReaderConnects, Start, vars, ledgerOf
<1>9. ASSUME NEW p \in Procs, Boot(p) \/ Crash(p) \/ ReaderConnects(p) PROVE UNCHANGED ledgerOf
  BY <1>9 DEF Boot, Crash, ReaderConnects, ledgerOf
<1>10. CASE UNCHANGED vars
  BY <1>10, <1>1 DEF vars, ledgerOf
<1>11. ASSUME NEW r \in stray, ReconcileStray(r) PROVE UNCHANGED ledgerOf
  BY <1>11 DEF ReconcileStray, ledgerOf
<1>. QED BY <1>1, <1>6, <1>7, <1>8, <1>9, <1>10, <1>11 DEF Next, Quiescent

\* The audit engine implements the ledger it promises.
THEOREM EngineImplementsLedger == Spec => ImplementsLedger
BY InitSimulates, NextSimulates, LedgerInvariant, PTL
   DEF Spec, ImplementsLedger, Ledger!LedgerSpec

=============================================================================
