------------------------- MODULE GovernedCallProofs -------------------------
(***************************************************************************)
(* Proofs about governed calls, for any calls, threads, processes, asks    *)
(* and configurations.  CallInv is inductive: a thread serves one call,    *)
(* so what is stashed on it belongs to the call that will take it; the tag *)
(* a call holds stands for the address its guard judged; and a call has a  *)
(* row and an exit status only once it has ended.                          *)
(*                                                                         *)
(* A replay goes home (ReplaysGoHome) for a reason of its own: what a call *)
(* found under a stable target, any process found or will find there,      *)
(* since wizards that met no other replace the file by one that follows it *)
(* and every process goes by a file there was (TargetsInv).                *)
(***************************************************************************)
EXTENDS GovernedCall, WellFoundedInduction, TLAPS

\* The next version is odd if this one is even.
LEMMA Parity == \A n \in Nat : (n + 1) % 2 = 0 <=> n % 2 # 0
  OBVIOUS

\* A VM that moves has another version and the other address.
LEMMA MoveKeepsVersions ==
  ASSUME CallInv, NEW h \in Hosts, Move(h) PROVE Versions'
<1>1. nic \in [Hosts -> {"own", "other"}] /\ moves \in [Hosts -> 0 .. MaxMoves]
  BY DEF CallInv, CallTypeOK
<1>2. moves[h] \in Nat
  BY <1>1, CallAssumption
<1>3. ASSUME NEW g \in Hosts PROVE (nic[g] = "own" <=> OwnAt(g, moves[g]))'
  <2>1. CASE g = h
    <3>1. moves'[g] = moves[h] + 1 /\ (nic'[g] = "own" <=> nic[h] # "own")
      BY <1>1, <2>1 DEF Move
    <3>2. OwnAt(h, moves[h] + 1) <=> ~OwnAt(h, moves[h])
      BY <1>2, Parity DEF OwnAt
    <3>3. nic[h] = "own" <=> OwnAt(h, moves[h])
      BY DEF CallInv, Versions
    <3>. QED BY <2>1, <3>1, <3>2, <3>3 DEF OwnAt
  <2>2. CASE g # h
    BY <1>1, <2>2 DEF CallInv, Versions, Move, OwnAt
  <2>. QED BY <2>1, <2>2
<1>. QED BY <1>3 DEF Versions

\* Nothing has happened at first.
LEMMA CallInvInit == ASSUME Init PROVE CallInv
<1>1. CallTypeOK
  BY CallAssumption DEF Init, CallTypeOK, Places, Verdicts, AllAsks, Tools, Nothing, Running, NoTag
<1>2. Serial /\ Nesting /\ StashIsOwn
  BY CallAssumption DEF Init, Serial, Nesting, StashIsOwn, Busy, Nothing
<1>3. Versions /\ TagsJudge
  <2>1. \A h \in Hosts : OwnAt(h, 0) <=> h \in Reporting
    BY DEF OwnAt
  <2>. QED BY <2>1 DEF Init, Versions, TagsJudge, Untagged
<1>4. VerdictsKept /\ PriorIsOwn /\ VerdictsAgree /\ NoSelfLockout
  BY DEF Init, VerdictsKept, PriorIsOwn, VerdictsAgree, RowIsTrue, ExitIsRow, NoSelfLockout
<1>. QED BY <1>1, <1>2, <1>3, <1>4 DEF CallInv

\* Types.  A call reads the tag of a VM it reached, a replay carries the target of
\* a call there was.
LEMMA TypeStep ==
  ASSUME CallInv, [Next]_vars PROVE CallTypeOK'
<1>1. ASSUME NEW c \in Calls, NEW t \in Threads, NEW a \in Asks, Invoke(c, t, a) PROVE CallTypeOK'
  <2>1. pc' \in [Calls -> Places]
    BY <1>1, CallAssumption DEF CallInv, CallTypeOK, Places, Invoke, StashCleared,
      Goto, historyVars, recordVars, callVars, worldVars
  <2>2. ask' \in [Calls -> AllAsks]
    BY <1>1, CallAssumption DEF CallInv, CallTypeOK, AllAsks, Tools, Invoke,
      StashCleared, Goto, historyVars, recordVars, callVars, worldVars
  <2>3. thread' \in [Calls -> Threads \cup {NoThread}]
    BY <1>1, CallAssumption DEF CallInv, CallTypeOK, Invoke, StashCleared, Goto,
      historyVars, recordVars, callVars, worldVars
  <2>4. result' \in [Calls -> Verdicts]
    BY <1>1, CallAssumption DEF CallInv, CallTypeOK, Verdicts, Invoke, StashCleared,
      Goto, historyVars, recordVars, callVars, worldVars
  <2>5. row' \in [Calls -> Verdicts \cup {"budget_exceeded"}]
    BY <1>1, CallAssumption DEF CallInv, CallTypeOK, Verdicts, Invoke, StashCleared,
      Goto, historyVars, recordVars, callVars, worldVars
  <2>6. exit' \in [Calls -> 0 .. Running]
    BY <1>1, CallAssumption DEF CallInv, CallTypeOK, Running, Invoke, StashCleared,
      Goto, historyVars, recordVars, callVars, worldVars
  <2>7. slot' \in [Threads -> Calls \cup {NoCall}]
    BY <1>1, CallAssumption DEF CallInv, CallTypeOK, Invoke, StashCleared, Goto,
      historyVars, recordVars, callVars, worldVars
  <2>8. UNCHANGED <<inner, reach, etag, token, spent, landed, unheard, fatal, refused,
    blind, nic, moves>>
    BY <1>1 DEF Invoke, StashCleared, Goto, historyVars, recordVars, callVars,
      worldVars
  <2>. QED BY <2>1, <2>2, <2>3, <2>4, <2>5, <2>6, <2>7, <2>8 DEF CallInv, CallTypeOK
<1>2. ASSUME NEW c \in Calls, LoadBook(c) PROVE CallTypeOK'
  BY <1>2, CallAssumption DEF CallInv, CallTypeOK, Places, Verdicts, Nesting, AllAsks,
    Tools, Running, NoTag, LoadBook, Goto, Answer, targetsVars, callVars, recordVars, worldVars,
    historyVars
<1>3. ASSUME NEW c \in Calls, InstallBook(c) PROVE CallTypeOK'
  BY <1>3, CallAssumption DEF CallInv, CallTypeOK, Places, Verdicts, Nesting, AllAsks,
    Tools, Running, NoTag, InstallBook, Goto, targetsVars, callVars, recordVars,
    worldVars, historyVars
<1>4. ASSUME NEW c \in Calls, Connect(c) PROVE CallTypeOK'
  BY <1>4, CallAssumption DEF CallInv, CallTypeOK, Places, Verdicts, Nesting, AllAsks,
    Tools, Running, NoTag, Connect, Goto, Answer, targetsVars, callVars, recordVars,
    worldVars, historyVars
<1>5. ASSUME NEW c \in Calls, Read(c) PROVE CallTypeOK'
  <2>1. pc' \in [Calls -> Places]
    BY <1>5, CallAssumption DEF CallInv, CallTypeOK, Places, Read, Goto, Answer,
      historyVars, recordVars, callVars, worldVars
  <2>2. etag' \in [Calls -> 0 .. NoTag]
    BY <1>5, CallAssumption DEF CallInv, CallTypeOK, TagsJudge, NoTag, Read, Goto, Answer,
      historyVars, recordVars, callVars, worldVars
  <2>3. result' \in [Calls -> Verdicts]
    BY <1>5, CallAssumption DEF CallInv, CallTypeOK, Verdicts, Read, Goto, Answer,
      historyVars, recordVars, callVars, worldVars
  <2>4. refused' \subseteq Calls /\ blind' \subseteq Calls
    BY <1>5, CallAssumption DEF CallInv, CallTypeOK, Read, Goto, Answer,
      historyVars, recordVars, callVars, worldVars
  <2>5. UNCHANGED <<ask, thread, inner, reach, row, exit, token, spent, slot, landed,
    unheard, fatal, nic, moves>>
    BY <1>5 DEF Read, Goto, Answer, historyVars, recordVars, callVars, worldVars
  <2>. QED BY <2>1, <2>2, <2>3, <2>4, <2>5 DEF CallInv, CallTypeOK
<1>6. ASSUME NEW c \in Calls, ReadFails(c) PROVE CallTypeOK'
  BY <1>6, CallAssumption DEF CallInv, CallTypeOK, Places, Verdicts, Nesting, AllAsks,
    Tools, Running, NoTag, ReadFails, Goto, Answer, Unheard, targetsVars, callVars,
    recordVars, worldVars, historyVars
<1>7. ASSUME NEW c \in Calls, Land(c) PROVE CallTypeOK'
  <2>1. pc' \in [Calls -> Places]
    BY <1>7, CallAssumption DEF CallInv, CallTypeOK, Places, Land, Goto, Answer,
      Unheard, Stash, historyVars, recordVars, callVars, worldVars
  <2>2. result' \in [Calls -> Verdicts]
    BY <1>7, CallAssumption DEF CallInv, CallTypeOK, Verdicts, Land, Goto, Answer,
      Unheard, Stash, historyVars, recordVars, callVars, worldVars
  <2>3. slot' \in [Threads -> Calls \cup {NoCall}]
    BY <1>7, CallAssumption DEF CallInv, CallTypeOK, Land, Goto, Answer, Unheard,
      Stash, historyVars, recordVars, callVars, worldVars
  <2>4. landed' \subseteq Calls /\ unheard' \subseteq Calls /\ fatal' \subseteq Calls
    BY <1>7, CallAssumption DEF CallInv, CallTypeOK, Land, Goto, Answer, Unheard,
      Stash, historyVars, recordVars, callVars, worldVars
  <2>5. UNCHANGED <<ask, thread, inner, reach, etag, row, exit, token, spent, refused,
    blind, nic, moves>>
    BY <1>7 DEF Land, Goto, Answer, Unheard, Stash, historyVars, recordVars,
      callVars, worldVars
  <2>. QED BY <2>1, <2>2, <2>3, <2>4, <2>5 DEF CallInv, CallTypeOK
<1>8. ASSUME NEW c \in Calls, Fail(c) PROVE CallTypeOK'
  <2>1. pc' \in [Calls -> Places]
    BY <1>8, CallAssumption DEF CallInv, CallTypeOK, Places, Fail, Goto, Answer,
      Unheard, Stash, historyVars, recordVars, callVars, worldVars
  <2>2. result' \in [Calls -> Verdicts]
    BY <1>8, CallAssumption DEF CallInv, CallTypeOK, Verdicts, Fail, Goto, Answer,
      Unheard, Stash, historyVars, recordVars, callVars, worldVars
  <2>3. slot' \in [Threads -> Calls \cup {NoCall}]
    BY <1>8, CallAssumption DEF CallInv, CallTypeOK, Fail, Goto, Answer, Unheard,
      Stash, historyVars, recordVars, callVars, worldVars
  <2>4. landed' \subseteq Calls /\ unheard' \subseteq Calls /\ fatal' \subseteq Calls
    BY <1>8, CallAssumption DEF CallInv, CallTypeOK, Fail, Goto, Answer, Unheard,
      Stash, historyVars, recordVars, callVars, worldVars
  <2>5. UNCHANGED <<ask, thread, inner, reach, etag, row, exit, token, spent, refused,
    blind, nic, moves>>
    BY <1>8 DEF Fail, Goto, Answer, Unheard, Stash, historyVars, recordVars,
      callVars, worldVars
  <2>. QED BY <2>1, <2>2, <2>3, <2>4, <2>5 DEF CallInv, CallTypeOK
<1>9. ASSUME NEW c \in Calls, LookUp(c) PROVE CallTypeOK'
  <2>1. pc' \in [Calls -> Places]
    BY <1>9, CallAssumption DEF CallInv, CallTypeOK, Places, LookUp, Goto, Answer,
      historyVars, recordVars, callVars, worldVars
  <2>2. result' \in [Calls -> Verdicts]
    BY <1>9, CallAssumption DEF CallInv, CallTypeOK, Verdicts, LookUp, Goto, Answer,
      historyVars, recordVars, callVars, worldVars
  <2>3. UNCHANGED <<ask, thread, inner, reach, etag, row, exit, token, spent, slot,
    landed, unheard, fatal, refused, blind, nic, moves>>
    BY <1>9 DEF LookUp, Goto, Answer, historyVars, recordVars, callVars, worldVars
  <2>. QED BY <2>1, <2>2, <2>3 DEF CallInv, CallTypeOK
<1>10. ASSUME NEW c \in Calls, NEW i \in Calls, Dispatch(c, i) PROVE CallTypeOK'
  <2>1. pc' \in [Calls -> Places]
    BY <1>10, CallAssumption DEF CallInv, CallTypeOK, Places, Dispatch,
      StashCleared, historyVars, recordVars, callVars, worldVars
  <2>2. ask' \in [Calls -> AllAsks]
    BY <1>10, CallAssumption DEF CallInv, CallTypeOK, AllAsks, Tools, ReplayTarget,
      Nesting, Dispatch, StashCleared, historyVars, recordVars, callVars, worldVars
  <2>3. thread' \in [Calls -> Threads \cup {NoThread}]
    BY <1>10, CallAssumption DEF CallInv, CallTypeOK, Dispatch, StashCleared,
      historyVars, recordVars, callVars, worldVars
  <2>4. inner' \in [Calls -> Calls \cup {NoCall}]
    BY <1>10, CallAssumption DEF CallInv, CallTypeOK, Dispatch, StashCleared,
      historyVars, recordVars, callVars, worldVars
  <2>5. result' \in [Calls -> Verdicts]
    BY <1>10, CallAssumption DEF CallInv, CallTypeOK, Verdicts, Dispatch,
      StashCleared, historyVars, recordVars, callVars, worldVars
  <2>6. row' \in [Calls -> Verdicts \cup {"budget_exceeded"}]
    BY <1>10, CallAssumption DEF CallInv, CallTypeOK, Verdicts, Dispatch,
      StashCleared, historyVars, recordVars, callVars, worldVars
  <2>7. slot' \in [Threads -> Calls \cup {NoCall}]
    BY <1>10, CallAssumption DEF CallInv, CallTypeOK, Dispatch, StashCleared,
      historyVars, recordVars, callVars, worldVars
  <2>8. UNCHANGED <<reach, etag, exit, token, spent, landed, unheard, fatal, refused,
    blind, nic, moves>>
    BY <1>10 DEF Dispatch, StashCleared, historyVars, recordVars, callVars,
      worldVars
  <2>. QED BY <2>1, <2>2, <2>3, <2>4, <2>5, <2>6, <2>7, <2>8 DEF CallInv, CallTypeOK
<1>11. ASSUME NEW c \in Calls, Conclude(c) PROVE CallTypeOK'
  BY <1>11, CallAssumption DEF CallInv, CallTypeOK, Places, Verdicts, Nesting,
    AllAsks, Tools, Running, NoTag, Conclude, Passed, targetsVars, callVars, recordVars,
    worldVars, historyVars
<1>12. ASSUME NEW c \in Calls, Return(c) PROVE CallTypeOK'
  <2>1. pc' \in [Calls -> Places]
    BY <1>12, CallAssumption DEF CallInv, CallTypeOK, Places, Nested, Return, Goto,
      RecordUndo, historyVars, recordVars, callVars, worldVars
  <2>2. row' \in [Calls -> Verdicts \cup {"budget_exceeded"}]
    BY <1>12, CallAssumption DEF CallInv, CallTypeOK, Verdicts, Audited, Return,
      Goto, RecordUndo, historyVars, recordVars, callVars, worldVars
  <2>3. exit' \in [Calls -> 0 .. Running]
    BY <1>12, CallAssumption DEF CallInv, CallTypeOK, Running, ExitStatus, Checked,
      Return, Goto, RecordUndo, historyVars, recordVars, callVars, worldVars
  <2>4. token' \in [Calls -> Calls \cup {NoCall}]
    BY <1>12, CallAssumption DEF CallInv, CallTypeOK, Reversible, Serial, Busy,
      Return, Goto, RecordUndo, historyVars, recordVars, callVars, worldVars
  <2>5. slot' \in [Threads -> Calls \cup {NoCall}]
    BY <1>12, CallAssumption DEF CallInv, CallTypeOK, Return, Goto, RecordUndo,
      historyVars, recordVars, callVars, worldVars
  <2>6. UNCHANGED <<ask, thread, inner, reach, etag, result, spent, landed, unheard,
    fatal, refused, blind, nic, moves>>
    BY <1>12 DEF Return, Goto, RecordUndo, historyVars, recordVars, callVars,
      worldVars
  <2>. QED BY <2>1, <2>2, <2>3, <2>4, <2>5, <2>6 DEF CallInv, CallTypeOK
<1>13. ASSUME NEW h \in Hosts, Move(h) PROVE CallTypeOK'
  BY <1>13, CallAssumption DEF CallInv, CallTypeOK, Places, Verdicts, Nesting,
    AllAsks, Tools, Running, NoTag, Move, targetsVars, callVars, recordVars, worldVars,
    historyVars
<1>14. CASE Setup \/ Quiescent \/ UNCHANGED vars
  BY <1>14 DEF CallInv, CallTypeOK, Places, Verdicts, Nesting, AllAsks, Tools,
    Running, NoTag, Setup, Quiescent, vars, targetsVars, callVars, recordVars, worldVars,
    historyVars
<1>. QED BY <1>1, <1>2, <1>3, <1>4, <1>5, <1>6, <1>7, <1>8, <1>9, <1>10, <1>11, <1>12,
    <1>13, <1>14 DEF Next

\* A step of a body moves its call and nothing else that threads depend on.
LEMMA BodySteps ==
  ASSUME CallInv, NEW c \in Calls,
         \/ LoadBook(c) \/ InstallBook(c) \/ Connect(c) \/ Read(c) \/ ReadFails(c)
         \/ Land(c) \/ Fail(c) \/ LookUp(c)
  PROVE  /\ UNCHANGED <<ask, thread, inner>>
         /\ pc[c] \in {"body", "loading", "read", "hold"}
         /\ \E at \in {"body", "loading", "read", "hold", "dispatch", "answered"} :
               pc' = [pc EXCEPT ![c] = at]
<1>1. CASE LoadBook(c) \/ InstallBook(c)
  BY <1>1 DEF LoadBook, InstallBook, Goto, Answer
<1>2. CASE Connect(c)
  BY <1>2 DEF Connect, Goto, Answer
<1>3. CASE Read(c)
  <2>1. pc' = [pc EXCEPT ![c] = "answered"] \/ pc' = [pc EXCEPT ![c] = "hold"]
    BY <1>3 DEF Read, Goto, Answer
  <2>. QED BY <1>3, <2>1 DEF Read
<1>4. CASE ReadFails(c)
  BY <1>4 DEF ReadFails, Goto, Answer
<1>5. CASE Land(c)
  BY <1>5 DEF Land, Goto, Answer
<1>6. CASE Fail(c)
  BY <1>6 DEF Fail, Goto, Answer
<1>7. CASE LookUp(c)
  <2>1. pc' = [pc EXCEPT ![c] = "answered"] \/ pc' = [pc EXCEPT ![c] = "dispatch"]
    BY <1>7 DEF LookUp, Goto, Answer
  <2>. QED BY <1>7, <2>1 DEF LookUp
<1>. QED BY <1>1, <1>2, <1>3, <1>4, <1>5, <1>6, <1>7

\* The inner call takes the thread of the undo_apply that waits for it.
LEMMA DispatchStep ==
  ASSUME CallInv, NEW a \in Calls, NEW i \in Calls, Dispatch(a, i)
  PROVE  /\ a # i /\ pc[a] = "dispatch" /\ pc[i] = "idle"
         /\ pc'[a] = "waiting" /\ pc'[i] \in {"body", "returned"}
         /\ \A c \in Calls \ {a, i} : pc'[c] = pc[c]
         /\ thread'[i] = thread[a] /\ \A c \in Calls \ {i} : thread'[c] = thread[c]
         /\ inner'[a] = i /\ \A c \in Calls \ {a} : inner'[c] = inner[c]
         /\ \A c \in Calls \ {i} : ask'[c] = ask[c]
         /\ slot' = [slot EXCEPT ![thread[a]] = NoCall]
<1>1. a # i /\ pc[a] = "dispatch" /\ pc[i] = "idle"
  BY DEF Dispatch
<1>2. \/ pc' = [pc EXCEPT ![a] = "waiting", ![i] = "body"]
      \/ pc' = [pc EXCEPT ![a] = "waiting", ![i] = "returned"]
  BY DEF Dispatch
<1>3. /\ thread' = [thread EXCEPT ![i] = thread[a]] /\ inner' = [inner EXCEPT ![a] = i]
      /\ slot' = [slot EXCEPT ![thread[a]] = NoCall]
  BY DEF Dispatch, StashCleared
<1>4. \A c \in Calls \ {i} : ask'[c] = ask[c]
  BY DEF Dispatch, CallInv, CallTypeOK
<1>. QED BY <1>1, <1>2, <1>3, <1>4 DEF CallInv, CallTypeOK

\* The undo_apply goes on when its inner call is over.
LEMMA ConcludeStep ==
  ASSUME CallInv, NEW a \in Calls, Conclude(a)
  PROVE  /\ inner[a] \in Calls /\ inner[a] # a
         /\ pc[a] = "waiting" /\ pc[inner[a]] = "returned"
         /\ pc'[a] = "answered" /\ pc'[inner[a]] = "over"
         /\ \A c \in Calls \ {a, inner[a]} : pc'[c] = pc[c]
         /\ UNCHANGED <<ask, thread, inner, slot>>
<1>1. pc[a] = "waiting" /\ pc[inner[a]] = "returned" /\ UNCHANGED <<ask, thread, inner, slot>>
  BY DEF Conclude
<1>2. inner[a] \in Calls /\ inner[a] # a
  BY <1>1 DEF CallInv, Nesting
<1>3. pc' = [pc EXCEPT ![a] = "answered", ![inner[a]] = "over"]
  BY DEF Conclude
<1>. QED BY <1>1, <1>2, <1>3 DEF CallInv, CallTypeOK

\* A thread stays with its call: Invoke asks for a free one, and Dispatch for the
\* thread of an undo_apply that waits from then on.
LEMMA SerialStep ==
  ASSUME CallInv, [Next]_vars PROVE Serial'
<1>1. ASSUME NEW c \in Calls, NEW t \in Threads, NEW a \in Asks, Invoke(c, t, a) PROVE Serial'
  BY <1>1, CallAssumption DEF CallInv, CallTypeOK, Serial, Nesting, Busy, FreeThread,
    Places, Invoke, Goto
<1>2. ASSUME NEW c \in Calls,
             \/ LoadBook(c) \/ InstallBook(c) \/ Connect(c) \/ Read(c) \/ ReadFails(c)
             \/ Land(c) \/ Fail(c) \/ LookUp(c)
      PROVE  Serial'
  <2>1. PICK at \in {"body", "loading", "read", "hold", "dispatch", "answered"} :
             pc' = [pc EXCEPT ![c] = at]
    BY <1>2, BodySteps
  <2>2. UNCHANGED <<thread, inner>> /\ pc[c] \in {"body", "loading", "read", "hold"}
    BY <1>2, BodySteps
  <2>3. pc'[c] = at /\ \A d \in Calls : d # c => pc'[d] = pc[d]
    BY <2>1 DEF CallInv, CallTypeOK
  <2>4. \A d \in Calls : (Busy(d)' <=> Busy(d)) /\ (pc'[d] = "waiting" <=> pc[d] = "waiting")
    BY <2>2, <2>3 DEF Busy
  <2>. QED BY <2>2, <2>4 DEF CallInv, Serial
<1>3. ASSUME NEW c \in Calls, NEW i \in Calls, Dispatch(c, i) PROVE Serial'
  <2>1. Busy(c) /\ \A d \in Calls \ {i} : (Busy(d)' <=> Busy(d)) /\ thread'[d] = thread[d]
    BY <1>3, DispatchStep DEF Busy
  <2>2. thread[c] \in Threads /\ \A d \in Calls \ {c} : Busy(d) => thread[d] # thread[c]
    <3>1. pc[c] = "dispatch" /\ ask[c].tool = "apply"
      BY <1>3, DispatchStep DEF CallInv, Nesting
    <3>2. \A d \in Calls : pc[d] = "waiting" => inner[d] # c
      BY <3>1, CallAssumption DEF CallInv, Nesting
    <3>. QED BY <2>1, <3>1, <3>2 DEF CallInv, Serial
  <2>3. \A d \in Calls \ {i} : Busy(d)' => thread'[d] \in Threads
    BY <2>1 DEF CallInv, Serial
  <2>4. \A d, e \in Calls \ {i} : d # e /\ Busy(d)' /\ Busy(e)' /\ thread'[d] = thread'[e] =>
            /\ d # c /\ e # c
            /\ (pc[d] = "waiting" /\ inner[d] = e) \/ (pc[e] = "waiting" /\ inner[e] = d)
    <3> SUFFICES ASSUME NEW d \in Calls \ {i}, NEW e \in Calls \ {i}, d # e,
                        Busy(d)', Busy(e)', thread'[d] = thread'[e]
                 PROVE  /\ d # c /\ e # c
                        /\ \/ pc[d] = "waiting" /\ inner[d] = e
                           \/ pc[e] = "waiting" /\ inner[e] = d
      OBVIOUS
    <3>1. Busy(d) /\ Busy(e) /\ thread[d] = thread[e]
      BY <2>1
    <3>2. d # c /\ e # c
      BY <2>2, <3>1
    <3>3. \/ pc[d] = "waiting" /\ inner[d] = e
          \/ pc[e] = "waiting" /\ inner[e] = d
      BY <3>1 DEF CallInv, Serial
    <3>. QED BY <3>2, <3>3
  <2>5. \A d \in Calls \ {i} : Busy(d)' /\ thread'[d] = thread'[i] => d = c
    BY <1>3, <2>1, <2>2, DispatchStep
  <2>6. /\ thread'[i] = thread[c] /\ pc'[c] = "waiting" /\ inner'[c] = i
        /\ \A d \in Calls \ {c, i} : pc'[d] = pc[d] /\ inner'[d] = inner[d]
    BY <1>3, DispatchStep
  <2>. QED BY <2>2, <2>3, <2>4, <2>5, <2>6 DEF Serial
<1>4. ASSUME NEW c \in Calls, Conclude(c) PROVE Serial'
  <2>1. /\ UNCHANGED <<thread, inner>>
        /\ \A d \in Calls : Busy(d)' => Busy(d) /\ d # inner[c]
    BY <1>4, ConcludeStep DEF Busy
  <2>2. \A d \in Calls : pc[d] = "waiting" => pc'[d] = "waiting" \/ d = c
    BY <1>4, ConcludeStep
  <2>. QED BY <2>1, <2>2 DEF CallInv, Serial
<1>5. ASSUME NEW c \in Calls, Return(c) PROVE Serial'
  <2>1. /\ UNCHANGED <<thread, inner>> /\ pc[c] = "answered"
        /\ pc'[c] \in {"returned", "over"}
        /\ \A d \in Calls : d # c => pc'[d] = pc[d]
    BY <1>5 DEF CallInv, CallTypeOK, Return, Goto
  <2>2. \A d \in Calls : (Busy(d)' => Busy(d)) /\ (pc'[d] = "waiting" <=> pc[d] = "waiting")
    BY <2>1 DEF Busy
  <2>. QED BY <2>1, <2>2 DEF CallInv, Serial
<1>6. ASSUME NEW h \in Hosts, Move(h) PROVE Serial'
  BY <1>6 DEF CallInv, Serial, Busy, Move, callVars
<1>7. CASE Setup \/ Quiescent \/ UNCHANGED vars
  BY <1>7 DEF CallInv, Serial, Busy, Setup, Quiescent, vars, callVars
<1>. QED BY <1>1, <1>2, <1>3, <1>4, <1>5, <1>6, <1>7 DEF Next

\* Only an undo_apply makes an inner call, and only one; the inner call is none.
LEMMA NestingStep ==
  ASSUME CallInv, [Next]_vars PROVE Nesting'
<1>1. ASSUME NEW c \in Calls, NEW t \in Threads, NEW a \in Asks, Invoke(c, t, a) PROVE Nesting'
  BY <1>1, CallAssumption DEF CallInv, CallTypeOK, Nesting, Places, AllAsks, Tools,
    Nothing, Invoke, StashCleared, Goto, targetsVars, callVars, recordVars, worldVars,
    historyVars
<1>2. ASSUME NEW c \in Calls, LoadBook(c) PROVE Nesting'
  BY <1>2, CallAssumption DEF CallInv, CallTypeOK, Nesting, Places, AllAsks, Tools,
    Nothing, LoadBook, Goto, Answer, targetsVars, callVars, recordVars, worldVars, historyVars
<1>3. ASSUME NEW c \in Calls, InstallBook(c) PROVE Nesting'
  BY <1>3, CallAssumption DEF CallInv, CallTypeOK, Nesting, Places, AllAsks, Tools,
    Nothing, InstallBook, Goto, targetsVars, callVars, recordVars, worldVars, historyVars
<1>4. ASSUME NEW c \in Calls, Connect(c) PROVE Nesting'
  BY <1>4, CallAssumption DEF CallInv, CallTypeOK, Nesting, Places, AllAsks, Tools,
    Nothing, Connect, Goto, Answer, targetsVars, callVars, recordVars, worldVars,
    historyVars
<1>5. ASSUME NEW c \in Calls, Read(c) PROVE Nesting'
  BY <1>5, CallAssumption DEF CallInv, CallTypeOK, Nesting, Places, AllAsks, Tools,
    Nothing, Read, Goto, Answer, targetsVars, callVars, recordVars, worldVars, historyVars
<1>6. ASSUME NEW c \in Calls, ReadFails(c) PROVE Nesting'
  BY <1>6, CallAssumption DEF CallInv, CallTypeOK, Nesting, Places, AllAsks, Tools,
    Nothing, ReadFails, Goto, Answer, Unheard, targetsVars, callVars, recordVars,
    worldVars, historyVars
<1>7. ASSUME NEW c \in Calls, Land(c) PROVE Nesting'
  BY <1>7, CallAssumption DEF CallInv, CallTypeOK, Nesting, Places, AllAsks, Tools,
    Nothing, Land, Goto, Answer, Unheard, Stash, targetsVars, callVars, recordVars,
    worldVars, historyVars
<1>8. ASSUME NEW c \in Calls, Fail(c) PROVE Nesting'
  BY <1>8, CallAssumption DEF CallInv, CallTypeOK, Nesting, Places, AllAsks, Tools,
    Nothing, Fail, Goto, Answer, Unheard, Stash, targetsVars, callVars, recordVars,
    worldVars, historyVars
<1>9. ASSUME NEW c \in Calls, LookUp(c) PROVE Nesting'
  BY <1>9, CallAssumption DEF CallInv, CallTypeOK, Nesting, Places, AllAsks, Tools,
    Nothing, LookUp, Goto, Answer, targetsVars, callVars, recordVars, worldVars,
    historyVars
<1>10. ASSUME NEW c \in Calls, NEW i \in Calls, Dispatch(c, i) PROVE Nesting'
  BY <1>10, CallAssumption DEF CallInv, CallTypeOK, Nesting, Places, AllAsks, Tools,
    Nothing, Dispatch, StashCleared, targetsVars, callVars, recordVars, worldVars,
    historyVars
<1>11. ASSUME NEW c \in Calls, Conclude(c) PROVE Nesting'
  BY <1>11, CallAssumption DEF CallInv, CallTypeOK, Nesting, Places, AllAsks, Tools,
    Nothing, Conclude, Passed, targetsVars, callVars, recordVars, worldVars, historyVars
<1>12. ASSUME NEW c \in Calls, Return(c) PROVE Nesting'
  BY <1>12, CallAssumption DEF CallInv, CallTypeOK, Nesting, Places, AllAsks, Tools,
    Nothing, Return, Goto, RecordUndo, targetsVars, callVars, recordVars, worldVars,
    historyVars
<1>13. ASSUME NEW h \in Hosts, Move(h) PROVE Nesting'
  BY <1>13, CallAssumption DEF CallInv, CallTypeOK, Nesting, Places, AllAsks, Tools,
    Nothing, Move, targetsVars, callVars, recordVars, worldVars, historyVars
<1>14. CASE Setup \/ Quiescent \/ UNCHANGED vars
  BY <1>14 DEF CallInv, CallTypeOK, Nesting, Places, AllAsks, Tools, Nothing, Setup,
    Quiescent, vars, targetsVars, callVars, recordVars, worldVars, historyVars
<1>. QED BY <1>1, <1>2, <1>3, <1>4, <1>5, <1>6, <1>7, <1>8, <1>9, <1>10, <1>11, <1>12,
    <1>13, <1>14 DEF Next

\* Every call clears what it finds on its thread, and stashes only on its thread;
\* by Serial the only other call there is an undo_apply.
LEMMA StashStep ==
  ASSUME CallInv, [Next]_vars PROVE StashIsOwn'
<1>1. ASSUME NEW c \in Calls, NEW t \in Threads, NEW a \in Asks, Invoke(c, t, a) PROVE StashIsOwn'
  BY <1>1, CallAssumption DEF CallInv, CallTypeOK, Serial, Nesting, StashIsOwn, Busy,
    Places, Invoke, StashCleared, Goto, targetsVars, callVars, recordVars, worldVars,
    historyVars
<1>2. ASSUME NEW c \in Calls, LoadBook(c) PROVE StashIsOwn'
  BY <1>2, CallAssumption DEF CallInv, CallTypeOK, Serial, Nesting, StashIsOwn, Busy,
    Places, LoadBook, Goto, Answer, targetsVars, callVars, recordVars, worldVars, historyVars
<1>3. ASSUME NEW c \in Calls, InstallBook(c) PROVE StashIsOwn'
  BY <1>3, CallAssumption DEF CallInv, CallTypeOK, Serial, Nesting, StashIsOwn, Busy,
    Places, InstallBook, Goto, targetsVars, callVars, recordVars, worldVars, historyVars
<1>4. ASSUME NEW c \in Calls, Connect(c) PROVE StashIsOwn'
  BY <1>4, CallAssumption DEF CallInv, CallTypeOK, Serial, Nesting, StashIsOwn, Busy,
    Places, Connect, Goto, Answer, targetsVars, callVars, recordVars, worldVars,
    historyVars
<1>5. ASSUME NEW c \in Calls, Read(c) PROVE StashIsOwn'
  BY <1>5, CallAssumption DEF CallInv, CallTypeOK, Serial, Nesting, StashIsOwn, Busy,
    Places, Read, Goto, Answer, targetsVars, callVars, recordVars, worldVars, historyVars
<1>6. ASSUME NEW c \in Calls, ReadFails(c) PROVE StashIsOwn'
  BY <1>6, CallAssumption DEF CallInv, CallTypeOK, Serial, Nesting, StashIsOwn, Busy,
    Places, ReadFails, Goto, Answer, Unheard, targetsVars, callVars, recordVars,
    worldVars, historyVars
<1>7. ASSUME NEW c \in Calls, Land(c) PROVE StashIsOwn'
  BY <1>7, CallAssumption DEF CallInv, CallTypeOK, Serial, Nesting, StashIsOwn, Busy,
    Places, Land, Goto, Answer, Unheard, Stash, targetsVars, callVars, recordVars,
    worldVars, historyVars
<1>8. ASSUME NEW c \in Calls, Fail(c) PROVE StashIsOwn'
  BY <1>8, CallAssumption DEF CallInv, CallTypeOK, Serial, Nesting, StashIsOwn, Busy,
    Places, Fail, Goto, Answer, Unheard, Stash, targetsVars, callVars, recordVars,
    worldVars, historyVars
<1>9. ASSUME NEW c \in Calls, LookUp(c) PROVE StashIsOwn'
  BY <1>9, CallAssumption DEF CallInv, CallTypeOK, Serial, Nesting, StashIsOwn, Busy,
    Places, LookUp, Goto, Answer, targetsVars, callVars, recordVars, worldVars,
    historyVars
<1>10. ASSUME NEW c \in Calls, NEW i \in Calls, Dispatch(c, i) PROVE StashIsOwn'
  <2>1. slot' = [slot EXCEPT ![thread[c]] = NoCall] /\ thread'[i] = thread[c]
    BY <1>10, DispatchStep
  <2>2. thread[c] \in Threads
    BY <1>10, DispatchStep DEF CallInv, Serial, Busy
  <2>3. \A d \in Calls \ {i} : /\ Busy(d)' => Busy(d)
                               /\ thread'[d] = thread[d] /\ ask'[d] = ask[d]
    BY <1>10, DispatchStep DEF Busy
  <2>4. slot'[thread[c]] = NoCall
    BY <2>1, <2>2 DEF CallInv, CallTypeOK
  <2>5. \A d \in Calls \ {i} : Busy(d) => thread[d] \in Threads
    BY DEF CallInv, Serial
  <2>6. \A d \in Calls \ {i} : Busy(d) => slot'[thread[d]] \in {NoCall, slot[thread[d]]}
    BY <2>1, <2>5 DEF CallInv, CallTypeOK
  <2>. QED BY <2>1, <2>3, <2>4, <2>6 DEF CallInv, StashIsOwn
<1>11. ASSUME NEW c \in Calls, Conclude(c) PROVE StashIsOwn'
  BY <1>11, CallAssumption DEF CallInv, CallTypeOK, Serial, Nesting, StashIsOwn, Busy,
    Places, Conclude, Passed, targetsVars, callVars, recordVars, worldVars, historyVars
<1>12. ASSUME NEW c \in Calls, Return(c) PROVE StashIsOwn'
  BY <1>12, CallAssumption DEF CallInv, CallTypeOK, Serial, Nesting, StashIsOwn, Busy,
    Places, Return, Goto, RecordUndo, targetsVars, callVars, recordVars, worldVars,
    historyVars
<1>13. ASSUME NEW h \in Hosts, Move(h) PROVE StashIsOwn'
  BY <1>13, CallAssumption DEF CallInv, CallTypeOK, Serial, Nesting, StashIsOwn, Busy,
    Places, Move, targetsVars, callVars, recordVars, worldVars, historyVars
<1>14. CASE Setup \/ Quiescent \/ UNCHANGED vars
  BY <1>14 DEF CallInv, CallTypeOK, Serial, Nesting, StashIsOwn, Busy, Places, Setup,
    Quiescent, vars, targetsVars, callVars, recordVars, worldVars, historyVars
<1>. QED BY <1>1, <1>2, <1>3, <1>4, <1>5, <1>6, <1>7, <1>8, <1>9, <1>10, <1>11, <1>12,
    <1>13, <1>14 DEF Next

\* The address a VM reports goes with its version.
LEMMA VersionsStep ==
  ASSUME CallInv, [Next]_vars PROVE Versions'
<1>1. ASSUME NEW c \in Calls, NEW t \in Threads, NEW a \in Asks, Invoke(c, t, a) PROVE Versions'
  BY <1>1, CallAssumption DEF CallInv, CallTypeOK, Versions, OwnAt, Invoke,
    StashCleared, Goto, targetsVars, callVars, recordVars, worldVars, historyVars
<1>2. ASSUME NEW c \in Calls, LoadBook(c) PROVE Versions'
  BY <1>2, CallAssumption DEF CallInv, CallTypeOK, Versions, OwnAt, LoadBook, Goto, Answer,
    targetsVars, callVars, recordVars, worldVars, historyVars
<1>3. ASSUME NEW c \in Calls, InstallBook(c) PROVE Versions'
  BY <1>3, CallAssumption DEF CallInv, CallTypeOK, Versions, OwnAt, InstallBook, Goto,
    targetsVars, callVars, recordVars, worldVars, historyVars
<1>4. ASSUME NEW c \in Calls, Connect(c) PROVE Versions'
  BY <1>4, CallAssumption DEF CallInv, CallTypeOK, Versions, OwnAt, Connect, Goto,
    Answer, targetsVars, callVars, recordVars, worldVars, historyVars
<1>5. ASSUME NEW c \in Calls, Read(c) PROVE Versions'
  BY <1>5, CallAssumption DEF CallInv, CallTypeOK, Versions, OwnAt, Read, Goto,
    Answer, targetsVars, callVars, recordVars, worldVars, historyVars
<1>6. ASSUME NEW c \in Calls, ReadFails(c) PROVE Versions'
  BY <1>6, CallAssumption DEF CallInv, CallTypeOK, Versions, OwnAt, ReadFails, Goto,
    Answer, Unheard, targetsVars, callVars, recordVars, worldVars, historyVars
<1>7. ASSUME NEW c \in Calls, Land(c) PROVE Versions'
  BY <1>7, CallAssumption DEF CallInv, CallTypeOK, Versions, OwnAt, Land, Goto,
    Answer, Unheard, Stash, targetsVars, callVars, recordVars, worldVars, historyVars
<1>8. ASSUME NEW c \in Calls, Fail(c) PROVE Versions'
  BY <1>8, CallAssumption DEF CallInv, CallTypeOK, Versions, OwnAt, Fail, Goto,
    Answer, Unheard, Stash, targetsVars, callVars, recordVars, worldVars, historyVars
<1>9. ASSUME NEW c \in Calls, LookUp(c) PROVE Versions'
  BY <1>9, CallAssumption DEF CallInv, CallTypeOK, Versions, OwnAt, LookUp, Goto,
    Answer, targetsVars, callVars, recordVars, worldVars, historyVars
<1>10. ASSUME NEW c \in Calls, NEW i \in Calls, Dispatch(c, i) PROVE Versions'
  BY <1>10, CallAssumption DEF CallInv, CallTypeOK, Versions, OwnAt, Dispatch,
    StashCleared, targetsVars, callVars, recordVars, worldVars, historyVars
<1>11. ASSUME NEW c \in Calls, Conclude(c) PROVE Versions'
  BY <1>11, CallAssumption DEF CallInv, CallTypeOK, Versions, OwnAt, Conclude, Passed,
    targetsVars, callVars, recordVars, worldVars, historyVars
<1>12. ASSUME NEW c \in Calls, Return(c) PROVE Versions'
  BY <1>12, CallAssumption DEF CallInv, CallTypeOK, Versions, OwnAt, Return, Goto,
    RecordUndo, targetsVars, callVars, recordVars, worldVars, historyVars
<1>13. ASSUME NEW h \in Hosts, Move(h) PROVE Versions'
  BY <1>13, MoveKeepsVersions
<1>14. CASE Setup \/ Quiescent \/ UNCHANGED vars
  BY <1>14 DEF CallInv, CallTypeOK, Versions, OwnAt, Setup, Quiescent, vars,
    targetsVars, callVars, recordVars, worldVars, historyVars
<1>. QED BY <1>1, <1>2, <1>3, <1>4, <1>5, <1>6, <1>7, <1>8, <1>9, <1>10, <1>11, <1>12,
    <1>13, <1>14 DEF Next

\* The guard judges what the read returned, and its verdict stays with the tag.
LEMMA TagsStep ==
  ASSUME CallInv, [Next]_vars PROVE TagsJudge'
<1>1. ASSUME NEW c \in Calls, NEW t \in Threads, NEW a \in Asks, Invoke(c, t, a) PROVE TagsJudge'
  BY <1>1, CallAssumption DEF CallInv, CallTypeOK, TagsJudge, Versions, Untagged,
    Guarded, Places, IsPrismCentral, Nesting, NoTag, Invoke, StashCleared, Goto,
    targetsVars, callVars, recordVars, worldVars, historyVars
<1>2. ASSUME NEW c \in Calls, LoadBook(c) PROVE TagsJudge'
  BY <1>2, CallAssumption DEF CallInv, CallTypeOK, TagsJudge, Versions, Untagged,
    Guarded, Places, IsPrismCentral, Nesting, NoTag, LoadBook, Goto, Answer, targetsVars,
    callVars, recordVars, worldVars, historyVars
<1>3. ASSUME NEW c \in Calls, InstallBook(c) PROVE TagsJudge'
  BY <1>3, CallAssumption DEF CallInv, CallTypeOK, TagsJudge, Versions, Untagged,
    Guarded, Places, IsPrismCentral, Nesting, NoTag, InstallBook, Goto, targetsVars,
    callVars, recordVars, worldVars, historyVars
<1>4. ASSUME NEW c \in Calls, Connect(c) PROVE TagsJudge'
  BY <1>4, CallAssumption DEF CallInv, CallTypeOK, TagsJudge, Versions, Untagged,
    Guarded, Places, IsPrismCentral, Nesting, NoTag, Connect, Goto, Answer, targetsVars,
    callVars, recordVars, worldVars, historyVars
<1>5. ASSUME NEW c \in Calls, Read(c) PROVE TagsJudge'
  BY <1>5, CallAssumption DEF CallInv, CallTypeOK, TagsJudge, Versions, Untagged,
    Guarded, Places, IsPrismCentral, Nesting, NoTag, Read, Goto, Answer, targetsVars,
    callVars, recordVars, worldVars, historyVars
<1>6. ASSUME NEW c \in Calls, ReadFails(c) PROVE TagsJudge'
  BY <1>6, CallAssumption DEF CallInv, CallTypeOK, TagsJudge, Versions, Untagged,
    Guarded, Places, IsPrismCentral, Nesting, NoTag, ReadFails, Goto, Answer, Unheard,
    targetsVars, callVars, recordVars, worldVars, historyVars
<1>7. ASSUME NEW c \in Calls, Land(c) PROVE TagsJudge'
  BY <1>7, CallAssumption DEF CallInv, CallTypeOK, TagsJudge, Versions, Untagged,
    Guarded, Places, IsPrismCentral, Nesting, NoTag, Land, Goto, Answer, Unheard, Stash,
    targetsVars, callVars, recordVars, worldVars, historyVars
<1>8. ASSUME NEW c \in Calls, Fail(c) PROVE TagsJudge'
  BY <1>8, CallAssumption DEF CallInv, CallTypeOK, TagsJudge, Versions, Untagged,
    Guarded, Places, IsPrismCentral, Nesting, NoTag, Fail, Goto, Answer, Unheard, Stash,
    targetsVars, callVars, recordVars, worldVars, historyVars
<1>9. ASSUME NEW c \in Calls, LookUp(c) PROVE TagsJudge'
  BY <1>9, CallAssumption DEF CallInv, CallTypeOK, TagsJudge, Versions, Untagged,
    Guarded, Places, IsPrismCentral, Nesting, NoTag, LookUp, Goto, Answer, targetsVars,
    callVars, recordVars, worldVars, historyVars
<1>10. ASSUME NEW c \in Calls, NEW i \in Calls, Dispatch(c, i) PROVE TagsJudge'
  BY <1>10, CallAssumption DEF CallInv, CallTypeOK, TagsJudge, Versions, Untagged,
    Guarded, Places, IsPrismCentral, Nesting, NoTag, Dispatch, StashCleared, targetsVars,
    callVars, recordVars, worldVars, historyVars
<1>11. ASSUME NEW c \in Calls, Conclude(c) PROVE TagsJudge'
  BY <1>11, CallAssumption DEF CallInv, CallTypeOK, TagsJudge, Versions, Untagged,
    Guarded, Places, IsPrismCentral, Nesting, NoTag, Conclude, Passed, targetsVars,
    callVars, recordVars, worldVars, historyVars
<1>12. ASSUME NEW c \in Calls, Return(c) PROVE TagsJudge'
  BY <1>12, CallAssumption DEF CallInv, CallTypeOK, TagsJudge, Versions, Untagged,
    Guarded, Places, IsPrismCentral, Nesting, NoTag, Return, Goto, RecordUndo,
    targetsVars, callVars, recordVars, worldVars, historyVars
<1>13. ASSUME NEW h \in Hosts, Move(h) PROVE TagsJudge'
  BY <1>13, CallAssumption DEF CallInv, CallTypeOK, TagsJudge, Versions, Untagged,
    Guarded, Places, IsPrismCentral, Nesting, NoTag, Move, targetsVars, callVars,
    recordVars, worldVars, historyVars
<1>14. CASE Setup \/ Quiescent \/ UNCHANGED vars
  BY <1>14 DEF CallInv, CallTypeOK, TagsJudge, Versions, Untagged, Guarded, Places,
    IsPrismCentral, Nesting, NoTag, Setup, Quiescent, vars, targetsVars, callVars,
    recordVars, worldVars, historyVars
<1>. QED BY <1>1, <1>2, <1>3, <1>4, <1>5, <1>6, <1>7, <1>8, <1>9, <1>10, <1>11, <1>12,
    <1>13, <1>14 DEF Next

\* What a call that has answered came to.
LEMMA VerdictsStep ==
  ASSUME CallInv, [Next]_vars PROVE VerdictsKept'
<1>1. ASSUME NEW c \in Calls, NEW t \in Threads, NEW a \in Asks, Invoke(c, t, a) PROVE VerdictsKept'
  BY <1>1, CallAssumption DEF CallInv, CallTypeOK, VerdictsKept, Places, Requests,
    Verdicts, Writes, Nesting, Ends, Nested, Destructive, Reversible, Invoke,
    StashCleared, Goto, targetsVars, callVars, recordVars, worldVars, historyVars
<1>2. ASSUME NEW c \in Calls, LoadBook(c) PROVE VerdictsKept'
  BY <1>2, CallAssumption DEF CallInv, CallTypeOK, VerdictsKept, Places, Requests,
    Verdicts, Writes, Nesting, Ends, Nested, Destructive, Reversible, LoadBook, Goto, Answer,
    targetsVars, callVars, recordVars, worldVars, historyVars
<1>3. ASSUME NEW c \in Calls, InstallBook(c) PROVE VerdictsKept'
  BY <1>3, CallAssumption DEF CallInv, CallTypeOK, VerdictsKept, Places, Requests,
    Verdicts, Writes, Nesting, Ends, Nested, Destructive, Reversible, InstallBook, Goto,
    targetsVars, callVars, recordVars, worldVars, historyVars
<1>4. ASSUME NEW c \in Calls, Connect(c) PROVE VerdictsKept'
  BY <1>4, CallAssumption DEF CallInv, CallTypeOK, VerdictsKept, Places, Requests,
    Verdicts, Writes, Nesting, Ends, Nested, Destructive, Reversible, Connect, Goto,
    Answer, targetsVars, callVars, recordVars, worldVars, historyVars
<1>5. ASSUME NEW c \in Calls, Read(c) PROVE VerdictsKept'
  BY <1>5, CallAssumption DEF CallInv, CallTypeOK, VerdictsKept, Places, Requests,
    Verdicts, Writes, Nesting, Ends, Nested, Destructive, Reversible, Read, Goto, Answer,
    targetsVars, callVars, recordVars, worldVars, historyVars
<1>6. ASSUME NEW c \in Calls, ReadFails(c) PROVE VerdictsKept'
  BY <1>6, CallAssumption DEF CallInv, CallTypeOK, VerdictsKept, Places, Requests,
    Verdicts, Writes, Nesting, Ends, Nested, Destructive, Reversible, ReadFails, Goto,
    Answer, Unheard, targetsVars, callVars, recordVars, worldVars, historyVars
<1>7. ASSUME NEW c \in Calls, Land(c) PROVE VerdictsKept'
  BY <1>7, CallAssumption DEF CallInv, CallTypeOK, VerdictsKept, Places, Requests,
    Verdicts, Writes, Nesting, Ends, Nested, Destructive, Reversible, Land, Goto, Answer,
    Unheard, Stash, targetsVars, callVars, recordVars, worldVars, historyVars
<1>8. ASSUME NEW c \in Calls, Fail(c) PROVE VerdictsKept'
  BY <1>8, CallAssumption DEF CallInv, CallTypeOK, VerdictsKept, Places, Requests,
    Verdicts, Writes, Nesting, Ends, Nested, Destructive, Reversible, Fail, Goto, Answer,
    Unheard, Stash, targetsVars, callVars, recordVars, worldVars, historyVars
<1>9. ASSUME NEW c \in Calls, LookUp(c) PROVE VerdictsKept'
  BY <1>9, CallAssumption DEF CallInv, CallTypeOK, VerdictsKept, Places, Requests,
    Verdicts, Writes, Nesting, Ends, Nested, Destructive, Reversible, LookUp, Goto,
    Answer, targetsVars, callVars, recordVars, worldVars, historyVars
<1>10. ASSUME NEW c \in Calls, NEW i \in Calls, Dispatch(c, i) PROVE VerdictsKept'
  BY <1>10, CallAssumption DEF CallInv, CallTypeOK, VerdictsKept, Places, Requests,
    Verdicts, Writes, Nesting, Ends, Nested, Destructive, Reversible, Dispatch,
    StashCleared, targetsVars, callVars, recordVars, worldVars, historyVars
<1>11. ASSUME NEW c \in Calls, Conclude(c) PROVE VerdictsKept'
  BY <1>11, CallAssumption DEF CallInv, CallTypeOK, VerdictsKept, Places, Requests,
    Verdicts, Writes, Nesting, Ends, Nested, Destructive, Reversible, Conclude, Passed,
    targetsVars, callVars, recordVars, worldVars, historyVars
<1>12. ASSUME NEW c \in Calls, Return(c) PROVE VerdictsKept'
  BY <1>12, CallAssumption DEF CallInv, CallTypeOK, VerdictsKept, Places, Requests,
    Verdicts, Writes, Nesting, Ends, Nested, Destructive, Reversible, Return, Goto,
    RecordUndo, targetsVars, callVars, recordVars, worldVars, historyVars
<1>13. ASSUME NEW h \in Hosts, Move(h) PROVE VerdictsKept'
  BY <1>13, CallAssumption DEF CallInv, CallTypeOK, VerdictsKept, Places, Requests,
    Verdicts, Writes, Nesting, Ends, Nested, Destructive, Reversible, Move, targetsVars,
    callVars, recordVars, worldVars, historyVars
<1>14. CASE Setup \/ Quiescent \/ UNCHANGED vars
  BY <1>14 DEF CallInv, CallTypeOK, VerdictsKept, Places, Requests, Verdicts, Writes,
    Nesting, Ends, Nested, Destructive, Reversible, Setup, Quiescent, vars, targetsVars,
    callVars, recordVars, worldVars, historyVars
<1>. QED BY <1>1, <1>2, <1>3, <1>4, <1>5, <1>6, <1>7, <1>8, <1>9, <1>10, <1>11, <1>12,
    <1>13, <1>14 DEF Next

\* A token is made of the call's own result or of the stash of its thread.
LEMMA PriorStep ==
  ASSUME CallInv, [Next]_vars PROVE PriorIsOwn'
<1>1. ASSUME NEW c \in Calls, NEW t \in Threads, NEW a \in Asks, Invoke(c, t, a) PROVE PriorIsOwn'
  BY <1>1, CallAssumption DEF CallInv, CallTypeOK, PriorIsOwn, StashIsOwn, Busy,
    Reversible, Places, Invoke, StashCleared, Goto, targetsVars, callVars, recordVars,
    worldVars, historyVars
<1>2. ASSUME NEW c \in Calls, LoadBook(c) PROVE PriorIsOwn'
  BY <1>2, CallAssumption DEF CallInv, CallTypeOK, PriorIsOwn, StashIsOwn, Busy,
    Reversible, Places, LoadBook, Goto, Answer, targetsVars, callVars, recordVars, worldVars,
    historyVars
<1>3. ASSUME NEW c \in Calls, InstallBook(c) PROVE PriorIsOwn'
  BY <1>3, CallAssumption DEF CallInv, CallTypeOK, PriorIsOwn, StashIsOwn, Busy,
    Reversible, Places, InstallBook, Goto, targetsVars, callVars, recordVars, worldVars,
    historyVars
<1>4. ASSUME NEW c \in Calls, Connect(c) PROVE PriorIsOwn'
  BY <1>4, CallAssumption DEF CallInv, CallTypeOK, PriorIsOwn, StashIsOwn, Busy,
    Reversible, Places, Connect, Goto, Answer, targetsVars, callVars, recordVars,
    worldVars, historyVars
<1>5. ASSUME NEW c \in Calls, Read(c) PROVE PriorIsOwn'
  BY <1>5, CallAssumption DEF CallInv, CallTypeOK, PriorIsOwn, StashIsOwn, Busy,
    Reversible, Places, Read, Goto, Answer, targetsVars, callVars, recordVars, worldVars,
    historyVars
<1>6. ASSUME NEW c \in Calls, ReadFails(c) PROVE PriorIsOwn'
  BY <1>6, CallAssumption DEF CallInv, CallTypeOK, PriorIsOwn, StashIsOwn, Busy,
    Reversible, Places, ReadFails, Goto, Answer, Unheard, targetsVars, callVars,
    recordVars, worldVars, historyVars
<1>7. ASSUME NEW c \in Calls, Land(c) PROVE PriorIsOwn'
  BY <1>7, CallAssumption DEF CallInv, CallTypeOK, PriorIsOwn, StashIsOwn, Busy,
    Reversible, Places, Land, Goto, Answer, Unheard, Stash, targetsVars, callVars,
    recordVars, worldVars, historyVars
<1>8. ASSUME NEW c \in Calls, Fail(c) PROVE PriorIsOwn'
  BY <1>8, CallAssumption DEF CallInv, CallTypeOK, PriorIsOwn, StashIsOwn, Busy,
    Reversible, Places, Fail, Goto, Answer, Unheard, Stash, targetsVars, callVars,
    recordVars, worldVars, historyVars
<1>9. ASSUME NEW c \in Calls, LookUp(c) PROVE PriorIsOwn'
  BY <1>9, CallAssumption DEF CallInv, CallTypeOK, PriorIsOwn, StashIsOwn, Busy,
    Reversible, Places, LookUp, Goto, Answer, targetsVars, callVars, recordVars,
    worldVars, historyVars
<1>10. ASSUME NEW c \in Calls, NEW i \in Calls, Dispatch(c, i) PROVE PriorIsOwn'
  BY <1>10, CallAssumption DEF CallInv, CallTypeOK, PriorIsOwn, StashIsOwn, Busy,
    Reversible, Places, Dispatch, StashCleared, targetsVars, callVars, recordVars,
    worldVars, historyVars
<1>11. ASSUME NEW c \in Calls, Conclude(c) PROVE PriorIsOwn'
  BY <1>11, CallAssumption DEF CallInv, CallTypeOK, PriorIsOwn, StashIsOwn, Busy,
    Reversible, Places, Conclude, Passed, targetsVars, callVars, recordVars, worldVars,
    historyVars
<1>12. ASSUME NEW c \in Calls, Return(c) PROVE PriorIsOwn'
  BY <1>12, CallAssumption DEF CallInv, CallTypeOK, PriorIsOwn, StashIsOwn, Busy,
    Reversible, Places, Return, Goto, RecordUndo, targetsVars, callVars, recordVars,
    worldVars, historyVars
<1>13. ASSUME NEW h \in Hosts, Move(h) PROVE PriorIsOwn'
  BY <1>13, CallAssumption DEF CallInv, CallTypeOK, PriorIsOwn, StashIsOwn, Busy,
    Reversible, Places, Move, targetsVars, callVars, recordVars, worldVars, historyVars
<1>14. CASE Setup \/ Quiescent \/ UNCHANGED vars
  BY <1>14 DEF CallInv, CallTypeOK, PriorIsOwn, StashIsOwn, Busy, Reversible, Places,
    Setup, Quiescent, vars, targetsVars, callVars, recordVars, worldVars, historyVars
<1>. QED BY <1>1, <1>2, <1>3, <1>4, <1>5, <1>6, <1>7, <1>8, <1>9, <1>10, <1>11, <1>12,
    <1>13, <1>14 DEF Next

\* Only a call that has ended has a row or an exit status; the step that ends it
\* is the one that writes both.
LEMMA AgreeStep ==
  ASSUME CallInv, [Next]_vars, VerdictsKept' PROVE VerdictsAgree'
<1>0. SUFFICES ASSUME NEW d \in Calls, pc'[d] \in {"returned", "over"}
               PROVE  RowIsTrue(d)' /\ ExitIsRow(d)'
  BY DEF VerdictsAgree, VerdictsKept, RowIsTrue, ExitIsRow
<1>1. ASSUME NEW c \in Calls, NEW t \in Threads, NEW a \in Asks, Invoke(c, t, a) PROVE RowIsTrue(d)' /\ ExitIsRow(d)'
  BY <1>0, <1>1, CallAssumption DEF CallInv, CallTypeOK, VerdictsAgree, VerdictsKept,
    RowIsTrue, ExitIsRow, Requests, Writes, Bare, Ends, Nested, Destructive, ExitStatus,
    Checked, Audited, Running, Verdicts, Places, Invoke, StashCleared, Goto, callVars,
    recordVars, worldVars, historyVars
<1>2. ASSUME NEW c \in Calls, LoadBook(c) PROVE RowIsTrue(d)' /\ ExitIsRow(d)'
  BY <1>0, <1>2, CallAssumption DEF CallInv, CallTypeOK, VerdictsAgree, VerdictsKept,
    RowIsTrue, ExitIsRow, Requests, Writes, Bare, Ends, Nested, Destructive, ExitStatus,
    Checked, Audited, Running, Verdicts, Places, LoadBook, Goto, Answer, callVars, recordVars,
    worldVars, historyVars
<1>3. ASSUME NEW c \in Calls, InstallBook(c) PROVE RowIsTrue(d)' /\ ExitIsRow(d)'
  BY <1>0, <1>3, CallAssumption DEF CallInv, CallTypeOK, VerdictsAgree, VerdictsKept,
    RowIsTrue, ExitIsRow, Requests, Writes, Bare, Ends, Nested, Destructive, ExitStatus,
    Checked, Audited, Running, Verdicts, Places, InstallBook, Goto, callVars, recordVars,
    worldVars, historyVars
<1>4. ASSUME NEW c \in Calls, Connect(c) PROVE RowIsTrue(d)' /\ ExitIsRow(d)'
  BY <1>0, <1>4, CallAssumption DEF CallInv, CallTypeOK, VerdictsAgree, VerdictsKept,
    RowIsTrue, ExitIsRow, Requests, Writes, Bare, Ends, Nested, Destructive, ExitStatus,
    Checked, Audited, Running, Verdicts, Places, Connect, Goto, Answer, callVars,
    recordVars, worldVars, historyVars
<1>5. ASSUME NEW c \in Calls, Read(c) PROVE RowIsTrue(d)' /\ ExitIsRow(d)'
  BY <1>0, <1>5, CallAssumption DEF CallInv, CallTypeOK, VerdictsAgree, VerdictsKept,
    RowIsTrue, ExitIsRow, Requests, Writes, Bare, Ends, Nested, Destructive, ExitStatus,
    Checked, Audited, Running, Verdicts, Places, Read, Goto, Answer, callVars, recordVars,
    worldVars, historyVars
<1>6. ASSUME NEW c \in Calls, ReadFails(c) PROVE RowIsTrue(d)' /\ ExitIsRow(d)'
  BY <1>0, <1>6, CallAssumption DEF CallInv, CallTypeOK, VerdictsAgree, VerdictsKept,
    RowIsTrue, ExitIsRow, Requests, Writes, Bare, Ends, Nested, Destructive, ExitStatus,
    Checked, Audited, Running, Verdicts, Places, ReadFails, Goto, Answer, Unheard,
    callVars, recordVars, worldVars, historyVars
<1>7. ASSUME NEW c \in Calls, Land(c) PROVE RowIsTrue(d)' /\ ExitIsRow(d)'
  BY <1>0, <1>7, CallAssumption DEF CallInv, CallTypeOK, VerdictsAgree, VerdictsKept,
    RowIsTrue, ExitIsRow, Requests, Writes, Bare, Ends, Nested, Destructive, ExitStatus,
    Checked, Audited, Running, Verdicts, Places, Land, Goto, Answer, Unheard, Stash,
    callVars, recordVars, worldVars, historyVars
<1>8. ASSUME NEW c \in Calls, Fail(c) PROVE RowIsTrue(d)' /\ ExitIsRow(d)'
  BY <1>0, <1>8, CallAssumption DEF CallInv, CallTypeOK, VerdictsAgree, VerdictsKept,
    RowIsTrue, ExitIsRow, Requests, Writes, Bare, Ends, Nested, Destructive, ExitStatus,
    Checked, Audited, Running, Verdicts, Places, Fail, Goto, Answer, Unheard, Stash,
    callVars, recordVars, worldVars, historyVars
<1>9. ASSUME NEW c \in Calls, LookUp(c) PROVE RowIsTrue(d)' /\ ExitIsRow(d)'
  BY <1>0, <1>9, CallAssumption DEF CallInv, CallTypeOK, VerdictsAgree, VerdictsKept,
    RowIsTrue, ExitIsRow, Requests, Writes, Bare, Ends, Nested, Destructive, ExitStatus,
    Checked, Audited, Running, Verdicts, Places, LookUp, Goto, Answer, callVars,
    recordVars, worldVars, historyVars
<1>10. ASSUME NEW c \in Calls, NEW i \in Calls, Dispatch(c, i) PROVE RowIsTrue(d)' /\ ExitIsRow(d)'
  BY <1>0, <1>10, CallAssumption DEF CallInv, CallTypeOK, VerdictsAgree, VerdictsKept,
    RowIsTrue, ExitIsRow, Requests, Writes, Bare, Ends, Nested, Destructive, ExitStatus,
    Checked, Audited, Running, Verdicts, Places, Dispatch, StashCleared, callVars,
    recordVars, worldVars, historyVars
<1>11. ASSUME NEW c \in Calls, Conclude(c) PROVE RowIsTrue(d)' /\ ExitIsRow(d)'
  BY <1>0, <1>11, CallAssumption DEF CallInv, CallTypeOK, VerdictsAgree, VerdictsKept,
    RowIsTrue, ExitIsRow, Requests, Writes, Bare, Ends, Nested, Destructive, ExitStatus,
    Checked, Audited, Running, Verdicts, Places, Conclude, Passed, callVars, recordVars,
    worldVars, historyVars
<1>12. ASSUME NEW c \in Calls, Return(c) PROVE RowIsTrue(d)' /\ ExitIsRow(d)'
  BY <1>0, <1>12, CallAssumption DEF CallInv, CallTypeOK, VerdictsAgree, VerdictsKept,
    RowIsTrue, ExitIsRow, Requests, Writes, Bare, Ends, Nested, Destructive, ExitStatus,
    Checked, Audited, Running, Verdicts, Places, Return, Goto, RecordUndo, callVars,
    recordVars, worldVars, historyVars
<1>13. ASSUME NEW h \in Hosts, Move(h) PROVE RowIsTrue(d)' /\ ExitIsRow(d)'
  BY <1>0, <1>13, CallAssumption DEF CallInv, CallTypeOK, VerdictsAgree, VerdictsKept,
    RowIsTrue, ExitIsRow, Requests, Writes, Bare, Ends, Nested, Destructive, ExitStatus,
    Checked, Audited, Running, Verdicts, Places, Move, callVars, recordVars, worldVars,
    historyVars
<1>14. CASE Setup \/ Quiescent \/ UNCHANGED vars
  BY <1>0, <1>14 DEF CallInv, CallTypeOK, VerdictsAgree, VerdictsKept, RowIsTrue,
    ExitIsRow, Requests, Writes, Bare, Ends, Nested, Destructive, ExitStatus, Checked,
    Audited, Running, Verdicts, Places, Setup, Quiescent, vars, callVars, recordVars,
    worldVars, historyVars
<1>. QED BY <1>1, <1>2, <1>3, <1>4, <1>5, <1>6, <1>7, <1>8, <1>9, <1>10, <1>11, <1>12,
    <1>13, <1>14 DEF Next

\* A request that arrives has the tag of the VM as it is, so the guard judged the
\* address the VM has now.
LEMMA LockoutStep ==
  ASSUME CallInv, [Next]_vars PROVE NoSelfLockout'
<1>1. ASSUME NEW c \in Calls, NEW t \in Threads, NEW a \in Asks, Invoke(c, t, a) PROVE NoSelfLockout'
  BY <1>1, CallAssumption DEF CallInv, CallTypeOK, NoSelfLockout, TagsJudge, Versions,
    Guarded, Matches, Destructive, Places, NoTag, Invoke, StashCleared, Goto, targetsVars,
    callVars, recordVars, worldVars, historyVars
<1>2. ASSUME NEW c \in Calls, LoadBook(c) PROVE NoSelfLockout'
  BY <1>2, CallAssumption DEF CallInv, CallTypeOK, NoSelfLockout, TagsJudge, Versions,
    Guarded, Matches, Destructive, Places, NoTag, LoadBook, Goto, Answer, targetsVars, callVars,
    recordVars, worldVars, historyVars
<1>3. ASSUME NEW c \in Calls, InstallBook(c) PROVE NoSelfLockout'
  BY <1>3, CallAssumption DEF CallInv, CallTypeOK, NoSelfLockout, TagsJudge, Versions,
    Guarded, Matches, Destructive, Places, NoTag, InstallBook, Goto, targetsVars,
    callVars, recordVars, worldVars, historyVars
<1>4. ASSUME NEW c \in Calls, Connect(c) PROVE NoSelfLockout'
  BY <1>4, CallAssumption DEF CallInv, CallTypeOK, NoSelfLockout, TagsJudge, Versions,
    Guarded, Matches, Destructive, Places, NoTag, Connect, Goto, Answer, targetsVars,
    callVars, recordVars, worldVars, historyVars
<1>5. ASSUME NEW c \in Calls, Read(c) PROVE NoSelfLockout'
  BY <1>5, CallAssumption DEF CallInv, CallTypeOK, NoSelfLockout, TagsJudge, Versions,
    Guarded, Matches, Destructive, Places, NoTag, Read, Goto, Answer, targetsVars,
    callVars, recordVars, worldVars, historyVars
<1>6. ASSUME NEW c \in Calls, ReadFails(c) PROVE NoSelfLockout'
  BY <1>6, CallAssumption DEF CallInv, CallTypeOK, NoSelfLockout, TagsJudge, Versions,
    Guarded, Matches, Destructive, Places, NoTag, ReadFails, Goto, Answer, Unheard,
    targetsVars, callVars, recordVars, worldVars, historyVars
<1>7. ASSUME NEW c \in Calls, Land(c) PROVE NoSelfLockout'
  BY <1>7, CallAssumption DEF CallInv, CallTypeOK, NoSelfLockout, TagsJudge, Versions,
    Guarded, Matches, Destructive, Places, NoTag, Land, Goto, Answer, Unheard, Stash,
    targetsVars, callVars, recordVars, worldVars, historyVars
<1>8. ASSUME NEW c \in Calls, Fail(c) PROVE NoSelfLockout'
  BY <1>8, CallAssumption DEF CallInv, CallTypeOK, NoSelfLockout, TagsJudge, Versions,
    Guarded, Matches, Destructive, Places, NoTag, Fail, Goto, Answer, Unheard, Stash,
    targetsVars, callVars, recordVars, worldVars, historyVars
<1>9. ASSUME NEW c \in Calls, LookUp(c) PROVE NoSelfLockout'
  BY <1>9, CallAssumption DEF CallInv, CallTypeOK, NoSelfLockout, TagsJudge, Versions,
    Guarded, Matches, Destructive, Places, NoTag, LookUp, Goto, Answer, targetsVars,
    callVars, recordVars, worldVars, historyVars
<1>10. ASSUME NEW c \in Calls, NEW i \in Calls, Dispatch(c, i) PROVE NoSelfLockout'
  BY <1>10, CallAssumption DEF CallInv, CallTypeOK, NoSelfLockout, TagsJudge,
    Versions, Guarded, Matches, Destructive, Places, NoTag, Dispatch, StashCleared,
    targetsVars, callVars, recordVars, worldVars, historyVars
<1>11. ASSUME NEW c \in Calls, Conclude(c) PROVE NoSelfLockout'
  BY <1>11, CallAssumption DEF CallInv, CallTypeOK, NoSelfLockout, TagsJudge,
    Versions, Guarded, Matches, Destructive, Places, NoTag, Conclude, Passed, targetsVars,
    callVars, recordVars, worldVars, historyVars
<1>12. ASSUME NEW c \in Calls, Return(c) PROVE NoSelfLockout'
  BY <1>12, CallAssumption DEF CallInv, CallTypeOK, NoSelfLockout, TagsJudge,
    Versions, Guarded, Matches, Destructive, Places, NoTag, Return, Goto, RecordUndo,
    targetsVars, callVars, recordVars, worldVars, historyVars
<1>13. ASSUME NEW h \in Hosts, Move(h) PROVE NoSelfLockout'
  BY <1>13, CallAssumption DEF CallInv, CallTypeOK, NoSelfLockout, TagsJudge,
    Versions, Guarded, Matches, Destructive, Places, NoTag, Move, targetsVars, callVars,
    recordVars, worldVars, historyVars
<1>14. CASE Setup \/ Quiescent \/ UNCHANGED vars
  BY <1>14 DEF CallInv, CallTypeOK, NoSelfLockout, TagsJudge, Versions, Guarded,
    Matches, Destructive, Places, NoTag, Setup, Quiescent, vars, targetsVars, callVars,
    recordVars, worldVars, historyVars
<1>. QED BY <1>1, <1>2, <1>3, <1>4, <1>5, <1>6, <1>7, <1>8, <1>9, <1>10, <1>11, <1>12,
    <1>13, <1>14 DEF Next

\* Every step keeps the invariant of calls.
LEMMA CallInvStep == CallInv /\ [Next]_vars => CallInv'
BY TypeStep, SerialStep, NestingStep, StashStep, VersionsStep, TagsStep, VerdictsStep, PriorStep,
   AgreeStep, LockoutStep DEF CallInv

-----------------------------------------------------------------------------
\* The invariant of governed calls holds for any calls, threads, processes, asks
\* and targets, whatever the setup wizard does.
THEOREM CallInvariant == Spec => []CallInv
BY CallInvInit, CallInvStep, PTL DEF Spec

\* An undo token restores what its own call found (clear_prior_state).
THEOREM TokensAreOwn == Spec => []PriorIsOwn
<1>1. CallInv => PriorIsOwn
  BY DEF CallInv
<1>. QED BY <1>1, CallInvariant, PTL

\* Rows tell the truth and exit statuses say what rows say (_finalize, checked).
THEOREM RowsAndExitsAgree == Spec => []VerdictsAgree
<1>1. CallInv => VerdictsAgree
  BY DEF CallInv
<1>. QED BY <1>1, CallInvariant, PTL

\* Where ETags are served, no request stops the Prism Central that answers it,
\* unless its guard could not resolve the name (_selfguard.py, mutate).
THEOREM LockoutsAreRefused == Spec => []NoSelfLockout
<1>1. CallInv => NoSelfLockout
  BY DEF CallInv
<1>. QED BY <1>1, CallInvariant, PTL

\* A preview and a write that read the same VM are judged alike
\* (preview_power, preview_delete_vm).
THEOREM PreviewsMatchWrites == Spec => []PreviewsAgree
<1>1. CallInv => PreviewsAgree
  BY DEF CallInv, TagsJudge, PreviewsAgree, Guarded, Destructive
<1>. QED BY <1>1, CallInvariant, PTL

-----------------------------------------------------------------------------
(* Configurations: what a look-up finds in one, and in one with a target    *)
(* more.                                                                   *)

\* Some line of a list comes first (the least-number principle).
LEMMA ForemostLine ==
  ASSUME NEW D \in SUBSET Nat, D # {}
  PROVE  Foremost(D) \in D /\ \A j \in D : Foremost(D) <= j
<1>1. PICK k \in D : \A j \in D : <<j, k>> \notin OpToRel(<, Nat)
  BY NatLessThanWellFounded, WFMin
<1>2. ASSUME NEW j \in Nat, NEW i \in Nat, <<j, i>> \notin OpToRel(<, Nat) PROVE ~(j < i)
  BY <1>2, Zenon DEF OpToRel
<1>3. \A j \in D : ~(j < k)
  BY <1>1, <1>2, Zenon
<1>4. \A j \in D : k <= j
  BY <1>3
<1>. QED BY <1>4 DEF Foremost

\* A line before all others of a list is its first.
LEMMA ForemostIs ==
  ASSUME NEW D \in SUBSET Nat, NEW k \in D, \A j \in D : k <= j
  PROVE  Foremost(D) = k
<1>1. Foremost(D) \in Nat /\ k \in Nat /\ Foremost(D) <= k /\ k <= Foremost(D)
  BY ForemostLine
<1>. QED BY <1>1

\* A configuration gives some lines an entry.
LEMMA BookShape ==
  ASSUME NEW lines, NEW b \in BooksOn(lines)
  PROVE  DOMAIN b \subseteq lines /\ b \in [DOMAIN b -> Entries]
BY DEF BooksOn

\* ... and that what looks like one is one.
LEMMA ShapeIsBook ==
  ASSUME NEW lines, NEW taken \in SUBSET lines, NEW b \in [taken -> Entries]
  PROVE  b \in BooksOn(lines)
BY DEF BooksOn

\* More lines leave room for the same configurations.
LEMMA MoreLines ==
  ASSUME NEW lines, NEW more, lines \subseteq more
  PROVE  BooksOn(lines) \subseteq BooksOn(more)
BY DEF BooksOn

\* The empty file names no target.
LEMMA EmptyBook ==
  /\ \A lines : Empty \in BooksOn(lines)
  /\ \A t : Addressed(Empty, t) = NoHost
<1>1. DOMAIN Empty = {}
  BY DEF Empty
<1>2. ASSUME NEW lines PROVE Empty \in BooksOn(lines)
  <2>1. Empty \in [{} -> Entries]
    BY DEF Empty
  <2>. QED BY <2>1, ShapeIsBook
<1>3. ASSUME NEW t PROVE Addressed(Empty, t) = NoHost
  BY <1>1 DEF Addressed, DefaultHost, HostOf, Named
<1>. QED BY <1>2, <1>3

\* A target entered takes the last line.
LEMMA EnteredIsBook ==
  ASSUME NEW last \in Nat, NEW b \in BooksOn(1 .. last), NEW n \in Names, NEW h \in Hosts
  PROVE  Entered(b, n, h, last + 1) \in BooksOn(1 .. (last + 1))
<1>. DEFINE taken == (DOMAIN b \ Named(b, n)) \cup {last + 1}
<1>1. DOMAIN b \subseteq 1 .. last /\ b \in [DOMAIN b -> Entries]
  BY BookShape
<1>2. taken \subseteq 1 .. (last + 1)
  BY <1>1
<1>3. Entered(b, n, h, last + 1) \in [taken -> Entries]
  <2>1. [name |-> n, host |-> h] \in Entries
    BY DEF Entries
  <2>. QED BY <1>1, <2>1 DEF Entered
<1>. QED BY <1>2, <1>3, ShapeIsBook

\* Other names keep their first entry, and the default target stays if it was
\* not of that name.
LEMMA EnteredFollows ==
  ASSUME NEW last \in Nat, NEW b \in BooksOn(1 .. last), NEW n \in Names, NEW h \in Hosts,
         NEW targets \in SUBSET (Names \cup {Omitted}),
         n \in targets => Named(b, n) = {},
         Omitted \in targets => ~Leads(b, n)
  PROVE  Follows(targets, b, Entered(b, n, h, last + 1))
<1>. DEFINE new == last + 1
            e == Entered(b, n, h, new)
<1>1. DOMAIN b \subseteq 1 .. last /\ b \in [DOMAIN b -> Entries]
  BY BookShape
<1>2. /\ new \in Nat /\ new \notin DOMAIN b /\ \A k \in DOMAIN b : k \in Nat /\ k <= new
  BY <1>1
<1>3. /\ DOMAIN e = (DOMAIN b \ Named(b, n)) \cup {new}
      /\ e[new] = [name |-> n, host |-> h]
      /\ \A k \in DOMAIN b \ Named(b, n) : e[k] = b[k]
  BY <1>2 DEF Entered
<1>. HIDE DEF e, new
<1>4. ASSUME NEW m \in targets, m # Omitted, Addressed(b, m) # NoHost
      PROVE  Addressed(e, m) = Addressed(b, m)
  <2>1. m # n
    BY <1>4 DEF Addressed, HostOf
  <2>2. Named(e, m) = Named(b, m)
    <3>1. e[new].name = n
      BY <1>3
    <3>. QED BY <1>2, <1>3, <2>1, <3>1 DEF Named
  <2>3. Named(b, m) # {}
    BY <1>4 DEF Addressed, HostOf
  <2>4. Foremost(Named(b, m)) \in Named(b, m)
    BY <1>2, <2>3, ForemostLine DEF Named
  <2>5. e[Foremost(Named(b, m))] = b[Foremost(Named(b, m))]
    BY <1>3, <2>1, <2>4 DEF Named
  <2>. QED BY <1>4, <2>2, <2>3, <2>5 DEF Addressed, HostOf
<1>5. ASSUME Omitted \in targets, Addressed(b, Omitted) # NoHost
      PROVE  Addressed(e, Omitted) = Addressed(b, Omitted)
  <2>. DEFINE k == Foremost(DOMAIN b)
  <2>1. DOMAIN b # {}
    BY <1>5 DEF Addressed, DefaultHost
  <2>2. k \in DOMAIN b /\ \A j \in DOMAIN b : k <= j
    BY <1>2, <2>1, ForemostLine
  <2>3. k \notin Named(b, n)
    BY <1>5, <2>1 DEF Leads, Named
  <2>4. k \in DOMAIN e /\ e[k] = b[k]
    BY <1>3, <2>2, <2>3
  <2>5. \A j \in DOMAIN e : j \in Nat /\ k <= j
    BY <1>2, <1>3, <2>2
  <2>6. Foremost(DOMAIN e) = k
    <3>. HIDE DEF k
    <3>1. DOMAIN e \in SUBSET Nat
      BY <2>5
    <3>. QED BY <2>4, <2>5, <3>1, ForemostIs
  <2>. QED BY <2>1, <2>4, <2>6 DEF Addressed, DefaultHost
<1>. QED BY <1>4, <1>5 DEF Follows, e, new

\* A configuration that follows another follows what that one followed.
LEMMA FollowsOn ==
  ASSUME NEW targets, NEW b, NEW f, NEW g, Follows(targets, b, f), Follows(targets, f, g)
  PROVE  Follows(targets, b, g)
BY DEF Follows

\* ... and follows it for fewer targets.
LEMMA FollowsFewer ==
  ASSUME NEW targets, NEW fewer \in SUBSET targets, NEW b, NEW f, Follows(targets, b, f)
  PROVE  Follows(fewer, b, f)
BY DEF Follows

-----------------------------------------------------------------------------
(* The wizards and the configurations.                                     *)

\* A configuration of few lines is one of all there may be.
LEMMA LinesWithin ==
  ASSUME NEW n \in 0 .. MaxEdits
  PROVE  /\ Size + n \in Nat
         /\ BooksOn(1 .. Size + n) \subseteq Books
         /\ n < MaxEdits => BooksOn(1 .. Size + n) \subseteq BooksOn(1 .. Size + (n + 1))
<1>1. Size \in Nat /\ MaxEdits \in Nat /\ n \in Nat /\ n <= MaxEdits
  BY TargetsAssumption
<1>2. 1 .. Size + n \subseteq Lines
  BY <1>1 DEF Lines
<1>3. n < MaxEdits => 1 .. Size + n \subseteq 1 .. Size + (n + 1)
  BY <1>1
<1>. QED BY <1>1, <1>2, <1>3, MoreLines DEF Books

\* Only wizards touch the file.
LEMMA TargetsMove ==
  ASSUME [Next]_vars
  PROVE  Setup \/ UNCHANGED <<file, whole, wizardVars, editVars>>
<1>1. ASSUME NEW c \in Calls, NEW t \in Threads, NEW a \in Asks, Invoke(c, t, a)
      PROVE  UNCHANGED <<file, whole, wizardVars, editVars>>
  BY <1>1 DEF Invoke, targetsVars
<1>2. ASSUME NEW c \in Calls, LoadBook(c) \/ InstallBook(c) \/ Connect(c)
      PROVE  UNCHANGED <<file, whole, wizardVars, editVars>>
  BY <1>2 DEF LoadBook, InstallBook, Connect, targetsVars
<1>3. ASSUME NEW c \in Calls, Read(c) \/ ReadFails(c) \/ Land(c) \/ Fail(c)
      PROVE  UNCHANGED <<file, whole, wizardVars, editVars>>
  BY <1>3 DEF Read, ReadFails, Land, Fail, targetsVars
<1>4. ASSUME NEW c \in Calls, LookUp(c) \/ Conclude(c) \/ Return(c)
      PROVE  UNCHANGED <<file, whole, wizardVars, editVars>>
  BY <1>4 DEF LookUp, Conclude, Return, targetsVars
<1>5. ASSUME NEW a \in Calls, NEW i \in Calls, Dispatch(a, i)
      PROVE  UNCHANGED <<file, whole, wizardVars, editVars>>
  BY <1>5 DEF Dispatch, targetsVars
<1>6. ASSUME NEW h \in Hosts, Move(h) PROVE UNCHANGED <<file, whole, wizardVars, editVars>>
  BY <1>6 DEF Move, targetsVars
<1>7. CASE Quiescent \/ UNCHANGED vars
  BY <1>7 DEF Quiescent, vars, targetsVars
<1>. QED BY <1>1, <1>2, <1>3, <1>4, <1>5, <1>6, <1>7 DEF Next

\* A wizard gives lines in turn and edits what it read.
LEMMA WizardTypes ==
  ASSUME TargetsTypeOK, LinesInTurn, Wizard
  PROVE  TargetsTypeOK' /\ LinesInTurn'
<1>. DEFINE now == BooksOn(1 .. Size + edits)
            next == BooksOn(1 .. Size + edits')
<1>1. /\ edits \in 0 .. MaxEdits /\ Size + edits \in Nat /\ now \subseteq Books
      /\ file \in now /\ \A w \in Wizards : draft[w] \in now
  BY LinesWithin DEF TargetsTypeOK, LinesInTurn
<1>2. Contents \in now
  BY <1>1, EmptyBook DEF Contents
<1>3. ASSUME NEW w \in Wizards, OpenWizard(w) PROVE TargetsTypeOK' /\ LinesInTurn'
  <2>1. draft' \in [Wizards -> Books] /\ basis' \in [Wizards -> Books]
    BY <1>1, <1>2, <1>3 DEF TargetsTypeOK, OpenWizard
  <2>2. \A v \in Wizards : draft'[v] \in now
    BY <1>1, <1>2, <1>3 DEF TargetsTypeOK, OpenWizard
  <2>3. wiz' \in [Wizards -> {"idle", "asking", "writing", "over"}]
    BY <1>3 DEF TargetsTypeOK, OpenWizard
  <2>4. UNCHANGED <<file, whole, book, edits, editVars>>
    BY <1>3 DEF OpenWizard
  <2>. QED BY <1>1, <2>1, <2>2, <2>3, <2>4 DEF TargetsTypeOK, LinesInTurn, editVars
<1>4. ASSUME NEW w \in Wizards, NEW n \in Names, NEW h \in Hosts, EnterTarget(w, n, h)
      PROVE  TargetsTypeOK' /\ LinesInTurn'
  <2>1. edits' = edits + 1 /\ edits' \in 0 .. MaxEdits /\ edits < MaxEdits
    BY <1>1, <1>4, TargetsAssumption DEF EnterTarget
  <2>2. now \subseteq next /\ next \subseteq Books
    BY <1>1, <2>1, LinesWithin
  <2>3. Entered(draft[w], n, h, Size + edits') \in next
    <3>1. Size + edits' = (Size + edits) + 1
      BY <1>1, <2>1, TargetsAssumption
    <3>. QED BY <1>1, <3>1, EnteredIsBook
  <2>. HIDE DEF now, next
  <2>4. draft' = [draft EXCEPT ![w] = Entered(draft[w], n, h, Size + edits')]
    BY <1>4 DEF EnterTarget
  <2>5. draft' \in [Wizards -> Books] /\ \A v \in Wizards : draft'[v] \in next
    BY <1>1, <2>2, <2>3, <2>4 DEF TargetsTypeOK
  <2>6. /\ wiz' \in [Wizards -> {"idle", "asking", "writing", "over"}]
        /\ whole' \in BOOLEAN /\ overwritten' \subseteq Names /\ UNCHANGED <<file, book, basis>>
    BY <1>4 DEF TargetsTypeOK, EnterTarget
  <2>7. displaced' \in BOOLEAN /\ disturbed' \in BOOLEAN
    BY <1>4, Zenon DEF TargetsTypeOK, EnterTarget
  <2>. QED BY <1>1, <2>1, <2>2, <2>5, <2>6, <2>7 DEF TargetsTypeOK, LinesInTurn, next
<1>5. ASSUME NEW w \in Wizards, FillFile(w) PROVE TargetsTypeOK' /\ LinesInTurn'
  <2>1. /\ wiz' \in [Wizards -> {"idle", "asking", "writing", "over"}] /\ whole' = TRUE
        /\ basis' \in [Wizards -> Books] /\ file' = draft[w]
        /\ UNCHANGED <<book, draft, edits, editVars>>
    BY <1>5 DEF TargetsTypeOK, FillFile
  <2>. QED BY <1>1, <2>1 DEF TargetsTypeOK, LinesInTurn, editVars
<1>6. ASSUME NEW w \in Wizards, EndWizard(w) PROVE TargetsTypeOK' /\ LinesInTurn'
  <2>1. Empty \in now
    BY EmptyBook
  <2>2. draft' \in [Wizards -> Books] /\ basis' \in [Wizards -> Books]
    BY <1>1, <1>6, <2>1 DEF TargetsTypeOK, EndWizard
  <2>3. \A v \in Wizards : draft'[v] \in now
    BY <1>1, <1>6, <2>1 DEF TargetsTypeOK, EndWizard
  <2>4. wiz' \in [Wizards -> {"idle", "asking", "writing", "over"}]
    BY <1>6 DEF TargetsTypeOK, EndWizard
  <2>5. UNCHANGED <<file, whole, book, edits, editVars>>
    BY <1>6 DEF EndWizard
  <2>. QED BY <1>1, <2>2, <2>3, <2>4, <2>5 DEF TargetsTypeOK, LinesInTurn, editVars
<1>. QED BY <1>3, <1>4, <1>5, <1>6 DEF Wizard

\* No target is stable again once it has been entered over.
LEMMA StableShrinks ==
  ASSUME Wizard
  PROVE  Stable' \subseteq Stable /\ (~disturbed' => ~disturbed)
<1>1. ASSUME NEW w \in Wizards, OpenWizard(w) \/ FillFile(w) \/ EndWizard(w)
      PROVE  Stable' \subseteq Stable /\ (~disturbed' => ~disturbed)
  BY <1>1 DEF OpenWizard, FillFile, EndWizard, editVars, Stable
<1>2. ASSUME NEW w \in Wizards, NEW n \in Names, NEW h \in Hosts, EnterTarget(w, n, h)
      PROVE  Stable' \subseteq Stable /\ (~disturbed' => ~disturbed)
  <2>1. overwritten \subseteq overwritten'
    BY <1>2 DEF EnterTarget
  <2>2. (~displaced' => ~displaced) /\ (~disturbed' => ~disturbed)
    BY <1>2, Zenon DEF EnterTarget
  <2>. QED BY <2>1, <2>2 DEF Stable
<1>. QED BY <1>1, <1>2 DEF Wizard

\* Undisturbed wizards write one after the other; a wizard that enters a target
\* replaces the file by one that says the same of every stable target.
LEMMA WizardsStep ==
  ASSUME TargetsTypeOK, LinesInTurn, WizardsInTurn, Wizard
  PROVE  WizardsInTurn' /\ (~disturbed' => Follows(Stable', file, file'))
<1>1. ~disturbed' => ~disturbed /\ Stable' \subseteq Stable
  BY StableShrinks
<1>2. ASSUME NEW w \in Wizards, OpenWizard(w)
      PROVE  WizardsInTurn' /\ (~disturbed' => Follows(Stable', file, file'))
  <2>1. UNCHANGED <<file, whole, editVars>> /\ Stable' = Stable
    BY <1>2 DEF OpenWizard, editVars, Stable
  <2>2. /\ wiz'[w] = "asking" /\ draft'[w] = basis'[w]
        /\ \A v \in Wizards \ {w} : wiz'[v] = wiz[v] /\ draft'[v] = draft[v] /\ basis'[v] = basis[v]
    BY <1>2 DEF OpenWizard, TargetsTypeOK
  <2>. QED BY <2>1, <2>2 DEF WizardsInTurn, Follows, editVars
<1>3. ASSUME NEW w \in Wizards, NEW n \in Names, NEW h \in Hosts, EnterTarget(w, n, h)
      PROVE  WizardsInTurn' /\ (~disturbed' => Follows(Stable', file, file'))
  <2>1. file' = file /\ ~whole' /\ edits' = edits + 1 /\ wiz[w] = "asking" /\ wiz'[w] = "writing"
    BY <1>3 DEF EnterTarget, TargetsTypeOK
  <2>2. \A v \in Wizards \ {w} : wiz'[v] = wiz[v] /\ draft'[v] = draft[v] /\ basis'[v] = basis[v]
    BY <1>3 DEF EnterTarget, TargetsTypeOK
  <2>3. ASSUME ~disturbed'
        PROVE  /\ Follows(Stable', file', draft'[w])
               /\ \A v \in Wizards : wiz'[v] = "writing" => v = w
    <3>1. ~disturbed /\ whole /\ file = basis[w]
      BY <1>3, <2>3, Zenon DEF EnterTarget
    <3>2. draft[w] = file
      BY <2>1, <3>1 DEF WizardsInTurn
    <3>3. \A v \in Wizards : wiz[v] # "writing"
      BY <3>1 DEF WizardsInTurn
    <3>4. Size + edits \in Nat /\ file \in BooksOn(1 .. Size + edits)
      BY LinesWithin DEF TargetsTypeOK, LinesInTurn
    <3>5. Size + edits' = (Size + edits) + 1
      BY <2>1, TargetsAssumption DEF TargetsTypeOK
    <3>6. draft'[w] = Entered(file, n, h, (Size + edits) + 1)
      BY <1>3, <3>2, <3>5 DEF EnterTarget, TargetsTypeOK
    <3>7. Stable' \in SUBSET (Names \cup {Omitted})
      BY DEF Stable
    <3>8. n \in Stable' => Named(file, n) = {}
      <4>1. n # Omitted
        BY TargetsAssumption
      <4>. QED BY <1>3, <3>2, <4>1 DEF EnterTarget, Stable
    <3>9. Omitted \in Stable' => ~Leads(file, n)
      <4>1. ~displaced' => ~Leads(file, n)
        BY <1>3, <3>2, Zenon DEF EnterTarget
      <4>. QED BY <4>1 DEF Stable
    <3>10. Follows(Stable', file, Entered(file, n, h, (Size + edits) + 1))
      BY <3>4, <3>7, <3>8, <3>9, EnteredFollows
    <3>. QED BY <2>1, <2>2, <3>3, <3>6, <3>10
  <2>. QED BY <2>1, <2>2, <2>3 DEF WizardsInTurn, Follows
<1>4. ASSUME NEW w \in Wizards, FillFile(w)
      PROVE  WizardsInTurn' /\ (~disturbed' => Follows(Stable', file, file'))
  <2>1. /\ wiz[w] = "writing" /\ wiz'[w] = "asking" /\ draft' = draft /\ basis'[w] = draft[w]
        /\ file' = draft[w] /\ disturbed' = disturbed
    BY <1>4 DEF FillFile, TargetsTypeOK, editVars
  <2>2. \A v \in Wizards \ {w} : wiz'[v] = wiz[v] /\ basis'[v] = basis[v]
    BY <1>4 DEF FillFile, TargetsTypeOK
  <2>3. ASSUME ~disturbed PROVE Follows(Stable', file, file') /\ \A v \in Wizards : wiz'[v] # "writing"
    BY <1>1, <2>1, <2>2, <2>3, FollowsFewer DEF WizardsInTurn
  <2>. QED BY <2>1, <2>2, <2>3 DEF WizardsInTurn
<1>5. ASSUME NEW w \in Wizards, EndWizard(w)
      PROVE  WizardsInTurn' /\ (~disturbed' => Follows(Stable', file, file'))
  <2>1. UNCHANGED <<file, whole, editVars>> /\ Stable' = Stable
    BY <1>5 DEF EndWizard, editVars, Stable
  <2>2. /\ wiz'[w] = "over"
        /\ \A v \in Wizards \ {w} : wiz'[v] = wiz[v] /\ draft'[v] = draft[v] /\ basis'[v] = basis[v]
    BY <1>5 DEF EndWizard, TargetsTypeOK
  <2>. QED BY <2>1, <2>2 DEF WizardsInTurn, Follows, editVars
<1>. QED BY <1>2, <1>3, <1>4, <1>5 DEF Wizard

\* A configuration is read, installed, and forgotten with its process.
LEMMA BookMoves ==
  ASSUME [Next]_vars
  PROVE  \/ \E c \in Calls : LoadBook(c) \/ InstallBook(c) \/ Return(c)
         \/ UNCHANGED <<book, loaded>>
<1>1. ASSUME NEW c \in Calls, NEW t \in Threads, NEW a \in Asks, Invoke(c, t, a)
      PROVE  UNCHANGED <<book, loaded>>
  BY <1>1 DEF Invoke, targetsVars
<1>2. ASSUME NEW c \in Calls, Connect(c) \/ Read(c) \/ ReadFails(c) \/ Land(c)
      PROVE  UNCHANGED <<book, loaded>>
  BY <1>2 DEF Connect, Read, ReadFails, Land, targetsVars
<1>3. ASSUME NEW c \in Calls, Fail(c) \/ LookUp(c) \/ Conclude(c)
      PROVE  UNCHANGED <<book, loaded>>
  BY <1>3 DEF Fail, LookUp, Conclude, targetsVars
<1>4. ASSUME NEW a \in Calls, NEW i \in Calls, Dispatch(a, i) PROVE UNCHANGED <<book, loaded>>
  BY <1>4 DEF Dispatch, targetsVars
<1>5. ASSUME NEW h \in Hosts, Move(h) PROVE UNCHANGED <<book, loaded>>
  BY <1>5 DEF Move, targetsVars, callVars
<1>6. ASSUME Setup PROVE UNCHANGED <<book, loaded>>
  BY <1>6 DEF Setup, Wizard, OpenWizard, FillFile, EndWizard, EnterTarget, callVars
<1>7. CASE Quiescent \/ UNCHANGED vars
  BY <1>7 DEF Quiescent, vars, targetsVars, callVars
<1>. QED BY <1>1, <1>2, <1>3, <1>4, <1>5, <1>6, <1>7 DEF Next

\* A call reaches its Prism Central when it connects.
LEMMA ReachMoves ==
  ASSUME [Next]_vars
  PROVE  (\E c \in Calls : Connect(c)) \/ UNCHANGED reach
<1>1. ASSUME NEW c \in Calls, NEW t \in Threads, NEW a \in Asks, Invoke(c, t, a)
      PROVE  UNCHANGED reach
  BY <1>1 DEF Invoke
<1>2. ASSUME NEW c \in Calls, LoadBook(c) \/ InstallBook(c) \/ Read(c) \/ ReadFails(c) \/ Land(c)
      PROVE  UNCHANGED reach
  BY <1>2 DEF LoadBook, InstallBook, Read, ReadFails, Land
<1>3. ASSUME NEW c \in Calls, Fail(c) \/ LookUp(c) \/ Conclude(c) \/ Return(c)
      PROVE  UNCHANGED reach
  BY <1>3 DEF Fail, LookUp, Conclude, Return
<1>4. ASSUME NEW a \in Calls, NEW i \in Calls, Dispatch(a, i) PROVE UNCHANGED reach
  BY <1>4 DEF Dispatch
<1>5. (Setup \/ Quiescent \/ UNCHANGED vars \/ \E h \in Hosts : Move(h)) => UNCHANGED reach
  BY DEF Setup, Quiescent, vars, Move, callVars
<1>. QED BY <1>1, <1>2, <1>3, <1>4, <1>5 DEF Next

\* A call is asked once, when it starts.
LEMMA AskMoves ==
  ASSUME [Next]_vars
  PROVE  \/ \E c \in Calls, t \in Threads, a \in Asks : Invoke(c, t, a)
         \/ \E a, i \in Calls : Dispatch(a, i)
         \/ UNCHANGED <<ask, inner>>
<1>1. ASSUME NEW c \in Calls, LoadBook(c) \/ InstallBook(c) \/ Connect(c) \/ Read(c) \/ ReadFails(c)
      PROVE  UNCHANGED <<ask, inner>>
  BY <1>1 DEF LoadBook, InstallBook, Connect, Read, ReadFails
<1>2. ASSUME NEW c \in Calls, Land(c) \/ Fail(c) \/ LookUp(c) \/ Conclude(c) \/ Return(c)
      PROVE  UNCHANGED <<ask, inner>>
  BY <1>2 DEF Land, Fail, LookUp, Conclude, Return
<1>3. (Setup \/ Quiescent \/ UNCHANGED vars \/ \E h \in Hosts : Move(h)) => UNCHANGED <<ask, inner>>
  BY DEF Setup, Quiescent, vars, Move, callVars
<1>. QED BY <1>1, <1>2, <1>3 DEF Next

\* A call talks to one Prism Central.
LEMMA ReachKept ==
  ASSUME CallInv, ReachedBefore, [Next]_vars
  PROVE  \A c \in Calls : reach[c] \in Hosts => reach'[c] = reach[c]
<1>1. ASSUME NEW d \in Calls, Connect(d), NEW c \in Calls, reach[c] \in Hosts
      PROVE  reach'[c] = reach[c]
  <2>1. reach[d] \notin Hosts
    BY <1>1, TargetsAssumption DEF Connect, ReachedBefore
  <2>. QED BY <1>1, <2>1 DEF Connect, CallInv, CallTypeOK
<1>. QED BY <1>1, ReachMoves

\* Configurations have their types.
LEMMA BooksTyped ==
  ASSUME TypeOK, LinesInTurn, CallInv, [Next]_vars
  PROVE  book' \in [Procs -> Books \cup {NoBook}] /\ loaded' \in [Calls -> Books]
<1>1. Empty \in Books /\ Contents \in Books
  <2>1. file \in Books /\ Empty \in Books
    BY EmptyBook DEF TypeOK, TargetsTypeOK, Books
  <2>. QED BY <2>1 DEF Contents
<1>2. ASSUME NEW c \in Calls, LoadBook(c)
      PROVE  book' \in [Procs -> Books \cup {NoBook}] /\ loaded' \in [Calls -> Books]
  BY <1>1, <1>2 DEF LoadBook, TypeOK, TargetsTypeOK, targetsVars
<1>3. ASSUME NEW c \in Calls, InstallBook(c)
      PROVE  book' \in [Procs -> Books \cup {NoBook}] /\ loaded' \in [Calls -> Books]
  BY <1>1, <1>3 DEF InstallBook, TypeOK, TargetsTypeOK
<1>4. ASSUME NEW c \in Calls, Return(c)
      PROVE  book' \in [Procs -> Books \cup {NoBook}] /\ loaded' \in [Calls -> Books]
  BY <1>4 DEF Return, TypeOK, TargetsTypeOK
<1>. QED BY <1>2, <1>3, <1>4, BookMoves DEF TypeOK, TargetsTypeOK

\* A call that has not connected yet was so before.
LEMMA FreshBefore ==
  ASSUME CallInv, [Next]_vars, NEW d \in Calls, pc'[d] \in {"idle", "body", "loading"}
  PROVE  pc[d] \in {"idle", "body", "loading"} /\ ~Connect(d)
<1>1. pc \in [Calls -> Places]
  BY DEF CallInv, CallTypeOK
<1>2. ASSUME NEW c \in Calls, NEW t \in Threads, NEW a \in Asks, Invoke(c, t, a)
      PROVE  pc[d] \in {"idle", "body", "loading"}
  BY <1>1, <1>2 DEF Invoke, Goto
<1>3. ASSUME NEW c \in Calls, LoadBook(c) \/ InstallBook(c) PROVE pc[d] \in {"idle", "body", "loading"}
  BY <1>1, <1>3 DEF LoadBook, InstallBook, Goto, Answer
<1>4. ASSUME NEW c \in Calls, Connect(c) PROVE pc[d] \in {"idle", "body", "loading"} /\ d # c
  BY <1>1, <1>4 DEF Connect, Goto, Answer
<1>5. ASSUME NEW c \in Calls, Read(c) PROVE pc[d] \in {"idle", "body", "loading"}
  BY <1>1, <1>5 DEF Read, Goto, Answer
<1>6. ASSUME NEW c \in Calls, ReadFails(c) \/ Land(c) \/ Fail(c)
      PROVE  pc[d] \in {"idle", "body", "loading"}
  BY <1>1, <1>6 DEF ReadFails, Land, Fail, Goto, Answer
<1>7. ASSUME NEW c \in Calls, LookUp(c) PROVE pc[d] \in {"idle", "body", "loading"}
  BY <1>1, <1>7 DEF LookUp, Goto, Answer
<1>8. ASSUME NEW c \in Calls, Conclude(c) PROVE pc[d] \in {"idle", "body", "loading"}
  BY <1>1, <1>8, ConcludeStep
<1>9. ASSUME NEW c \in Calls, Return(c) PROVE pc[d] \in {"idle", "body", "loading"}
  BY <1>1, <1>9 DEF Return, Goto
<1>10. ASSUME NEW a \in Calls, NEW i \in Calls, Dispatch(a, i)
       PROVE  pc[d] \in {"idle", "body", "loading"}
  BY <1>10, DispatchStep
<1>11. (Setup \/ Quiescent \/ UNCHANGED vars \/ \E h \in Hosts : Move(h)) => pc' = pc
  BY DEF Setup, Quiescent, vars, Move, callVars
<1>12. ~Connect(d)
  BY <1>4
<1>. QED BY <1>2, <1>3, <1>4, <1>5, <1>6, <1>7, <1>8, <1>9, <1>10, <1>11, <1>12 DEF Next

\* Requests are sent, and before-states stashed, by calls about to send one.
LEMMA SentBefore ==
  ASSUME CallInv, [Next]_vars, NEW d \in Calls
  PROVE  /\ d \in landed' => d \in landed \/ pc[d] = "hold"
         /\ \A t \in Threads : slot'[t] = d => slot[t] = d \/ pc[d] = "hold"
<1>. DEFINE Goal == /\ d \in landed' => d \in landed \/ pc[d] = "hold"
                    /\ \A t \in Threads : slot'[t] = d => slot[t] = d \/ pc[d] = "hold"
<1>1. slot \in [Threads -> Calls \cup {NoCall}] /\ d # NoCall
  BY CallAssumption DEF CallInv, CallTypeOK
<1>2. ASSUME NEW c \in Calls, NEW t \in Threads, NEW a \in Asks, Invoke(c, t, a) PROVE Goal
  BY <1>1, <1>2 DEF Invoke, StashCleared, historyVars
<1>3. ASSUME NEW c \in Calls, LoadBook(c) \/ InstallBook(c) \/ Connect(c) \/ Read(c) \/ ReadFails(c)
      PROVE  Goal
  BY <1>3 DEF LoadBook, InstallBook, Connect, Read, ReadFails, historyVars, recordVars
<1>4. ASSUME NEW c \in Calls, Land(c) \/ Fail(c) PROVE Goal
  BY <1>1, <1>4 DEF Land, Fail, Stash
<1>5. ASSUME NEW c \in Calls, LookUp(c) \/ Conclude(c) PROVE Goal
  BY <1>5 DEF LookUp, Conclude, historyVars, recordVars
<1>6. ASSUME NEW c \in Calls, Return(c) PROVE Goal
  BY <1>1, <1>6 DEF Return, historyVars
<1>7. ASSUME NEW a \in Calls, NEW i \in Calls, Dispatch(a, i) PROVE Goal
  BY <1>1, <1>7 DEF Dispatch, StashCleared, historyVars
<1>8. (Setup \/ Quiescent \/ UNCHANGED vars \/ \E h \in Hosts : Move(h)) => Goal
  BY DEF Setup, Quiescent, vars, Move, recordVars, historyVars
<1>. QED BY <1>2, <1>3, <1>4, <1>5, <1>6, <1>7, <1>8 DEF Next

\* A token is recorded for a request that was carried out or a before-state the
\* call stashed itself.
LEMMA TokenBefore ==
  ASSUME CallInv, [Next]_vars, NEW d \in Calls, token'[d] # NoCall
  PROVE  token[d] # NoCall \/ d \in landed \/ \E t \in Threads : slot[t] = d
<1>1. ASSUME NEW c \in Calls, LoadBook(c) \/ InstallBook(c) \/ Connect(c) \/ Read(c) \/ ReadFails(c)
      PROVE  UNCHANGED token
  BY <1>1 DEF LoadBook, InstallBook, Connect, Read, ReadFails, recordVars
<1>2. ASSUME NEW c \in Calls, Land(c) \/ Fail(c) \/ LookUp(c) \/ Conclude(c) PROVE UNCHANGED token
  BY <1>2 DEF Land, Fail, LookUp, Conclude, recordVars
<1>3. ASSUME NEW c \in Calls, Return(c)
      PROVE  token[d] # NoCall \/ d \in landed \/ \E t \in Threads : slot[t] = d
  <2>1. CASE d # c
    BY <1>3, <2>1 DEF Return, RecordUndo, CallInv, CallTypeOK
  <2>2. CASE d = c
    <3>1. pc[c] = "answered" /\ Busy(c) /\ thread[c] \in Threads
      BY <1>3 DEF Return, Busy, CallInv, Serial
    <3>2. Reversible(ask[c]) /\ ~ask[c].dry
      BY <1>3, <2>2 DEF Return, RecordUndo, CallInv, CallTypeOK
    <3>3. ask[c].tool # "apply" /\ Requests(ask[c])
      BY <3>2 DEF Reversible, Requests
    <3>4. CASE result[c] = "unknown"
      <4>1. token'[c] \in {slot[thread[c]], NoCall}
        BY <1>3, <3>4 DEF Return, RecordUndo, CallInv, CallTypeOK
      <4>2. slot[thread[c]] \in {NoCall, c}
        BY <3>1, <3>3 DEF CallInv, StashIsOwn
      <4>. QED BY <2>2, <3>1, <4>1, <4>2
    <3>5. CASE result[c] # "unknown"
      <4>1. result[c] = "ok"
        BY <1>3, <2>2, <3>5 DEF Return, RecordUndo, CallInv, CallTypeOK
      <4>. QED BY <2>2, <3>1, <3>3, <4>1 DEF CallInv, VerdictsKept
    <3>. QED BY <3>4, <3>5
  <2>. QED BY <2>1, <2>2
<1>4. ASSUME NEW c \in Calls, NEW t \in Threads, NEW a \in Asks, Invoke(c, t, a) PROVE UNCHANGED token
  BY <1>4 DEF Invoke
<1>5. ASSUME NEW a \in Calls, NEW i \in Calls, Dispatch(a, i) PROVE UNCHANGED token
  BY <1>5 DEF Dispatch
<1>6. (Setup \/ Quiescent \/ UNCHANGED vars \/ \E h \in Hosts : Move(h)) => UNCHANGED token
  BY DEF Setup, Quiescent, vars, Move, recordVars
<1>. QED BY <1>1, <1>2, <1>3, <1>4, <1>5, <1>6 DEF Next

\* What a call sent, stashed or recorded, it did after it connected.
LEMMA ReachedStep ==
  ASSUME CallInv, ReachedBefore, [Next]_vars PROVE ReachedBefore'
<1>1. ASSUME NEW d \in Calls, pc'[d] \in {"idle", "body", "loading"} PROVE reach'[d] = NoHost
  <2>1. pc[d] \in {"idle", "body", "loading"} /\ ~Connect(d) /\ reach[d] = NoHost
    BY <1>1, FreshBefore DEF ReachedBefore
  <2>2. ASSUME NEW c \in Calls, Connect(c) PROVE reach'[d] = reach[d]
    BY <2>1, <2>2 DEF Connect, CallInv, CallTypeOK
  <2>. QED BY <2>1, <2>2, ReachMoves
<1>2. ASSUME NEW d \in Calls, pc[d] = "hold" PROVE reach[d] \in Hosts
  BY <1>2 DEF CallInv, TagsJudge
<1>3. ASSUME NEW d \in Calls, d \in landed' \/ (\E t \in Threads : slot'[t] = d) \/ token'[d] # NoCall
      PROVE  reach'[d] \in Hosts
  <2>1. reach[d] \in Hosts
    BY <1>2, <1>3, SentBefore, TokenBefore DEF ReachedBefore
  <2>. QED BY <2>1, ReachKept
<1>. QED BY <1>1, <1>3 DEF ReachedBefore

\* An undo_apply about to make its call found a token.
LEMMA DispatchNeedsToken ==
  ASSUME CallInv, [Next]_vars, NEW d \in Calls, pc'[d] = "dispatch"
  PROVE  pc[d] = "dispatch" \/ (ask[d].tool = "apply" /\ token[ask[d].of] # NoCall)
<1>1. pc \in [Calls -> Places]
  BY DEF CallInv, CallTypeOK
<1>2. ASSUME NEW c \in Calls, NEW t \in Threads, NEW a \in Asks, Invoke(c, t, a) PROVE pc[d] = "dispatch"
  BY <1>1, <1>2 DEF Invoke, Goto
<1>3. ASSUME NEW c \in Calls, LoadBook(c) \/ InstallBook(c) \/ Connect(c) PROVE pc[d] = "dispatch"
  BY <1>1, <1>3 DEF LoadBook, InstallBook, Connect, Goto, Answer
<1>4. ASSUME NEW c \in Calls, Read(c) PROVE pc[d] = "dispatch"
  BY <1>1, <1>4 DEF Read, Goto, Answer
<1>5. ASSUME NEW c \in Calls, ReadFails(c) \/ Land(c) \/ Fail(c) PROVE pc[d] = "dispatch"
  BY <1>1, <1>5 DEF ReadFails, Land, Fail, Goto, Answer
<1>6. ASSUME NEW c \in Calls, LookUp(c)
      PROVE  pc[d] = "dispatch" \/ (ask[d].tool = "apply" /\ token[ask[d].of] # NoCall)
  BY <1>1, <1>6 DEF LookUp, Goto, Answer
<1>7. ASSUME NEW c \in Calls, Conclude(c) PROVE pc[d] = "dispatch"
  BY <1>7, ConcludeStep
<1>8. ASSUME NEW c \in Calls, Return(c) PROVE pc[d] = "dispatch"
  BY <1>1, <1>8 DEF Return, Goto
<1>9. ASSUME NEW a \in Calls, NEW i \in Calls, Dispatch(a, i) PROVE pc[d] = "dispatch"
  BY <1>9, DispatchStep
<1>10. (Setup \/ Quiescent \/ UNCHANGED vars \/ \E h \in Hosts : Move(h)) => pc' = pc
  BY DEF Setup, Quiescent, vars, Move, callVars
<1>. QED BY <1>2, <1>3, <1>4, <1>5, <1>6, <1>7, <1>8, <1>9, <1>10 DEF Next

\* A replay has the target of the write it undoes, and starts once that write
\* has a token.
LEMMA ReplaysStep ==
  ASSUME CallInv, ReachedBefore, ReplaysFollowTokens, [Next]_vars PROVE ReplaysFollowTokens'
<1>1. \A c \in Calls : reach[c] \in Hosts => reach'[c] \in Hosts /\ pc[c] # "idle"
  BY ReachKept, TargetsAssumption DEF ReachedBefore
<1>2. ASSUME NEW c \in Calls, NEW t \in Threads, NEW a \in Asks, Invoke(c, t, a)
      PROVE  ReplaysFollowTokens'
  <2>1. /\ pc[c] = "idle" /\ \A d \in Calls \ {c} : ask'[d] = ask[d] /\ pc'[d] = pc[d]
        /\ pc'[c] \in {"body", "over"} /\ inner' = inner
    BY <1>2 DEF Invoke, Goto, CallInv, CallTypeOK
  <2>2. inner[c] = NoCall /\ \A d \in Calls : inner[d] # c
    BY <2>1, CallAssumption DEF CallInv, Nesting
  <2>3. \A d \in Calls : pc[d] = "dispatch" => ask[d].of \in Calls \ {c} /\ reach[ask[d].of] \in Hosts
    BY <1>1, <2>1 DEF CallInv, Nesting, ReplaysFollowTokens
  <2>4. \A d \in Calls : inner[d] # NoCall => ask[d].of \in Calls \ {c} /\ inner[d] \in Calls \ {c}
    BY <1>1, <2>1, <2>2 DEF CallInv, CallTypeOK, ReplaysFollowTokens
  <2>. QED BY <1>1, <2>1, <2>2, <2>3, <2>4 DEF ReplaysFollowTokens
<1>3. ASSUME NEW a \in Calls, NEW i \in Calls, Dispatch(a, i) PROVE ReplaysFollowTokens'
  <2>1. /\ a # i /\ pc[a] = "dispatch" /\ pc[i] = "idle" /\ pc'[a] = "waiting"
        /\ pc'[i] \in {"body", "returned"} /\ \A c \in Calls \ {a, i} : pc'[c] = pc[c]
        /\ inner'[a] = i /\ \A c \in Calls \ {a} : inner'[c] = inner[c]
        /\ \A c \in Calls \ {i} : ask'[c] = ask[c]
    BY <1>3, DispatchStep
  <2>2. inner[i] = NoCall /\ \A d \in Calls : inner[d] # i
    BY <2>1, CallAssumption DEF CallInv, Nesting
  <2>3. \A d \in Calls : pc[d] = "dispatch" => ask[d].of \in Calls \ {i} /\ reach[ask[d].of] \in Hosts
    BY <1>1, <2>1 DEF CallInv, Nesting, ReplaysFollowTokens
  <2>4. ask'[i].target = ReplayTarget(a)
    BY <1>3 DEF Dispatch, CallInv, CallTypeOK
  <2>5. ask[a].target = Omitted => ask'[i].target = ask[ask[a].of].target
    BY <2>4 DEF ReplayTarget
  <2>6. \A d \in Calls : inner[d] # NoCall => ask[d].of \in Calls \ {i} /\ inner[d] \in Calls \ {i}
    BY <1>1, <2>1, <2>2 DEF CallInv, CallTypeOK, ReplaysFollowTokens
  <2>7. \A d \in Calls \ {a, i} : pc'[d] = "dispatch" => reach'[ask'[d].of] \in Hosts
    BY <1>1, <2>1, <2>3
  <2>8. /\ ask'[a].of \in Calls /\ reach'[ask'[a].of] \in Hosts
        /\ ask'[a].target = Omitted => ask'[inner'[a]].target = ask'[ask'[a].of].target
    BY <1>1, <2>1, <2>3, <2>5
  <2>9. \A d \in Calls \ {a} : inner'[d] # NoCall =>
            /\ ask'[d].of \in Calls /\ reach'[ask'[d].of] \in Hosts
            /\ ask'[d].target = Omitted => ask'[inner'[d]].target = ask'[ask'[d].of].target
    BY <1>1, <2>1, <2>2, <2>6 DEF ReplaysFollowTokens
  <2>. QED BY <2>1, <2>7, <2>8, <2>9 DEF ReplaysFollowTokens
<1>4. ASSUME UNCHANGED <<ask, inner>>, NEW d \in Calls, pc'[d] = "dispatch"
      PROVE  ask[d].of \in Calls /\ reach[ask[d].of] \in Hosts
  BY <1>4, DispatchNeedsToken DEF CallInv, Nesting, ReplaysFollowTokens, ReachedBefore
<1>5. CASE UNCHANGED <<ask, inner>>
  BY <1>1, <1>4, <1>5 DEF ReplaysFollowTokens
<1>. QED BY <1>2, <1>3, <1>5, AskMoves

\* The configurations read stay true to the file.
LEMMA BooksStep ==
  ASSUME TypeOK, CallInv, LinesInTurn, WizardsInTurn, ReachedBefore, BooksFollow, [Next]_vars
  PROVE  BooksFollow'
<1>. SUFFICES ASSUME ~disturbed' PROVE BooksFollow'
  BY DEF BooksFollow
<1>1. ~disturbed /\ Stable' \subseteq Stable /\ Follows(Stable', file, file')
  <2>1. CASE Setup
    BY <2>1, StableShrinks, WizardsStep DEF Setup, TypeOK
  <2>2. CASE UNCHANGED <<file, whole, wizardVars, editVars>>
    BY <2>2 DEF Stable, Follows, editVars
  <2>. QED BY <2>1, <2>2, TargetsMove
<1>2. \A b : Follows(Stable, b, file) => Follows(Stable', b, file')
  BY <1>1, FollowsOn, FollowsFewer
<1>3. Follows(Stable, Contents, file) /\ Follows(Stable, Empty, file)
  BY EmptyBook DEF Follows, Contents
<1>4. /\ \A p \in Procs : book[p] # NoBook => Follows(Stable, book[p], file)
      /\ \A c \in Calls : Follows(Stable, loaded[c], file)
  BY <1>1 DEF BooksFollow
<1>5. /\ \A p \in Procs : book'[p] # NoBook => Follows(Stable, book'[p], file)
      /\ \A c \in Calls : Follows(Stable, loaded'[c], file)
  <2>1. ASSUME NEW c \in Calls, LoadBook(c)
        PROVE  book' = book /\ \A d \in Calls : loaded'[d] \in {loaded[d], Contents}
    BY <2>1 DEF LoadBook, TypeOK, targetsVars
  <2>2. ASSUME NEW c \in Calls, InstallBook(c)
        PROVE  /\ \A p \in Procs : book'[p] \in {book[p], loaded[c]}
               /\ \A d \in Calls : loaded'[d] \in {loaded[d], Empty}
    BY <2>2 DEF InstallBook, TypeOK, TargetsTypeOK
  <2>3. ASSUME NEW c \in Calls, Return(c)
        PROVE  loaded' = loaded /\ \A p \in Procs : book'[p] \in {book[p], NoBook}
    BY <2>3 DEF Return, TypeOK, TargetsTypeOK
  <2>. QED BY <1>3, <1>4, <2>1, <2>2, <2>3, BookMoves
<1>6. ASSUME NEW c \in Calls, reach'[c] \in Hosts, ask'[c].target \in Stable
      PROVE  Addressed(file, ask'[c].target) = reach'[c]
  <2>1. ASSUME NEW d \in Calls, Connect(d) PROVE Addressed(file, ask'[c].target) = reach'[c]
    <3>1. CASE d # c
      <4>1. reach'[c] = reach[c] /\ ask' = ask
        BY <2>1, <3>1 DEF Connect, CallInv, CallTypeOK
      <4>. QED BY <1>1, <1>6, <4>1 DEF BooksFollow
    <3>2. CASE d = c
      <4>1. pc[c] = "body" /\ reach[c] = NoHost /\ ask' = ask
        BY <2>1, <3>2 DEF Connect, ReachedBefore
      <4>2. book[Proc(c)] # NoBook /\ reach'[c] = Addressed(book[Proc(c)], ask[c].target)
        BY <1>6, <2>1, <3>2, <4>1, TargetsAssumption DEF Connect, CallInv, CallTypeOK
      <4>3. Proc(c) \in Procs
        BY <4>1, CallAssumption DEF CallInv, Serial, Busy, Proc
      <4>. QED BY <1>4, <1>6, <4>1, <4>2, <4>3, TargetsAssumption DEF Follows
    <3>. QED BY <3>1, <3>2
  <2>2. ASSUME UNCHANGED reach PROVE ask'[c] = ask[c]
    <3>1. pc[c] # "idle"
      BY <1>6, <2>2, TargetsAssumption DEF ReachedBefore
    <3>2. ASSUME NEW d \in Calls, NEW t \in Threads, NEW a \in Asks, Invoke(d, t, a)
          PROVE  ask'[c] = ask[c]
      BY <3>1, <3>2 DEF Invoke, CallInv, CallTypeOK
    <3>3. ASSUME NEW a \in Calls, NEW i \in Calls, Dispatch(a, i) PROVE ask'[c] = ask[c]
      BY <3>1, <3>3, DispatchStep
    <3>. QED BY <3>2, <3>3, AskMoves
  <2>. QED BY <1>1, <1>6, <2>1, <2>2, ReachMoves DEF BooksFollow
<1>7. ASSUME NEW c \in Calls, reach'[c] \in Hosts, ask'[c].target \in Stable'
      PROVE  Addressed(file', ask'[c].target) = reach'[c]
  BY <1>1, <1>6, <1>7, TargetsAssumption DEF Follows
<1>. QED BY <1>2, <1>5, <1>7 DEF BooksFollow

\* At first no process has read anything.
LEMMA TargetsInvInit == 
  ASSUME Init
  PROVE  TargetsTypeOK /\ loaded \in [Calls -> Books] /\ TargetsInv
<1>1. /\ file \in BooksOn(1 .. Size + edits) /\ edits = 0 /\ edits \in 0 .. MaxEdits
      /\ \A w \in Wizards : draft[w] = Empty
  BY TargetsAssumption DEF Init, TargetsInit
<1>2. Empty \in BooksOn(1 .. Size + edits) /\ BooksOn(1 .. Size + edits) \subseteq Books
  BY <1>1, EmptyBook, LinesWithin
<1>3. TargetsTypeOK /\ loaded \in [Calls -> Books]
  BY <1>1, <1>2 DEF Init, TargetsInit, TargetsTypeOK
<1>4. LinesInTurn
  BY <1>1, <1>2 DEF LinesInTurn
<1>5. WizardsInTurn
  BY DEF Init, TargetsInit, WizardsInTurn
<1>6. ReachedBefore /\ ReplaysFollowTokens
  BY CallAssumption, TargetsAssumption DEF Init, ReachedBefore, ReplaysFollowTokens
<1>7. BooksFollow
  BY EmptyBook, TargetsAssumption DEF Init, TargetsInit, BooksFollow, Follows
<1>. QED BY <1>3, <1>4, <1>5, <1>6, <1>7 DEF TargetsInv

\* The invariant holds at first, and every step keeps it.
LEMMA GovernedInvInit == Init => GovernedInv
BY CallInvInit, TargetsInvInit DEF GovernedInv, TypeOK, CallInv

\* ... and with it the invariant of targets.
LEMMA GovernedInvStep == GovernedInv /\ [Next]_vars => GovernedInv'
<1>. SUFFICES ASSUME GovernedInv, [Next]_vars PROVE GovernedInv'
  OBVIOUS
<1>1. TypeOK /\ TargetsTypeOK /\ CallInv /\ TargetsInv
  BY DEF GovernedInv, TypeOK
<1>2. CallInv' /\ CallTypeOK'
  BY <1>1, CallInvStep DEF CallInv
<1>3. TargetsTypeOK' /\ LinesInTurn' /\ WizardsInTurn'
  <2>1. CASE Setup
    BY <1>1, <2>1, WizardTypes, WizardsStep DEF Setup, TargetsInv
  <2>2. CASE UNCHANGED <<file, whole, wizardVars, editVars>>
    <3>1. book' \in [Procs -> Books \cup {NoBook}]
      BY <1>1, BooksTyped DEF TargetsInv
    <3>2. TargetsTypeOK'
      BY <1>1, <2>2, <3>1 DEF TargetsTypeOK, wizardVars, editVars
    <3>3. LinesInTurn'
      BY <1>1, <2>2 DEF TargetsInv, LinesInTurn, wizardVars
    <3>4. WizardsInTurn'
      BY <1>1, <2>2 DEF TargetsInv, WizardsInTurn, Follows, Stable, wizardVars, editVars
    <3>. QED BY <3>2, <3>3, <3>4
  <2>. QED BY <2>1, <2>2, TargetsMove
<1>4. loaded' \in [Calls -> Books]
  BY <1>1, BooksTyped DEF TargetsInv
<1>5. ReachedBefore' /\ ReplaysFollowTokens' /\ BooksFollow'
  BY <1>1, ReachedStep, ReplaysStep, BooksStep DEF TargetsInv
<1>. QED BY <1>2, <1>3, <1>4, <1>5 DEF GovernedInv, TypeOK, TargetsInv

-----------------------------------------------------------------------------
\* The invariant of governed calls together with that of the configurations
\* they go by, for any of them and any wizards that rewrite them.
THEOREM GovernedInvariant == Spec => []GovernedInv
BY GovernedInvInit, GovernedInvStep, PTL DEF Spec

\* The inverse of a write reaches the Prism Central the write ran on, unless a
\* wizard has entered over its target or over a file it had not seen
\* (tools/undo.py _origin_target): both were found under the same name in
\* configurations that the file still follows.
THEOREM ReplaysGoHome == Spec => []ReplayGoesHome
<1>1. ASSUME GovernedInv PROVE ReplayGoesHome
  <2>. SUFFICES ASSUME NEW a \in Calls, inner[a] # NoCall, reach[inner[a]] # NoHost,
                       ask[a].target = Omitted, ~disturbed, ask[ask[a].of].target \in Stable
                PROVE  reach[inner[a]] = reach[ask[a].of]
    <3>1. \A c \in Calls : ask[c].target \in Names \cup {Omitted}
      BY <1>1 DEF GovernedInv, TypeOK, CallTypeOK, AllAsks
    <3>2. \A d \in Calls : inner[d] # NoCall => ask[d].of \in Calls
      BY <1>1 DEF GovernedInv, TargetsInv, ReplaysFollowTokens
    <3>. QED BY <3>1, <3>2 DEF ReplayGoesHome, Stable
  <2>1. inner[a] \in Calls /\ reach[inner[a]] \in Hosts
    BY <1>1 DEF GovernedInv, TypeOK, CallTypeOK
  <2>2. /\ ask[a].of \in Calls /\ reach[ask[a].of] \in Hosts
        /\ ask[inner[a]].target = ask[ask[a].of].target
    BY <1>1 DEF GovernedInv, TargetsInv, ReplaysFollowTokens
  <2>. QED BY <1>1, <2>1, <2>2 DEF GovernedInv, TargetsInv, BooksFollow
<1>. QED BY <1>1, GovernedInvariant, PTL
=============================================================================
