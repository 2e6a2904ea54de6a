-------------------------- MODULE UndoTokensProofs --------------------------
(***************************************************************************)
(* Theorems about VM writes (PrismVms), for any calls, VMs, fields and     *)
(* values, and about undo tokens (UndoTokens), for any number of writes    *)
(* and undo_apply calls, in any interleaving, with crashes and failures of *)
(* the store.                                                              *)
(***************************************************************************)
EXTENDS UndoTokens, FiniteSetTheorems, TLAPS

USE DEF worldVars, callVars, historyVars, Phases, applyVars, Steps, NoFault, Fault

-----------------------------------------------------------------------------
(* The writes.                                                             *)

\* What a request leaves behind is a configuration.
LEMMA ResultIsConfig ==
    ASSUME TypeOK, NEW c \in Calls
    PROVE  Result(c) \in Configs
<1> DEFINE change == ask[c].change
<1>1. change \in Changes /\ seen[c] \in Configs /\ vm[on[c]] \in Configs
  BY DEF TypeOK, Requests
<1>2. ASSUME NEW f \in Fields
      PROVE  (IF change[f] # Keep THEN change[f]
              ELSE IF ask[c].kind = "resize" THEN seen[c][f]
              ELSE vm[on[c]][f]) \in Values
  BY <1>1, VmsAssumption DEF Changes, Configs
<1>. QED BY <1>2 DEF Result, Configs

\* The invariant of the VM writes holds at first, and every step keeps it.
LEMMA InitEstablishesInv == Init => VmsInv
<1> SUFFICES ASSUME Init PROVE VmsInv
  OBVIOUS
<1>1. Nothing \in Changes
  BY DEF Nothing, Changes
<1>2. [kind |-> "delete", change |-> Nothing] \in Requests
  BY <1>1 DEF Requests
<1>3. TypeOK
  BY <1>2, VmsAssumption DEF Init, TypeOK
<1>. QED BY <1>3 DEF Init, VmsInv, TagsCertify, AppliedOnceAnswered, PriorIsReplaced

LEMMA CallPreserves ==
    ASSUME VmsInv, NEW c \in Calls, NEW v \in Vms, NEW r \in Requests, Call(c, v, r)
    PROVE  VmsInv'
<1> USE DEF VmsInv, Call
<1>1. TypeOK' BY DEF TypeOK
<1>2. TagsCertify' BY DEF TypeOK, TagsCertify
<1>3. AppliedOnceAnswered' BY DEF TypeOK, AppliedOnceAnswered
<1>4. PriorIsReplaced' BY DEF PriorIsReplaced
<1>. QED BY <1>1, <1>2, <1>3, <1>4

LEMMA ReadPreserves == ASSUME VmsInv, NEW c \in Calls, Read(c) PROVE VmsInv'
<1> USE DEF VmsInv, Read
<1>1. TypeOK' BY DEF TypeOK, TagOf
<1>2. TagsCertify' BY DEF TypeOK, TagsCertify, TagOf
<1>3. AppliedOnceAnswered' BY DEF TypeOK, AppliedOnceAnswered
<1>4. PriorIsReplaced' BY DEF TypeOK, PriorIsReplaced, AppliedOnceAnswered
<1>. QED BY <1>1, <1>2, <1>3, <1>4

\* An accepted request met the record it was computed from.
LEMMA AcceptedIsCurrent ==
    ASSUME VmsInv, EtagsServed, NEW c \in Calls, Accept(c)
    PROVE  seen[c] = vm[on[c]]
BY VmsAssumption DEF VmsInv, TagsCertify, Accept, Matches

LEMMA AcceptPreserves == ASSUME VmsInv, NEW c \in Calls, Accept(c) PROVE VmsInv'
<1> USE DEF VmsInv, Accept, Answer
<1>1. TypeOK'
  BY ResultIsConfig DEF TypeOK
<1>2. TagsCertify'
  <2> SUFFICES ASSUME EtagsServed, NEW d \in Calls, phase'[d] = "holding"
               PROVE  /\ etag'[d] \in Nat /\ etag'[d] <= tag'[on'[d]]
                      /\ etag'[d] = tag'[on'[d]] => seen'[d] = vm'[on'[d]]
    BY DEF TagsCertify
  <2>1. d # c /\ phase[d] = "holding"
    BY DEF TypeOK
  <2>2. etag[d] \in Nat /\ etag[d] <= tag[on[d]] /\ tag[on[d]] \in Nat
    BY <2>1 DEF TagsCertify, TypeOK
  <2>3. CASE on[d] = on[c]
    BY <2>2, <2>3 DEF TypeOK
  <2>4. CASE on[d] # on[c]
    BY <2>1, <2>2, <2>4 DEF TypeOK, TagsCertify
  <2>. QED BY <2>3, <2>4
<1>3. AppliedOnceAnswered' BY DEF TypeOK, AppliedOnceAnswered
<1>4. PriorIsReplaced' BY AcceptedIsCurrent DEF TypeOK, PriorIsReplaced
<1>. QED BY <1>1, <1>2, <1>3, <1>4

LEMMA RefusePreserves == ASSUME VmsInv, NEW c \in Calls, Refuse(c) PROVE VmsInv'
<1> USE DEF VmsInv, Refuse, Answer
<1>1. TypeOK' BY DEF TypeOK
<1>2. TagsCertify' BY DEF TypeOK, TagsCertify
<1>3. AppliedOnceAnswered' BY DEF TypeOK, AppliedOnceAnswered
<1>4. PriorIsReplaced' BY DEF PriorIsReplaced
<1>. QED BY <1>1, <1>2, <1>3, <1>4

\* Steps that only move a call on.
LEMMA ReturnPreserves == ASSUME VmsInv, NEW c \in Calls, Return(c) PROVE VmsInv'
<1> USE DEF VmsInv, Return
<1>1. TypeOK' BY DEF TypeOK
<1>2. TagsCertify' BY DEF TypeOK, TagsCertify
<1>3. AppliedOnceAnswered' BY DEF TypeOK, AppliedOnceAnswered
<1>4. PriorIsReplaced' BY DEF PriorIsReplaced
<1>. QED BY <1>1, <1>2, <1>3, <1>4

LEMMA DiePreserves == ASSUME VmsInv, NEW c \in Calls, Die(c) PROVE VmsInv'
<1> USE DEF VmsInv, Die
<1>1. TypeOK' BY DEF TypeOK
<1>2. TagsCertify' BY DEF TypeOK, TagsCertify
<1>3. AppliedOnceAnswered' BY DEF TypeOK, AppliedOnceAnswered
<1>4. PriorIsReplaced' BY DEF PriorIsReplaced
<1>. QED BY <1>1, <1>2, <1>3, <1>4

LEMMA DriftPreserves ==
    ASSUME VmsInv, NEW v \in Vms, NEW x \in Configs, Drift(v, x) PROVE VmsInv'
<1> USE DEF VmsInv, Drift
<1>1. TypeOK' BY DEF TypeOK
<1>2. TagsCertify'
  <2> SUFFICES ASSUME EtagsServed, NEW d \in Calls, phase[d] = "holding"
               PROVE  /\ etag[d] \in Nat /\ etag[d] <= tag'[on[d]]
                      /\ etag[d] = tag'[on[d]] => seen[d] = vm'[on[d]]
    BY DEF TagsCertify
  <2>1. etag[d] \in Nat /\ etag[d] <= tag[on[d]] /\ tag[on[d]] \in Nat
    BY DEF TagsCertify, TypeOK
  <2>2. CASE on[d] = v
    BY <2>1, <2>2 DEF TypeOK
  <2>3. CASE on[d] # v
    BY <2>1, <2>3 DEF TypeOK, TagsCertify
  <2>. QED BY <2>2, <2>3
<1>3. AppliedOnceAnswered' BY DEF TypeOK, AppliedOnceAnswered
<1>4. PriorIsReplaced' BY DEF PriorIsReplaced
<1>. QED BY <1>1, <1>2, <1>3, <1>4

LEMMA StutterPreserves == ASSUME VmsInv, UNCHANGED vmsVars PROVE VmsInv'
BY DEF vmsVars, VmsInv, TypeOK, TagsCertify, AppliedOnceAnswered, PriorIsReplaced

LEMMA NextPreservesInv == VmsInv /\ [Next]_vmsVars => VmsInv'
BY CallPreserves, ReadPreserves, AcceptPreserves, RefusePreserves, ReturnPreserves,
   DiePreserves, DriftPreserves, StutterPreserves
   DEF Next, Quiescent

\* The invariant of the VM writes.
THEOREM VmsInvariant == Spec => []VmsInv
BY InitEstablishesInv, NextPreservesInv, PTL DEF Spec

\* The prior state a write reports is the state it replaced.
THEOREM PriorStateIsTrue == Spec => []PriorIsReplaced
<1>1. VmsInv => PriorIsReplaced
  BY DEF VmsInv
<1>. QED BY <1>1, VmsInvariant, PTL

\* While Prism Central sends ETags, no write undoes a concurrent change to a
\* field it was not asked to set.
THEOREM UpdatesAreNotLost == Spec => NoLostUpdate
<1> DEFINE Careful(c) == c \notin applied /\ c \in applied' =>
               \A f \in Fields : ask[c].change[f] = Keep => vm'[on[c]][f] = vm[on[c]][f]
<1>1. ASSUME VmsInv, [Next]_vmsVars, EtagsServed, NEW c \in Calls,
             c \notin applied, c \in applied', NEW f \in Fields, ask[c].change[f] = Keep
      PROVE  vm'[on[c]][f] = vm[on[c]][f]
  <2>1. Accept(c)
    BY <1>1 DEF Next, vmsVars, VmsInv, TypeOK, Call, Read, Accept, Refuse, Return, Die,
       Drift, Quiescent
  <2>2. seen[c] = vm[on[c]]
    BY <1>1, <2>1, AcceptedIsCurrent
  <2>3. vm'[on[c]] = Result(c)
    BY <1>1, <2>1 DEF Accept, VmsInv, TypeOK
  <2>. QED BY <1>1, <2>2, <2>3 DEF Result
<1>2. VmsInv /\ [Next]_vmsVars => [EtagsServed => \A c \in Calls : Careful(c)]_vmsVars
  BY <1>1
<1>. QED BY <1>2, VmsInvariant, PTL DEF Spec, NoLostUpdate

-----------------------------------------------------------------------------
(* Their tokens: what no step changes.                                     *)

\* A call that started keeps its VM and its request.
LEMMA StartedCallsKeepRequests ==
    ASSUME UndoInv, [UndoNext]_undoVars, NEW c \in Calls, phase[c] # "idle"
    PROVE  phase'[c] # "idle" /\ on'[c] = on[c] /\ ask'[c] = ask[c]
<1> USE DEF UndoInv, UndoTypeOK, TypeOK
<1>1. ASSUME NEW d \in Calls, NEW v \in Vms, NEW r \in Requests, Call(d, v, r)
      PROVE  phase'[c] # "idle" /\ on'[c] = on[c] /\ ask'[c] = ask[c]
  BY <1>1 DEF Call
<1>2. ASSUME NEW d \in Calls, Body(d) \/ Record(d) \/ DieAlone(d)
      PROVE  phase'[c] # "idle" /\ on'[c] = on[c] /\ ask'[c] = ask[c]
  BY <1>2 DEF Body, Record, DieAlone, Read, Accept, Refuse, Answer, Return, Die
<1>3. ASSUME NEW a \in Applies, NEW d \in Calls, Dispatch(a, d)
      PROVE  phase'[c] # "idle" /\ on'[c] = on[c] /\ ask'[c] = ask[c]
  BY <1>3 DEF Dispatch, Call
<1>4. ASSUME NEW a \in Applies, NEW d \in Calls, Check(a, d) \/ Mark(a)
      PROVE  phase'[c] # "idle" /\ on'[c] = on[c] /\ ask'[c] = ask[c]
  BY <1>4 DEF Check, Mark, vmsVars
<1>5. ASSUME NEW a \in Applies, DieApplying(a)
      PROVE  phase'[c] # "idle" /\ on'[c] = on[c] /\ ask'[c] = ask[c]
  BY <1>5 DEF DieApplying
<1>6. ASSUME NEW v \in Vms, NEW x \in Configs, Change(v, x)
      PROVE  phase'[c] # "idle" /\ on'[c] = on[c] /\ ask'[c] = ask[c]
  BY <1>6 DEF Change, Drift
<1>7. CASE UNCHANGED undoVars
  BY <1>7 DEF undoVars, vmsVars
<1>. QED BY <1>1, <1>2, <1>3, <1>4, <1>5, <1>6, <1>7 DEF UndoNext, Invoke, AllOver

\* A call that returned stays as it is.
LEMMA ReturnedCallsStay ==
    ASSUME UndoInv, [UndoNext]_undoVars, NEW c \in Calls, phase[c] = "done"
    PROVE  phase'[c] = "done" /\ outcome'[c] = outcome[c] /\ seen'[c] = seen[c]
<1> USE DEF UndoInv, UndoTypeOK, TypeOK
<1>1. ASSUME NEW d \in Calls, NEW v \in Vms, NEW r \in Requests, Call(d, v, r)
      PROVE  phase'[c] = "done" /\ outcome'[c] = outcome[c] /\ seen'[c] = seen[c]
  BY <1>1 DEF Call
<1>2. ASSUME NEW d \in Calls, Body(d) \/ Record(d) \/ DieAlone(d)
      PROVE  phase'[c] = "done" /\ outcome'[c] = outcome[c] /\ seen'[c] = seen[c]
  BY <1>2 DEF Body, Record, DieAlone, Read, Accept, Refuse, Answer, Return, Die
<1>3. ASSUME NEW a \in Applies, NEW d \in Calls, Dispatch(a, d)
      PROVE  phase'[c] = "done" /\ outcome'[c] = outcome[c] /\ seen'[c] = seen[c]
  BY <1>3 DEF Dispatch, Call
<1>4. ASSUME NEW a \in Applies, NEW d \in Calls, Check(a, d) \/ Mark(a)
      PROVE  phase'[c] = "done" /\ outcome'[c] = outcome[c] /\ seen'[c] = seen[c]
  BY <1>4 DEF Check, Mark, vmsVars
<1>5. ASSUME NEW a \in Applies, DieApplying(a)
      PROVE  phase'[c] = "done" /\ outcome'[c] = outcome[c] /\ seen'[c] = seen[c]
  BY <1>5 DEF DieApplying, Over
<1>6. ASSUME NEW v \in Vms, NEW x \in Configs, Change(v, x)
      PROVE  phase'[c] = "done" /\ outcome'[c] = outcome[c] /\ seen'[c] = seen[c]
  BY <1>6 DEF Change, Drift
<1>7. CASE UNCHANGED undoVars
  BY <1>7 DEF undoVars, vmsVars
<1>. QED BY <1>1, <1>2, <1>3, <1>4, <1>5, <1>6, <1>7 DEF UndoNext, Invoke, AllOver

\* What Prism carried out stays carried out, with the same answer.
LEMMA CarriedOutStays ==
    ASSUME UndoInv, [UndoNext]_undoVars, NEW c \in applied
    PROVE  c \in applied' /\ outcome'[c] = outcome[c]
<1> USE DEF UndoInv, UndoTypeOK, VmsInv, TypeOK
<1>0. c \in Calls /\ phase[c] \in {"answered", "done", "dead"}
  BY DEF AppliedOnceAnswered
<1>1. ASSUME NEW d \in Calls, NEW v \in Vms, NEW r \in Requests, Call(d, v, r)
      PROVE  c \in applied' /\ outcome'[c] = outcome[c]
  BY <1>0, <1>1 DEF Call
<1>2. ASSUME NEW d \in Calls, Body(d) \/ Record(d) \/ DieAlone(d)
      PROVE  c \in applied' /\ outcome'[c] = outcome[c]
  BY <1>0, <1>2 DEF Body, Record, DieAlone, Read, Accept, Refuse, Answer, Return, Die
<1>3. ASSUME NEW a \in Applies, NEW d \in Calls, Dispatch(a, d)
      PROVE  c \in applied' /\ outcome'[c] = outcome[c]
  BY <1>0, <1>3 DEF Dispatch, Call
<1>4. ASSUME NEW a \in Applies, NEW d \in Calls, Check(a, d) \/ Mark(a)
      PROVE  c \in applied' /\ outcome'[c] = outcome[c]
  BY <1>0, <1>4 DEF Check, Mark, vmsVars
<1>5. ASSUME NEW a \in Applies, DieApplying(a)
      PROVE  c \in applied' /\ outcome'[c] = outcome[c]
  BY <1>0, <1>5 DEF DieApplying
<1>6. ASSUME NEW v \in Vms, NEW x \in Configs, Change(v, x)
      PROVE  c \in applied' /\ outcome'[c] = outcome[c]
  BY <1>0, <1>6 DEF Change, Drift
<1>7. CASE UNCHANGED undoVars
  BY <1>0, <1>7 DEF undoVars, vmsVars
<1>. QED BY <1>1, <1>2, <1>3, <1>4, <1>5, <1>6, <1>7 DEF UndoNext, Invoke, AllOver

\* A token appears when its call returns; from then on only its status moves.
LEMMA TokenSteps ==
    ASSUME UndoInv, [UndoNext]_undoVars, NEW c \in Calls
    PROVE  \/ token'[c] = token[c]
           \/ Record(c) /\ WorthAToken(c)
              /\ token'[c] = [status |-> "recorded", change |-> UndoOf(c)]
           \/ /\ \E a \in Applies : Mark(a) /\ Succeeded(inner[a]) /\ origin[a] = c
              /\ token[c].status # "none" /\ token'[c].change = token[c].change
              /\ token'[c].status = "applied"
<1> USE DEF UndoInv, UndoTypeOK
<1>1. ASSUME NEW d \in Calls, NEW v \in Vms, NEW r \in Requests, Invoke(d, v, r)
      PROVE  token' = token
  BY <1>1 DEF Invoke
<1>2. ASSUME NEW d \in Calls, Body(d) \/ DieAlone(d)
      PROVE  token' = token
  BY <1>2 DEF Body, DieAlone
<1>3. ASSUME NEW d \in Calls, Record(d)
      PROVE  \/ token'[c] = token[c]
             \/ Record(c) /\ WorthAToken(c)
                /\ token'[c] = [status |-> "recorded", change |-> UndoOf(c)]
  BY <1>3 DEF Record
<1>4. ASSUME NEW a \in Applies, NEW d \in Calls, Check(a, d) \/ Dispatch(a, d)
      PROVE  token' = token
  BY <1>4 DEF Check, Dispatch
<1>5. ASSUME NEW a \in Applies, Mark(a)
      PROVE  \/ token'[c] = token[c]
             \/ /\ Mark(a) /\ Succeeded(inner[a]) /\ origin[a] = c
                /\ token[c].status # "none" /\ token'[c].change = token[c].change
                /\ token'[c].status = "applied"
  BY <1>5 DEF Mark, ReplaysFollowTokens, Tokens
<1>6. ASSUME NEW a \in Applies, DieApplying(a)
      PROVE  token' = token
  BY <1>6 DEF DieApplying
<1>7. ASSUME NEW v \in Vms, NEW x \in Configs, Change(v, x)
      PROVE  token' = token
  BY <1>7 DEF Change
<1>8. CASE UNCHANGED undoVars
  BY <1>8 DEF undoVars
<1>. QED BY <1>1, <1>2, <1>3, <1>4, <1>5, <1>6, <1>7, <1>8 DEF UndoNext, AllOver

-----------------------------------------------------------------------------
(* The inductive invariant.                                                *)

LEMMA UndoInitEstablishesInv == UndoInit => UndoInv
<1> SUFFICES ASSUME UndoInit PROVE UndoInv
  OBVIOUS
<1>1. VmsInv
  BY InitEstablishesInv DEF UndoInit
<1>2. NoToken \in Tokens
  BY DEF NoToken, Tokens, Nothing, Changes
<1>3. UndoTypeOK
  BY <1>1, <1>2 DEF UndoInit, UndoTypeOK, VmsInv
<1>4. \A c \in Calls : token[c].status = "none"
  BY DEF UndoInit, NoToken
<1>5. TokensRecordedLast /\ TokensTellTheTruth /\ AppliedMeansReplayed
  BY <1>4 DEF TokensRecordedLast, TokensTellTheTruth, AppliedMeansReplayed
<1>6. ReplaysFollowTokens
  BY DEF UndoInit, ReplaysFollowTokens
<1>. QED BY <1>1, <1>3, <1>5, <1>6 DEF UndoInv

\* The inverse of a request is a request of the same kind.
LEMMA InverseIsRequest ==
    ASSUME TypeOK, NEW c \in Calls
    PROVE  /\ UndoOf(c) \in Changes
           /\ [kind |-> ask[c].kind, change |-> UndoOf(c)] \in Requests
<1>1. ask[c] \in Requests /\ seen[c] \in Configs
  BY DEF TypeOK
<1>2. UndoOf(c) \in Changes
  BY <1>1 DEF UndoOf, Changes, Configs
<1>3. CASE ask[c].kind = "action"
  <2>1. PICK g \in ActionFields : Touches(ask[c].change, {g})
    BY <1>1, <1>3 DEF Requests
  <2>2. Touches(UndoOf(c), {g})
    BY <1>3, <2>1 DEF Touches, UndoOf, Scope
  <2>. QED BY <1>2, <1>3, <2>1, <2>2 DEF Requests
<1>4. CASE ask[c].kind = "resize"
  <2>1. Touches(UndoOf(c), SizeFields)
    BY <1>4 DEF Touches, UndoOf, Scope
  <2>. QED BY <1>2, <1>4, <2>1 DEF Requests
<1>5. CASE ask[c].kind = "delete"
  <2>1. UndoOf(c) = Nothing
    BY <1>5 DEF UndoOf, Scope, Nothing
  <2>. QED BY <1>2, <1>5, <2>1 DEF Requests
<1>. QED BY <1>1, <1>2, <1>3, <1>4, <1>5 DEF Requests

\* The writes behave as PrismVms says, whoever calls the tools.
LEMMA WritesKeepInv == ASSUME UndoInv, [UndoNext]_undoVars PROVE VmsInv'
<1>1. VmsInv
  BY DEF UndoInv
<1>2. ASSUME NEW d \in Calls, NEW v \in Vms, NEW r \in Requests, Invoke(d, v, r)
      PROVE  VmsInv'
  BY <1>1, <1>2, CallPreserves DEF Invoke
<1>3. ASSUME NEW d \in Calls, Body(d) \/ Record(d) \/ DieAlone(d)
      PROVE  VmsInv'
  BY <1>1, <1>3, ReadPreserves, AcceptPreserves, RefusePreserves, ReturnPreserves,
     DiePreserves DEF Body, Record, DieAlone
<1>4. ASSUME NEW a \in Applies, NEW d \in Calls, Dispatch(a, d)
      PROVE  VmsInv'
  <2>1. origin[a] \in Calls /\ token[origin[a]].change = UndoOf(origin[a])
    BY <1>4 DEF Dispatch, UndoInv, ReplaysFollowTokens, TokensRecordedLast
  <2>2. /\ [kind |-> ask[origin[a]].kind, change |-> token[origin[a]].change] \in Requests
        /\ on[origin[a]] \in Vms
    BY <1>1, <2>1, InverseIsRequest DEF VmsInv, TypeOK
  <2>. QED BY <1>1, <1>4, <2>2, CallPreserves DEF Dispatch
<1>5. ASSUME NEW a \in Applies, DieApplying(a)
      PROVE  VmsInv'
  <2> USE <1>1, <1>5 DEF DieApplying, VmsInv
  <2>1. TypeOK' BY DEF TypeOK
  <2>2. TagsCertify' BY DEF TypeOK, TagsCertify
  <2>3. AppliedOnceAnswered' BY DEF TypeOK, AppliedOnceAnswered
  <2>4. PriorIsReplaced' BY DEF PriorIsReplaced
  <2>. QED BY <2>1, <2>2, <2>3, <2>4
<1>6. ASSUME NEW v \in Vms, NEW x \in Configs, Change(v, x)
      PROVE  VmsInv'
  BY <1>1, <1>6, DriftPreserves DEF Change
<1>7. ASSUME NEW a \in Applies, NEW d \in Calls, Check(a, d)
      PROVE  VmsInv'
  BY <1>1, <1>7, StutterPreserves DEF Check
<1>8. CASE UNCHANGED undoVars
  BY <1>1, <1>8, StutterPreserves DEF undoVars
<1>9. CASE UndoNext
  <2>1. CASE \E d \in Calls, v \in Vms, r \in Requests : Invoke(d, v, r)
    BY <2>1, <1>2
  <2>2. CASE \E d \in Calls : Body(d) \/ Record(d) \/ DieAlone(d)
    BY <2>2, <1>3
  <2>3. CASE \E a \in Applies, d \in Calls : Check(a, d) \/ Dispatch(a, d)
    BY <2>3, <1>4, <1>7
  <2>4. CASE \E a \in Applies : Mark(a) \/ DieApplying(a)
    <3>1. PICK a \in Applies : Mark(a) \/ DieApplying(a)
      BY <2>4
    <3>2. CASE Mark(a)
      BY <1>1, <3>2, StutterPreserves DEF Mark
    <3>. QED BY <1>5, <3>1, <3>2
  <2>5. CASE \E v \in Vms, x \in Configs : Change(v, x)
    BY <2>5, <1>6
  <2>6. CASE AllOver
    BY <2>6, <1>8 DEF AllOver
  <2>. QED BY <1>9, <2>1, <2>2, <2>3, <2>4, <2>5, <2>6 DEF UndoNext
<1>. QED BY <1>8, <1>9

LEMMA UndoTypePreserved == ASSUME UndoInv, [UndoNext]_undoVars PROVE UndoTypeOK'
<1>1. TypeOK'
  BY WritesKeepInv DEF VmsInv
<1>2. token' \in [Calls -> Tokens]
  <2>1. \A c \in Calls : UndoOf(c) \in Changes
    BY InverseIsRequest DEF UndoInv, VmsInv
  <2>2. ASSUME NEW d \in Calls, Record(d) PROVE token' \in [Calls -> Tokens]
    BY <2>1, <2>2 DEF Record, UndoInv, UndoTypeOK, Tokens
  <2>3. ASSUME NEW a \in Applies, Mark(a) PROVE token' \in [Calls -> Tokens]
    <3>1. origin[a] \in Calls
      BY <2>3 DEF Mark, UndoInv, ReplaysFollowTokens
    <3>. QED BY <2>3, <3>1 DEF Mark, UndoInv, UndoTypeOK, Tokens
  <2>4. CASE UndoNext
    <3>1. \/ token' = token
          \/ \E d \in Calls : Record(d)
          \/ \E a \in Applies : Mark(a)
      BY <2>4 DEF UndoNext, undoVars, Invoke, Body, DieAlone, Check, Dispatch,
         DieApplying, Change, AllOver
    <3>. QED BY <2>2, <2>3, <3>1 DEF UndoInv, UndoTypeOK
  <2>5. CASE UNCHANGED undoVars
    BY <2>5 DEF undoVars, UndoInv, UndoTypeOK
  <2>. QED BY <2>4, <2>5
<1>3. /\ step' \in [Applies -> Steps]
      /\ origin' \in [Applies -> Calls \cup {NoCall}]
      /\ inner' \in [Applies -> Calls \cup {NoCall}]
      /\ faults' \in Nat
  <2> USE DEF UndoInv, UndoTypeOK
  <2>1. ASSUME NEW c \in Calls, Body(c) \/ Record(c) \/ DieAlone(c)
        PROVE  UNCHANGED applyVars /\ faults' \in Nat
    BY <2>1, UndoAssumption DEF Body, Record, DieAlone
  <2>2. ASSUME NEW a \in Applies, NEW c \in Calls, Check(a, c) \/ Dispatch(a, c)
        PROVE  <1>3!:
    BY <2>2 DEF Check, Dispatch
  <2>3. ASSUME NEW a \in Applies, Mark(a) \/ DieApplying(a)
        PROVE  <1>3!:
    BY <2>3, UndoAssumption DEF Mark, DieApplying
  <2>4. \/ UNCHANGED <<applyVars, faults>>
        \/ \E c \in Calls : Body(c) \/ Record(c) \/ DieAlone(c)
        \/ \E a \in Applies, c \in Calls : Check(a, c) \/ Dispatch(a, c)
        \/ \E a \in Applies : Mark(a) \/ DieApplying(a)
    BY DEF UndoNext, undoVars, Invoke, Change, AllOver
  <2>. QED BY <2>1, <2>2, <2>3, <2>4
<1>4. contested' \subseteq Calls /\ unstored' \subseteq Calls /\ unmarked' \subseteq Calls
  <2>1. \/ UNCHANGED turnVars
        \/ \E a \in Applies, c \in Calls : Check(a, c)
        \/ \E c \in Calls : Record(c)
        \/ \E a \in Applies : Mark(a) \/ DieApplying(a)
    BY DEF UndoNext, undoVars, Invoke, Body, DieAlone, Dispatch, Change, AllOver
  <2>2. ASSUME NEW a \in Applies, NEW c \in Calls, Check(a, c) PROVE <1>4!:
    BY <2>2 DEF UndoInv, UndoTypeOK, Check
  <2>3. ASSUME NEW c \in Calls, Record(c) PROVE <1>4!:
    BY <2>3 DEF UndoInv, UndoTypeOK, Record
  <2>4. ASSUME NEW a \in Applies, Mark(a) \/ DieApplying(a) PROVE <1>4!:
    <3>1. step[a] = "running" => origin[a] \in Calls
      BY DEF UndoInv, ReplaysFollowTokens
    <3>. QED BY <2>4, <3>1 DEF UndoInv, UndoTypeOK, Mark, DieApplying
  <2>. QED BY <2>1, <2>2, <2>3, <2>4 DEF UndoInv, UndoTypeOK, turnVars
<1>. QED BY <1>1, <1>2, <1>3, <1>4 DEF UndoTypeOK

LEMMA TokensRecordedLastPreserved ==
    ASSUME UndoInv, [UndoNext]_undoVars PROVE TokensRecordedLast'
<1> SUFFICES ASSUME NEW c \in Calls, token'[c].status # "none"
             PROVE  /\ phase'[c] = "done" /\ outcome'[c] = "ok"
                    /\ token'[c].change = UndoOf(c)'
  BY DEF TokensRecordedLast
<1>1. CASE token[c].status # "none" /\ token'[c].change = token[c].change
  <2>1. phase[c] = "done" /\ outcome[c] = "ok" /\ token[c].change = UndoOf(c)
    BY <1>1 DEF UndoInv, TokensRecordedLast
  <2>2. /\ phase'[c] = "done" /\ outcome'[c] = outcome[c] /\ seen'[c] = seen[c]
        /\ ask'[c] = ask[c]
    BY <2>1, ReturnedCallsStay, StartedCallsKeepRequests
  <2>3. UndoOf(c)' = UndoOf(c)
    BY <2>2 DEF UndoOf, Scope
  <2>. QED BY <1>1, <2>1, <2>2, <2>3
<1>2. CASE /\ Record(c) /\ WorthAToken(c)
           /\ token'[c] = [status |-> "recorded", change |-> UndoOf(c)]
  <2>1. phase'[c] = "done" /\ outcome'[c] = "ok"
    BY <1>2 DEF Record, Return, WorthAToken, UndoInv, UndoTypeOK, TypeOK
  <2>2. UndoOf(c)' = UndoOf(c)
    BY <1>2 DEF Record, Return, UndoOf, Scope
  <2>. QED BY <1>2, <2>1, <2>2
<1>. QED BY <1>1, <1>2, TokenSteps

LEMMA ReplaysFollowTokensPreserved ==
    ASSUME UndoInv, [UndoNext]_undoVars PROVE ReplaysFollowTokens'
<1> USE DEF UndoInv, UndoTypeOK, TypeOK
<1>0. \A c \in Calls : token[c].status # "none" =>
          /\ token'[c].status # "none" /\ token'[c].change = token[c].change
          /\ phase[c] = "done" /\ on'[c] = on[c]
  <2> SUFFICES ASSUME NEW c \in Calls, token[c].status # "none"
               PROVE  /\ token'[c].status # "none" /\ token'[c].change = token[c].change
                      /\ phase[c] = "done" /\ on'[c] = on[c]
    OBVIOUS
  <2>1. phase[c] = "done"
    BY DEF TokensRecordedLast
  <2>2. ~Record(c)
    BY <2>1 DEF Record, Return
  <2>3. on'[c] = on[c]
    BY <2>1, StartedCallsKeepRequests
  <2>4. \/ token'[c] = token[c]
        \/ token'[c].change = token[c].change /\ token'[c].status = "applied"
    BY <2>2, TokenSteps
  <2>. QED BY <2>1, <2>3, <2>4
\* Steps that leave the undo_apply calls alone.
<1>1. CASE UNCHANGED applyVars
  <2>1. ASSUME NEW a \in Applies, inner[a] # NoCall
        PROVE  /\ phase'[inner[a]] # "idle"
               /\ on'[inner[a]] = on[inner[a]] /\ ask'[inner[a]] = ask[inner[a]]
    BY <2>1, StartedCallsKeepRequests DEF ReplaysFollowTokens
  <2>. QED BY <1>0, <1>1, <2>1 DEF ReplaysFollowTokens
<1>2. ASSUME NEW a \in Applies, NEW c \in Calls, Check(a, c) PROVE ReplaysFollowTokens'
  BY <1>2 DEF Check, Usable, ReplaysFollowTokens, vmsVars
<1>3. ASSUME NEW a \in Applies, NEW i \in Calls, Dispatch(a, i) PROVE ReplaysFollowTokens'
  <2>1. /\ origin[a] \in Calls /\ token[origin[a]].status # "none" /\ inner[a] = NoCall
        /\ phase[i] = "idle" /\ origin[a] # i
    BY <1>0, <1>3 DEF Dispatch, Call, ReplaysFollowTokens
  <2>2. /\ on'[i] = on[origin[a]] /\ ask'[i].change = token[origin[a]].change
        /\ phase'[i] = "reading"
        /\ \A d \in Calls : d # i => on'[d] = on[d] /\ ask'[d] = ask[d] /\ phase'[d] = phase[d]
    BY <1>3 DEF Dispatch, Call
  <2>3. \A b \in Applies : inner[b] # i
    BY <2>1, UndoAssumption DEF ReplaysFollowTokens
  <2>4. /\ inner' = [inner EXCEPT ![a] = i] /\ step' = [step EXCEPT ![a] = "running"]
        /\ UNCHANGED <<token, origin>>
    BY <1>3 DEF Dispatch
  <2>5. ASSUME NEW b \in Applies
        PROVE  /\ step'[b] \in {"checked", "running"} =>
                     origin'[b] \in Calls /\ token'[origin'[b]].status # "none"
               /\ step'[b] \in {"idle", "checked"} => inner'[b] = NoCall
               /\ step'[b] = "running" => inner'[b] # NoCall
    BY <2>1, <2>4, UndoAssumption DEF ReplaysFollowTokens
  <2>6. ASSUME NEW b \in Applies, inner'[b] # NoCall
        PROVE  /\ origin'[b] \in Calls
               /\ phase'[inner'[b]] # "idle"
               /\ token'[origin'[b]].status # "none"
               /\ on'[inner'[b]] = on'[origin'[b]]
               /\ ask'[inner'[b]].change = token'[origin'[b]].change
    <3>1. CASE b = a
      BY <2>1, <2>2, <2>4, <3>1
    <3>2. CASE b # a
      <4>1. /\ inner[b] \in Calls /\ inner[b] # i /\ origin[b] \in Calls
            /\ token[origin[b]].status # "none" /\ origin[b] # i
        BY <1>0, <2>1, <2>3, <2>4, <2>6, <3>2 DEF ReplaysFollowTokens
      <4>. QED BY <2>2, <2>4, <2>6, <3>2, <4>1 DEF ReplaysFollowTokens
    <3>. QED BY <3>1, <3>2
  <2>7. \A b, d \in Applies : inner'[b] = inner'[d] /\ inner'[b] # NoCall => b = d
    BY <2>3, <2>4 DEF ReplaysFollowTokens
  <2>. QED BY <2>5, <2>6, <2>7 DEF ReplaysFollowTokens
<1>4. ASSUME NEW a \in Applies, Mark(a) PROVE ReplaysFollowTokens'
  <2>1. UNCHANGED <<vmsVars, origin, inner>> /\ step' = [step EXCEPT ![a] = "done"]
    BY <1>4 DEF Mark
  <2>. QED BY <1>0, <2>1 DEF ReplaysFollowTokens, vmsVars
<1>5. ASSUME NEW a \in Applies, DieApplying(a) PROVE ReplaysFollowTokens'
  <2>1. /\ UNCHANGED <<origin, inner, token, on, ask>> /\ step' = [step EXCEPT ![a] = "dead"]
        /\ \A c \in Calls : phase[c] # "idle" => phase'[c] # "idle"
    BY <1>5 DEF DieApplying
  <2>. QED BY <2>1 DEF ReplaysFollowTokens
<1>6. ASSUME NEW c \in Calls, Body(c) \/ Record(c) \/ DieAlone(c)
      PROVE  UNCHANGED applyVars
  BY <1>6 DEF Body, Record, DieAlone
<1>7. ASSUME NEW c \in Calls, NEW v \in Vms, NEW r \in Requests, Invoke(c, v, r)
      PROVE  UNCHANGED applyVars
  BY <1>7 DEF Invoke
<1>8. ASSUME NEW v \in Vms, NEW x \in Configs, Change(v, x)
      PROVE  UNCHANGED applyVars
  BY <1>8 DEF Change
<1>9. UNCHANGED undoVars => UNCHANGED applyVars
  BY DEF undoVars
<1>. QED BY <1>1, <1>2, <1>3, <1>4, <1>5, <1>6, <1>7, <1>8, <1>9 DEF UndoNext, AllOver

\* Tokens are true because prior states are.
LEMMA TokensFollowPriorStates ==
    UndoTypeOK /\ VmsInv /\ TokensRecordedLast => TokensTellTheTruth
<1> SUFFICES ASSUME UndoTypeOK, VmsInv, TokensRecordedLast, EtagsServed,
                    NEW c \in Calls, token[c].status # "none"
             PROVE  /\ c \in applied
                    /\ \A f \in Fields : token[c].change[f] \in {Keep, before[c][f]}
  BY DEF TokensTellTheTruth
<1>1. c \in applied /\ seen[c] = before[c]
  BY DEF VmsInv, TokensRecordedLast, AppliedOnceAnswered, PriorIsReplaced
<1>2. token[c].change = UndoOf(c)
  BY DEF TokensRecordedLast
<1>. QED BY <1>1, <1>2 DEF UndoOf

\* A replay stays one, with the same answer.
LEMMA ReplaysStay ==
    ASSUME UndoInv, [UndoNext]_undoVars, NEW c \in Calls, NEW i \in Replays(c)
    PROVE  i \in Replays(c)' /\ outcome'[i] = outcome[i]
<1> USE DEF UndoInv, UndoTypeOK
<1>1. \A a \in Applies : inner[a] # NoCall => inner'[a] = inner[a] /\ origin'[a] = origin[a]
  BY DEF UndoNext, undoVars, Invoke, Body, Record, DieAlone, Check, Dispatch, Mark,
     DieApplying, Change, AllOver, ReplaysFollowTokens
<1>2. PICK a \in Applies : inner[a] = i /\ origin[a] = c
  BY DEF Replays
<1>3. i \in applied /\ i # NoCall
  BY UndoAssumption DEF Replays, TypeOK
<1>4. i \in applied' /\ outcome'[i] = outcome[i]
  BY <1>3, CarriedOutStays
<1>. QED BY <1>1, <1>2, <1>3, <1>4 DEF Replays

LEMMA AppliedMeansReplayedPreserved ==
    ASSUME UndoInv, [UndoNext]_undoVars PROVE AppliedMeansReplayed'
<1> USE DEF UndoInv, UndoTypeOK
<1>2. \A c \in Calls : \A i \in Replays(c) : i \in Replays(c)' /\ outcome'[i] = outcome[i]
  BY ReplaysStay
<1> SUFFICES ASSUME NEW c \in Calls, token'[c].status = "applied"
             PROVE  \E i \in Replays(c)' : outcome'[i] = "ok"
  BY DEF AppliedMeansReplayed
<1>3. CASE token[c].status = "applied"
  <2>1. PICK i \in Replays(c) : outcome[i] = "ok"
    BY <1>3 DEF AppliedMeansReplayed
  <2>. QED BY <1>2, <2>1
<1>4. ASSUME NEW a \in Applies, Mark(a), Succeeded(inner[a]), origin[a] = c
      PROVE  \E i \in Replays(c)' : outcome'[i] = "ok"
  <2>1. inner[a] \in Calls /\ outcome[inner[a]] = "ok"
    BY <1>4 DEF Mark, Succeeded, ReplaysFollowTokens
  <2>2. inner[a] \in applied
    BY <2>1 DEF VmsInv, AppliedOnceAnswered
  <2>3. inner[a] \in Replays(c)
    BY <1>4, <2>2 DEF Replays
  <2>. QED BY <1>2, <2>1, <2>3
<1>5. \/ token'[c] = token[c]
      \/ token'[c] = [status |-> "recorded", change |-> UndoOf(c)]
      \/ \E a \in Applies : Mark(a) /\ Succeeded(inner[a]) /\ origin[a] = c
  BY TokenSteps, Zenon
<1>. QED BY <1>3, <1>4, <1>5

LEMMA UndoNextPreservesInv == UndoInv /\ [UndoNext]_undoVars => UndoInv'
<1> SUFFICES ASSUME UndoInv, [UndoNext]_undoVars PROVE UndoInv'
  OBVIOUS
<1>1. VmsInv' /\ UndoTypeOK' /\ TokensRecordedLast'
  BY WritesKeepInv, UndoTypePreserved, TokensRecordedLastPreserved
<1>2. TokensTellTheTruth'
  BY <1>1, TokensFollowPriorStates, PTL
<1>. QED BY <1>1, <1>2, ReplaysFollowTokensPreserved, AppliedMeansReplayedPreserved
         DEF UndoInv

-----------------------------------------------------------------------------
\* The invariant of writes, tokens and replays.
THEOREM UndoInvariant == UndoSpec => []UndoInv
BY UndoInitEstablishesInv, UndoNextPreservesInv, PTL DEF UndoSpec

\* A token exists only for a write that took effect, and puts back what that
\* write replaced.
THEOREM TokensAreTrue == UndoSpec => []TokensTellTheTruth
<1>1. UndoInv => TokensTellTheTruth
  BY DEF UndoInv
<1>. QED BY <1>1, UndoInvariant, PTL

\* A token is marked applied only after a confirmed replay.
THEOREM MarkedTokensWereReplayed == UndoSpec => []AppliedMeansReplayed
<1>1. UndoInv => AppliedMeansReplayed
  BY DEF UndoInv
<1>. QED BY <1>1, UndoInvariant, PTL

\* A replay that reaches Prism restores what its write changed.
THEOREM ReplaysRestore == UndoSpec => ReplayRestores
<1> DEFINE Restores(a, i) ==
        inner[a] = i /\ i \notin applied /\ i \in applied' =>
            \A f \in Fields :
                /\ ask[origin[a]].change[f] # Keep
                /\ before[origin[a]][f] \in Restorable
                => vm'[on[i]][f] = before[origin[a]][f]
<1>1. ASSUME UndoInv, [UndoNext]_undoVars, EtagsServed, NEW a \in Applies, NEW i \in Calls,
             inner[a] = i, i \notin applied, i \in applied', NEW f \in Fields,
             ask[origin[a]].change[f] # Keep, before[origin[a]][f] \in Restorable
      PROVE  vm'[on[i]][f] = before[origin[a]][f]
  <2> DEFINE c == origin[a]
  <2>1. Accept(i)
    <3>1. applied' # applied
      BY <1>1
    <3>2. ASSUME NEW j \in Calls, Accept(j) PROVE j = i
      BY <1>1, <3>2 DEF Accept
    <3>3. \E j \in Calls : Accept(j)
      BY <1>1, <3>1 DEF UndoNext, undoVars, vmsVars, Invoke, Body, Record, DieAlone, Check,
         Dispatch, Mark, DieApplying, Change, AllOver, Call, Read, Refuse, Return,
         Die, Drift
    <3>. QED BY <3>2, <3>3
  <2>2. vm'[on[i]] = Result(i)
    BY <1>1, <2>1 DEF Accept, UndoInv, VmsInv, TypeOK
  <2>3. /\ c \in Calls /\ ask[i].change = token[c].change /\ token[c].status # "none"
    BY <1>1, UndoAssumption DEF UndoInv, ReplaysFollowTokens
  <2>4. token[c].change = UndoOf(c) /\ c \in applied /\ seen[c] = before[c]
    BY <1>1, <2>3 DEF UndoInv, VmsInv, TokensRecordedLast, AppliedOnceAnswered,
       PriorIsReplaced
  <2>5. f \in Scope(c)
    <3>1. ask[c] \in Requests
      BY <1>1, <2>3 DEF UndoInv, VmsInv, TypeOK
    <3>. QED BY <1>1, <3>1 DEF Requests, Touches, Scope, Nothing
  <2>6. ask[i].change[f] = before[c][f]
    BY <1>1, <2>3, <2>4, <2>5 DEF UndoOf
  <2>7. before[c][f] # Keep
    BY <1>1, UndoAssumption, VmsAssumption
  <2>. QED BY <2>2, <2>6, <2>7 DEF Result
<1>2. UndoInv /\ [UndoNext]_undoVars =>
          [EtagsServed => \A a \in Applies, i \in Calls : Restores(a, i)]_undoVars
  BY <1>1
<1>. QED BY <1>2, UndoInvariant, PTL DEF UndoSpec, ReplayRestores

-----------------------------------------------------------------------------
(* Which steps carry out, end and disturb.                                 *)

\* Only a request under way is carried out; only Record ends a call.
LEMMA OnlyAcceptApplies ==
    ASSUME UndoInv, [UndoNext]_undoVars, NEW c \in Calls
    PROVE  \/ UNCHANGED <<applied, before, outcome>> /\ (phase'[c] = "done" => phase[c] = "done")
           \/ Accept(c) /\ UNCHANGED <<token, applyVars, faults, turnVars>>
           \/ Record(c)
           \/ /\ (c \in applied' => c \in applied) /\ before'[c] = before[c]
              /\ outcome'[c] = outcome[c] /\ phase'[c] = phase[c]
           \/ phase'[c] = "answered" /\ phase[c] # "answered"
              /\ UNCHANGED <<applied, before, applyVars>>
<1> USE DEF UndoInv, UndoTypeOK, TypeOK
<1>1. ASSUME NEW d \in Calls, NEW v \in Vms, NEW r \in Requests, Call(d, v, r)
      PROVE  UNCHANGED <<applied, before, outcome>> /\ (phase'[c] = "done" => phase[c] = "done")
  BY <1>1 DEF Call
<1>2. ASSUME NEW d \in Calls, Body(d) \/ Record(d)
      PROVE  \/ UNCHANGED <<applied, before, outcome>> /\ (phase'[c] = "done" => phase[c] = "done")
             \/ Accept(c) /\ UNCHANGED <<token, applyVars, faults, turnVars>>
             \/ Record(c)
             \/ /\ (c \in applied' => c \in applied) /\ before'[c] = before[c]
                /\ outcome'[c] = outcome[c] /\ phase'[c] = phase[c]
             \/ phase'[c] = "answered" /\ phase[c] # "answered"
                /\ UNCHANGED <<applied, before, applyVars>>
  <2>1. CASE d = c
    BY <1>2, <2>1 DEF Body, Read, Refuse, Answer
  <2>2. CASE d # c
    BY <1>2, <2>2 DEF Body, Record, Read, Accept, Refuse, Answer, Return
  <2>. QED BY <2>1, <2>2
<1>3. ASSUME NEW d \in Calls, DieAlone(d)
      PROVE  UNCHANGED <<applied, before, outcome>> /\ (phase'[c] = "done" => phase[c] = "done")
  BY <1>3 DEF DieAlone, Die
<1>4. ASSUME NEW a \in Applies, NEW d \in Calls, Check(a, d) \/ Dispatch(a, d)
      PROVE  UNCHANGED <<applied, before, outcome>> /\ (phase'[c] = "done" => phase[c] = "done")
  BY <1>4 DEF Check, Dispatch, Call, vmsVars
<1>5. ASSUME NEW a \in Applies, Mark(a) \/ DieApplying(a)
      PROVE  UNCHANGED <<applied, before, outcome>> /\ (phase'[c] = "done" => phase[c] = "done")
  BY <1>5 DEF Mark, DieApplying, vmsVars
<1>6. ASSUME NEW v \in Vms, NEW x \in Configs, Change(v, x)
      PROVE  UNCHANGED <<applied, before, outcome>> /\ (phase'[c] = "done" => phase[c] = "done")
  BY <1>6 DEF Change, Drift
<1>7. CASE UNCHANGED undoVars
  BY <1>7 DEF undoVars, vmsVars
<1>. QED BY <1>1, <1>2, <1>3, <1>4, <1>5, <1>6, <1>7 DEF UndoNext, Invoke, AllOver

\* What disturbed a token stays on record.
LEMMA FailuresStay ==
    ASSUME [UndoNext]_undoVars
    PROVE  /\ contested \subseteq contested'
           /\ unstored \subseteq unstored' /\ unmarked \subseteq unmarked'
BY DEF UndoNext, undoVars, turnVars, Invoke, Body, Record, DieAlone, Check, Dispatch, Mark,
   DieApplying, Change, AllOver

-----------------------------------------------------------------------------
(* No schedule of calls drops a token.                                     *)

LEMMA EffectsStayReversible ==
    ASSUME UndoInv, EffectsReversible, [UndoNext]_undoVars PROVE EffectsReversible'
<1> USE DEF UndoInv, UndoTypeOK, VmsInv, TypeOK
<1> SUFFICES ASSUME NEW c \in Calls, c \in applied', phase'[c] = "done",
                    token'[c].status = "none", outcome'[c] # "error", c \notin unstored',
                    EtagsServed
             PROVE  \A f \in Fields : ask'[c].change[f] # Keep => before'[c][f] \notin Restorable
  BY DEF EffectsReversible
<1>1. c \notin unstored
  BY FailuresStay
<1>2. CASE phase[c] = "done"
  <2>1. outcome'[c] = outcome[c] /\ ask'[c] = ask[c]
    BY <1>2, ReturnedCallsStay, StartedCallsKeepRequests
  <2>2. token[c].status = "none"
    <3>1. ~Record(c)
      BY <1>2 DEF Record, Return
    <3>. QED BY <3>1, TokenSteps
  <2>3. c \in applied /\ before'[c] = before[c]
    BY <1>2, OnlyAcceptApplies DEF Accept, Record, Return
  <2>. QED BY <1>1, <1>2, <2>1, <2>2, <2>3 DEF EffectsReversible
<1>3. CASE phase[c] # "done"
  <2>1. Record(c)
    BY <1>3, OnlyAcceptApplies DEF Accept, Answer
  <2>2. UNCHANGED <<applied, outcome, ask, before>>
    BY <2>1 DEF Record, Return
  <2>3. ~WorthAToken(c)
    BY <1>1, <2>1 DEF Record
  <2>4. c \in applied /\ seen[c] = before[c] /\ ask[c] \in Requests /\ outcome[c] = "ok"
    BY <2>2 DEF PriorIsReplaced, AppliedOnceAnswered
  <2>5. UndoOf(c) = Nothing
    BY <2>3, <2>4 DEF WorthAToken
  <2>6. ASSUME NEW f \in Fields, ask[c].change[f] # Keep, before[c][f] \in Restorable
        PROVE  FALSE
    <3>1. f \in Scope(c)
      BY <2>4, <2>6 DEF Requests, Touches, Scope, Nothing
    <3>2. UndoOf(c)[f] = before[c][f]
      BY <2>4, <2>6, <3>1 DEF UndoOf
    <3>. QED BY <2>5, <2>6, <3>2, UndoAssumption, VmsAssumption DEF Nothing
  <2>. QED BY <2>2, <2>6
<1>. QED BY <1>2, <1>3

\* A write that took effect without a token had nothing to put back, lost its
\* answer, or is one whose own token the store failed to record.
THEOREM EffectsAreReversible == UndoSpec => []EffectsReversible
<1>1. UndoInit => EffectsReversible
  BY DEF UndoInit, Init, EffectsReversible
<1>. QED BY <1>1, EffectsStayReversible, UndoInvariant, PTL DEF UndoSpec

-----------------------------------------------------------------------------
(* Undisturbed, a token is replayed once.                                  *)

LEMMA DisturbedStays ==
    ASSUME UndoInv, [UndoNext]_undoVars, NEW c \in Calls, Disturbed(c) PROVE Disturbed(c)'
<1>1. contested \subseteq contested' /\ unmarked \subseteq unmarked'
  BY FailuresStay
<1>2. \A i \in Replays(c) : i \in Replays(c)' /\ outcome'[i] = outcome[i]
  BY ReplaysStay
<1>. QED BY <1>1, <1>2 DEF Disturbed

LEMMA TurnsKept ==
    ASSUME UndoInv, ReplaysInTurn, [UndoNext]_undoVars,
           UNCHANGED origin,
           \A a \in Applies : Replayed(a)' = Replayed(a) /\ (a \in Applying)' = (a \in Applying)
    PROVE  \A a \in Applies : origin'[a] \in Calls /\ ~Disturbed(origin[a])' =>
              /\ Replayed(a)' /\ a \notin Applying' => token'[origin'[a]].status = "applied"
              /\ \A b \in Applies \ {a} : origin'[b] = origin'[a] =>
                    /\ ~(a \in Applying' /\ b \in Applying')
                    /\ Replayed(a)' => ~Replayed(b)' /\ (a \in Applying' \/ b \notin Applying')
<1> SUFFICES ASSUME NEW a \in Applies, origin[a] \in Calls, ~Disturbed(origin[a])'
             PROVE  /\ Replayed(a) /\ a \notin Applying => token'[origin[a]].status = "applied"
                    /\ \A b \in Applies \ {a} : origin[b] = origin[a] =>
                          /\ ~(a \in Applying /\ b \in Applying)
                          /\ Replayed(a) => ~Replayed(b) /\ (a \in Applying \/ b \notin Applying)
  OBVIOUS
<1>1. ~Disturbed(origin[a])
  <2> DEFINE c == origin[a]
  <2>1. c \in Calls /\ (~Disturbed(c)' => ~Disturbed(c))
    BY DisturbedStays
  <2>2. c' = c
    OBVIOUS
  <2>. QED BY <2>1, <2>2
<1>2. token[origin[a]].status = "applied" => token'[origin[a]].status = "applied"
  <2>1. token[origin[a]].status = "applied" => ~Record(origin[a])
    BY DEF UndoInv, TokensRecordedLast, Record, Return
  <2>. QED BY <2>1, TokenSteps
<1>. QED BY <1>1, <1>2 DEF ReplaysInTurn

LEMMA AcceptKeepsTurns ==
    ASSUME UndoInv, ReplaysInTurn, NEW i \in Calls, Accept(i),
           UNCHANGED <<token, applyVars, faults, turnVars>>
    PROVE  ReplaysInTurn'
<1> USE DEF UndoInv, UndoTypeOK, TypeOK
<1>1. /\ applied' = applied \cup {i} /\ UNCHANGED <<unmarked, inner, step, origin>>
      /\ phase[i] = "holding" /\ i \notin applied
      /\ phase' = [phase EXCEPT ![i] = "answered"]
  BY DEF Accept, Answer, VmsInv, AppliedOnceAnswered, turnVars, applyVars
<1>2. \A a \in Applies : Replayed(a)' = (Replayed(a) \/ inner[a] = i)
                         /\ (a \in Applying)' = (a \in Applying)
  BY <1>1 DEF Replayed, Applying
<1>3. \A a \in Applies : inner[a] = i => step[a] = "running" \/ origin[a] \in unmarked
  BY <1>1, UndoAssumption DEF ReplaysFollowTokens, ReplaysInTurn
<1>4. \A a \in Applies : step[a] = "running" => a \in Applying
  BY DEF Applying
<1>5. ASSUME NEW a \in Applies, origin[a] \in Calls, ~Disturbed(origin[a])'
      PROVE  ~Disturbed(origin[a]) /\ origin[a] \notin unmarked
  <2>1. [UndoNext]_undoVars
    BY DEF UndoNext, Body
  <2> DEFINE c == origin[a]
  <2>2. c \in Calls /\ (~Disturbed(c)' => ~Disturbed(c))
    BY <1>5, <2>1, DisturbedStays
  <2>3. c' = c
    OBVIOUS
  <2>. QED BY <1>1, <1>5, <2>2, <2>3 DEF Disturbed
<1>6. \A a, b \in Applies : inner[a] = i /\ inner[b] = i => a = b
  BY UndoAssumption DEF ReplaysFollowTokens
<1>7. ASSUME NEW a \in Applies
      PROVE  /\ inner'[a] # NoCall /\ (step'[a] = "dead" \/ phase'[inner'[a]] = "dead")
                   => origin'[a] \in unmarked'
             /\ step'[a] = "done" /\ inner'[a] # NoCall => phase'[inner'[a]] = "done"
  BY <1>1, <1>3 DEF ReplaysInTurn
<1>8. ASSUME NEW a \in Applies, origin[a] \in Calls, ~Disturbed(origin[a])'
      PROVE  /\ Replayed(a)' /\ a \notin Applying' => token'[origin'[a]].status = "applied"
             /\ \A b \in Applies \ {a} : origin'[b] = origin'[a] =>
                   /\ ~(a \in Applying' /\ b \in Applying')
                   /\ Replayed(a)' => ~Replayed(b)' /\ (a \in Applying' \/ b \notin Applying')
  <2>1. ~Disturbed(origin[a]) /\ origin[a] \notin unmarked
    BY <1>5, <1>8
  <2>2. \A b \in Applies \ {a} : origin[b] = origin[a] =>
            /\ ~(a \in Applying /\ b \in Applying)
            /\ Replayed(a) => ~Replayed(b) /\ (a \in Applying \/ b \notin Applying)
            /\ Replayed(b) => ~Replayed(a) /\ (b \in Applying \/ a \notin Applying)
    BY <1>8, <2>1 DEF ReplaysInTurn
  <2>3. Replayed(a) /\ a \notin Applying => token[origin[a]].status = "applied"
    BY <1>8, <2>1 DEF ReplaysInTurn
  <2>. QED BY <1>2, <1>3, <1>4, <1>6, <2>1, <2>2, <2>3
<1>. QED BY <1>7, <1>8 DEF ReplaysInTurn

LEMMA CheckKeepsTurns ==
    ASSUME UndoInv, ReplaysInTurn, NEW a \in Applies, NEW c \in Calls, Check(a, c)
    PROVE  ReplaysInTurn'
<1> USE DEF UndoInv, UndoTypeOK, TypeOK
<1>1. /\ UNCHANGED <<phase, outcome, unmarked, applied, token, inner, faults>>
      /\ step[a] = "idle" /\ origin' = [origin EXCEPT ![a] = c]
      /\ step' = [step EXCEPT ![a] = IF Usable(c) THEN "checked" ELSE "done"]
      /\ contested' = IF \E b \in Applying : origin[b] = c THEN contested \cup {c} ELSE contested
  BY DEF Check, vmsVars
<1>2. inner[a] = NoCall /\ ~Replayed(a) /\ a \notin Applying
  BY <1>1, UndoAssumption DEF ReplaysFollowTokens, Replayed, Applying
<1>3. \A b \in Applies \ {a} : /\ origin'[b] = origin[b] /\ step'[b] = step[b]
                               /\ (b \in Applying)' = (b \in Applying)
  BY <1>1 DEF Applying
<1>4. \A b \in Applies : Replayed(b)' = Replayed(b)
  BY <1>1 DEF Replayed
<1>5. ASSUME NEW d \in Calls, ~Disturbed(d)' PROVE ~Disturbed(d)
  <2>1. [UndoNext]_undoVars
    BY DEF UndoNext
  <2>. QED BY <1>5, <2>1, DisturbedStays
<1>6. ASSUME ~Disturbed(c)', NEW b \in Applies \ {a}, origin[b] = c
      PROVE  /\ b \notin Applying
             /\ Replayed(b) => a \notin Applying'
  <2>1. c \notin contested'
    BY <1>6 DEF Disturbed
  <2>2. b \notin Applying
    BY <1>1, <1>6, <2>1
  <2>3. Replayed(b) => token[c].status = "applied"
    BY <1>5, <1>6, <2>2 DEF ReplaysInTurn
  <2>4. token[c].status = "applied" => step'[a] = "done"
    BY <1>1 DEF Usable
  <2>. QED BY <2>2, <2>3, <2>4 DEF Applying
<1>7. ASSUME NEW b \in Applies
      PROVE  /\ inner'[b] # NoCall /\ (step'[b] = "dead" \/ phase'[inner'[b]] = "dead")
                   => origin'[b] \in unmarked'
             /\ step'[b] = "done" /\ inner'[b] # NoCall => phase'[inner'[b]] = "done"
  BY <1>1, <1>2 DEF ReplaysInTurn
<1>8. ASSUME NEW b \in Applies, origin'[b] \in Calls, NEW d, d = origin'[b], ~Disturbed(d)'
      PROVE  /\ Replayed(b)' /\ b \notin Applying' => token'[d].status = "applied"
             /\ \A e \in Applies \ {b} : origin'[e] = d =>
                   /\ ~(b \in Applying' /\ e \in Applying')
                   /\ Replayed(b)' => ~Replayed(e)' /\ (b \in Applying' \/ e \notin Applying')
  <2>1. CASE b = a
    BY <1>1, <1>2, <1>3, <1>4, <1>6, <1>8, <2>1
  <2>2. CASE b # a
    <3>1. origin[b] = d /\ ~Disturbed(d) /\ d \in Calls
      BY <1>3, <1>5, <1>8, <2>2
    <3>2. Replayed(b) /\ b \notin Applying => token[d].status = "applied"
      BY <3>1 DEF ReplaysInTurn
    <3>3. \A e \in Applies \ {a, b} : origin[e] = d =>
             /\ ~(b \in Applying /\ e \in Applying)
             /\ Replayed(b) => ~Replayed(e) /\ (b \in Applying \/ e \notin Applying)
      BY <3>1 DEF ReplaysInTurn
    <3>4. d = c => b \notin Applying /\ (Replayed(b) => a \notin Applying')
      BY <1>6, <1>8, <2>2, <3>1
    <3>. QED BY <1>1, <1>2, <1>3, <1>4, <2>2, <3>2, <3>3, <3>4
  <2>. QED BY <2>1, <2>2
<1>. QED BY <1>7, <1>8 DEF ReplaysInTurn

LEMMA MarkKeepsTurns ==
    ASSUME UndoInv, ReplaysInTurn, NEW a \in Applies, Mark(a)
    PROVE  ReplaysInTurn'
<1> USE DEF UndoInv, UndoTypeOK, TypeOK
<1>0. [UndoNext]_undoVars
  BY DEF UndoNext
<1>1. /\ UNCHANGED <<phase, outcome, applied, inner, origin>> /\ unmarked \subseteq unmarked'
      /\ step[a] = "running" /\ step' = [step EXCEPT ![a] = "done"]
      /\ phase[inner[a]] = "done"
  BY DEF Mark, vmsVars
<1>2. /\ inner[a] \in Calls /\ origin[a] \in Calls /\ token[origin[a]].status # "none"
      /\ a \in Applying /\ a \notin Applying'
  BY <1>1 DEF ReplaysFollowTokens, Applying
<1>3. \A b \in Applies \ {a} : (b \in Applying)' = (b \in Applying)
  BY <1>1 DEF Applying
<1>4. \A b \in Applies : Replayed(b)' = Replayed(b)
  BY <1>1 DEF Replayed
<1>5. ASSUME NEW d \in Calls, ~Disturbed(d)' PROVE ~Disturbed(d)
  BY <1>0, <1>5, DisturbedStays
<1>6. ASSUME NEW d \in Calls, d = origin[a], ~Disturbed(d)', Replayed(a)
      PROVE  token'[d].status = "applied"
  <2>1. origin[a] \notin unmarked'
    BY <1>6 DEF Disturbed
  <2>2. Succeeded(inner[a]) => token' = [token EXCEPT ![origin[a]].status = "applied"]
    BY <2>1 DEF Mark
  <2>3. outcome[inner[a]] # "none"
    BY <1>6 DEF Replayed, VmsInv, AppliedOnceAnswered
  <2>4. inner[a] \in Replays(d)
    BY <1>6 DEF Replays, Replayed
  <2>5. inner[a] \in Replays(d)'
    BY <1>1, <2>4 DEF Replays
  <2>6. outcome[inner[a]] # "error"
    BY <1>1, <1>6, <2>5 DEF Disturbed
  <2>7. Succeeded(inner[a])
    BY <1>2, <2>3, <2>6 DEF Succeeded
  <2>8. token' = [token EXCEPT ![origin[a]].status = "applied"]
    BY <2>2, <2>7
  <2>. QED BY <1>2, <1>6, <2>8 DEF Tokens
<1>7. \A c \in Calls : token[c].status = "applied" => token'[c].status = "applied"
  BY DEF Mark, Tokens
<1>8. ASSUME NEW b \in Applies
      PROVE  /\ inner'[b] # NoCall /\ (step'[b] = "dead" \/ phase'[inner'[b]] = "dead")
                   => origin'[b] \in unmarked'
             /\ step'[b] = "done" /\ inner'[b] # NoCall => phase'[inner'[b]] = "done"
  BY <1>1 DEF ReplaysInTurn
<1>9. ASSUME NEW b \in Applies, origin[b] \in Calls, NEW d, d = origin[b], ~Disturbed(d)'
      PROVE  /\ Replayed(b)' /\ b \notin Applying' => token'[d].status = "applied"
             /\ \A e \in Applies \ {b} : origin[e] = d =>
                   /\ ~(b \in Applying' /\ e \in Applying')
                   /\ Replayed(b)' => ~Replayed(e)' /\ (b \in Applying' \/ e \notin Applying')
  <2>1. ~Disturbed(d)
    BY <1>5, <1>9
  <2>2. /\ Replayed(b) /\ b \notin Applying => token[d].status = "applied"
        /\ \A e \in Applies \ {b} : origin[e] = d =>
             /\ ~(b \in Applying /\ e \in Applying)
             /\ Replayed(b) => ~Replayed(e) /\ (b \in Applying \/ e \notin Applying)
    BY <1>9, <2>1 DEF ReplaysInTurn
  <2>3. Replayed(b)' /\ b \notin Applying' => token'[d].status = "applied"
    BY <1>3, <1>4, <1>6, <1>7, <1>9, <2>2
  <2>. QED BY <1>2, <1>3, <1>4, <2>2, <2>3
<1>. QED BY <1>1, <1>8, <1>9 DEF ReplaysInTurn

LEMMA TurnsStay == ASSUME UndoInv, ReplaysInTurn, [UndoNext]_undoVars PROVE ReplaysInTurn'
<1> USE DEF UndoInv, UndoTypeOK, TypeOK
<1> DEFINE Ends == \A a \in Applies :
        /\ inner[a] # NoCall /\ (step[a] = "dead" \/ phase[inner[a]] = "dead") =>
              origin[a] \in unmarked
        /\ step[a] = "done" /\ inner[a] # NoCall => phase[inner[a]] = "done"
           Same == /\ origin' = origin
                   /\ \A a \in Applies : /\ Replayed(a)' = Replayed(a)
                                         /\ (a \in Applying)' = (a \in Applying)
<1>0. Ends
  BY DEF ReplaysInTurn
<1>1. ASSUME Ends', Same PROVE ReplaysInTurn'
  BY <1>1, TurnsKept DEF ReplaysInTurn
<1>2. CASE UNCHANGED undoVars
  BY <1>0, <1>1, <1>2 DEF undoVars, vmsVars, Replayed, Applying, turnVars
<1>3. ASSUME NEW c \in Calls, NEW v \in Vms, NEW r \in Requests, Invoke(c, v, r)
      PROVE  ReplaysInTurn'
  <2>1. Same
    BY <1>3 DEF Invoke, Call, Replayed, Applying
  <2>2. Ends'
    BY <1>0, <1>3 DEF Invoke, Call, turnVars
  <2>. QED BY <1>1, <2>1, <2>2
<1>4. ASSUME NEW c \in Calls, Body(c) PROVE ReplaysInTurn'
  <2>1. CASE Accept(c)
    BY <1>4, <2>1, AcceptKeepsTurns DEF Body
  <2>2. CASE Read(c) \/ Refuse(c)
    <3>1. Same
      BY <1>4, <2>2 DEF Body, Read, Refuse, Replayed, Applying
    <3>2. Ends'
      BY <1>0, <1>4, <2>2 DEF Body, Read, Refuse, Answer, turnVars
    <3>. QED BY <1>1, <3>1, <3>2
  <2>. QED BY <1>4, <2>1, <2>2 DEF Body
<1>5. ASSUME NEW c \in Calls, Record(c) PROVE ReplaysInTurn'
  <2>1. Same
    BY <1>5 DEF Record, Return, Replayed, Applying
  <2>2. Ends'
    BY <1>0, <1>5 DEF Record, Return
  <2>. QED BY <1>1, <2>1, <2>2
<1>6. ASSUME NEW c \in Calls, DieAlone(c) PROVE ReplaysInTurn'
  <2>1. Same
    BY <1>6 DEF DieAlone, Die, Replayed, Applying
  <2>2. Ends'
    <3>1. \A b \in Applies : inner[b] # NoCall => phase'[inner[b]] = phase[inner[b]]
      BY <1>6 DEF DieAlone, Die, Inner
    <3>2. UNCHANGED <<applyVars, turnVars>>
      BY <1>6 DEF DieAlone
    <3>. QED BY <1>0, <3>1, <3>2 DEF applyVars, turnVars
  <2>. QED BY <1>1, <2>1, <2>2
<1>7. ASSUME NEW a \in Applies, NEW c \in Calls, Dispatch(a, c) PROVE ReplaysInTurn'
  <2>1. inner[a] = NoCall /\ c \notin applied /\ phase[c] = "idle" /\ phase'[c] = "reading"
    BY <1>7 DEF Dispatch, Call, ReplaysFollowTokens, VmsInv, AppliedOnceAnswered
  <2>2. /\ inner' = [inner EXCEPT ![a] = c] /\ step' = [step EXCEPT ![a] = "running"]
        /\ step[a] = "checked" /\ UNCHANGED <<origin, applied, unmarked>>
        /\ \A d \in Calls : d # c => phase'[d] = phase[d]
    BY <1>7 DEF Dispatch, Call, turnVars
  <2>3. Same
    BY <2>1, <2>2, UndoAssumption DEF Replayed, Applying
  <2>4. Ends'
    BY <1>0, <2>1, <2>2
  <2>. QED BY <1>1, <2>3, <2>4
<1>8. ASSUME NEW a \in Applies, NEW c \in Calls, Check(a, c) PROVE ReplaysInTurn'
  BY <1>8, CheckKeepsTurns
<1>9. ASSUME NEW a \in Applies, Mark(a) PROVE ReplaysInTurn'
  BY <1>9, MarkKeepsTurns
<1>10. ASSUME NEW a \in Applies, DieApplying(a) PROVE ReplaysInTurn'
  <2>1. /\ UNCHANGED <<inner, origin, applied, token, outcome, contested>>
        /\ a \in Applying /\ step' = [step EXCEPT ![a] = "dead"]
        /\ phase' = [c \in Calls |-> IF c = inner[a] /\ ~Over(c) THEN "dead" ELSE phase[c]]
        /\ unmarked' = IF step[a] = "running" THEN unmarked \cup {origin[a]} ELSE unmarked
    BY <1>10 DEF DieApplying, worldVars, historyVars
  <2>2. inner[a] # NoCall => step[a] = "running" /\ origin[a] \in unmarked'
    BY <2>1 DEF ReplaysFollowTokens, Applying
  <2>3. Ends'
    <3>1. ASSUME NEW b \in Applies, step'[b] = "done", inner[b] # NoCall
          PROVE  phase'[inner[b]] = "done"
      <4>1. step[b] = "done" /\ phase[inner[b]] = "done" /\ inner[b] \in Calls
        BY <1>0, <2>1, <3>1
      <4>. QED BY <2>1, <4>1 DEF Over
    <3>2. ASSUME NEW b \in Applies, inner[b] # NoCall,
                 step'[b] = "dead" \/ phase'[inner[b]] = "dead"
          PROVE  origin[b] \in unmarked'
      <4>1. CASE b = a
        BY <2>2, <3>2, <4>1
      <4>2. CASE b # a
        <5>1. inner[b] # inner[a] /\ inner[b] \in Calls
          BY <3>2, <4>2 DEF ReplaysFollowTokens
        <5>2. step[b] = "dead" \/ phase[inner[b]] = "dead"
          BY <2>1, <3>2, <4>2, <5>1
        <5>. QED BY <1>0, <2>1, <3>2, <5>2
      <4>. QED BY <4>1, <4>2
    <3>. QED BY <2>1, <3>1, <3>2
  <2>4. ASSUME NEW b \in Applies, origin[b] \in Calls, NEW d, d = origin[b], ~Disturbed(d)'
        PROVE  /\ Replayed(b)' /\ b \notin Applying' => token'[d].status = "applied"
               /\ \A e \in Applies \ {b} : origin[e] = d =>
                     /\ ~(b \in Applying' /\ e \in Applying')
                     /\ Replayed(b)' => ~Replayed(e)' /\ (b \in Applying' \/ e \notin Applying')
    <3>1. d \in Calls /\ ~Disturbed(d) /\ d \notin unmarked'
      BY <2>4, DisturbedStays DEF Disturbed
    <3>2. /\ Replayed(b) /\ b \notin Applying => token[d].status = "applied"
          /\ \A e \in Applies \ {b} : origin[e] = d =>
                /\ ~(b \in Applying /\ e \in Applying)
                /\ Replayed(b) => ~Replayed(e) /\ (b \in Applying \/ e \notin Applying)
      BY <2>4, <3>1 DEF ReplaysInTurn
    <3>3. \A e \in Applies : Replayed(e)' = Replayed(e)
      BY <2>1 DEF Replayed
    <3>4. /\ a \notin Applying'
          /\ \A e \in Applies \ {a} : (e \in Applying)' = (e \in Applying)
      BY <2>1 DEF Applying
    <3>5. origin[a] = d => ~Replayed(a)
      BY <2>2, <3>1, UndoAssumption DEF Replayed
    <3>. QED BY <2>1, <2>4, <3>2, <3>3, <3>4, <3>5
  <2>. QED BY <2>1, <2>3, <2>4 DEF ReplaysInTurn
<1>11. ASSUME NEW v \in Vms, NEW x \in Configs, Change(v, x) PROVE ReplaysInTurn'
  <2>1. Same
    BY <1>11 DEF Change, Drift, Replayed, Applying
  <2>2. Ends'
    BY <1>0, <1>11 DEF Change, Drift, turnVars
  <2>. QED BY <1>1, <2>1, <2>2
<1>. QED BY <1>2, <1>3, <1>4, <1>5, <1>6, <1>7, <1>8, <1>9, <1>10, <1>11
        DEF UndoNext, AllOver

\* A token is replayed twice only if it was left unmarked by a crash or a failing
\* store, its replay lost its answer, or two undo_apply calls held it at once, for
\* any number of them.
THEOREM TokensReplayedOnce == UndoSpec => []OnceUnlessDisturbed
<1>1. UndoInit => ReplaysInTurn
  BY UndoAssumption DEF UndoInit, Init, ReplaysInTurn, Replayed
<1>2. UndoInv /\ ReplaysInTurn => OnceUnlessDisturbed
  <2> SUFFICES ASSUME UndoInv, ReplaysInTurn, NEW c \in Calls, ~Disturbed(c)
               PROVE  ~(Cardinality(Replays(c)) > 1)
    BY DEF OnceUnlessDisturbed
  <2>1. \A i, j \in Replays(c) : i = j
    <3> SUFFICES ASSUME NEW i \in Replays(c), NEW j \in Replays(c), i # j PROVE FALSE
      OBVIOUS
    <3>1. PICK a \in Applies : inner[a] = i /\ origin[a] = c
      BY DEF Replays
    <3>2. PICK b \in Applies : inner[b] = j /\ origin[b] = c
      BY DEF Replays
    <3>3. a # b /\ Replayed(a) /\ Replayed(b)
      BY <3>1, <3>2 DEF Replays, Replayed
    <3>. QED BY <3>1, <3>2, <3>3 DEF ReplaysInTurn
  <2>2. CASE Replays(c) = {}
    BY <2>2, FS_EmptySet
  <2>3. ASSUME NEW i \in Replays(c) PROVE Cardinality(Replays(c)) = 1
    <3>1. Replays(c) = {i}
      BY <2>1
    <3>. QED BY <3>1, FS_Singleton
  <2>. QED BY <2>2, <2>3
<1>. QED BY <1>1, <1>2, TurnsStay, UndoInvariant, PTL DEF UndoSpec
=============================================================================
