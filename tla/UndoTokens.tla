----------------------------- MODULE UndoTokens -----------------------------
(***************************************************************************)
(* The undo store of governance/undo.py, the recording of inverses by the  *)
(* wrapper (_record_undo, the undo callables of the VM tools) and their    *)
(* replay by undo_apply, around the VM writes of PrismVms.  undo_apply is  *)
(* a call of its own: it reads a token, runs the inverse tool as another   *)
(* governed call, then marks the token.  The store is shared by threads    *)
(* and processes, and the three steps are separate transactions.           *)
(***************************************************************************)
EXTENDS PrismVms

CONSTANTS Direct,       \* calls made by agents and operators; undo_apply makes the others
          Applies,      \* undo_apply calls
          NoCall,       \* an undo_apply that has run no inverse
          Restorable,   \* values for which an inverse call exists
          MaxFaults     \* failures of the undo database in a behaviour

ASSUME UndoAssumption ==
    /\ Direct \subseteq Calls /\ NoCall \notin Calls
    /\ Restorable \subseteq Values
    /\ MaxFaults \in Nat

VARIABLES token,    \* token[c]: the row of undo_log recorded for c
          step,     \* step[a]: where undo_apply a is
          origin,   \* origin[a]: the call whose token a replays
          inner,    \* inner[a]: the call of the inverse tool
          faults,
          contested, \* history: tokens two undo_apply calls held at once
          unstored,  \* history: calls whose token the store failed to record
          unmarked   \* history: tokens left unmarked by a failing store or a crash

applyVars == <<step, origin, inner>>
turnVars == <<contested, unstored, unmarked>>
undoVars == <<vmsVars, token, applyVars, faults, turnVars>>

-----------------------------------------------------------------------------
NoToken == [status |-> "none", change |-> Nothing]

Tokens == [status : {"none", "recorded", "applied"}, change : Changes]

Steps == {"idle", "checked", "running", "done", "dead"}

UndoInit ==
    /\ Init
    /\ token = [c \in Calls |-> NoToken]
    /\ step = [a \in Applies |-> "idle"]
    /\ origin = [a \in Applies |-> NoCall]
    /\ inner = [a \in Applies |-> NoCall]
    /\ faults = 0
    /\ contested = {} /\ unstored = {} /\ unmarked = {}

Fault == faults < MaxFaults /\ faults' = faults + 1
NoFault == UNCHANGED faults

\* Calls made by an undo_apply.
Inner == {inner[a] : a \in Applies} \ {NoCall}

\* Variant: a resize has no undo callable.
ScopeActionsOnly(c) ==
    IF ask[c].kind = "action" THEN {f \in Fields : ask[c].change[f] # Keep} ELSE {}

\* The fields an undo callable restores: what an action set, and both sizes
\* of a resize.
Scope(c) ==
    IF ask[c].kind = "action" THEN {f \in Fields : ask[c].change[f] # Keep}
    ELSE IF ask[c].kind = "resize" THEN SizeFields
    ELSE {}

\* Variant: the inverse of the request, not of the prior state.
InverseOfRequest(c) ==
    [f \in Fields |-> IF f \in Scope(c) /\ ask[c].change[f] \in Restorable
                      THEN ask[c].change[f] ELSE Keep]

\* _power_undo, _update_undo, _migrate_undo: from the prior state reported.
UndoOf(c) ==
    [f \in Fields |-> IF f \in Scope(c) /\ seen[c][f] \in Restorable
                      THEN seen[c][f] ELSE Keep]

\* Variant: a token is recorded for an error payload too.
WorthATokenAlways(c) == UndoOf(c) # Nothing

WorthAToken(c) == outcome[c] = "ok" /\ UndoOf(c) # Nothing

\* _annotate_result: the tool has returned; the token is recorded, or a
\* failure of the store is swallowed.
Record(c) ==
    /\ Return(c)
    /\ \/ /\ WorthAToken(c)
          /\ token' = [token EXCEPT ![c] = [status |-> "recorded", change |-> UndoOf(c)]]
          /\ NoFault /\ UNCHANGED unstored
       \/ WorthAToken(c) /\ Fault /\ unstored' = unstored \cup {c} /\ UNCHANGED token
       \/ ~WorthAToken(c) /\ NoFault /\ UNCHANGED <<token, unstored>>
    /\ UNCHANGED <<applyVars, contested, unmarked>>

\* A tool is called by an agent or from the command line.
Invoke(c, v, r) ==
    c \in Direct /\ Call(c, v, r) /\ UNCHANGED <<token, applyVars, faults, turnVars>>

\* The steps of a tool body.
Body(c) ==
    /\ Read(c) \/ Accept(c) \/ Refuse(c)
    /\ UNCHANGED <<token, applyVars, faults, turnVars>>

-----------------------------------------------------------------------------
Applying == {a \in Applies : step[a] \in {"checked", "running"}}

\* Variant: the status is not looked at.
UsableAlways(c) == token[c].status # "none"

Usable(c) == token[c].status = "recorded"

\* undo_apply reads the row; an unknown or a spent token is refused.
Check(a, c) ==
    /\ step[a] = "idle"
    /\ origin' = [origin EXCEPT ![a] = c]
    /\ step' = [step EXCEPT ![a] = IF Usable(c) THEN "checked" ELSE "done"]
    /\ contested' = IF \E b \in Applying : origin[b] = c THEN contested \cup {c} ELSE contested
    /\ UNCHANGED <<vmsVars, token, inner, faults, unstored, unmarked>>

\* The inverse tool is called with the recorded parameters.
Dispatch(a, i) ==
    /\ step[a] = "checked"
    /\ i \notin Direct
    /\ Call(i, on[origin[a]],
            [kind |-> ask[origin[a]].kind, change |-> token[origin[a]].change])
    /\ inner' = [inner EXCEPT ![a] = i]
    /\ step' = [step EXCEPT ![a] = "running"]
    /\ UNCHANGED <<token, origin, faults, turnVars>>

Succeeded(i) == outcome[i] = "ok"

\* store.mark: an unconditional UPDATE, unless the inverse failed; a failure
\* of the store is an error of undo_apply.
Mark(a) ==
    /\ step[a] = "running"
    /\ phase[inner[a]] = "done"
    /\ step' = [step EXCEPT ![a] = "done"]
    /\ \/ /\ Succeeded(inner[a])
          /\ token' = [token EXCEPT ![origin[a]].status = "applied"]
          /\ NoFault /\ UNCHANGED unmarked
       \/ /\ Succeeded(inner[a])
          /\ Fault /\ unmarked' = unmarked \cup {origin[a]} /\ UNCHANGED token
       \/ ~Succeeded(inner[a]) /\ NoFault /\ UNCHANGED <<token, unmarked>>
    /\ UNCHANGED <<vmsVars, origin, inner, contested, unstored>>

\* The process of a plain call dies.
DieAlone(c) ==
    c \notin Inner /\ Die(c) /\ UNCHANGED <<token, applyVars, faults, turnVars>>

\* The process of an undo_apply dies, with the call it made.
DieApplying(a) ==
    /\ a \in Applying
    /\ crashes < MaxCrashes
    /\ crashes' = crashes + 1
    /\ step' = [step EXCEPT ![a] = "dead"]
    /\ phase' = [c \in Calls |-> IF c = inner[a] /\ ~Over(c) THEN "dead" ELSE phase[c]]
    /\ unmarked' = IF step[a] = "running" THEN unmarked \cup {origin[a]} ELSE unmarked
    /\ UNCHANGED <<worldVars, on, ask, seen, etag, outcome, drift, historyVars,
                   token, origin, inner, faults, contested, unstored>>

Change(v, x) == Drift(v, x) /\ UNCHANGED <<token, applyVars, faults, turnVars>>

AllOver ==
    /\ \A c \in Calls : phase[c] \in {"idle", "done", "dead"}
    /\ \A a \in Applies : step[a] \notin {"running"}
    /\ UNCHANGED undoVars

UndoNext ==
    \/ \E c \in Calls, v \in Vms, r \in Requests : Invoke(c, v, r)
    \/ \E c \in Calls : Body(c) \/ Record(c) \/ DieAlone(c)
    \/ \E a \in Applies, c \in Calls : Check(a, c) \/ Dispatch(a, c)
    \/ \E a \in Applies : Mark(a) \/ DieApplying(a)
    \/ \E v \in Vms, x \in Configs : Change(v, x)
    \/ AllOver

UndoSpec == UndoInit /\ [][UndoNext]_undoVars

-----------------------------------------------------------------------------
\* Every variable holds a value of its kind.
UndoTypeOK ==
    /\ TypeOK
    /\ token \in [Calls -> Tokens]
    /\ step \in [Applies -> Steps]
    /\ origin \in [Applies -> Calls \cup {NoCall}]
    /\ inner \in [Applies -> Calls \cup {NoCall}]
    /\ faults \in Nat
    /\ contested \subseteq Calls /\ unstored \subseteq Calls /\ unmarked \subseteq Calls

\* A token exists only for a write Prism carried out, and what it would put
\* back is what that write replaced, whatever others did meanwhile
\* (_record_undo: "a wrong inverse ... is worse than none").
TokensTellTheTruth ==
    EtagsServed =>
        \A c \in Calls : token[c].status # "none" =>
            /\ c \in applied
            /\ \A f \in Fields : token[c].change[f] \in {Keep, before[c][f]}

\* A replay that reaches Prism puts back everything its write had changed
\* and that can be put back.
ReplayRestores ==
    [][EtagsServed =>
          \A a \in Applies, i \in Calls :
              inner[a] = i /\ i \notin applied /\ i \in applied' =>
                  \A f \in Fields :
                      /\ ask[origin[a]].change[f] # Keep
                      /\ before[origin[a]][f] \in Restorable
                      => vm'[on[i]][f] = before[origin[a]][f]]_undoVars

\* A write that took effect without leaving a token had nothing to put back,
\* lost its answer, or is one whose own token the store failed to record: no
\* schedule of calls drops one, and no failure that another call met.
EffectsReversible ==
    \A c \in Calls :
        /\ c \in applied /\ phase[c] = "done" /\ token[c].status = "none"
        => \/ \A f \in Fields : ask[c].change[f] # Keep => before[c][f] \notin Restorable
           \/ outcome[c] = "error"
           \/ c \in unstored
           \/ ~EtagsServed

\* Replays of the token of c that Prism carried out.
Replays(c) == {i \in applied : \E a \in Applies : inner[a] = i /\ origin[a] = c}

\* A token marked applied was replayed, and the replay was confirmed.
AppliedMeansReplayed ==
    \A c \in Calls : token[c].status = "applied" =>
        \E i \in Replays(c) : outcome[i] = "ok"

\* What may make a replay be repeated: a crash between the inverse and the mark of
\* this token, a failure to mark it, a lost answer, or two undo_apply calls that held
\* it at the same time.
Disturbed(c) ==
    \/ c \in contested \cup unmarked
    \/ \E i \in Replays(c) : outcome[i] = "error"

\* A token is replayed twice only after one of these.
OnceUnlessDisturbed == \A c \in Calls : Cardinality(Replays(c)) > 1 => Disturbed(c)

\* "A token can only be applied once" (undo_apply).
AppliedOnce == \A c \in Calls : Cardinality(Replays(c)) <= 1

-----------------------------------------------------------------------------
(* The inductive invariant behind them.                                    *)

\* Tokens are recorded last, from the prior state of a confirmed write.
TokensRecordedLast ==
    \A c \in Calls : token[c].status # "none" =>
        /\ phase[c] = "done" /\ outcome[c] = "ok"
        /\ token[c].change = UndoOf(c)

\* An undo_apply past its check replays a token on the VM it is about; no two
\* share the call they make.
ReplaysFollowTokens ==
    /\ \A a \in Applies :
          /\ step[a] \in {"checked", "running"} =>
                /\ origin[a] \in Calls
                /\ token[origin[a]].status # "none"
          /\ step[a] \in {"idle", "checked"} => inner[a] = NoCall
          /\ step[a] = "running" => inner[a] # NoCall
          /\ inner[a] # NoCall =>
                /\ origin[a] \in Calls
                /\ phase[inner[a]] # "idle"
                /\ token[origin[a]].status # "none"
                /\ on[inner[a]] = on[origin[a]]
                /\ ask[inner[a]].change = token[origin[a]].change
    /\ \A a, b \in Applies : inner[a] = inner[b] /\ inner[a] # NoCall => a = b

Replayed(a) == inner[a] \in applied

\* Further, as long as nothing disturbed them: of the undo_apply calls on one
\* token at most one is at work, and none begins once one has replayed it.
ReplaysInTurn ==
    /\ \A a \in Applies :
          /\ inner[a] # NoCall /\ (step[a] = "dead" \/ phase[inner[a]] = "dead") =>
                origin[a] \in unmarked
          /\ step[a] = "done" /\ inner[a] # NoCall => phase[inner[a]] = "done"
    /\ \A a \in Applies : origin[a] \in Calls /\ ~Disturbed(origin[a]) =>
          /\ Replayed(a) /\ a \notin Applying => token[origin[a]].status = "applied"
          /\ \A b \in Applies \ {a} : origin[b] = origin[a] =>
                /\ ~(a \in Applying /\ b \in Applying)
                /\ Replayed(a) => ~Replayed(b) /\ (a \in Applying \/ b \notin Applying)

UndoInv ==
    /\ UndoTypeOK /\ VmsInv /\ TokensRecordedLast /\ ReplaysFollowTokens
    /\ TokensTellTheTruth /\ AppliedMeansReplayed
=============================================================================
