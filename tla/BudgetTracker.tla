---------------------------- MODULE BudgetTracker ----------------------------
(***************************************************************************)
(* The budget and runaway guard of governance/budget.py, with the places   *)
(* where governance/decorators.py calls it: check_and_record before a      *)
(* governed call runs, add_duration when it ends.  Calls of one process    *)
(* run on several threads: the time of a call is read before the lock is   *)
(* taken, so readings enter a window out of order.                         *)
(***************************************************************************)
EXTENDS Naturals, FiniteSets

CONSTANTS Calls,         \* governed calls of one process
          Fingerprint,   \* Fingerprint[c]: the (tool, params) identity of c
          Unlimited,     \* a ceiling whose variable is not set
          Limits,        \* the limits an operator may set
          Window,        \* NUTANIX_RUNAWAY_WINDOW_SEC
          MaxSkew,       \* longest wait between reading the time and the lock
          MaxClock       \* bound on the time of a behaviour

Fingerprints == {Fingerprint[c] : c \in Calls}

\* A runaway maximum of 0 disables the breaker.
LimitSets == [calls : Nat \cup {Unlimited}, seconds : Nat \cup {Unlimited}, runaway : Nat]

ASSUME BudgetAssumption ==
    /\ IsFiniteSet(Calls)
    /\ Fingerprint = [c \in Calls |-> Fingerprint[c]]
    /\ Unlimited \notin Nat
    /\ Limits \subseteq LimitSets
    /\ Window \in Nat \ {0}
    /\ MaxSkew \in Nat
    /\ MaxSkew <= Window
    /\ MaxClock \in Nat

VARIABLES clock,     \* seconds, as time.time() reads it
          limits,    \* the environment, read at every check
          total,     \* _State.total_calls
          seconds,   \* _State.total_seconds
          window,    \* _State.windows[f]: the calls whose time is in the deque
          place,     \* place[c]: the position at which c was appended
          stamp,     \* stamp[c]: the time c read
          phase,     \* phase[c]: where call c is
          admitted   \* history: admitted[c], when c was let through

budgetVars == <<total, seconds, window, place>>
vars == <<clock, limits, budgetVars, stamp, phase, admitted>>

-----------------------------------------------------------------------------
Phases == {"idle", "checking", "running", "refused", "done"}

\* Calls the guard let through.
Admitted == {c \in Calls : phase[c] \in {"running", "done"} /\ place[c] > 0}

Init ==
    /\ clock = 0 /\ limits \in Limits
    /\ total = 0 /\ seconds = 0
    /\ window = [f \in Fingerprints |-> {}]
    /\ place = [c \in Calls |-> 0]
    /\ stamp = [c \in Calls |-> 0]
    /\ phase = [c \in Calls |-> "idle"]
    /\ admitted = [c \in Calls |-> 0]

\* Threads waiting for the lock get it within MaxSkew.
Tick ==
    /\ clock < MaxClock
    /\ \A c \in Calls : phase[c] = "checking" => clock < stamp[c] + MaxSkew
    /\ clock' = clock + 1
    /\ UNCHANGED <<limits, budgetVars, stamp, phase, admitted>>

AtLeast(new, old) == new # Unlimited => old # Unlimited /\ new >= old

\* "Limits ... can be raised mid-session": a disabled breaker is the highest.
RaiseLimits(l) ==
    /\ AtLeast(l.calls, limits.calls)
    /\ AtLeast(l.seconds, limits.seconds)
    /\ l.runaway # 0 => limits.runaway # 0 /\ l.runaway >= limits.runaway
    /\ limits' = l
    /\ UNCHANGED <<clock, budgetVars, stamp, phase, admitted>>

\* The call object and check_and_record read the time; the lock comes next.
Begin(c) ==
    /\ phase[c] = "idle"
    /\ phase' = [phase EXCEPT ![c] = "checking"]
    /\ stamp' = [stamp EXCEPT ![c] = clock]
    /\ UNCHANGED <<clock, limits, budgetVars, admitted>>

\* Variant: a reading exactly at the edge is dropped.
FreshAfterEdge(d, c) == stamp[d] + Window > stamp[c]

\* "dq[0] < cutoff" fails for the reading of d when c is checked.
Fresh(d, c) == stamp[d] + Window >= stamp[c]

\* Readings are dropped from the front up to the first fresh one.
Recent(c) ==
    {d \in window[Fingerprint[c]] :
        \E e \in window[Fingerprint[c]] : place[e] <= place[d] /\ Fresh(e, c)}

Reached(used, ceiling) == ceiling # Unlimited /\ used >= ceiling

OverBudget == Reached(total, limits.calls) \/ Reached(seconds, limits.seconds)

Watched == limits.runaway > 0

Runaway(c) == Watched /\ Cardinality(Recent(c)) >= limits.runaway

Admit(c) ==
    /\ phase[c] = "checking"
    /\ ~OverBudget /\ ~Runaway(c)
    /\ window' = IF Watched
                 THEN [window EXCEPT ![Fingerprint[c]] = Recent(c) \cup {c}]
                 ELSE window
    /\ total' = total + 1
    /\ place' = [place EXCEPT ![c] = total + 1]
    /\ phase' = [phase EXCEPT ![c] = "running"]
    /\ admitted' = [admitted EXCEPT ![c] = clock]
    /\ UNCHANGED <<clock, limits, seconds, stamp>>

\* Variant: the refused call is recorded as well.
RefuseRecorded(c) ==
    /\ phase[c] = "checking"
    /\ OverBudget \/ Runaway(c)
    /\ window' = [window EXCEPT ![Fingerprint[c]] = Recent(c) \cup {c}]
    /\ phase' = [phase EXCEPT ![c] = "refused"]
    /\ UNCHANGED <<clock, limits, total, seconds, place, stamp, admitted>>

\* BudgetExceeded: the ceilings come first and leave the window alone.
Refuse(c) ==
    /\ phase[c] = "checking"
    /\ OverBudget \/ Runaway(c)
    /\ window' = IF OverBudget THEN window
                 ELSE [window EXCEPT ![Fingerprint[c]] = Recent(c)]
    /\ phase' = [phase EXCEPT ![c] = "refused"]
    /\ UNCHANGED <<clock, limits, total, seconds, place, stamp, admitted>>

\* _finalize: the time of every call counts, refused ones included.
End(c) ==
    /\ phase[c] \in {"running", "refused"}
    /\ seconds' = seconds + (clock - stamp[c])
    /\ phase' = [phase EXCEPT ![c] = "done"]
    /\ UNCHANGED <<clock, limits, total, window, place, stamp, admitted>>

Quiescent == (\A c \in Calls : phase[c] = "done") /\ UNCHANGED vars

Next ==
    \/ Tick
    \/ \E l \in Limits : RaiseLimits(l)
    \/ \E c \in Calls : Begin(c) \/ Admit(c) \/ Refuse(c) \/ End(c)
    \/ Quiescent

Spec == Init /\ [][Next]_vars

-----------------------------------------------------------------------------
\* Every variable holds a value of its kind.
TypeOK ==
    /\ clock \in Nat /\ limits \in Limits
    /\ total \in Nat /\ seconds \in Nat
    /\ window \in [Fingerprints -> SUBSET Calls]
    /\ place \in [Calls -> Nat] /\ stamp \in [Calls -> Nat]
    /\ phase \in [Calls -> Phases]
    /\ admitted \in [Calls -> Nat]

\* Calls identical to c let through between two moments.
Alike(f, from, to) ==
    {c \in Admitted : Fingerprint[c] = f /\ from <= admitted[c] /\ admitted[c] <= to}

\* However threads interleave between time.time() and the lock, no window of
\* time lets more identical calls through than the runaway maximum; only the
\* wait for the lock shortens the window.
RunawayBounded ==
    Watched =>
        \A f \in Fingerprints : \A from \in 0..clock :
            Cardinality(Alike(f, from, from + (Window - MaxSkew))) <= limits.runaway

\* The guard refuses only with cause: a ceiling is reached, or as many
\* identical calls as the maximum were let through lately.  A loop that waits
\* for a window is never refused because of what it did before.
RefusalJustified ==
    [][\A c \in Calls :
          phase[c] = "checking" /\ phase'[c] = "refused" /\ ~OverBudget =>
              Cardinality({d \in Admitted : /\ Fingerprint[d] = Fingerprint[c]
                                            /\ admitted[d] + Window + MaxSkew >= clock})
                  >= limits.runaway]_vars

\* The call ceiling holds across threads and limit raises
\* (NUTANIX_MAX_TOOL_CALLS).
CallCeiling == limits.calls = Unlimited \/ Cardinality(Admitted) <= limits.calls

-----------------------------------------------------------------------------
(* The inductive invariant behind them.                                    *)

Counted ==
    /\ total = Cardinality(Admitted)
    /\ \A c \in Calls : /\ place[c] <= total
                        /\ phase[c] \in {"idle", "checking", "refused"} => place[c] = 0
                        /\ phase[c] = "running" => place[c] > 0

Timely ==
    \A c \in Calls :
        /\ stamp[c] <= clock
        /\ phase[c] = "checking" => clock <= stamp[c] + MaxSkew
        /\ c \in Admitted => /\ stamp[c] <= admitted[c] /\ admitted[c] <= clock
                             /\ admitted[c] <= stamp[c] + MaxSkew

\* Appending follows time.
Ordered ==
    \A c, d \in Admitted : place[c] <= place[d] => admitted[c] <= admitted[d]

\* What left a window is older than it, while the breaker was never disabled.
WindowsHold ==
    /\ \A f \in Fingerprints : \A c \in window[f] : c \in Admitted /\ Fingerprint[c] = f
    /\ Watched => \A c \in Admitted :
                      c \in window[Fingerprint[c]] \/ stamp[c] + Window < clock

BudgetInv ==
    TypeOK /\ Counted /\ Timely /\ Ordered /\ WindowsHold /\ RunawayBounded /\ CallCeiling
=============================================================================
