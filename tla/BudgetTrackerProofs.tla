------------------------- MODULE BudgetTrackerProofs -------------------------
(* Theorems about BudgetTracker, for any number of calls and any window.   *)
EXTENDS BudgetTracker, TLAPS, FiniteSetTheorems

USE DEF budgetVars, Phases, Watched

\* Sets of calls are finite, and a part counts no more than the whole.
LEMMA CallSetsFinite ==
    ASSUME NEW S \in SUBSET Calls
    PROVE  IsFiniteSet(S) /\ Cardinality(S) \in Nat
BY BudgetAssumption, FS_Subset, FS_CardinalityType

LEMMA PartCountsLess ==
    ASSUME NEW S \in SUBSET Calls, NEW T \in SUBSET S
    PROVE  Cardinality(T) <= Cardinality(S)
BY CallSetsFinite, FS_Subset

\* One more call raises the count by at most one.
LEMMA OneMore ==
    ASSUME NEW S \in SUBSET Calls, NEW c \in Calls
    PROVE  /\ Cardinality(S \cup {c}) <= Cardinality(S) + 1
           /\ c \notin S => Cardinality(S \cup {c}) = Cardinality(S) + 1
<1>1. IsFiniteSet(S) /\ Cardinality(S) \in Nat
  BY CallSetsFinite
<1>2. Cardinality(S \cup {c}) = IF c \in S THEN Cardinality(S) ELSE Cardinality(S) + 1
  BY <1>1, FS_AddElement
<1>. QED BY <1>1, <1>2

LEMMA LimitsTyped ==
    ASSUME NEW l \in Limits
    PROVE  l.runaway \in Nat /\ (l.calls = Unlimited \/ l.calls \in Nat)
BY BudgetAssumption DEF LimitSets

LEMMA AdmittedAreCalls == Admitted \subseteq Calls
BY DEF Admitted

LEMMA InitEstablishesInv == Init => BudgetInv
<1> SUFFICES ASSUME Init PROVE BudgetInv
  OBVIOUS
<1>1. Admitted = {}
  BY DEF Init, Admitted
<1>2. Cardinality({}) = 0
  BY FS_EmptySet
<1>3. TypeOK
  BY DEF Init, TypeOK
<1>4. Counted /\ Timely /\ Ordered /\ WindowsHold
  BY <1>1, <1>2, BudgetAssumption DEF Init, Counted, Timely, Ordered, WindowsHold
<1>5. \A f, from, to : Alike(f, from, to) = {}
  BY <1>1 DEF Alike
<1>6. RunawayBounded
  <2> SUFFICES ASSUME Watched, NEW f \in Fingerprints, NEW from \in 0..clock
               PROVE  Cardinality(Alike(f, from, from + (Window - MaxSkew))) <= limits.runaway
    BY DEF RunawayBounded
  <2>1. Alike(f, from, from + (Window - MaxSkew)) = {}
    BY <1>5
  <2>2. limits.runaway \in Nat
    BY <1>3, LimitsTyped DEF TypeOK
  <2>. QED BY <1>2, <2>1, <2>2
<1>7. CallCeiling
  BY <1>1, <1>2, <1>3, LimitsTyped DEF CallCeiling, TypeOK
<1>. QED BY <1>3, <1>4, <1>6, <1>7 DEF BudgetInv

\* Steps that let nobody through keep the set of admitted calls.
LEMMA SameAdmitted ==
    ASSUME BudgetInv, UNCHANGED <<place, admitted>>,
           \A c \in Calls : \/ phase'[c] = phase[c]
                            \/ phase[c] = "running" /\ phase'[c] = "done"
                            \/ place[c] = 0
    PROVE  /\ Admitted' = Admitted
           /\ \A f, from, to : Alike(f, from, to)' = Alike(f, from, to)
<1>1. Admitted' = Admitted
  BY DEF BudgetInv, TypeOK, Admitted
<1>. QED BY <1>1 DEF Alike

LEMMA TickPreserves == ASSUME BudgetInv, Tick PROVE BudgetInv'
<1> USE DEF Tick, BudgetInv
<1>0. Admitted' = Admitted /\ \A f, from, to : Alike(f, from, to)' = Alike(f, from, to)
  BY SameAdmitted
<1>1. TypeOK' BY DEF TypeOK
<1>2. Counted' BY <1>0 DEF TypeOK, Counted
<1>3. Timely' BY <1>0, BudgetAssumption DEF TypeOK, Timely
<1>4. Ordered' BY <1>0 DEF TypeOK, Ordered
<1>5. WindowsHold'
  <2>1. \A c \in Admitted : stamp[c] \in Nat
    BY AdmittedAreCalls DEF TypeOK
  <2>2. \A c \in Admitted : stamp[c] + Window < clock => stamp[c] + Window < clock + 1
    BY <2>1, BudgetAssumption DEF TypeOK
  <2>. QED BY <1>0, <2>2 DEF WindowsHold
<1>6. RunawayBounded'
  <2> SUFFICES ASSUME Watched, NEW f \in Fingerprints, NEW from \in 0..(clock + 1)
               PROVE  Cardinality(Alike(f, from, from + (Window - MaxSkew))) <= limits.runaway
    BY <1>0 DEF RunawayBounded
  <2>1. CASE from \in 0..clock
    BY <2>1 DEF RunawayBounded
  <2>2. CASE from = clock + 1
    <3>1. Alike(f, from, from + (Window - MaxSkew)) = {}
      BY <2>2, BudgetAssumption DEF Alike, Timely, TypeOK, Admitted
    <3>2. limits.runaway \in Nat
      BY LimitsTyped DEF TypeOK
    <3>. QED BY <3>1, <3>2, FS_EmptySet
  <2>. QED BY <2>1, <2>2 DEF TypeOK
<1>7. CallCeiling' BY <1>0 DEF CallCeiling
<1>. QED BY <1>1, <1>2, <1>3, <1>4, <1>5, <1>6, <1>7

LEMMA RaiseLimitsPreserves ==
    ASSUME BudgetInv, NEW l \in Limits, RaiseLimits(l) PROVE BudgetInv'
<1> USE DEF RaiseLimits, BudgetInv
<1>0. Admitted' = Admitted /\ \A f, from, to : Alike(f, from, to)' = Alike(f, from, to)
  BY SameAdmitted
<1>1. TypeOK' BY DEF TypeOK
<1>2. Counted' BY <1>0 DEF TypeOK, Counted
<1>3. Timely' BY <1>0 DEF TypeOK, Timely
<1>4. Ordered' BY <1>0 DEF TypeOK, Ordered
<1>5. /\ l.runaway \in Nat /\ (l.calls = Unlimited \/ l.calls \in Nat)
      /\ limits.runaway \in Nat /\ (limits.calls = Unlimited \/ limits.calls \in Nat)
  BY LimitsTyped DEF TypeOK
<1>6. WindowsHold'
  <2>1. l.runaway > 0 => Watched
    BY <1>5
  <2>. QED BY <1>0, <2>1 DEF TypeOK, WindowsHold
<1>7. RunawayBounded'
  <2> SUFFICES ASSUME l.runaway > 0, NEW f \in Fingerprints, NEW from \in 0..clock
               PROVE  Cardinality(Alike(f, from, from + (Window - MaxSkew))) <= l.runaway
    BY <1>0 DEF RunawayBounded
  <2>1. Watched /\ limits.runaway <= l.runaway
    BY <1>5
  <2>2. Cardinality(Alike(f, from, from + (Window - MaxSkew))) <= limits.runaway
    BY <2>1 DEF RunawayBounded
  <2>3. Cardinality(Alike(f, from, from + (Window - MaxSkew))) \in Nat
    BY CallSetsFinite DEF Alike, Admitted
  <2>. QED BY <1>5, <2>1, <2>2, <2>3
<1>8. CallCeiling'
  <2>1. Cardinality(Admitted) \in Nat
    BY DEF Counted, TypeOK
  <2>. QED BY <1>0, <1>5, <2>1, BudgetAssumption DEF CallCeiling, AtLeast
<1>. QED BY <1>1, <1>2, <1>3, <1>4, <1>6, <1>7, <1>8

LEMMA BeginPreserves == ASSUME BudgetInv, NEW c \in Calls, Begin(c) PROVE BudgetInv'
<1> USE DEF Begin, BudgetInv
<1>0. Admitted' = Admitted /\ \A f, from, to : Alike(f, from, to)' = Alike(f, from, to)
  BY SameAdmitted DEF Counted, TypeOK
<1>a. c \notin Admitted
  BY DEF Admitted
<1>1. TypeOK' BY DEF TypeOK
<1>2. Counted' BY <1>0 DEF TypeOK, Counted
<1>3. Timely' BY <1>0, <1>a, BudgetAssumption DEF TypeOK, Timely
<1>4. Ordered' BY <1>0 DEF TypeOK, Ordered
<1>5. WindowsHold' BY <1>0, <1>a DEF TypeOK, WindowsHold
<1>6. RunawayBounded' BY <1>0 DEF RunawayBounded
<1>7. CallCeiling' BY <1>0 DEF CallCeiling
<1>. QED BY <1>1, <1>2, <1>3, <1>4, <1>5, <1>6, <1>7

\* What the check of c drops from its window is older than the window.
LEMMA DroppedIsOld ==
    ASSUME BudgetInv, NEW c \in Calls, phase[c] = "checking"
    PROVE  /\ Recent(c) \subseteq window[Fingerprint[c]]
           /\ \A d \in window[Fingerprint[c]] :
                  d \in Recent(c) \/ stamp[d] + Window < clock
<1>1. Fingerprint[c] \in Fingerprints
  BY DEF Fingerprints
<1>2. stamp[c] <= clock
  BY DEF BudgetInv, Timely
<1>. QED BY <1>1, <1>2, BudgetAssumption DEF BudgetInv, TypeOK, Recent, Fresh

LEMMA RefusePreserves == ASSUME BudgetInv, NEW c \in Calls, Refuse(c) PROVE BudgetInv'
<1> USE DEF Refuse, BudgetInv
<1>0. Admitted' = Admitted /\ \A f, from, to : Alike(f, from, to)' = Alike(f, from, to)
  BY SameAdmitted DEF Counted, TypeOK
<1>a. Fingerprint[c] \in Fingerprints
  BY DEF Fingerprints
<1>b. /\ Recent(c) \subseteq window[Fingerprint[c]]
      /\ \A d \in window[Fingerprint[c]] : d \in Recent(c) \/ stamp[d] + Window < clock
  BY DroppedIsOld
<1>1. TypeOK' BY <1>a, <1>b DEF TypeOK
<1>2. Counted' BY <1>0 DEF TypeOK, Counted
<1>3. Timely' BY <1>0 DEF TypeOK, Timely
<1>4. Ordered' BY <1>0 DEF TypeOK, Ordered
<1>5. WindowsHold' BY <1>0, <1>a, <1>b DEF TypeOK, WindowsHold, Admitted
<1>6. RunawayBounded' BY <1>0 DEF RunawayBounded
<1>7. CallCeiling' BY <1>0 DEF CallCeiling
<1>. QED BY <1>1, <1>2, <1>3, <1>4, <1>5, <1>6, <1>7

LEMMA EndPreserves == ASSUME BudgetInv, NEW c \in Calls, End(c) PROVE BudgetInv'
<1> USE DEF End, BudgetInv
<1>0. Admitted' = Admitted /\ \A f, from, to : Alike(f, from, to)' = Alike(f, from, to)
  BY SameAdmitted DEF Counted, TypeOK
<1>1. TypeOK'
  <2>1. clock - stamp[c] \in Nat
    BY DEF TypeOK, Timely
  <2>. QED BY <2>1 DEF TypeOK
<1>2. Counted' BY <1>0 DEF TypeOK, Counted
<1>3. Timely' BY <1>0 DEF TypeOK, Timely
<1>4. Ordered' BY <1>0 DEF TypeOK, Ordered
<1>5. WindowsHold' BY <1>0 DEF TypeOK, WindowsHold
<1>6. RunawayBounded' BY <1>0 DEF RunawayBounded
<1>7. CallCeiling' BY <1>0 DEF CallCeiling
<1>. QED BY <1>1, <1>2, <1>3, <1>4, <1>5, <1>6, <1>7

\* The identical calls let through in a window that reaches the present are
\* still in the deque when c is checked.
LEMMA WindowRemembers ==
    ASSUME BudgetInv, NEW c \in Calls, phase[c] = "checking", Watched,
           NEW from \in 0..clock, clock <= from + (Window - MaxSkew)
    PROVE  Alike(Fingerprint[c], from, from + (Window - MaxSkew)) \subseteq Recent(c)
<1> SUFFICES ASSUME NEW d \in Alike(Fingerprint[c], from, from + (Window - MaxSkew))
             PROVE  d \in Recent(c)
  OBVIOUS
<1>1. d \in Calls /\ d \in Admitted /\ Fingerprint[d] = Fingerprint[c] /\ from <= admitted[d]
  BY DEF Alike, Admitted
<1>2. stamp[d] + Window >= clock
  BY <1>1, BudgetAssumption DEF BudgetInv, Timely, TypeOK
<1>3. d \in window[Fingerprint[c]]
  <2>1. d \in window[Fingerprint[d]] \/ stamp[d] + Window < clock
    BY <1>1 DEF BudgetInv, WindowsHold
  <2>2. stamp[d] \in Nat /\ clock \in Nat /\ Window \in Nat
    BY <1>1, BudgetAssumption DEF BudgetInv, TypeOK
  <2>. QED BY <1>1, <1>2, <2>1, <2>2
<1>4. stamp[d] + Window >= stamp[c]
  BY <1>1, <1>2, BudgetAssumption DEF BudgetInv, Timely, TypeOK
<1>. QED BY <1>1, <1>3, <1>4 DEF Recent, Fresh, BudgetInv, TypeOK

LEMMA AdmitPreserves == ASSUME BudgetInv, NEW c \in Calls, Admit(c) PROVE BudgetInv'
<1> USE DEF Admit, BudgetInv
<1>a. Fingerprint[c] \in Fingerprints
  BY DEF Fingerprints
<1>b. c \notin Admitted /\ Admitted' = Admitted \cup {c} /\ Admitted \in SUBSET Calls
  <2>1. c \notin Admitted /\ Admitted \in SUBSET Calls
    BY DEF Admitted
  <2>2. total + 1 > 0
    BY DEF TypeOK
  <2>3. \A d \in Calls : d \in Admitted' <=> d \in Admitted \/ d = c
    BY <2>2 DEF Admitted, TypeOK
  <2>. QED BY <2>1, <2>3 DEF Admitted
<1>c. Cardinality(Admitted') = Cardinality(Admitted) + 1
  BY <1>b, OneMore
<1>d. /\ Recent(c) \subseteq window[Fingerprint[c]]
      /\ \A d \in window[Fingerprint[c]] : d \in Recent(c) \/ stamp[d] + Window < clock
  BY DroppedIsOld
<1>1. TypeOK' BY <1>a, <1>d DEF TypeOK
<1>2. Counted'
  BY <1>c DEF TypeOK, Counted
<1>3. Timely' BY <1>b, BudgetAssumption DEF TypeOK, Timely
<1>4. Ordered' BY <1>b DEF TypeOK, Ordered, Counted, Timely
<1>5. WindowsHold'
  <2>1. window \in [Fingerprints -> SUBSET Calls] /\ UNCHANGED <<clock, limits, stamp>>
    BY DEF TypeOK
  <2>2. ASSUME NEW f \in Fingerprints, NEW d \in window'[f]
        PROVE  d \in Admitted' /\ Fingerprint[d] = f
    BY <1>a, <1>b, <1>d, <2>1, <2>2 DEF WindowsHold
  <2>3. ASSUME Watched, NEW d \in Admitted'
        PROVE  d \in window'[Fingerprint[d]] \/ stamp[d] + Window < clock
    BY <1>a, <1>b, <1>d, <2>1, <2>3 DEF WindowsHold
  <2>. QED BY <2>1, <2>2, <2>3 DEF WindowsHold, Watched
<1>6. RunawayBounded'
  <2> SUFFICES ASSUME Watched, NEW f \in Fingerprints, NEW from \in 0..clock
               PROVE  Cardinality(Alike(f, from, from + (Window - MaxSkew))') <= limits.runaway
    BY DEF RunawayBounded
  <2> DEFINE before == Alike(f, from, from + (Window - MaxSkew))
  <2>1. before \in SUBSET Calls /\ Cardinality(before) <= limits.runaway
    BY DEF RunawayBounded, Alike, Admitted
  <2>2. CASE f = Fingerprint[c] /\ clock <= from + (Window - MaxSkew)
    <3>1. before \subseteq Recent(c)
      BY <2>2, WindowRemembers
    <3>2. Recent(c) \in SUBSET Calls
      BY <1>a, <1>d DEF TypeOK
    <3>3. Cardinality(before) <= Cardinality(Recent(c))
      BY <3>1, <3>2, PartCountsLess
    <3>4. Cardinality(Recent(c)) < limits.runaway
      <4>1. limits.runaway \in Nat
        BY LimitsTyped DEF TypeOK
      <4>. QED BY <3>2, <4>1, CallSetsFinite DEF Runaway
    <3>5. Alike(f, from, from + (Window - MaxSkew))' \subseteq before \cup {c}
      BY <1>b DEF Alike, TypeOK
    <3>6. before \cup {c} \in SUBSET Calls /\ Cardinality(before \cup {c}) <= Cardinality(before) + 1
      BY <2>1, OneMore
    <3>7. Cardinality(Alike(f, from, from + (Window - MaxSkew))') <= Cardinality(before \cup {c})
      BY <3>5, <3>6, PartCountsLess
    <3>8. /\ Cardinality(before) \in Nat /\ Cardinality(Recent(c)) \in Nat
          /\ Cardinality(before \cup {c}) \in Nat
          /\ Cardinality(Alike(f, from, from + (Window - MaxSkew))') \in Nat
      BY <2>1, <3>2, <3>5, <3>6, CallSetsFinite
    <3>9. limits.runaway \in Nat
      BY LimitsTyped DEF TypeOK
    <3>. QED BY <3>3, <3>4, <3>6, <3>7, <3>8, <3>9
  <2>3. CASE ~(f = Fingerprint[c] /\ clock <= from + (Window - MaxSkew))
    <3>1. Alike(f, from, from + (Window - MaxSkew))' = before
      BY <1>b, <2>3 DEF Alike, TypeOK
    <3>. QED BY <2>1, <3>1
  <2>. QED BY <2>2, <2>3
<1>7. CallCeiling'
  <2>1. limits.calls = Unlimited \/ limits.calls \in Nat
    BY LimitsTyped DEF TypeOK
  <2>2. limits.calls = Unlimited \/ total < limits.calls
    BY <2>1, BudgetAssumption DEF OverBudget, Reached, TypeOK
  <2>. QED BY <1>c, <2>1, <2>2, BudgetAssumption DEF CallCeiling, Counted, TypeOK
<1>. QED BY <1>1, <1>2, <1>3, <1>4, <1>5, <1>6, <1>7

\* Every step preserves the invariant.
LEMMA NextPreservesInv == BudgetInv /\ [Next]_vars => BudgetInv'
<1> SUFFICES ASSUME BudgetInv, [Next]_vars PROVE BudgetInv'
  OBVIOUS
<1>1. CASE Tick BY <1>1, TickPreserves
<1>2. CASE \E l \in Limits : RaiseLimits(l) BY <1>2, RaiseLimitsPreserves
<1>3. CASE \E c \in Calls : Begin(c) BY <1>3, BeginPreserves
<1>4. CASE \E c \in Calls : Admit(c) BY <1>4, AdmitPreserves
<1>5. CASE \E c \in Calls : Refuse(c) BY <1>5, RefusePreserves
<1>6. CASE \E c \in Calls : End(c) BY <1>6, EndPreserves
<1>7. CASE UNCHANGED vars
  BY <1>7 DEF vars, BudgetInv, TypeOK, Counted, Timely, Ordered, WindowsHold,
     RunawayBounded, CallCeiling, Admitted, Alike
<1>. QED BY <1>1, <1>2, <1>3, <1>4, <1>5, <1>6, <1>7 DEF Next, Quiescent

\* The invariant of the guard holds in every state, for any set of calls,
\* window and skew.
THEOREM BudgetInvariant == Spec => []BudgetInv
BY InitEstablishesInv, NextPreservesInv, PTL DEF Spec

\* A loop of identical calls never gets more through than the maximum in a
\* window shortened by the wait for the lock, on any number of threads.
THEOREM LoopsAreThrottled == Spec => []RunawayBounded
<1>1. BudgetInv => RunawayBounded
  BY DEF BudgetInv
<1>. QED BY <1>1, BudgetInvariant, PTL

\* The call ceiling is never exceeded, whatever the threads do.
THEOREM CallsStayUnderCeiling == Spec => []CallCeiling
<1>1. BudgetInv => CallCeiling
  BY DEF BudgetInv
<1>. QED BY <1>1, BudgetInvariant, PTL

\* The calls still in the deque at a check were let through lately: an entry
\* behind a fresh one was appended after it.
LEMMA RecentIsRecent ==
    ASSUME BudgetInv, NEW c \in Calls, phase[c] = "checking"
    PROVE  Recent(c) \subseteq {d \in Admitted : /\ Fingerprint[d] = Fingerprint[c]
                                                 /\ admitted[d] + Window + MaxSkew >= clock}
<1> SUFFICES ASSUME NEW d \in Recent(c)
             PROVE  /\ d \in Admitted /\ Fingerprint[d] = Fingerprint[c]
                    /\ admitted[d] + Window + MaxSkew >= clock
  OBVIOUS
<1>1. PICK e \in window[Fingerprint[c]] : place[e] <= place[d] /\ Fresh(e, c)
  BY DEF Recent
<1>2. Fingerprint[c] \in Fingerprints
  BY DEF Fingerprints
<1>3. /\ d \in Calls /\ d \in Admitted /\ Fingerprint[d] = Fingerprint[c]
      /\ e \in Calls /\ e \in Admitted
  BY <1>1, <1>2 DEF Recent, BudgetInv, WindowsHold, TypeOK
<1>4. admitted[e] <= admitted[d]
  BY <1>1, <1>3 DEF BudgetInv, Ordered
<1>5. stamp[e] + Window >= stamp[c] /\ stamp[e] <= admitted[e] /\ clock <= stamp[c] + MaxSkew
  BY <1>1, <1>3 DEF BudgetInv, Timely, Fresh
<1>. QED BY <1>3, <1>4, <1>5, BudgetAssumption DEF BudgetInv, TypeOK

\* The guard never refuses a call for what a loop did before the window.
THEOREM RefusalsHaveCause == Spec => RefusalJustified
<1> DEFINE Lately(c) == {d \in Admitted : /\ Fingerprint[d] = Fingerprint[c]
                                          /\ admitted[d] + Window + MaxSkew >= clock}
<1>1. ASSUME BudgetInv, [Next]_vars, NEW c \in Calls, phase[c] = "checking",
             phase'[c] = "refused", ~OverBudget
      PROVE  Cardinality(Lately(c)) >= limits.runaway
  <2>1. Refuse(c)
    BY <1>1 DEF Next, vars, BudgetInv, TypeOK, Tick, RaiseLimits, Begin, Admit, Refuse,
       End, Quiescent
  <2>2. Cardinality(Recent(c)) >= limits.runaway
    BY <1>1, <2>1 DEF Refuse, Runaway
  <2>3. Recent(c) \subseteq Lately(c) /\ Lately(c) \in SUBSET Calls
    BY <1>1, RecentIsRecent DEF Admitted
  <2>4. Cardinality(Recent(c)) <= Cardinality(Lately(c))
    BY <2>3, PartCountsLess
  <2>5. Cardinality(Recent(c)) \in Nat /\ Cardinality(Lately(c)) \in Nat /\ limits.runaway \in Nat
    BY <1>1, <2>3, CallSetsFinite, LimitsTyped DEF BudgetInv, TypeOK
  <2>. QED BY <2>2, <2>4, <2>5
<1>2. BudgetInv /\ [Next]_vars =>
          [\A c \in Calls : phase[c] = "checking" /\ phase'[c] = "refused" /\ ~OverBudget =>
               Cardinality(Lately(c)) >= limits.runaway]_vars
  BY <1>1
<1>. QED BY <1>2, BudgetInvariant, PTL DEF Spec, RefusalJustified
=============================================================================
