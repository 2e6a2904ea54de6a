------------------------ MODULE EstateReportsProofs ------------------------
(***************************************************************************)
(* Theorems about the reports over the estate, for any clusters, hosts,    *)
(* containers, levels, limit and number of changes.  ReportsInv is         *)
(* inductive: it says of every stage what has been read by then, and that  *)
(* each reading was recorded as seen when it was so.                       *)
(***************************************************************************)
EXTENDS EstateReports, FiniteSetTheorems, TLAPS

USE DEF Statuses, Uses, Homes, Stages, Lists

\* A list that is not cut is whole.
LEMMA PageOfRows ==
    ASSUME NEW rows, IsFiniteSet(rows), NEW page \in Page(rows)
    PROVE  page \subseteq rows /\ \A list : list \notin Cut(list, rows) => page = rows
<1>1. Cardinality(rows) \in Nat
  BY FS_CardinalityType
<1>. QED BY <1>1, EstateAssumption DEF Page, Cut

\* Only the list itself is recorded as cut.
LEMMA CutMeans == ASSUME NEW list, NEW rows PROVE Cut(list, rows) \subseteq {list}
BY DEF Cut

\* A finding has a signal and a subject.
LEMMA FoundFields == \A s, a : Found(s, a).signal = s /\ Found(s, a).about = a
BY DEF Found

\* What a level is called by the two thresholds.
LEMMA FullMeans ==
    ASSUME NEW l \in Int
    PROVE  /\ l >= 100 * STORAGE_CRIT_PCT => Full(l) = {"full"}
           /\ ~(l >= 100 * STORAGE_CRIT_PCT) /\ l >= 100 * STORAGE_WARN_PCT => Full(l) = {"nearly full"}
           /\ ~(l >= 100 * STORAGE_CRIT_PCT) /\ ~(l >= 100 * STORAGE_WARN_PCT) => Full(l) = {}
<1>1. ASSUME l >= 100 * STORAGE_CRIT_PCT PROVE Full(l) = {"full"}
  BY <1>1 DEF Full
<1>2. ASSUME ~(l >= 100 * STORAGE_CRIT_PCT), l >= 100 * STORAGE_WARN_PCT PROVE Full(l) = {"nearly full"}
  BY <1>2 DEF Full
<1>3. ASSUME ~(l >= 100 * STORAGE_CRIT_PCT), ~(l >= 100 * STORAGE_WARN_PCT) PROVE Full(l) = {}
  BY <1>3 DEF Full
<1>. QED BY <1>1, <1>2, <1>3

\* Levels are rounded to the nearest tenth: what is found of a level is what may be
\* found of it, and what must be found is.
LEMMA RoundingNames ==
    ASSUME NEW l \in Levels
    PROVE  /\ Full(l) \cap Full(l + 5) \subseteq Usage(l)
           /\ Usage(l) \subseteq Full(l) \cup Full(l + 5)
<1>1. /\ l \in Nat /\ Rounded[l] \in Nat /\ 10 * Rounded[l] - 5 <= l /\ l <= 10 * Rounded[l] + 5
      /\ l # None
  BY RoundingAssumption, EstateAssumption
<1>2. CASE Rounded[l] >= 10 * STORAGE_CRIT_PCT
  <2>1. Usage(l) = {"full"}
    BY <1>1, <1>2 DEF Usage
  <2>2. l + 5 >= 100 * STORAGE_CRIT_PCT /\ l + 5 \in Int
    BY <1>1, <1>2 DEF STORAGE_CRIT_PCT
  <2>. QED BY <2>1, <2>2, FullMeans
<1>3. CASE ~(Rounded[l] >= 10 * STORAGE_CRIT_PCT) /\ Rounded[l] >= 10 * STORAGE_WARN_PCT
  <2>1. Usage(l) = {"nearly full"}
    BY <1>1, <1>3 DEF Usage
  <2>2. /\ l \in Int /\ l + 5 \in Int /\ ~(l >= 100 * STORAGE_CRIT_PCT)
        /\ \/ l >= 100 * STORAGE_WARN_PCT
           \/ /\ ~(l >= 100 * STORAGE_WARN_PCT)
              /\ l + 5 >= 100 * STORAGE_WARN_PCT /\ ~(l + 5 >= 100 * STORAGE_CRIT_PCT)
    BY <1>1, <1>3 DEF STORAGE_CRIT_PCT, STORAGE_WARN_PCT
  <2>. QED BY <2>1, <2>2, FullMeans
<1>4. CASE ~(Rounded[l] >= 10 * STORAGE_CRIT_PCT) /\ ~(Rounded[l] >= 10 * STORAGE_WARN_PCT)
  <2>1. Usage(l) = {}
    BY <1>1, <1>4 DEF Usage
  <2>2. l \in Int /\ ~(l >= 100 * STORAGE_CRIT_PCT) /\ ~(l >= 100 * STORAGE_WARN_PCT)
    BY <1>1, <1>4 DEF STORAGE_CRIT_PCT, STORAGE_WARN_PCT
  <2>. QED BY <2>1, <2>2, FullMeans
<1>. QED BY <1>2, <1>3, <1>4

\* ... under any name.
LEMMA UsageIsNamed ==
    ASSUME NEW l \in Levels, NEW a
    PROVE  MustName(a, l) \subseteq UsageFindings(a, l) /\ UsageFindings(a, l) \subseteq MayName(a, l)
BY RoundingNames, Zenon DEF MustName, MayName, UsageFindings

\* Nothing is found of a level that was not read.
LEMMA NoLevelNoFinding == ASSUME NEW a PROVE UsageFindings(a, None) = {}
BY DEF UsageFindings, Usage

\* A finding about a level does not depend on the name.
LEMMA UsageNames ==
    ASSUME NEW l \in Levels, NEW a, NEW b, NEW x \in UsageFindings(a, l)
    PROVE  x.about = a /\ Found(x.signal, b) \in MayName(b, l)
<1>1. PICK s \in Usage(l) : x = Found(s, a)
  BY DEF UsageFindings
<1>2. s \in Full(l) \cup Full(l + 5)
  BY RoundingNames
<1>3. x.about = a /\ x.signal = s
  BY <1>1, FoundFields
<1>. QED BY <1>2, <1>3 DEF MayName

\* What must or may be found of a level is one of two findings about its owner.
LEMMA LevelNames ==
    ASSUME NEW l, NEW a, NEW x \in MustName(a, l) \cup MayName(a, l)
    PROVE  x.about = a /\ x.signal \in {"full", "nearly full"}
<1>1. \A m : Full(m) \subseteq {"full", "nearly full"}
  BY DEF Full
<1>2. PICK s \in Full(l) \cup Full(l + 5) : x = Found(s, a)
  BY DEF MustName, MayName
<1>. QED BY <1>1, <1>2, FoundFields

\* What may be found about a cluster,
LEMMA MayBeFoundOfCluster ==
    ASSUME NEW k \in Clusters
    PROVE  /\ k \in degraded => Found("degraded", k) \in MayBeFound
           /\ MayName(k, pool[k]) \subseteq MayBeFound
BY DEF MayBeFound, Faults

\* ... a container,
LEMMA MayBeFoundOfBox == ASSUME NEW b \in Boxes PROVE MayName(b, fill[b]) \subseteq MayBeFound
BY DEF MayBeFound

\* ... and a host.
LEMMA MayBeFoundOfHost ==
    ASSUME NEW n \in Nodes
    PROVE  /\ home[n] # None /\ status[n] = "down" => Found("unhealthy", n) \in MayBeFound
           /\ status[n] = "silent" /\ home[n] \in Counted => Found("node missing", home[n]) \in MayBeFound
<1>1. ASSUME home[n] # None, status[n] = "down" PROVE Found("unhealthy", n) \in Faults(status, home, degraded)
  <2>1. Found("unhealthy", n) \in
           {Found("unhealthy", m) : m \in {i \in Nodes : home[i] # None /\ status[i] = "down"}}
    BY <1>1
  <2>. QED BY <2>1 DEF Faults
<1>2. ASSUME status[n] = "silent", home[n] \in Counted
      PROVE  Found("node missing", home[n]) \in Faults(status, home, degraded)
  <2>1. home[n] \in {c \in Counted : \E m \in Nodes : home[m] = c /\ status[m] = "silent"}
    BY <1>2
  <2>2. Found("node missing", home[n]) \in
           {Found("node missing", k) : k \in {c \in Counted :
               \E m \in Nodes : home[m] = c /\ status[m] = "silent"}}
    BY <2>1
  <2>. QED BY <2>2 DEF Faults
<1>. QED BY <1>1, <1>2 DEF MayBeFound

\* A probe that failed is not something of the estate.
LEMMA ProbesAreNotFaults == ASSUME NEW x \in MayBeFound PROVE x.signal # "probe failed"
<1>1. CASE x \in Faults(status, home, degraded)
  <2>1. \/ \E k \in degraded : x = Found("degraded", k)
        \/ \E n \in Nodes : x = Found("unhealthy", n)
        \/ \E k \in Counted : x = Found("node missing", k)
    BY <1>1 DEF Faults
  <2>2. x.signal \in {"degraded", "unhealthy", "node missing"}
    BY <2>1, FoundFields
  <2>. QED BY <2>2
<1>2. CASE \E k \in Clusters : x \in MayName(k, pool[k])
  <2>1. x.signal \in {"full", "nearly full"}
    BY <1>2, LevelNames
  <2>. QED BY <2>1
<1>3. CASE \E b \in Boxes : x \in MayName(b, fill[b])
  <2>1. x.signal \in {"full", "nearly full"}
    BY <1>3, LevelNames
  <2>. QED BY <2>1
<1>. QED BY <1>1, <1>2, <1>3 DEF MayBeFound

\* What the analysis finds, case by case.
LEMMA FindingsMean ==
    ASSUME NEW rep, NEW rows, NEW boxes, NEW x
    PROVE  x \in Findings(rep, rows, boxes) <=>
              \/ \E k \in Clusters : rep[k].read # "none" /\ x \in ClusterFindings(k, rep[k])
              \/ \E k \in Clusters : /\ rep[k].read \notin {"none", "empty"}
                                     /\ x \in NodeFindings(k, rep[k], rows)
              \/ \E b \in Boxes : x \in UsageFindings(b, boxes[b])
<1>. DEFINE listed == {k \in Clusters : rep[k].read # "none"}
            named == {k \in listed : rep[k].read # "empty"}
            sets == {ClusterFindings(k, rep[k]) : k \in listed}
                      \cup {NodeFindings(k, rep[k], rows) : k \in named}
                      \cup {UsageFindings(b, boxes[b]) : b \in Boxes}
<1>1. Findings(rep, rows, boxes) = UNION sets
  BY DEF Findings
<1>2. x \in UNION sets <=>
         \/ \E k \in listed : x \in ClusterFindings(k, rep[k])
         \/ \E k \in named : x \in NodeFindings(k, rep[k], rows)
         \/ \E b \in Boxes : x \in UsageFindings(b, boxes[b])
  OBVIOUS
<1>. QED BY <1>1, <1>2

\* The findings about a cluster that was read.
LEMMA ClusterFindingsMean ==
    ASSUME NEW k \in Clusters, NEW r, NEW x
    PROVE  x \in ClusterFindings(k, r) <=>
              IF r.read = "error" THEN x = Found("probe failed", k)
              ELSE x \in UsageFindings(NameOf(k, r), r.pool) \/ (r.degraded /\ x = Found("degraded", k))
BY DEF ClusterFindings

\* ... and about its hosts.
LEMMA NodeFindingsMean ==
    ASSUME NEW k \in Clusters, NEW r, NEW rows, NEW x
    PROVE  x \in NodeFindings(k, r, rows) <=>
              \/ \E n \in Nodes : rows[n].home = k /\ rows[n].status = "down" /\ x = Found("unhealthy", n)
              \/ Missing(k, r, rows) /\ x = Found("node missing", k)
BY DEF NodeFindings

\* The hosts of a cluster are counted.
LEMMA HostsCounted ==
    ASSUME NEW k
    PROVE  /\ IsFiniteSet(HostsOf(k)) /\ Cardinality(HostsOf(k)) \in Nat
           /\ NodeCount(k) \in Nat \cup {None}
           /\ NodeCount(k) # None => k \in Counted /\ NodeCount(k) = Cardinality(HostsOf(k))
           /\ k \in Counted => NodeCount(k) = Cardinality(HostsOf(k)) /\ NodeCount(k) # None
<1>1. IsFiniteSet(HostsOf(k))
  BY EstateAssumption, FS_Subset DEF HostsOf
<1>2. Cardinality(HostsOf(k)) \in Nat
  BY <1>1, FS_CardinalityType
<1>. QED BY <1>1, <1>2, EstateAssumption DEF NodeCount

\* Nothing has been read at first.
LEMMA ReportsInvInit == Init => ReportsInv
<1>. SUFFICES ASSUME Init PROVE ReportsInv
  OBVIOUS
<1>1. TypeOK
  BY EstateAssumption DEF Init, TypeOK, NoReport, NoHosts, NotListed, Row
<1>2. ReadsWereTrue /\ CountsHold
  BY DEF Init, ReadsWereTrue, CountsHold, NoReport, Row
<1>3. QuietReadsAreExact /\ CountsAreHonest /\ QuietReportsAreExact /\ FindingsWereTrue
  BY DEF Init, QuietReadsAreExact, CountsAreHonest, QuietReportsAreExact, FindingsWereTrue
<1>. QED BY <1>1, <1>2, <1>3 DEF ReportsInv

-----------------------------------------------------------------------------
(* The steps of a report.                                                  *)

\* The report finds the estate, counts the nodes, and has read nothing else.
LEMMA StartPreserves == ASSUME ReportsInv, Start PROVE ReportsInv'
<1>1. /\ todo' \subseteq Clusters /\ (cut' = {} => todo' = Clusters)
      /\ cut' \subseteq {"clusters"}
  BY PageOfRows, CutMeans, EstateAssumption DEF Start
<1>2. /\ at = "idle" /\ at' = "probing"
      /\ report' = [k \in Clusters |-> Row("none", FALSE, NodeCount(k))]
      /\ UNCHANGED <<home, changes, hostRows, findings, shown, short, errors, truth, failed, left>>
      /\ seen' = MayBeFound'
  BY DEF Start, overviewVars
<1>3. \A k \in Clusters : /\ report'[k].read = "none" /\ report'[k].degraded = FALSE
                          /\ report'[k].count = NodeCount(k) /\ report'[k].pool = None
  BY <1>2 DEF Row
<1>4. \A k \in Clusters : NodeCount(k)' = NodeCount(k) /\ HostsOf(k)' = HostsOf(k)
  BY <1>2 DEF NodeCount, HostsOf
<1>5. TypeOK'
  <2>1. report' \in [Clusters -> [read : {"none", "ok", "empty", "error"}, degraded : BOOLEAN,
                                  count : Nat \cup {None}, pool : Levels \cup {None}]]
    BY <1>2, HostsCounted DEF Row
  <2>. QED BY <1>1, <1>2, <2>1 DEF Start, ReportsInv, TypeOK
<1>6. findings = {} /\ report = NoReport
  BY <1>2 DEF ReportsInv, ReadsWereTrue
<1>7. CountsHold'
  <2>1. ASSUME NEW k \in Clusters, report'[k].count # None
        PROVE  k \in Counted /\ report'[k].count <= Cardinality(HostsOf(k))
    BY <1>3, <2>1, HostsCounted
  <2>. QED BY <1>4, <2>1 DEF CountsHold
<1>8. ReadsWereTrue'
  BY <1>2, <1>3, <1>6 DEF ReadsWereTrue
<1>9. QuietReadsAreExact'
  <2>1. changes = 0 => left = {}
    BY DEF ReportsInv, QuietReadsAreExact
  <2>2. failed = {}
    BY <1>2 DEF ReportsInv, ReadsWereTrue
  <2>3. ASSUME cut' = {}, NEW k \in Clusters PROVE ReadTruly(k)'
    BY <1>1, <1>2, <1>3, <1>4, <2>2, <2>3 DEF ReadTruly
  <2>. QED BY <1>2, <2>1, <2>3 DEF QuietReadsAreExact
<1>10. CountsAreHonest' /\ QuietReportsAreExact' /\ FindingsWereTrue'
  BY <1>2, <1>6 DEF CountsAreHonest, QuietReportsAreExact, FindingsWereTrue
<1>. QED BY <1>5, <1>7, <1>8, <1>9, <1>10 DEF ReportsInv

\* A cluster's record says what is so.
LEMMA ProbePreserves == ASSUME ReportsInv, NEW k \in Clusters, Probe(k) PROVE ReportsInv'
<1>1. /\ at = "probing" /\ k \in todo /\ report[k].read = "none"
      /\ UNCHANGED <<home, status, degraded, pool, fill, changes, at, hostRows, findings,
                     shown, short, errors, truth, seen, cut>>
  BY DEF Probe, estateVars, overviewVars
<1>2. report \in [Clusters -> [read : {"none", "ok", "empty", "error"}, degraded : BOOLEAN,
                               count : Nat \cup {None}, pool : Levels \cup {None}]]
  BY DEF ReportsInv, TypeOK
<1>3. /\ \A j \in Clusters : NodeCount(j)' = NodeCount(j) /\ HostsOf(j)' = HostsOf(j)
      /\ MayBeFound' = MayBeFound
  BY <1>1 DEF NodeCount, HostsOf, MayBeFound
<1>4. \/ /\ report' = [report EXCEPT ![k] = HealthRow(k)]
         /\ left' = left \ {k} /\ todo' = todo /\ failed' = failed
      \/ /\ report' = [report EXCEPT ![k] = Row("empty", FALSE, None)]
         /\ failed' = failed \cup {Gap("body", k)} /\ todo' = todo /\ left' = left
      \/ /\ report' = [report EXCEPT ![k].read = "error"]
         /\ todo' = todo \ {k} /\ failed' = failed \cup {Gap("record", k)} /\ left' = left
  BY DEF Probe
<1>5. /\ \A j \in Clusters \ {k} : report'[j] = report[j] /\ (j \in left' <=> j \in left)
                                   /\ (j \in todo' <=> j \in todo)
                                   /\ (Gap("record", j) \in failed' <=> Gap("record", j) \in failed)
      /\ failed \subseteq failed' /\ todo' \subseteq todo /\ left' \subseteq left
  BY <1>2, <1>4 DEF Gap
<1>6. /\ report' \in [Clusters -> [read : {"none", "ok", "empty", "error"}, degraded : BOOLEAN,
                                   count : Nat \cup {None}, pool : Levels \cup {None}]]
      /\ \/ /\ report'[k].read = "ok" /\ (report'[k].degraded <=> k \in degraded)
            /\ report'[k].count = NodeCount(k) /\ report'[k].pool = None
            /\ k \in todo' /\ failed' = failed
         \/ /\ report'[k].read = "empty" /\ report'[k].degraded = FALSE
            /\ report'[k].count = None /\ report'[k].pool = None
            /\ k \in todo' /\ Gap("body", k) \in failed'
            /\ (Gap("record", k) \in failed' <=> Gap("record", k) \in failed)
         \/ /\ report'[k].read = "error" /\ report'[k].degraded = report[k].degraded
            /\ report'[k].count = report[k].count /\ report'[k].pool = report[k].pool
            /\ k \notin todo' /\ Gap("record", k) \in failed' /\ left' = left
  <2>1. CASE /\ report' = [report EXCEPT ![k] = HealthRow(k)]
             /\ left' = left \ {k} /\ todo' = todo /\ failed' = failed
    <3>1. (k \in degraded) \in BOOLEAN /\ NodeCount(k) \in Nat \cup {None}
      BY HostsCounted
    <3>. QED BY <1>1, <1>2, <2>1, <3>1 DEF HealthRow, Row
  <2>2. CASE /\ report' = [report EXCEPT ![k] = Row("empty", FALSE, None)]
             /\ failed' = failed \cup {Gap("body", k)} /\ todo' = todo /\ left' = left
    BY <1>1, <1>2, <2>2 DEF Row, Gap
  <2>3. CASE /\ report' = [report EXCEPT ![k].read = "error"]
             /\ todo' = todo \ {k} /\ failed' = failed \cup {Gap("record", k)} /\ left' = left
    BY <1>1, <1>2, <2>3
  <2>. QED BY <1>4, <2>1, <2>2, <2>3
<1>7. TypeOK'
  BY <1>1, <1>5, <1>6 DEF ReportsInv, TypeOK
<1>8. CountsHold'
  <2>1. ASSUME NEW j \in Clusters, report'[j].count # None
        PROVE  j \in Counted /\ (j \in left' \/ report'[j].count <= Cardinality(HostsOf(j)))
    <3>1. CASE report'[j].count = report[j].count /\ (j \in left' <=> j \in left)
      BY <1>1, <2>1, <3>1 DEF ReportsInv, CountsHold
    <3>2. CASE report'[j].count = NodeCount(j)
      BY <2>1, <3>2, HostsCounted
    <3>. QED BY <1>5, <1>6, <2>1, <3>1, <3>2
  <2>. QED BY <1>3, <2>1 DEF CountsHold
<1>9. ReadsWereTrue'
  <2>1. MayBeFound \subseteq seen
    BY <1>1 DEF ReportsInv, ReadsWereTrue
  <2>2. /\ report'[k].degraded => Found("degraded", k) \in seen
        /\ report'[k].pool # None => MayName(k, report'[k].pool) \subseteq seen
        /\ report'[k].read = "error" => Gap("record", k) \in failed'
        /\ report'[k].read = "empty" => Gap("body", k) \in failed'
    BY <1>6, <2>1, MayBeFoundOfCluster DEF ReportsInv, ReadsWereTrue
  <2>3. \A j \in Clusters \ {k} :
           /\ report'[j].degraded => Found("degraded", j) \in seen
           /\ report'[j].pool # None => MayName(j, report'[j].pool) \subseteq seen
           /\ report'[j].read = "error" => Gap("record", j) \in failed'
           /\ report'[j].read = "empty" => Gap("body", j) \in failed'
    BY <1>5 DEF ReportsInv, ReadsWereTrue
  <2>. QED BY <1>1, <1>3, <2>1, <2>2, <2>3 DEF ReportsInv, ReadsWereTrue
<1>10. QuietReadsAreExact'
  <2>1. ASSUME changes = 0, cut = {}, NEW j \in Clusters PROVE ReadTruly(j)'
    <3>1. ReadTruly(j) /\ ReadTruly(k)
      BY <1>1, <2>1 DEF ReportsInv, QuietReadsAreExact
    <3>2. CASE j # k
      BY <1>1, <1>3, <1>5, <3>1, <3>2 DEF ReadTruly
    <3>3. CASE j = k
      BY <1>1, <1>3, <1>5, <1>6, <3>1, <3>3 DEF ReadTruly
    <3>. QED BY <3>2, <3>3
  <2>2. changes = 0 => left' = {} /\ seen' = MayBeFound'
    BY <1>1, <1>3, <1>5 DEF ReportsInv, QuietReadsAreExact
  <2>. QED BY <1>1, <2>1, <2>2 DEF QuietReadsAreExact
<1>11. CountsAreHonest' /\ QuietReportsAreExact' /\ FindingsWereTrue'
  BY <1>1 DEF ReportsInv, ReadsWereTrue, CountsAreHonest, Honest, QuietReportsAreExact, FindingsWereTrue
<1>. QED BY <1>7, <1>8, <1>9, <1>10, <1>11 DEF ReportsInv

\* The second reading adds what is so, or nothing.
LEMMA UtilizationPreserves ==
    ASSUME ReportsInv, NEW k \in Clusters, Utilization(k) PROVE ReportsInv'
<1>1. /\ at = "probing" /\ k \in todo /\ report[k].read # "none" /\ todo' = todo \ {k}
      /\ UNCHANGED <<home, status, degraded, pool, fill, changes, at, hostRows, findings,
                     shown, short, errors, truth, seen, cut, left>>
  BY DEF Utilization, estateVars, overviewVars
<1>2. /\ report \in [Clusters -> [read : {"none", "ok", "empty", "error"}, degraded : BOOLEAN,
                                  count : Nat \cup {None}, pool : Levels \cup {None}]]
      /\ pool \in [Clusters -> Levels]
  BY <1>1 DEF ReportsInv, TypeOK
<1>3. \/ report' = [report EXCEPT ![k].pool = pool[k]] /\ failed' = failed
      \/ report' = report /\ failed' = failed \cup {Gap("usage", k)}
  BY DEF Utilization
<1>4. /\ \A j \in Clusters \ {k} : report'[j] = report[j] /\ (j \in todo' <=> j \in todo)
      /\ \A j \in Clusters : Gap("record", j) \in failed' <=> Gap("record", j) \in failed
      /\ failed \subseteq failed'
      /\ report'[k].degraded = report[k].degraded /\ report'[k].read = report[k].read
      /\ report'[k].count = report[k].count
      /\ \/ report'[k].pool = pool[k]
         \/ report'[k].pool = report[k].pool /\ Gap("usage", k) \in failed'
      /\ report' \in [Clusters -> [read : {"none", "ok", "empty", "error"}, degraded : BOOLEAN,
                                   count : Nat \cup {None}, pool : Levels \cup {None}]]
  <2>1. CASE report' = [report EXCEPT ![k].pool = pool[k]] /\ failed' = failed
    BY <1>1, <1>2, <2>1
  <2>2. CASE report' = report /\ failed' = failed \cup {Gap("usage", k)}
    <3>1. \A j \in Clusters : Gap("usage", k) # Gap("record", j)
      BY DEF Gap
    <3>. QED BY <1>1, <1>2, <2>2, <3>1
  <2>. QED BY <1>3, <2>1, <2>2
<1>5. /\ \A j \in Clusters : NodeCount(j)' = NodeCount(j) /\ HostsOf(j)' = HostsOf(j)
      /\ MayBeFound' = MayBeFound
  BY <1>1 DEF NodeCount, HostsOf, MayBeFound
<1>6. TypeOK'
  BY <1>1, <1>4 DEF ReportsInv, TypeOK
<1>7. CountsHold'
  <2>1. \A j \in Clusters : report'[j].count = report[j].count
    BY <1>4
  <2>. QED BY <1>1, <1>5, <2>1 DEF ReportsInv, CountsHold
<1>8. ReadsWereTrue'
  <2>1. MayBeFound \subseteq seen
    BY <1>1 DEF ReportsInv, ReadsWereTrue
  <2>2. ASSUME NEW j \in Clusters
        PROVE  /\ report'[j].degraded => Found("degraded", j) \in seen
               /\ report'[j].read = "error" => Gap("record", j) \in failed'
               /\ report'[j].read = "empty" => Gap("body", j) \in failed'
    BY <1>4 DEF ReportsInv, ReadsWereTrue
  <2>3. ASSUME NEW j \in Clusters
        PROVE  report'[j].pool # None => MayName(j, report'[j].pool) \subseteq seen
    BY <1>4, <2>1, MayBeFoundOfCluster DEF ReportsInv, ReadsWereTrue
  <2>4. findings = {}
    BY <1>1 DEF ReportsInv, ReadsWereTrue
  <2>. QED BY <1>1, <1>5, <2>1, <2>2, <2>3, <2>4 DEF ReadsWereTrue
<1>9. QuietReadsAreExact'
  <2>1. ASSUME changes = 0, cut = {}, NEW j \in Clusters PROVE ReadTruly(j)'
    <3>1. ReadTruly(j) /\ ReadTruly(k)
      BY <1>1, <2>1 DEF ReportsInv, QuietReadsAreExact
    <3>2. CASE j # k
      BY <1>1, <1>4, <1>5, <3>1, <3>2, <1>3 DEF ReadTruly
    <3>3. CASE j = k
      <4>1. report[k].read # "error"
        BY <1>1, <3>1 DEF ReadTruly
      <4>2. pool[k] # None
        BY <1>2, EstateAssumption, RoundingAssumption
      <4>. QED BY <1>1, <1>4, <1>5, <3>1, <3>3, <4>1, <4>2 DEF ReadTruly
    <3>. QED BY <3>2, <3>3
  <2>2. changes = 0 => left = {} /\ seen' = MayBeFound'
    BY <1>1, <1>5 DEF ReportsInv, QuietReadsAreExact
  <2>. QED BY <1>1, <2>1, <2>2 DEF QuietReadsAreExact
<1>10. CountsAreHonest' /\ QuietReportsAreExact' /\ FindingsWereTrue'
  BY <1>1 DEF ReportsInv, ReadsWereTrue, CountsAreHonest, Honest, QuietReportsAreExact, FindingsWereTrue
<1>. QED BY <1>6, <1>7, <1>8, <1>9, <1>10 DEF ReportsInv

\* A whole list that is shorter than the count of a cluster no host left lacks a
\* host of that cluster.
LEMMA ListsLackHosts ==
    ASSUME TypeOK, NEW k \in Clusters, NEW r, r.count \in Nat, r.count <= Cardinality(HostsOf(k)),
           NEW rows, \A n \in Nodes : rows[n].home = k <=> n \in Visible /\ home[n] = k,
           Missing(k, r, rows)
    PROVE  \E n \in Nodes : home[n] = k /\ status[n] = "silent"
<1>. DEFINE mine == {n \in Nodes : rows[n].home = k}
<1>1. mine \subseteq HostsOf(k) /\ Cardinality(mine) < r.count
  BY DEF HostsOf, Missing
<1>2. IsFiniteSet(mine) /\ Cardinality(mine) \in Nat /\ Cardinality(HostsOf(k)) \in Nat
  BY <1>1, HostsCounted, FS_Subset, FS_CardinalityType
<1>3. mine # HostsOf(k)
  <2>1. Cardinality(mine) < Cardinality(HostsOf(k))
    <3>. HIDE DEF mine
    <3>. QED BY <1>1, <1>2
  <2>. QED BY <1>2, <2>1
<1>4. PICK n \in HostsOf(k) : n \notin mine
  BY <1>1, <1>3
<1>5. n \in Nodes /\ home[n] = k /\ n \notin Visible
  BY <1>4 DEF HostsOf
<1>6. k # None
  BY EstateAssumption
<1>. QED BY <1>5, <1>6 DEF Visible

\* The hosts have the status they are listed with; what a whole list leaves out is
\* not to be seen.
LEMMA ReadHostsPreserves == ASSUME ReportsInv, ReadHosts PROVE ReportsInv'
<1>1. /\ at = "probing" /\ todo = {} /\ at' = "hosts" /\ cut' = cut \cup Cut("hosts", Visible)
      /\ UNCHANGED <<home, status, degraded, pool, fill, changes, todo, report, findings,
                     shown, short, errors, truth, seen, failed, left>>
  BY DEF ReadHosts, estateVars, overviewVars
<1>2. PICK page \in Page(Visible) :
           hostRows' = [n \in Nodes |-> IF n \in page THEN [status |-> status[n], home |-> home[n]]
                                        ELSE NotListed]
  BY DEF ReadHosts
<1>3. page \subseteq Visible /\ ("hosts" \notin cut' => page = Visible)
  <2>1. IsFiniteSet(Visible)
    BY EstateAssumption, FS_Subset DEF Visible
  <2>. QED BY <1>1, <2>1, PageOfRows
<1>4. Cut("hosts", Visible) \subseteq {"hosts"}
  BY CutMeans
<1>5. TypeOK /\ home \in [Nodes -> Clusters \cup {None}] /\ status \in [Nodes -> {"up", "down", "silent"}]
  BY DEF ReportsInv, TypeOK
<1>6. /\ \A n \in Nodes : hostRows'[n].status = "down" => status[n] = "down" /\ home[n] # None
      /\ "hosts" \notin cut' =>
            \A k \in Clusters, n \in Nodes : hostRows'[n].home = k <=> n \in Visible /\ home[n] = k
  <2>1. /\ \A n \in page : hostRows'[n].status = status[n] /\ hostRows'[n].home = home[n]
        /\ \A n \in Nodes \ page : hostRows'[n] = NotListed
    <3>1. \A n \in page : hostRows'[n] = [status |-> status[n], home |-> home[n]]
      BY <1>2, <1>3 DEF Visible
    <3>2. \A n \in Nodes \ page : hostRows'[n] = NotListed
      BY <1>2
    <3>3. ASSUME NEW n \in page PROVE hostRows'[n].status = status[n] /\ hostRows'[n].home = home[n]
      <4>1. hostRows'[n] = [status |-> status[n], home |-> home[n]]
        BY <3>1
      <4>. QED BY <4>1
    <3>. QED BY <3>2, <3>3
  <2>2. NotListed.status = "silent" /\ NotListed.home = None /\ None \notin Clusters
    BY EstateAssumption DEF NotListed
  <2>3. ASSUME NEW n \in Nodes, hostRows'[n].status = "down" PROVE status[n] = "down" /\ home[n] # None
    <3>1. n \in page
      BY <2>1, <2>2, <2>3
    <3>2. hostRows'[n].status = status[n] /\ n \in Visible
      BY <1>3, <2>1, <3>1
    <3>. QED BY <2>3, <3>2 DEF Visible
  <2>4. ASSUME "hosts" \notin cut', NEW k \in Clusters, NEW n \in Nodes
        PROVE  hostRows'[n].home = k <=> n \in Visible /\ home[n] = k
    <3>1. CASE n \in Visible
      <4>1. hostRows'[n].home = home[n]
        BY <1>3, <2>1, <2>4, <3>1
      <4>. QED BY <3>1, <4>1
    <3>2. CASE n \notin Visible
      <4>1. hostRows'[n].home = None
        BY <1>3, <2>1, <2>2, <2>4, <3>2
      <4>. QED BY <2>2, <3>2, <4>1
    <3>. QED BY <3>1, <3>2
  <2>. QED BY <2>3, <2>4
<1>7. /\ MayBeFound' = MayBeFound
      /\ \A k \in Clusters : NodeCount(k)' = NodeCount(k)
      /\ Visible' = Visible
  BY <1>1 DEF NodeCount, HostsOf, MayBeFound, Visible
<1>8. TypeOK'
  <2>1. hostRows' \in [Nodes -> [status : {"up", "down", "silent"}, home : Clusters \cup {None}]]
    BY <1>2, <1>5 DEF NotListed
  <2>. QED BY <1>1, <1>4, <1>5, <2>1 DEF TypeOK
<1>9. ReadsWereTrue'
  <2>1. MayBeFound \subseteq seen
    BY <1>1 DEF ReportsInv, ReadsWereTrue
  <2>2. ASSUME NEW n \in Nodes, hostRows'[n].status = "down" PROVE Found("unhealthy", n) \in seen
    BY <1>6, <2>1, <2>2, MayBeFoundOfHost
  <2>3. ASSUME NEW k \in Clusters, Missing(k, report[k], hostRows'), "hosts" \notin cut', k \notin left
        PROVE  Found("node missing", k) \in seen
    <3>1. report[k].count # None
      BY <2>3 DEF Missing
    <3>2. report[k].count \in Nat /\ k \in Counted /\ report[k].count <= Cardinality(HostsOf(k))
      BY <1>1, <1>5, <2>3, <3>1 DEF ReportsInv, CountsHold, TypeOK
    <3>3. PICK n \in Nodes : home[n] = k /\ status[n] = "silent"
      BY <1>5, <1>6, <2>3, <3>2, ListsLackHosts
    <3>. QED BY <2>1, <3>2, <3>3, MayBeFoundOfHost
  <2>4. \A k \in Clusters : Missing(k, report'[k], hostRows') =>
           Found("node missing", k) \in seen' \/ "hosts" \in cut' \/ k \in left'
    BY <1>1, <2>3
  <2>5. findings' = {}
    BY <1>1 DEF ReportsInv, ReadsWereTrue
  <2>6. \A k \in Clusters :
          /\ report'[k].degraded => Found("degraded", k) \in seen'
          /\ report'[k].pool # None => MayName(k, report'[k].pool) \subseteq seen'
          /\ report'[k].read = "error" => Gap("record", k) \in failed'
          /\ report'[k].read = "empty" => Gap("body", k) \in failed'
    BY <1>1 DEF ReportsInv, ReadsWereTrue
  <2>8. MayBeFound' \subseteq seen' /\ \A n \in Nodes : hostRows'[n].status = "down" => Found("unhealthy", n) \in seen'
    BY <1>1, <1>7, <2>1, <2>2
  <2>. QED BY <1>1, <2>4, <2>5, <2>6, <2>8 DEF ReadsWereTrue
<1>10. QuietReadsAreExact'
  <2>1. changes = 0 => left' = {} /\ seen' = MayBeFound'
    BY <1>1, <1>7 DEF ReportsInv, QuietReadsAreExact
  <2>2. ASSUME changes = 0, cut' = {}
        PROVE  /\ \A k \in Clusters : ReadTruly(k)'
               /\ hostRows' = [n \in Nodes |->
                     IF n \in Visible THEN [status |-> status[n], home |-> home[n]] ELSE NotListed]
    <3>1. page = Visible /\ cut = {}
      BY <1>1, <1>3, <2>2
    <3>2. \A k \in Clusters : ReadTruly(k)
      BY <1>1, <2>2, <3>1 DEF ReportsInv, QuietReadsAreExact
    <3>3. \A k \in Clusters : ReadTruly(k)'
      BY <1>1, <1>7, <3>2 DEF ReadTruly
    <3>. QED BY <1>2, <3>1, <3>3
  <2>. QED BY <1>1, <1>7, <2>1, <2>2 DEF QuietReadsAreExact
<1>11. CountsAreHonest' /\ QuietReportsAreExact' /\ FindingsWereTrue' /\ CountsHold'
  BY <1>1 DEF ReportsInv, ReadsWereTrue, CountsAreHonest, Honest, QuietReportsAreExact, FindingsWereTrue,
              CountsHold
<1>. QED BY <1>8, <1>9, <1>10, <1>11 DEF ReportsInv

\* Every finding was so, by what was read of it: containers are read last.
LEMMA ConcludedWasTrue ==
    ASSUME ReportsInv, at = "hosts",
           NEW boxes, \A b \in Boxes : boxes[b] \in {fill[b], None},
           NEW x, x \in Findings(report, hostRows, boxes)
    PROVE  \/ x \in seen
           \/ x.signal = "probe failed" /\ Gap("record", x.about) \in failed
           \/ x.signal = "node missing" /\ ("hosts" \in cut \/ x.about \in left)
           \/ /\ x.about = None
              /\ \E k \in Clusters : Gap("body", k) \in failed /\ Found(x.signal, k) \in seen
<1>1. MayBeFound \subseteq seen /\ fill \in [Boxes -> Levels]
  BY DEF ReportsInv, ReadsWereTrue, TypeOK
<1>2. ASSUME NEW k \in Clusters, x \in ClusterFindings(k, report[k])
      PROVE  \/ x \in seen
             \/ x.signal = "probe failed" /\ Gap("record", x.about) \in failed
             \/ x.about = None /\ Gap("body", k) \in failed /\ Found(x.signal, k) \in seen
  <2>1. /\ report[k].degraded => Found("degraded", k) \in seen
        /\ report[k].pool # None => MayName(k, report[k].pool) \subseteq seen
        /\ report[k].read = "error" => Gap("record", k) \in failed
        /\ report[k].read = "empty" => Gap("body", k) \in failed
        /\ report[k].pool \in Levels \cup {None}
    BY DEF ReportsInv, ReadsWereTrue, TypeOK
  <2>2. CASE report[k].read = "error"
    <3>1. x = Found("probe failed", k)
      BY <1>2, <2>2, ClusterFindingsMean
    <3>2. x.signal = "probe failed" /\ x.about = k
      BY <3>1, FoundFields
    <3>. QED BY <2>1, <2>2, <3>2
  <2>3. CASE report[k].read # "error" /\ x \in UsageFindings(NameOf(k, report[k]), report[k].pool)
    <3>1. report[k].pool \in Levels /\ report[k].pool # None
      BY <2>1, <2>3, NoLevelNoFinding, RoundingAssumption, EstateAssumption
    <3>2. CASE report[k].read = "empty"
      <4>1. x \in UsageFindings(None, report[k].pool)
        BY <2>3, <3>2 DEF NameOf
      <4>2. x.about = None /\ Found(x.signal, k) \in MayName(k, report[k].pool)
        BY <3>1, <4>1, UsageNames
      <4>. QED BY <2>1, <3>1, <3>2, <4>2
    <3>3. CASE report[k].read # "empty"
      <4>1. x \in UsageFindings(k, report[k].pool)
        BY <2>3, <3>3 DEF NameOf
      <4>2. x \in MayName(k, report[k].pool)
        BY <3>1, <4>1, UsageIsNamed
      <4>. QED BY <2>1, <3>1, <4>2
    <3>. QED BY <3>2, <3>3
  <2>4. CASE report[k].degraded /\ x = Found("degraded", k)
    BY <2>1, <2>4
  <2>. QED BY <1>2, <2>2, <2>3, <2>4, ClusterFindingsMean
<1>3. ASSUME NEW k \in Clusters, x \in NodeFindings(k, report[k], hostRows)
      PROVE  x \in seen \/ (x.signal = "node missing" /\ ("hosts" \in cut \/ x.about \in left))
  <2>1. CASE \E n \in Nodes : /\ hostRows[n].home = k /\ hostRows[n].status = "down"
                              /\ x = Found("unhealthy", n)
    BY <2>1 DEF ReportsInv, ReadsWereTrue
  <2>2. CASE Missing(k, report[k], hostRows) /\ x = Found("node missing", k)
    <3>1. Found("node missing", k) \in seen \/ "hosts" \in cut \/ k \in left
      BY <2>2 DEF ReportsInv, ReadsWereTrue
    <3>2. x.signal = "node missing" /\ x.about = k
      BY <2>2, FoundFields
    <3>. QED BY <2>2, <3>1, <3>2
  <2>3. \/ \E n \in Nodes : hostRows[n].home = k /\ hostRows[n].status = "down" /\ x = Found("unhealthy", n)
        \/ Missing(k, report[k], hostRows) /\ x = Found("node missing", k)
    BY <1>3 DEF NodeFindings
  <2>. QED BY <2>1, <2>2, <2>3
<1>4. ASSUME NEW b \in Boxes, x \in UsageFindings(b, boxes[b]) PROVE x \in seen
  <2>1. boxes[b] = fill[b] /\ fill[b] \in Levels
    BY <1>1, <1>4, NoLevelNoFinding
  <2>2. x \in MayName(b, fill[b])
    BY <1>4, <2>1, UsageIsNamed
  <2>. QED BY <1>1, <2>2, MayBeFoundOfBox
<1>5. \/ \E k \in Clusters : x \in ClusterFindings(k, report[k])
      \/ \E k \in Clusters : x \in NodeFindings(k, report[k], hostRows)
      \/ \E b \in Boxes : x \in UsageFindings(b, boxes[b])
  BY FindingsMean
<1>. QED BY <1>2, <1>3, <1>4, <1>5

\* A report of a quiet estate, all of whose lists are whole, says what there is to
\* be found, or a read of it failed.
LEMMA ConcludesAll ==
    ASSUME ReportsInv, at = "hosts", changes = 0, cut = {}, NEW f \in MustBeFound
    PROVE  f \in Findings(report, hostRows, fill) \/ Unsaid(f)
<1>1. \A k \in Clusters : ReadTruly(k) /\ report[k].read # "none" /\ k \notin todo
  BY DEF ReportsInv, QuietReadsAreExact, ReadTruly
<1>2. \A k \in Clusters : /\ report[k].read = "error" => Gap("record", k) \in failed
                          /\ report[k].read = "empty" => Gap("body", k) \in failed
                          /\ report[k].read \in {"none", "ok", "empty", "error"}
  BY DEF ReportsInv, ReadsWereTrue, TypeOK
<1>3. ASSUME NEW n \in Nodes
      PROVE  /\ n \in Visible => hostRows[n].status = status[n] /\ hostRows[n].home = home[n]
             /\ \A k \in Clusters : hostRows[n].home = k <=> n \in Visible /\ home[n] = k
  <2>1. hostRows = [m \in Nodes |-> IF m \in Visible THEN [status |-> status[m], home |-> home[m]]
                                     ELSE NotListed]
    BY DEF ReportsInv, QuietReadsAreExact
  <2>2. CASE n \in Visible
    <3>1. hostRows[n] = [status |-> status[n], home |-> home[n]]
      BY <2>1, <2>2
    <3>2. hostRows[n].status = status[n] /\ hostRows[n].home = home[n]
      BY <3>1
    <3>. QED BY <2>2, <3>2
  <2>3. CASE n \notin Visible
    <3>1. hostRows[n] = NotListed
      BY <2>1, <2>3
    <3>2. hostRows[n].home = None
      BY <3>1 DEF NotListed
    <3>. QED BY <2>3, <3>2, EstateAssumption
  <2>. QED BY <2>2, <2>3
<1>4. ASSUME NEW k \in Clusters, k \in degraded, f = Found("degraded", k)
      PROVE  f \in Findings(report, hostRows, fill) \/ Unsaid(f)
  <2>1. f.signal = "degraded" /\ f.about = k
    BY <1>4, FoundFields
  <2>2. CASE report[k].read = "error"
    BY <1>2, <2>1, <2>2 DEF Unsaid
  <2>3. CASE report[k].read = "empty"
    BY <1>2, <2>1, <2>3 DEF Unsaid
  <2>4. CASE report[k].read = "ok"
    <3>1. report[k].degraded
      BY <1>1, <1>4, <2>4 DEF ReadTruly
    <3>2. f \in ClusterFindings(k, report[k])
      BY <1>4, <2>4, <3>1, ClusterFindingsMean
    <3>. QED BY <1>1, <3>2, FindingsMean
  <2>. QED BY <1>1, <1>2, <2>2, <2>3, <2>4
<1>5. ASSUME NEW n \in Nodes, home[n] # None, status[n] = "down", f = Found("unhealthy", n)
      PROVE  f \in Findings(report, hostRows, fill) \/ Unsaid(f)
  <2>1. f.about = n
    BY <1>5, FoundFields
  <2>2. home[n] \in Clusters /\ n \in HostsOf(home[n]) /\ n \in Visible
    BY <1>5 DEF ReportsInv, TypeOK, HostsOf, Visible
  <2>3. CASE report[home[n]].read = "empty"
    BY <1>2, <2>1, <2>2, <2>3 DEF Unsaid
  <2>4. CASE report[home[n]].read # "empty"
    <3>1. f \in NodeFindings(home[n], report[home[n]], hostRows)
      BY <1>3, <1>5, <2>2, NodeFindingsMean
    <3>. QED BY <1>1, <2>2, <2>4, <3>1, FindingsMean
  <2>. QED BY <2>3, <2>4
<1>6. ASSUME NEW k \in Counted, NEW n \in Nodes, home[n] = k, status[n] = "silent",
             f = Found("node missing", k)
      PROVE  f \in Findings(report, hostRows, fill) \/ Unsaid(f)
  <2>1. k \in Clusters /\ f.signal = "node missing" /\ f.about = k
    BY <1>6, FoundFields, EstateAssumption
  <2>2. CASE HostsOf(k) \cap Visible = {}
    BY <2>1, <2>2 DEF Unsaid
  <2>3. CASE report[k].read = "empty"
    BY <1>2, <2>1, <2>3 DEF Unsaid
  <2>4. CASE HostsOf(k) \cap Visible # {} /\ report[k].read # "empty"
    <3>. DEFINE mine == {m \in Nodes : hostRows[m].home = k}
    <3>1. mine = HostsOf(k) \cap Visible
      BY <1>3, <2>1 DEF HostsOf
    <3>2. mine # HostsOf(k)
      BY <1>6, <3>1 DEF HostsOf, Visible
    <3>3. report[k].count = NodeCount(k)
      BY <1>1, <1>2, <2>1, <2>4 DEF ReadTruly
    <3>4. NodeCount(k) = Cardinality(HostsOf(k)) /\ NodeCount(k) # None /\ IsFiniteSet(HostsOf(k))
      BY HostsCounted
    <3>5. /\ mine \subseteq HostsOf(k) /\ IsFiniteSet(mine)
          /\ Cardinality(mine) <= Cardinality(HostsOf(k)) /\ Cardinality(mine) # Cardinality(HostsOf(k))
          /\ Cardinality(mine) \in Nat /\ Cardinality(HostsOf(k)) \in Nat
      BY <3>1, <3>2, <3>4, FS_Subset, FS_CardinalityType
    <3>6. Cardinality(mine) < report[k].count /\ report[k].count # None /\ mine # {}
      BY <2>4, <3>1, <3>3, <3>4, <3>5
    <3>7. Missing(k, report[k], hostRows)
      BY <3>6 DEF Missing
    <3>8. f \in NodeFindings(k, report[k], hostRows)
      BY <1>6, <2>1, <3>7, NodeFindingsMean
    <3>. QED BY <1>1, <2>1, <2>4, <3>8, FindingsMean
  <2>. QED BY <2>2, <2>3, <2>4
<1>7. ASSUME NEW k \in Clusters, f \in MustName(k, pool[k])
      PROVE  f \in Findings(report, hostRows, fill) \/ Unsaid(f)
  <2>1. f.about = k /\ f.signal \in {"full", "nearly full"}
    BY <1>7, LevelNames
  <2>2. CASE report[k].read = "error"
    BY <1>2, <2>1, <2>2 DEF Unsaid
  <2>3. CASE report[k].read = "empty"
    BY <1>2, <2>1, <2>3 DEF Unsaid
  <2>4. CASE report[k].read = "ok" /\ report[k].pool = None
    <3>1. Gap("usage", k) \in failed
      BY <1>1, <2>4 DEF ReadTruly
    <3>. QED BY <2>1, <3>1 DEF Unsaid
  <2>5. CASE report[k].read = "ok" /\ report[k].pool # None
    <3>1. report[k].pool = pool[k] /\ pool[k] \in Levels
      BY <1>1, <2>5 DEF ReadTruly, ReportsInv, TypeOK
    <3>2. f \in UsageFindings(k, report[k].pool) /\ NameOf(k, report[k]) = k
      BY <1>7, <2>5, <3>1, UsageIsNamed DEF NameOf
    <3>3. f \in ClusterFindings(k, report[k])
      BY <2>5, <3>2, ClusterFindingsMean
    <3>. QED BY <1>1, <3>3, FindingsMean
  <2>. QED BY <1>1, <1>2, <2>2, <2>3, <2>4, <2>5
<1>8. ASSUME NEW b \in Boxes, f \in MustName(b, fill[b])
      PROVE  f \in Findings(report, hostRows, fill)
  <2>1. fill[b] \in Levels
    BY DEF ReportsInv, TypeOK
  <2>. QED BY <1>8, <2>1, UsageIsNamed, FindingsMean
<1>9. \/ \E k \in degraded : f = Found("degraded", k)
      \/ \E n \in Nodes : home[n] # None /\ status[n] = "down" /\ f = Found("unhealthy", n)
      \/ \E k \in Counted : /\ \E n \in Nodes : home[n] = k /\ status[n] = "silent"
                            /\ f = Found("node missing", k)
      \/ \E k \in Clusters : f \in MustName(k, pool[k])
      \/ \E b \in Boxes : f \in MustName(b, fill[b])
  BY DEF MustBeFound, Faults
<1>10. degraded \subseteq Clusters
  BY DEF ReportsInv, TypeOK
<1>. QED BY <1>4, <1>5, <1>6, <1>7, <1>8, <1>9, <1>10

\* A probe that failed is reported, and no other.
LEMMA ProbesReported ==
    ASSUME ReportsInv, at = "hosts", changes = 0, cut = {}, NEW k \in Clusters, NEW boxes,
           \A b \in Boxes : boxes[b] \in {fill[b], None}
    PROVE  Gap("record", k) \in failed <=> Found("probe failed", k) \in Findings(report, hostRows, boxes)
<1>. DEFINE f == Found("probe failed", k)
<1>0. f.signal = "probe failed" /\ f.about = k
  BY FoundFields
<1>1. ASSUME Gap("record", k) \in failed PROVE f \in Findings(report, hostRows, boxes)
  <2>1. report[k].read = "error"
    BY <1>1 DEF ReportsInv, QuietReadsAreExact, ReadTruly
  <2>2. f \in ClusterFindings(k, report[k])
    BY <2>1, ClusterFindingsMean
  <2>. QED BY <2>1, <2>2, FindingsMean
<1>2. ASSUME f \in Findings(report, hostRows, boxes) PROVE Gap("record", k) \in failed
  <2>. HIDE DEF f
  <2>1. \/ f \in seen
        \/ Gap("record", f.about) \in failed
        \/ f.signal = "node missing" /\ ("hosts" \in cut \/ f.about \in left)
        \/ f.about = None
    BY <1>2, ConcludedWasTrue
  <2>2. seen = MayBeFound
    BY DEF ReportsInv, QuietReadsAreExact
  <2>3. f \notin seen
    BY <1>0, <2>2, ProbesAreNotFaults
  <2>. QED BY <1>0, <2>1, <2>3, EstateAssumption
<1>. QED BY <1>1, <1>2

\* The containers are read last, and the report is drawn up.
LEMMA ConcludePreserves == ASSUME ReportsInv, Conclude PROVE ReportsInv'
<1>1. /\ at = "hosts" /\ at' = "done" /\ cut' = cut \cup Cut("containers", Boxes)
      /\ report' = NoReport /\ hostRows' = NoHosts
      /\ UNCHANGED <<home, status, degraded, pool, fill, changes, todo,
                     shown, short, errors, truth, seen, failed, left>>
  BY DEF Conclude, estateVars, overviewVars
<1>2. PICK page \in Page(Boxes) :
           findings' = Findings(report, hostRows, [b \in Boxes |-> IF b \in page THEN fill[b] ELSE None])
  BY DEF Conclude
<1>. DEFINE boxes == [b \in Boxes |-> IF b \in page THEN fill[b] ELSE None]
<1>3. /\ Cut("containers", Boxes) \subseteq {"containers"}
      /\ "containers" \notin cut' => page = Boxes
  BY <1>1, CutMeans, PageOfRows, EstateAssumption
<1>4. /\ MayBeFound' = MayBeFound /\ MustBeFound' = MustBeFound
      /\ \A f : Unsaid(f)' <=> Unsaid(f)
  BY <1>1 DEF MayBeFound, MustBeFound, Unsaid, HostsOf, Visible
<1>5. \A b \in Boxes : boxes[b] \in {fill[b], None}
  OBVIOUS
<1>6. "containers" \notin cut' => boxes = fill
  BY <1>3 DEF ReportsInv, TypeOK
<1>7. findings' = Findings(report, hostRows, boxes)
  BY <1>2
<1>. HIDE DEF boxes
<1>8. TypeOK'
  <2>1. /\ NoReport \in [Clusters -> [read : {"none", "ok", "empty", "error"}, degraded : BOOLEAN,
                                      count : Nat \cup {None}, pool : Levels \cup {None}]]
        /\ NoHosts \in [Nodes -> [status : {"up", "down", "silent"}, home : Clusters \cup {None}]]
    BY DEF NoReport, NoHosts, NotListed, Row
  <2>. QED BY <1>1, <1>3, <2>1 DEF ReportsInv, TypeOK
<1>9. FindingsWereTrue'
  <2>1. ASSUME NEW x \in findings'
        PROVE  \/ x \in seen
               \/ x.signal = "probe failed" /\ Gap("record", x.about) \in failed
               \/ x.signal = "node missing" /\ ("hosts" \in cut \/ x.about \in left)
               \/ /\ x.about = None
                  /\ \E k \in Clusters : Gap("body", k) \in failed /\ Found(x.signal, k) \in seen
    BY <1>1, <1>5, <1>7, <2>1, ConcludedWasTrue
  <2>. QED BY <1>1, <2>1 DEF FindingsWereTrue
<1>10. ReadsWereTrue' /\ CountsHold'
  <2>1. \A k \in Clusters : NoReport[k].degraded = FALSE /\ NoReport[k].pool = None /\ NoReport[k].read = "none"
    BY DEF NoReport, Row
  <2>. QED BY <1>1, <2>1 DEF ReadsWereTrue, CountsHold
<1>11. QuietReportsAreExact'
  <2>1. SUFFICES ASSUME changes = 0, cut' = {}
        PROVE  /\ \A f \in MustBeFound : f \in findings' \/ Unsaid(f)
               /\ \A k \in Clusters : Gap("record", k) \in failed <=> Found("probe failed", k) \in findings'
               /\ \A f \in findings' :
                     \/ f \in MayBeFound
                     \/ f.signal = "probe failed"
                     \/ /\ f.about = None
                        /\ \E k \in Clusters : /\ Gap("body", k) \in failed
                                               /\ Found(f.signal, k) \in MayBeFound
    BY <1>1, <1>4 DEF QuietReportsAreExact
  <2>2. cut = {} /\ boxes = fill
    BY <1>1, <1>6, <2>1
  <2>3. seen = MayBeFound /\ left = {}
    BY <1>1, <2>1 DEF ReportsInv, QuietReadsAreExact
  <2>4. ASSUME NEW f \in MustBeFound PROVE f \in findings' \/ Unsaid(f)
    BY <1>1, <1>7, <2>1, <2>2, <2>4, ConcludesAll
  <2>5. ASSUME NEW k \in Clusters
        PROVE  Gap("record", k) \in failed <=> Found("probe failed", k) \in findings'
    BY <1>1, <1>5, <1>7, <2>1, <2>2, ProbesReported
  <2>6. ASSUME NEW f \in findings'
        PROVE  \/ f \in MayBeFound
               \/ f.signal = "probe failed"
               \/ /\ f.about = None
                  /\ \E k \in Clusters : Gap("body", k) \in failed /\ Found(f.signal, k) \in MayBeFound
    <3>1. \/ f \in seen
          \/ f.signal = "probe failed"
          \/ "hosts" \in cut \/ f.about \in left
          \/ /\ f.about = None
             /\ \E k \in Clusters : Gap("body", k) \in failed /\ Found(f.signal, k) \in seen
      BY <1>1, <1>5, <1>7, <2>6, ConcludedWasTrue
    <3>. QED BY <2>2, <2>3, <3>1
  <2>. QED BY <2>4, <2>5, <2>6
<1>12. QuietReadsAreExact' /\ CountsAreHonest'
  BY <1>1 DEF ReportsInv, QuietReadsAreExact, CountsAreHonest
<1>. QED BY <1>8, <1>9, <1>10, <1>11, <1>12 DEF ReportsInv

\* A report that is given up reports nothing.
LEMMA GiveUpPreserves == ASSUME ReportsInv, GiveUp PROVE ReportsInv'
<1>1. /\ at \in {"probing", "hosts"} /\ at' = "given up"
      /\ todo' = {} /\ report' = NoReport /\ hostRows' = NoHosts
      /\ UNCHANGED <<home, status, degraded, pool, fill, changes, findings,
                     shown, short, errors, truth, seen, failed, cut, left>>
  BY DEF GiveUp, estateVars, overviewVars, historyVars
<1>2. TypeOK'
  <2>1. /\ NoReport \in [Clusters -> [read : {"none", "ok", "empty", "error"}, degraded : BOOLEAN,
                                      count : Nat \cup {None}, pool : Levels \cup {None}]]
        /\ NoHosts \in [Nodes -> [status : {"up", "down", "silent"}, home : Clusters \cup {None}]]
    BY DEF NoReport, NoHosts, NotListed, Row
  <2>. QED BY <1>1, <2>1 DEF ReportsInv, TypeOK
<1>3. ReadsWereTrue' /\ CountsHold' /\ FindingsWereTrue'
  <2>1. \A k \in Clusters : NoReport[k].degraded = FALSE /\ NoReport[k].pool = None /\ NoReport[k].read = "none"
    BY DEF NoReport, Row
  <2>2. findings = {}
    BY <1>1 DEF ReportsInv, ReadsWereTrue
  <2>. QED BY <1>1, <2>1, <2>2 DEF ReadsWereTrue, CountsHold, FindingsWereTrue
<1>4. QuietReadsAreExact' /\ QuietReportsAreExact' /\ CountsAreHonest'
  BY <1>1 DEF ReportsInv, QuietReadsAreExact, QuietReportsAreExact, CountsAreHonest
<1>. QED BY <1>2, <1>3, <1>4 DEF ReportsInv

\* What the estate has become is recorded with what it was; a cluster whose nodes were
\* counted loses none without being recorded.
LEMMA ChangePreserves == ASSUME ReportsInv, Change PROVE ReportsInv'
<1>1. /\ at \in {"probing", "hosts"} /\ changes < MaxChanges /\ changes' = changes + 1
      /\ seen' = seen \cup MayBeFound'
      /\ UNCHANGED <<at, todo, report, hostRows, findings, shown, short, errors, truth, failed, cut>>
  BY DEF Change, reportVars, overviewVars
<1>2. /\ home \in [Nodes -> Clusters \cup {None}]
      /\ status \in [Nodes -> {"up", "down", "silent"}] /\ degraded \subseteq Clusters
      /\ pool \in [Clusters -> Levels] /\ fill \in [Boxes -> Levels]
      /\ changes \in 0 .. MaxChanges
  BY <1>1 DEF ReportsInv, TypeOK
<1>3. /\ home' \in [Nodes -> Clusters \cup {None}]
      /\ status' \in [Nodes -> {"up", "down", "silent"}] /\ degraded' \subseteq Clusters
      /\ pool' \in [Clusters -> Levels] /\ fill' \in [Boxes -> Levels]
      /\ left \subseteq left'
      /\ at = "probing" => \A k \in Clusters : k \notin left' => HostsOf(k) \subseteq HostsOf(k)'
  <2>1. CASE \E n \in Nodes, k \in Clusters \cup {None} : Rehome(n, k)
    <3>1. PICK n \in Nodes, k \in Clusters \cup {None} : Rehome(n, k)
      BY <2>1
    <3>2. /\ home' = [home EXCEPT ![n] = k]
          /\ left' = IF at = "probing" THEN left \cup ({home[n]} \ {k}) ELSE left
          /\ UNCHANGED <<status, degraded, pool, fill>>
      BY <3>1 DEF Rehome
    <3>. QED BY <1>2, <3>2 DEF HostsOf
  <2>2. CASE /\ \E n \in Nodes, x \in {"up", "down", "silent"} : status' = [status EXCEPT ![n] = x]
             /\ UNCHANGED <<home, degraded, pool, fill, left>>
    BY <1>2, <2>2 DEF HostsOf
  <2>3. CASE /\ \E k \in Clusters : degraded' = IF k \in degraded THEN degraded \ {k}
                                                 ELSE degraded \cup {k}
             /\ UNCHANGED <<home, status, pool, fill, left>>
    BY <1>2, <2>3 DEF HostsOf
  <2>4. CASE /\ \E k \in Clusters, x \in Levels : pool' = [pool EXCEPT ![k] = x]
             /\ UNCHANGED <<home, status, degraded, fill, left>>
    BY <1>2, <2>4 DEF HostsOf
  <2>5. CASE /\ \E b \in Boxes, x \in Levels : fill' = [fill EXCEPT ![b] = x]
             /\ UNCHANGED <<home, status, degraded, pool, left>>
    BY <1>2, <2>5 DEF HostsOf
  <2>. QED BY <2>1, <2>2, <2>3, <2>4, <2>5 DEF Change
<1>4. changes' \in 0 .. MaxChanges /\ changes' # 0
  BY <1>1, <1>2, EstateAssumption
<1>5. TypeOK'
  BY <1>1, <1>3, <1>4 DEF ReportsInv, TypeOK
<1>6. CountsHold'
  <2>1. ASSUME at = "probing", NEW k \in Clusters, report[k].count # None
        PROVE  k \in Counted /\ (k \in left' \/ report[k].count <= Cardinality(HostsOf(k)'))
    <3>1. k \in Counted /\ (k \in left \/ report[k].count <= Cardinality(HostsOf(k)))
      BY <2>1 DEF ReportsInv, CountsHold
    <3>2. report[k].count \in Nat
      BY <2>1 DEF ReportsInv, TypeOK
    <3>3. CASE k \notin left'
      <4>1. HostsOf(k) \subseteq HostsOf(k)'
        BY <1>3, <2>1, <3>3
      <4>2. IsFiniteSet(HostsOf(k)')
        BY EstateAssumption, FS_Subset DEF HostsOf
      <4>3. /\ Cardinality(HostsOf(k)) <= Cardinality(HostsOf(k)')
            /\ Cardinality(HostsOf(k)) \in Nat /\ Cardinality(HostsOf(k)') \in Nat
        BY <4>1, <4>2, FS_Subset, FS_CardinalityType
      <4>. QED BY <1>3, <3>1, <3>2, <3>3, <4>3
    <3>. QED BY <3>1, <3>3
  <2>. QED BY <1>1, <2>1 DEF CountsHold
<1>7. ReadsWereTrue'
  <2>1. MayBeFound' \subseteq seen' /\ seen \subseteq seen'
    BY <1>1
  <2>2. /\ \A k \in Clusters :
              /\ report[k].degraded => Found("degraded", k) \in seen
              /\ report[k].pool # None => MayName(k, report[k].pool) \subseteq seen
              /\ report[k].read = "error" => Gap("record", k) \in failed
              /\ report[k].read = "empty" => Gap("body", k) \in failed
        /\ at = "hosts" =>
              /\ \A n \in Nodes : hostRows[n].status = "down" => Found("unhealthy", n) \in seen
              /\ \A k \in Clusters : Missing(k, report[k], hostRows) =>
                    Found("node missing", k) \in seen \/ "hosts" \in cut \/ k \in left
        /\ findings = {}
    BY <1>1 DEF ReportsInv, ReadsWereTrue
  <2>3. \A k \in Clusters : report[k].pool # None => MayName(k, report[k].pool) \subseteq seen'
    BY <2>1, <2>2
  <2>. QED BY <1>1, <1>3, <2>1, <2>2, <2>3 DEF ReadsWereTrue
<1>8. QuietReadsAreExact' /\ QuietReportsAreExact'
  BY <1>4 DEF QuietReadsAreExact, QuietReportsAreExact
<1>9. CountsAreHonest' /\ FindingsWereTrue'
  BY <1>1 DEF ReportsInv, ReadsWereTrue, CountsAreHonest, Honest, FindingsWereTrue
<1>. QED BY <1>5, <1>6, <1>7, <1>8, <1>9 DEF ReportsInv
-----------------------------------------------------------------------------
(* The overview.                                                           *)

\* A tally is honest that shows all the rows, or says that it does not.
LEMMA TallyIsHonest ==
    ASSUME TypeOK, NEW l \in Lists, NEW n \in Nat, NEW m \in Nat,
           NEW over \in BOOLEAN, NEW error \in BOOLEAN, Tally(l, n, m, over, error),
           m = n \/ over \/ error
    PROVE  /\ shown' \in [Lists -> Nat] /\ truth' \in [Lists -> Nat]
           /\ short' \subseteq Lists /\ errors' \subseteq Lists
           /\ Honest(l)'
           /\ \A j \in Lists : Honest(j) => Honest(j)'
<1>1. /\ truth' = [truth EXCEPT ![l] = n] /\ shown' = [shown EXCEPT ![l] = m]
      /\ short' = IF over THEN short \cup {l} ELSE short
      /\ errors' = IF error THEN errors \cup {l} ELSE errors
  BY DEF Tally
<1>2. shown \in [Lists -> Nat] /\ truth \in [Lists -> Nat] /\ short \subseteq Lists /\ errors \subseteq Lists
  BY DEF TypeOK
<1>3. shown'[l] = m /\ truth'[l] = n /\ (over => l \in short') /\ (error => l \in errors')
  BY <1>1, <1>2
<1>4. \A j \in Lists \ {l} : shown'[j] = shown[j] /\ truth'[j] = truth[j]
  BY <1>1, <1>2
<1>5. short \subseteq short' /\ errors \subseteq errors'
  BY <1>1
<1>6. Honest(l)'
  BY <1>3 DEF Honest
<1>7. \A j \in Lists : Honest(j) => Honest(j)'
  BY <1>4, <1>5, <1>6 DEF Honest
<1>. QED BY <1>1, <1>2, <1>6, <1>7

\* Counting leaves the report alone, and no count is taken back.
LEMMA CountPreserves ==
    ASSUME ReportsInv, NEW l \in Lists, NEW before, NEW after \in {"counting", "vms", "counted"},
           at = before, at' = after,
           UNCHANGED <<estateVars, changes, reportVars, historyVars>>,
           NEW n \in Nat, NEW m \in Nat, NEW over \in BOOLEAN, NEW error \in BOOLEAN,
           Tally(l, n, m, over, error), m = n \/ over \/ error,
           after = "counting" => before = "idle" /\ l = "clusters",
           after = "vms" => before = "counting" /\ l = "hosts",
           after = "counted" => before = "vms" /\ l = "vms"
    PROVE  ReportsInv'
<1>1. UNCHANGED <<home, status, degraded, pool, fill, changes, todo, report, hostRows, findings,
                seen, failed, cut, left>>
  BY DEF estateVars, reportVars, historyVars
<1>2. TypeOK
  BY DEF ReportsInv
<1>3. /\ shown' \in [Lists -> Nat] /\ truth' \in [Lists -> Nat]
      /\ short' \subseteq Lists /\ errors' \subseteq Lists
      /\ Honest(l)'
      /\ \A j \in Lists : Honest(j) => Honest(j)'
  BY <1>2, TallyIsHonest
<1>4. TypeOK'
  BY <1>1, <1>2, <1>3 DEF TypeOK
<1>5. CountsAreHonest'
  BY <1>3 DEF ReportsInv, CountsAreHonest
<1>6. ReadsWereTrue' /\ CountsHold'
  BY <1>1 DEF ReportsInv, ReadsWereTrue, CountsHold
<1>7. QuietReadsAreExact' /\ QuietReportsAreExact' /\ FindingsWereTrue'
  BY <1>1 DEF ReportsInv, QuietReadsAreExact, QuietReportsAreExact, FindingsWereTrue
<1>. QED BY <1>4, <1>5, <1>6, <1>7 DEF ReportsInv

\* A list is counted in full, or it was cut, or it could not be read.
LEMMA CountRowsPreserves ==
    ASSUME ReportsInv,
           NEW l \in {"clusters", "hosts"}, NEW before, NEW after, CountRows(l, before, after),
           IF l = "clusters" THEN before = "idle" /\ after = "counting"
           ELSE before = "counting" /\ after = "vms"
    PROVE  ReportsInv'
<1>1. PICK n \in 0 .. MaxRows : \/ Tally(l, n, AtMost(n), n > Limit, FALSE)
                                \/ Tally(l, n, 0, FALSE, TRUE)
  BY DEF CountRows
<1>2. n \in Nat /\ Limit \in Nat
  BY EstateAssumption
<1>3. /\ l \in Lists /\ after \in {"counting", "vms", "counted"}
      /\ at = before /\ at' = after
      /\ UNCHANGED <<estateVars, changes, reportVars, historyVars>>
  BY DEF CountRows
<1>4. ASSUME NEW m \in Nat, NEW over \in BOOLEAN, NEW error \in BOOLEAN,
             Tally(l, n, m, over, error), m = n \/ over \/ error
      PROVE  ReportsInv'
  BY <1>2, <1>3, <1>4, CountPreserves
<1>5. CASE Tally(l, n, AtMost(n), n > Limit, FALSE)
  <2>1. AtMost(n) \in Nat /\ (n > Limit) \in BOOLEAN /\ (AtMost(n) = n \/ n > Limit)
    BY <1>2 DEF AtMost
  <2>. QED BY <1>4, <1>5, <2>1
<1>6. CASE Tally(l, n, 0, FALSE, TRUE)
  BY <1>4, <1>6
<1>. QED BY <1>1, <1>5, <1>6

\* Rows of the two lists of VMs are all there unless one of three cuts was made.
LEMMA OverMeans ==
    ASSUME NEW ahv \in Nat, NEW esxi \in Nat, ~Over(ahv, esxi)
    PROVE  AtMost(AtMost(ahv) + AtMost(esxi)) = ahv + esxi
BY EstateAssumption DEF Over, AtMost

\* VMs: without the second list completeness is unknown.
LEMMA CountVmsPreserves == ASSUME ReportsInv, CountVms PROVE ReportsInv'
<1>1. PICK ahv \in 0 .. MaxRows, esxi \in 0 .. MaxRows :
         \/ Tally("vms", ahv + esxi, AtMost(AtMost(ahv) + AtMost(esxi)), Over(ahv, esxi), FALSE)
         \/ Tally("vms", ahv + esxi, AtMost(ahv), TRUE, TRUE)
         \/ Tally("vms", ahv + esxi, 0, FALSE, TRUE)
  BY DEF CountVms
<1>2. ahv \in Nat /\ esxi \in Nat /\ ahv + esxi \in Nat /\ Limit \in Nat
  BY EstateAssumption
<1>3. /\ "vms" \in Lists /\ at = "vms" /\ at' = "counted"
      /\ UNCHANGED <<estateVars, changes, reportVars, historyVars>>
  BY DEF CountVms
<1>4. ASSUME NEW m \in Nat, NEW over \in BOOLEAN, NEW error \in BOOLEAN,
             Tally("vms", ahv + esxi, m, over, error), m = ahv + esxi \/ over \/ error
      PROVE  ReportsInv'
  BY <1>2, <1>3, <1>4, CountPreserves
<1>5. AtMost(ahv) \in Nat /\ AtMost(AtMost(ahv) + AtMost(esxi)) \in Nat
  BY <1>2 DEF AtMost
<1>6. CASE Tally("vms", ahv + esxi, AtMost(AtMost(ahv) + AtMost(esxi)), Over(ahv, esxi), FALSE)
  <2>1. Over(ahv, esxi) \in BOOLEAN
    BY DEF Over
  <2>2. AtMost(AtMost(ahv) + AtMost(esxi)) = ahv + esxi \/ Over(ahv, esxi)
    BY <1>2, OverMeans
  <2>. QED BY <1>4, <1>5, <1>6, <2>1, <2>2
<1>7. CASE Tally("vms", ahv + esxi, AtMost(ahv), TRUE, TRUE)
  BY <1>4, <1>5, <1>7
<1>8. CASE Tally("vms", ahv + esxi, 0, FALSE, TRUE)
  BY <1>4, <1>8
<1>. QED BY <1>1, <1>6, <1>7, <1>8

\* Every step keeps it.
LEMMA ReportsInvStep == ReportsInv /\ [Next]_vars => ReportsInv'
<1>. SUFFICES ASSUME ReportsInv, [Next]_vars PROVE ReportsInv'
  OBVIOUS
<1>1. CASE Start
  BY <1>1, StartPreserves
<1>2. CASE ReadHosts
  BY <1>2, ReadHostsPreserves
<1>3. CASE Conclude
  BY <1>3, ConcludePreserves
<1>4. CASE GiveUp
  BY <1>4, GiveUpPreserves
<1>5. CASE Change
  BY <1>5, ChangePreserves
<1>6. ASSUME NEW k \in Clusters, Probe(k) \/ Utilization(k) PROVE ReportsInv'
  BY <1>6, ProbePreserves, UtilizationPreserves
<1>7. CASE CountRows("clusters", "idle", "counting")
  BY <1>7, CountRowsPreserves
<1>8. CASE CountRows("hosts", "counting", "vms")
  BY <1>8, CountRowsPreserves
<1>9. CASE CountVms
  BY <1>9, CountVmsPreserves
<1>10. CASE UNCHANGED vars
  <2>1. UNCHANGED <<home, status, degraded, pool, fill, changes, at, todo, report, hostRows, findings,
                    shown, short, errors, truth, seen, failed, cut, left>>
    BY <1>10 DEF vars, estateVars, reportVars, overviewVars, historyVars
  <2>2. /\ MayBeFound' = MayBeFound /\ MustBeFound' = MustBeFound /\ Visible' = Visible
        /\ \A k : HostsOf(k)' = HostsOf(k) /\ NodeCount(k)' = NodeCount(k)
        /\ \A f : Unsaid(f)' <=> Unsaid(f)
    BY <2>1 DEF MayBeFound, MustBeFound, Visible, HostsOf, NodeCount, Unsaid
  <2>3. TypeOK' /\ CountsHold' /\ FindingsWereTrue'
    BY <2>1, <2>2 DEF ReportsInv, TypeOK, CountsHold, FindingsWereTrue
  <2>4. ReadsWereTrue'
    BY <2>1, <2>2 DEF ReportsInv, ReadsWereTrue
  <2>5. \A k \in Clusters : ReadTruly(k)' <=> ReadTruly(k)
    BY <2>1, <2>2 DEF ReadTruly
  <2>6. QuietReadsAreExact'
    BY <2>1, <2>2, <2>5 DEF ReportsInv, QuietReadsAreExact
  <2>7. CountsAreHonest'
    BY <2>1 DEF ReportsInv, CountsAreHonest, Honest
  <2>8. QuietReportsAreExact'
    BY <2>1, <2>2 DEF ReportsInv, QuietReportsAreExact
  <2>. QED BY <2>3, <2>4, <2>6, <2>7, <2>8 DEF ReportsInv
<1>. QED BY <1>1, <1>2, <1>3, <1>4, <1>5, <1>6, <1>7, <1>8, <1>9, <1>10 DEF Next, Ended

-----------------------------------------------------------------------------
(* The theorems.                                                           *)

\* The readings of a report under way are true, and exact while nothing changes
\* and nothing is missed; so are the findings and the counts drawn from them.
THEOREM ReportsInvariant == Spec => []ReportsInv
BY ReportsInvInit, ReportsInvStep, PTL DEF Spec

\* A health report of a quiet estate whose lists are whole names all there is to be
\* found and nothing else, up to rounding and to what a read that failed would have
\* told (cluster_health_findings, list_cluster_reports).
THEOREM QuietReports == Spec => []QuietReportsAreExact
<1>1. ReportsInv => QuietReportsAreExact
  BY DEF ReportsInv
<1>. QED BY <1>1, ReportsInvariant, PTL

\* Whatever happens to the estate and to the reads, a finding was so at some time
\* during the report; but for hosts called missing that a cut list left out, or that
\* left a cluster between the count of its nodes and the list of hosts.
THEOREM TrueFindings == Spec => []FindingsWereTrue
<1>1. ReportsInv => FindingsWereTrue
  BY DEF ReportsInv
<1>. QED BY <1>1, ReportsInvariant, PTL

\* The overview never shows a smaller number for the whole without saying that
\* the list was cut or could not be read (fleet_overview, list_vms).
THEOREM HonestOverview == Spec => []OverviewIsHonest
<1>1. ReportsInv => OverviewIsHonest
  BY DEF ReportsInv, CountsAreHonest, Honest, OverviewIsHonest
<1>. QED BY <1>1, ReportsInvariant, PTL
=============================================================================
