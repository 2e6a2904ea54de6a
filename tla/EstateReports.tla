--------------------------- MODULE EstateReports ---------------------------
(***************************************************************************)
(* The two reports over the whole estate: cluster_health_rca, which reads  *)
(* the clusters, two records of each, the hosts and the storage containers *)
(* one after the other (ops/clusters.py) and draws its findings from all   *)
(* of them (ops/diagnostics.py), and the overview, which counts clusters,  *)
(* hosts and VMs (ops/overview.py, list_vms).  The estate changes while a  *)
(* report is made: hosts fail, come and go, join and leave clusters; reads *)
(* fail; every list is cut at a limit.                                     *)
(*                                                                         *)
(* How a list is walked page by page is PrismTasks; here a list is one     *)
(* read.  Wording, the order of findings and the one about an upgrade, which *)
(* is drawn like the one about fault tolerance, are left out.              *)
(***************************************************************************)
EXTENDS Integers, FiniteSets

CONSTANTS Clusters, Nodes, Boxes,  \* clusters, hosts, storage containers
          FirstHomes,              \* the cluster of each host, or None, before a report
          Counted,                 \* clusters Prism Central gives a nodeCount for
          Levels,                  \* storage in use, in hundredths of a percent
          Rounded,                 \* what round(_, 1) makes of it, in tenths
          None,                    \* no value
          Limit,                   \* rows a list returns at most
          MaxRows,                 \* rows of a list the overview counts
          MaxChanges               \* changes of the estate during a report

ASSUME EstateAssumption ==
    /\ None \notin Clusters \cup Nat
    /\ FirstHomes \subseteq [Nodes -> Clusters \cup {None}] /\ Counted \subseteq Clusters
    /\ IsFiniteSet(Clusters) /\ IsFiniteSet(Nodes) /\ IsFiniteSet(Boxes)
    /\ Limit \in Nat \ {0} /\ MaxRows \in Nat /\ MaxChanges \in Nat

\* A level is rounded to a nearest tenth; halfway between two, to either.
ASSUME RoundingAssumption ==
    /\ Levels \subseteq Nat /\ Rounded \in [Levels -> Nat]
    /\ \A l \in Levels : 10 * Rounded[l] - 5 <= l /\ l <= 10 * Rounded[l] + 5

Lists == {"clusters", "hosts", "vms"}

VARIABLES home,        \* home[n]: the cluster host n is a node of, or None
          status,      \* status[n]: "up", "down", or "silent", not listed at all
          degraded,    \* clusters that have lost their fault tolerance
          pool, fill,  \* use of a cluster's pool, of a container
          changes,
          at,          \* where the report is
          todo,        \* clusters it has yet to probe
          report,      \* report[k]: what it read of cluster k
          hostRows,    \* the hosts it was given, with their status and cluster
          findings,
          shown, short, errors,  \* the overview: counts, lists cut short, failures
          truth,       \* history: the rows there were when a list was read
          seen,        \* history: what was to be found at a time during the report
          failed,      \* history: the reads of a cluster that failed
          cut,         \* history: the lists of the report that were cut
          left         \* history: clusters a host left after their nodes were counted

estateVars == <<home, status, degraded, pool, fill>>
reportVars == <<todo, report, hostRows, findings>>
overviewVars == <<shown, short, errors, truth>>
historyVars == <<seen, failed, cut, left>>
vars == <<estateVars, changes, at, reportVars, overviewVars, historyVars>>

\* A row of the report, before the second reading; one of a host that is not listed.
Row(read, lost, count) == [read |-> read, degraded |-> lost, count |-> count, pool |-> None]
NotListed == [status |-> "silent", home |-> None]

NoReport == [k \in Clusters |-> Row("none", FALSE, None)]
NoHosts == [n \in Nodes |-> NotListed]

HostsOf(k) == {n \in Nodes : home[n] = k}

\* nodes.numberOfNodes, as long as Prism Central gives it.
NodeCount(k) == IF k \in Counted THEN Cardinality(HostsOf(k)) ELSE None

Init ==
    /\ home \in FirstHomes
    /\ status = [n \in Nodes |-> "up"]
    /\ degraded = {}
    /\ pool = [k \in Clusters |-> None] /\ fill = [b \in Boxes |-> None]
    /\ changes = 0
    /\ at = "idle" /\ todo = {}
    /\ report = NoReport /\ hostRows = NoHosts
    /\ findings = {}
    /\ shown = [l \in Lists |-> 0] /\ short = {} /\ errors = {}
    /\ truth = [l \in Lists |-> 0]
    /\ seen = {} /\ failed = {} /\ cut = {} /\ left = {}

-----------------------------------------------------------------------------
(* The analysis: findings [signal, about] (ops/diagnostics.py).            *)

Found(signal, about) == [signal |-> signal, about |-> about]

\* Percentages.
STORAGE_WARN_PCT == 80
STORAGE_CRIT_PCT == 90

\* _pct rounds to one decimal, and then the thresholds are applied (_usage_finding).
Usage(level) ==
    IF level = None THEN {}
    ELSE IF Rounded[level] >= 10 * STORAGE_CRIT_PCT THEN {"full"}
    ELSE IF Rounded[level] >= 10 * STORAGE_WARN_PCT THEN {"nearly full"} ELSE {}

UsageFindings(about, level) == {Found(s, about) : s \in Usage(level)}

\* A cluster whose record came back empty is reported without its name.
NameOf(k, r) == IF r.read = "empty" THEN None ELSE k

\* Variant: the second reading masks the error of the first.
ClusterFindingsMasked(k, r) ==
    UsageFindings(NameOf(k, r), r.pool) \cup IF r.degraded THEN {Found("degraded", k)} ELSE {}

\* _cluster_findings.
ClusterFindings(k, r) ==
    IF r.read = "error" THEN {Found("probe failed", k)}
    ELSE UsageFindings(NameOf(k, r), r.pool)
           \cup IF r.degraded THEN {Found("degraded", k)} ELSE {}

\* Hosts are missing: some are listed, and fewer than the cluster counted.
Missing(k, r, rows) ==
    LET mine == {n \in Nodes : rows[n].home = k}
    IN  r.count # None /\ mine # {} /\ Cardinality(mine) < r.count

\* _node_findings.
NodeFindings(k, r, rows) ==
    {Found("unhealthy", n) : n \in {m \in Nodes : rows[m].home = k /\ rows[m].status = "down"}}
      \cup IF Missing(k, r, rows) THEN {Found("node missing", k)} ELSE {}

\* cluster_health_findings.  A row without an id is matched to no host.
Findings(rep, rows, boxes) ==
    LET listed == {k \in Clusters : rep[k].read # "none"}
        named == {k \in listed : rep[k].read # "empty"}
    IN  UNION ({ClusterFindings(k, rep[k]) : k \in listed}
                 \cup {NodeFindings(k, rep[k], rows) : k \in named}
                 \cup {UsageFindings(b, boxes[b]) : b \in Boxes})

-----------------------------------------------------------------------------
(* cluster_health_rca and the reads it makes.                              *)

\* fetch_page: all rows, or as many as the limit allows.
Page(rows) ==
    IF Cardinality(rows) <= Limit THEN {rows} ELSE {r \in SUBSET rows : Cardinality(r) = Limit}

Cut(list, rows) == IF Cardinality(rows) > Limit THEN {list} ELSE {}

\* What is wrong with hosts and clusters.
Faults(s, h, d) ==
    {Found("degraded", k) : k \in d}
      \cup {Found("unhealthy", n) : n \in {m \in Nodes : h[m] # None /\ s[m] = "down"}}
      \cup {Found("node missing", k) : k \in {c \in Counted :
              \E n \in Nodes : h[n] = c /\ s[n] = "silent"}}

\* How full a level is, by the thresholds of the report.
Full(level) ==
    IF level >= 100 * STORAGE_CRIT_PCT THEN {"full"}
    ELSE IF level >= 100 * STORAGE_WARN_PCT THEN {"nearly full"} ELSE {}

\* A level may read as up to a twentieth of a percent more than it is.
MustName(about, level) == {Found(s, about) : s \in Full(level) \cap Full(level + 5)}
MayName(about, level) == {Found(s, about) : s \in Full(level) \cup Full(level + 5)}

\* What a report has to find in the estate, and what it may find.
MustBeFound ==
    Faults(status, home, degraded)
      \cup (UNION {MustName(k, pool[k]) : k \in Clusters})
      \cup (UNION {MustName(b, fill[b]) : b \in Boxes})

MayBeFound ==
    Faults(status, home, degraded)
      \cup (UNION {MayName(k, pool[k]) : k \in Clusters})
      \cup (UNION {MayName(b, fill[b]) : b \in Boxes})

\* The report finds the estate in any state, and lists its clusters, with the
\* number of their nodes.
Start ==
    /\ at = "idle"
    /\ status' \in [Nodes -> {"up", "down", "silent"}]
    /\ degraded' \in SUBSET Clusters
    /\ pool' \in [Clusters -> Levels] /\ fill' \in [Boxes -> Levels]
    /\ at' = "probing"
    /\ todo' \in Page(Clusters)
    /\ report' = [k \in Clusters |-> Row("none", FALSE, NodeCount(k))]
    /\ cut' = Cut("clusters", Clusters)
    /\ UNCHANGED <<home, changes, hostRows, findings, overviewVars, failed, left>>
    /\ seen' = MayBeFound'

Gap(read, k) == [read |-> read, of |-> k]

\* Variant: what the list said is kept ({**health, **cluster}).
HealthRowKept(k) == Row("ok", k \in degraded, report[k].count)

\* {**cluster, **health}: the record of a cluster replaces what the list said.
HealthRow(k) == Row("ok", k \in degraded, NodeCount(k))

\* get_cluster_health of the next cluster: its record, an answer without a body,
\* or an error, which leaves what the list said.
Probe(k) ==
    /\ at = "probing" /\ k \in todo
    /\ \A j \in todo : report[j].read = "none"
    /\ \/ /\ report' = [report EXCEPT ![k] = HealthRow(k)]
          /\ left' = left \ {k}
          /\ UNCHANGED <<todo, failed>>
       \/ /\ report' = [report EXCEPT ![k] = Row("empty", FALSE, None)]
          /\ failed' = failed \cup {Gap("body", k)}
          /\ UNCHANGED <<todo, left>>
       \/ /\ report' = [report EXCEPT ![k].read = "error"]
          /\ todo' = todo \ {k}
          /\ failed' = failed \cup {Gap("record", k)}
          /\ UNCHANGED left
    /\ UNCHANGED <<estateVars, changes, at, hostRows, findings, overviewVars, seen, cut>>

\* get_cluster_utilization reads the record again; if that fails, or has no body,
\* nothing is added to the report.
Utilization(k) ==
    /\ at = "probing" /\ k \in todo /\ report[k].read # "none"
    /\ todo' = todo \ {k}
    /\ \/ report' = [report EXCEPT ![k].pool = pool[k]] /\ UNCHANGED failed
       \/ failed' = failed \cup {Gap("usage", k)} /\ UNCHANGED report
    /\ UNCHANGED <<estateVars, changes, at, hostRows, findings, overviewVars, seen, cut, left>>

\* A host that belongs to no cluster, or reports to nobody, is not listed.
Visible == {n \in Nodes : home[n] # None /\ status[n] # "silent"}

\* list_hosts; whether the list was cut is dropped.
ReadHosts ==
    /\ at = "probing" /\ todo = {}
    /\ at' = "hosts"
    /\ \E page \in Page(Visible) :
          hostRows' = [n \in Nodes |-> IF n \in page THEN [status |-> status[n], home |-> home[n]]
                                        ELSE NotListed]
    /\ cut' = cut \cup Cut("hosts", Visible)
    /\ UNCHANGED <<estateVars, changes, todo, report, findings, overviewVars, seen, failed, left>>

\* list_storage_containers, and the analysis.
Conclude ==
    /\ at = "hosts"
    /\ at' = "done"
    /\ \E page \in Page(Boxes) :
          findings' = Findings(report, hostRows,
                               [b \in Boxes |-> IF b \in page THEN fill[b] ELSE None])
    /\ cut' = cut \cup Cut("containers", Boxes)
    /\ report' = NoReport /\ hostRows' = NoHosts
    /\ UNCHANGED <<estateVars, changes, todo, overviewVars, seen, failed, left>>

\* A list of the report fails: the tool returns an error, and what was read is gone.
GiveUp ==
    /\ at \in {"probing", "hosts"}
    /\ at' = "given up"
    /\ todo' = {} /\ report' = NoReport /\ hostRows' = NoHosts
    /\ UNCHANGED <<estateVars, changes, findings, overviewVars, historyVars>>

\* A host moves from one cluster to another, is removed or added.
Rehome(n, k) ==
    /\ home' = [home EXCEPT ![n] = k]
    /\ left' = IF at = "probing" THEN left \cup ({home[n]} \ {k}) ELSE left
    /\ UNCHANGED <<status, degraded, pool, fill>>

\* The estate changes during the report.
Change ==
    /\ at \in {"probing", "hosts"}
    /\ changes < MaxChanges
    /\ changes' = changes + 1
    /\ \/ \E n \in Nodes, k \in Clusters \cup {None} : Rehome(n, k)
       \/ /\ \E n \in Nodes, x \in {"up", "down", "silent"} : status' = [status EXCEPT ![n] = x]
          /\ UNCHANGED <<home, degraded, pool, fill, left>>
       \/ /\ \E k \in Clusters : degraded' = IF k \in degraded THEN degraded \ {k}
                                              ELSE degraded \cup {k}
          /\ UNCHANGED <<home, status, pool, fill, left>>
       \/ /\ \E k \in Clusters, x \in Levels : pool' = [pool EXCEPT ![k] = x]
          /\ UNCHANGED <<home, status, degraded, fill, left>>
       \/ /\ \E b \in Boxes, x \in Levels : fill' = [fill EXCEPT ![b] = x]
          /\ UNCHANGED <<home, status, degraded, pool, left>>
    /\ seen' = seen \cup MayBeFound'
    /\ UNCHANGED <<at, reportVars, overviewVars, failed, cut>>

-----------------------------------------------------------------------------
(* The overview.                                                           *)

AtMost(n) == IF n <= Limit THEN n ELSE Limit

\* _safe of fleet_overview, on list l: n rows there are, m of them returned, and
\* the list says it was cut, or does not know.
Tally(l, n, m, over, error) ==
    /\ truth' = [truth EXCEPT ![l] = n]
    /\ shown' = [shown EXCEPT ![l] = m]
    /\ short' = IF over THEN short \cup {l} ELSE short
    /\ errors' = IF error THEN errors \cup {l} ELSE errors

\* Clusters, then hosts: list_clusters, list_hosts.
CountRows(l, before, after) ==
    /\ at = before /\ at' = after
    /\ \E n \in 0 .. MaxRows :
          \/ Tally(l, n, AtMost(n), n > Limit, FALSE)
          \/ Tally(l, n, 0, FALSE, TRUE)
    /\ UNCHANGED <<estateVars, changes, reportVars, historyVars>>

\* Variant: only the two reads say whether rows were left out.
OverEither(ahv, esxi) == ahv > Limit \/ esxi > Limit

\* Rows of the two lists together are cut once more.
Over(ahv, esxi) == ahv > Limit \/ esxi > Limit \/ AtMost(ahv) + AtMost(esxi) > Limit

\* list_vms: AHV, then ESXi; without the latter completeness is unknown.
CountVms ==
    /\ at = "vms" /\ at' = "counted"
    /\ \E ahv, esxi \in 0 .. MaxRows :
          \/ Tally("vms", ahv + esxi, AtMost(AtMost(ahv) + AtMost(esxi)), Over(ahv, esxi), FALSE)
          \/ Tally("vms", ahv + esxi, AtMost(ahv), TRUE, TRUE)
          \/ Tally("vms", ahv + esxi, 0, FALSE, TRUE)
    /\ UNCHANGED <<estateVars, changes, reportVars, historyVars>>

Ended == at \in {"done", "given up", "counted"} /\ UNCHANGED vars

Next ==
    \/ Start \/ ReadHosts \/ Conclude \/ GiveUp \/ Change
    \/ \E k \in Clusters : Probe(k) \/ Utilization(k)
    \/ CountRows("clusters", "idle", "counting") \/ CountRows("hosts", "counting", "vms")
    \/ CountVms
    \/ Ended

Spec == Init /\ [][Next]_vars

-----------------------------------------------------------------------------
\* What a report of a quiet estate does not say: that a cluster misses hosts none of
\* whose hosts is listed; what a failed read would have told; what is wrong with the
\* hosts of a cluster whose record came back empty.
Unsaid(f) ==
    \/ f.signal = "node missing" /\ HostsOf(f.about) \cap Visible = {}
    \/ Gap("record", f.about) \in failed /\ f.signal # "node missing"
    \/ Gap("usage", f.about) \in failed /\ f.signal \in {"full", "nearly full"}
    \/ \E k \in Clusters : Gap("body", k) \in failed /\ f.about \in {k} \cup HostsOf(k)

\* A health report of an estate that did not change, whose lists came back whole,
\* names every fault and every full pool and container (but for what is Unsaid),
\* names every cluster whose record could not be read, and says nothing else;
\* except that a level up to a twentieth of a percent below a threshold may be
\* named as above it, and that a cluster whose record came back empty is called "?"
\* (ops/diagnostics.py, list_cluster_reports).
QuietReportsAreExact ==
    at = "done" /\ changes = 0 /\ cut = {} =>
        /\ \A f \in MustBeFound : f \in findings \/ Unsaid(f)
        /\ \A k \in Clusters : Gap("record", k) \in failed <=> Found("probe failed", k) \in findings
        /\ \A f \in findings :
              \/ f \in MayBeFound
              \/ f.signal = "probe failed"
              \/ /\ f.about = None
                 /\ \E k \in Clusters : Gap("body", k) \in failed /\ Found(f.signal, k) \in MayBeFound

\* Whatever a report says of the estate was so at some time while it was made, and
\* a probe it calls failed did fail; except that a host may be called missing
\* that a list cut at its limit left out, or that left its cluster after the nodes
\* were counted and before the hosts were listed (ops/diagnostics.py:166-168).
FindingsWereTrue ==
    \A f \in findings :
        \/ f \in seen
        \/ f.signal = "probe failed" /\ Gap("record", f.about) \in failed
        \/ f.signal = "node missing" /\ ("hosts" \in cut \/ f.about \in left)
        \/ /\ f.about = None
           /\ \E k \in Clusters : Gap("body", k) \in failed /\ Found(f.signal, k) \in seen

\* A count of the overview is the number of rows there were, or the overview
\* says that the list was cut or could not be read (ops/overview.py).
OverviewIsHonest ==
    at = "counted" =>
        \A l \in Lists : shown[l] = truth[l] \/ l \in short \cup errors

-----------------------------------------------------------------------------
(* What holds in every state, for the proofs (EstateReportsProofs).        *)

Statuses == {"up", "down", "silent"}
Uses == Levels \cup {None}
Homes == Clusters \cup {None}
Stages == {"idle", "probing", "hosts", "done", "given up", "counting", "vms", "counted"}

TypeOK ==
    /\ home \in [Nodes -> Homes]
    /\ status \in [Nodes -> Statuses] /\ degraded \subseteq Clusters
    /\ pool \in [Clusters -> Uses] /\ fill \in [Boxes -> Uses]
    /\ at \in {"probing", "hosts"} => pool \in [Clusters -> Levels] /\ fill \in [Boxes -> Levels]
    /\ changes \in 0 .. MaxChanges
    /\ at \in Stages /\ todo \subseteq Clusters
    /\ report \in [Clusters -> [read : {"none", "ok", "empty", "error"}, degraded : BOOLEAN,
                                count : Nat \cup {None}, pool : Uses]]
    /\ hostRows \in [Nodes -> [status : Statuses, home : Homes]]
    /\ shown \in [Lists -> Nat] /\ truth \in [Lists -> Nat]
    /\ short \subseteq Lists /\ errors \subseteq Lists
    /\ cut \subseteq {"clusters", "hosts", "containers"}

\* As long as no host left since, a cluster has the nodes it counted.
CountsHold ==
    at = "probing" => \A k \in Clusters : report[k].count # None =>
        k \in Counted /\ (k \in left \/ report[k].count <= Cardinality(HostsOf(k)))

\* What the report has read was so at a time, and what is so now was recorded.
ReadsWereTrue ==
    /\ at \in {"probing", "hosts"} => MayBeFound \subseteq seen
    /\ \A k \in Clusters :
          /\ report[k].degraded => Found("degraded", k) \in seen
          /\ report[k].pool # None => MayName(k, report[k].pool) \subseteq seen
          /\ report[k].read = "error" => Gap("record", k) \in failed
          /\ report[k].read = "empty" => Gap("body", k) \in failed
    /\ at = "hosts" =>
          /\ \A n \in Nodes : hostRows[n].status = "down" => Found("unhealthy", n) \in seen
          /\ \A k \in Clusters : Missing(k, report[k], hostRows) =>
                Found("node missing", k) \in seen \/ "hosts" \in cut \/ k \in left
    /\ at # "done" => findings = {}
    /\ at = "idle" => report = NoReport /\ failed = {}

\* What was read of a cluster is what is so, or a read failed.
ReadTruly(k) ==
    /\ report[k].read = "ok" => (report[k].degraded <=> k \in degraded)
    /\ report[k].read \in {"none", "ok", "error"} => report[k].count = NodeCount(k)
    /\ report[k].read \in {"none", "error"} => report[k].pool = None
    /\ report[k].read = "empty" => ~report[k].degraded
    /\ report[k].pool \in {None, pool[k]}
    /\ report[k].read = "error" => k \notin todo
    /\ k \notin todo => /\ report[k].read # "none"
                       /\ \/ report[k].read = "error" \/ report[k].pool # None
                          \/ Gap("usage", k) \in failed
    /\ Gap("record", k) \in failed => report[k].read = "error"

\* While nothing changes and no list is cut, what the report has read is so.
QuietReadsAreExact ==
    /\ changes = 0 => left = {} /\ (at \in {"probing", "hosts"} => seen = MayBeFound)
    /\ changes = 0 /\ cut = {} =>
        /\ at \in {"probing", "hosts"} => \A k \in Clusters : ReadTruly(k)
        /\ at = "hosts" => /\ todo = {}
                          /\ hostRows = [n \in Nodes |->
                                IF n \in Visible THEN [status |-> status[n], home |-> home[n]]
                                ELSE NotListed]

Honest(l) == shown[l] = truth[l] \/ l \in short \cup errors

CountsAreHonest ==
    /\ at \in {"counting", "vms", "counted"} => Honest("clusters")
    /\ at \in {"vms", "counted"} => Honest("hosts")
    /\ at = "counted" => Honest("vms")

ReportsInv ==
    /\ TypeOK /\ CountsHold /\ ReadsWereTrue /\ QuietReadsAreExact /\ CountsAreHonest
    /\ QuietReportsAreExact /\ FindingsWereTrue
=============================================================================
