------------------------------ MODULE Advisors -------------------------------
(***************************************************************************)
(* What the server says about the data it was given: the cost of snapshots *)
(* (zfs/snapshot_advisor.go and snapshot_forensics.go), the risk of a vdev *)
(* (vdev/health.go), its latency (zfs/vdev_latency.go) and what datasets   *)
(* are charged (chargeback/chargeback.go).  All of them are functions of   *)
(* samples; a variable holds the case that is looked at.                   *)
(***************************************************************************)
EXTENDS Integers, Sequences, FiniteSets, Lists

CONSTANTS
  Ages,        \* of snapshots, in days
  Held,        \* the space snapshots hold
  MaxSnapshots,   \* how many there are
  Errs,        \* counts of errors and of sectors
  Counts, MaxTrend,   \* counts of errors over time, and how many samples
  Gaps,        \* the hours between two samples
  Delays,      \* latencies
  Percents,    \* the percentiles that are reported: 50, 95 and 99
  AlertAbove,  \* the one that alerts: 95
  Samples,     \* that a baseline needs: 10
  MaxProfiled, \* how many samples a profile takes
  Prices,      \* sizes and rates
  MaxUsages    \* how often the usage of a dataset is recorded

\* The space from which an old manual snapshot counts, 100 MB, in units of 50 MB.
Large == 2
PoolSize == 10

AdvisorsAssumption ==
  /\ Ages \subseteq Nat /\ Held \subseteq Nat /\ Errs \subseteq Nat
  /\ Delays \subseteq Nat /\ Percents \subseteq 0..100 /\ AlertAbove \in Percents
  /\ Samples \in Nat /\ Prices \subseteq Nat /\ Counts \subseteq Nat
  /\ Gaps \subseteq Nat
  /\ MaxSnapshots \in Nat /\ MaxTrend \in Nat /\ MaxProfiled \in Nat /\ MaxUsages \in Nat

VARIABLE case

NoCase == [about |-> "nothing"]
Least(a, b) == IF a < b THEN a ELSE b
Upto(S, n) == UNION {[1..k -> S] : k \in 1..n}
----------------------------------------------------------------------------
\* A snapshot has a name, which says to which schedule it belongs, if any.  zfs
\* prints five columns for it, a dash for no clones, or fails.
Tags == {"hourly", "daily", "weekly", "monthly", "auto", "by hand"}
SnapshotCases ==
  [about : {"snapshots"}, fails : {"yes", "no"},
   snaps : Upto([tag : Tags, age : Ages, held : Held, clones : 0..1], MaxSnapshots)]

\* classifySnapshot and the ages of isDeleteCandidate, in days.
Tier(s) == IF s.tag \in {"auto", "by hand"} THEN "manual" ELSE s.tag
KeptFor == [hourly |-> 2, daily |-> 30, weekly |-> 90, monthly |-> 365, manual |-> 180]

\* Mutant: clones are not looked at.
IsDeleteCandidateCloned(s) ==
  s.age > KeptFor[Tier(s)] /\ (Tier(s) = "manual" => s.held > Large)
IsDeleteCandidate(s) ==
  /\ s.clones = 0
  /\ s.age > KeptFor[Tier(s)]
  /\ Tier(s) = "manual" => s.held > Large

Space(c, which) == SumOf([i \in DOMAIN c.snaps |-> IF i \in which THEN c.snaps[i].held ELSE 0])
TotalSpaceHeld(c) == Space(c, DOMAIN c.snaps)
ExpectedFree(c) == Space(c, {i \in DOMAIN c.snaps : IsDeleteCandidate(c.snaps[i])})

\* If zfs fails, the analysis is of snapshots that were made up: it advises to
\* delete one of them, whatever there is.
MockSnapshotAnalysis == [held |-> 85, free |-> 24]
AnalyzeSnapshotCost(c) ==
  IF c.fails = "yes" THEN MockSnapshotAnalysis
  ELSE [held |-> TotalSpaceHeld(c), free |-> ExpectedFree(c)]

\* GetSnapshotForensics: no schedule that it knows, and older than 90 days.
IsOrphaned(s) == s.age > 90 /\ s.tag \in {"hourly", "by hand"}

\* generateSnapAlerts, for a pool of a size.
SnapAlerts(c, size) ==
  {a \in {"critical", "warning", "orphaned"} :
     \/ a = "critical" /\ 100 * TotalSpaceHeld(c) > 30 * size
     \/ a = "warning" /\ 100 * TotalSpaceHeld(c) \in (15 * size + 1)..(30 * size)
     \/ a = "orphaned" /\ \E i \in DOMAIN c.snaps : IsOrphaned(c.snaps[i])}
----------------------------------------------------------------------------
\* computeMetric: the last sample, and the latencies of all of them.
RiskCases ==
  [about : {"risk"}, cksum : Errs, io : Errs, reallocated : Errs, pending : Errs,
   online : BOOLEAN, latencies : {<<1>>, <<2, 2, 2, 3>>, <<2, 2, 2, 2, 5>>}]

\* Is the mean of the last quarter more than percent above that of the first?
Slower(c, percent) ==
  LET l == c.latencies
      n == Len(l)
      q1 == SubSeq(l, 1, n \div 4)
      q4 == SubSeq(l, (3 * n) \div 4 + 1, n)
  IN /\ n >= 4 /\ SumOf(q1) > 0
     /\ 100 * (SumOf(q4) * Len(q1) - SumOf(q1) * Len(q4)) > percent * SumOf(q1) * Len(q4)

\* Mutant: what a state that is not ONLINE adds replaces the errors.
RiskScoreEither(c) == IF c.online THEN Least(40, 10 * c.cksum) ELSE 30
RiskScore(c) ==
  Least(100, Least(40, 10 * c.cksum) + Least(30, 5 * c.io)
    + (IF Slower(c, 50) THEN 20 ELSE IF Slower(c, 20) THEN 10 ELSE 0)
    + Least(20, 2 * c.reallocated) + Least(20, 5 * c.pending)
    + (IF c.online THEN 0 ELSE 30))
Advice(c) ==
  IF RiskScore(c) >= 70 THEN "replace"
  ELSE IF RiskScore(c) >= 40 THEN "investigate" ELSE "healthy"

\* estimateDTF: the days until 100 errors along the line through the errors of the
\* samples, as many steps as whole ones are left, each as long as the first one.
EstimateDTF(c) ==
  LET errs == c.errs
      n == Len(errs)
      x == [i \in 1..n |-> i - 1]
      rise   == n * SumOf([i \in 1..n |-> x[i] * errs[i]]) - SumOf(x) * SumOf(errs)
      spread == n * SumOf([i \in 1..n |-> x[i] * x[i]]) - SumOf(x) * SumOf(x)
  IN IF n < 2 \/ rise <= 0 THEN -1
     ELSE IF errs[n] >= 100 THEN 1
     ELSE ((((100 - errs[n]) * spread) \div rise) * c.gap) \div 24

TrendCases == [about : {"errors"}, errs : Upto(Counts, MaxTrend), gap : Gaps]

\* The cases that differ from c by something worse.
Worse(c) ==
  {d \in RiskCases :
     /\ d.cksum >= c.cksum /\ d.io >= c.io /\ d.reallocated >= c.reallocated
     /\ d.pending >= c.pending /\ (d.online => c.online) /\ d.latencies = c.latencies
     /\ Cardinality({k \in DOMAIN c : c[k] # d[k]}) = 1}
----------------------------------------------------------------------------
\* ProfileVdevLatency: what zpool iostat prints of the vdev, nothing if it fails or
\* does not know the vdev, and what other profiles of the week found: those before
\* this one, and those that add to the history after updateBaseline of this one let
\* go of the lock and before getBaseline takes it.
LatencyCases ==
  [about : {"latency"}, others : {<<>>} \cup Upto(Delays, MaxProfiled),
   now : {<<>>} \cup Upto(Delays, MaxProfiled)]

\* Mutant: the values stay in the order they were measured in.
PercentileUnsorted(data, p) ==
  LET at == (p * Len(data)) \div 100
  IN data[IF at >= Len(data) THEN Len(data) ELSE at + 1]
Percentile(data, p) ==
  LET at == (p * Len(data)) \div 100
  IN Smallest(data, IF at >= Len(data) THEN Len(data) ELSE at + 1)

\* The profile that mockLatencyProfile makes up has three numbers in order, for
\* which their percentages stand.
Reported(c, p) == IF c.now = <<>> THEN p ELSE Percentile(c.now, p)

\* The baseline is taken after the samples of this profile were added to it; the
\* order they come in does not matter to a percentile.
Baseline(c) == c.others \o c.now

\* What was made up is not looked at.
AssessLatency(c) ==
  LET p == Percentile(c.now, AlertAbove)
      threshold == (Percentile(Baseline(c), AlertAbove) * 3) \div 2
  IN IF c.now = <<>> \/ Len(Baseline(c)) < Samples THEN "ok"
     ELSE IF p > 2 * threshold THEN "critical"
     ELSE IF p > threshold THEN "warning" ELSE "ok"
----------------------------------------------------------------------------
\* GenerateReport: the usages of the period, of a first and a second dataset; the
\* rates of storage and snapshots.  Collect counts no operations.
ChargeCases ==
  [about : {"charges"}, used : Upto(Prices, MaxUsages), other : Upto(Prices, MaxUsages),
   snaps : Prices, dedup : {1, 2}, storageRate : Prices, snapRate : Prices]

Mean(s, scale) == (scale * SumOf(s)) \div Len(s)
\* The cost of a dataset in a month, times 4.
TotalCost(c, s) ==
  LET gb == Mean(s, 4)
      storage == gb * c.storageRate
      savings == storage - storage \div c.dedup
  IN storage + 4 * c.snaps * c.snapRate - savings
\* Its percentage of the pool.
PctOfPool(c, s) ==
  LET pool == Mean(c.used, 4) + Mean(c.other, 4)
  IN IF pool = 0 THEN 0 ELSE (100 * Mean(s, 4)) \div pool
----------------------------------------------------------------------------
Look ==
  /\ case = NoCase
  /\ \/ case' \in SnapshotCases
     \/ case' \in RiskCases
     \/ case' \in TrendCases
     \/ case' \in LatencyCases
     \/ case' \in ChargeCases
Done == case # NoCase /\ case' = NoCase

Init == case = NoCase
Next == Look \/ Done
----------------------------------------------------------------------------
\* Not more space is promised than is said to be held; of the snapshots that zfs
\* lists, none with a clone is to be deleted, and what is to be deleted although no
\* schedule made it has the other report's alert about orphans as well
\* (snapshot_advisor.go:94-122, snapshot_forensics.go:93-103).  A sample that is
\* worse in one respect never lowers the risk of a vdev, and errors that never fell
\* and grew give a number of days (health.go:166-250).  Percentiles are in order,
\* and a profile no higher than those of the others do not alert, whatever is added
\* between its two locks (vdev_latency.go:104-164).  Two datasets that are charged
\* make up the pool but for what is rounded off, and to record each usage twice
\* does not change what is charged (chargeback.go:151-177).
AdviceIsSound ==
  /\ case.about = "snapshots" =>
       /\ AnalyzeSnapshotCost(case).free <= AnalyzeSnapshotCost(case).held
       /\ \A i \in DOMAIN case.snaps :
            LET s == case.snaps[i] IN
            (case.fails = "no" /\ IsDeleteCandidate(s)) =>
              /\ s.clones = 0
              /\ s.tag = "by hand" => "orphaned" \in SnapAlerts(case, PoolSize)
  /\ case.about = "risk" =>
       \A d \in Worse(case) :
         /\ RiskScore(d) >= RiskScore(case)
         /\ Advice(d) = "healthy" => Advice(case) = "healthy"
  /\ case.about = "errors" =>
       LET e == case.errs
           n == Len(e)
       IN (n > 1 /\ e[1] < e[n] /\ \A i \in 2..n : e[i - 1] <= e[i]) => EstimateDTF(case) >= 0
  /\ case.about = "latency" =>
       /\ \A p, q \in Percents : p <= q => Reported(case, p) <= Reported(case, q)
       /\ \/ case.others = <<>> \/ case.now = <<>>
          \/ Percentile(case.now, AlertAbove) <= Percentile(case.others, AlertAbove)
          => AssessLatency(case) = "ok"
  /\ case.about = "charges" =>
       /\ PctOfPool(case, case.used) + PctOfPool(case, case.other) \in {0, 99, 100}
       /\ TotalCost(case, case.used \o case.used) = TotalCost(case, case.used)
       /\ TotalCost(case, case.used) >= 0
=============================================================================
