------------------------------ MODULE Planners -------------------------------
(***************************************************************************)
(* The planners, pure functions of the data of one request: forecasts of   *)
(* the capacity (internal/forecast, internal/collector/capacity.go),       *)
(* advice about it (internal/capacity), the expansion of a pool            *)
(* (internal/expansion) and its rebalance (internal/simulator).            *)
(*                                                                         *)
(* A variable holds the request under way.  Quotients of floating point    *)
(* are compared by their numerators and denominators.                      *)
(***************************************************************************)
EXTENDS Integers, Sequences, FiniteSets, Lists

CONSTANTS
  Totals,    \* the sizes of a pool that readings find
  Levels,    \* how much of it they find used
  MaxDay,    \* the last day of the readings of one request
  MaxReadings,   \* how many there may be
  Uses,      \* percentages of a pool that are used
  Shares,    \* percentages of a vdev that are used
  Sizes,     \* the sizes of drives and vdevs
  Total,     \* the size of a pool that is rebalanced, if it is none of these
  Drives,    \* the numbers of drives
  MaxVdevs, MaxAdded   \* how many vdevs a pool has and gets

PlannersAssumption ==
  /\ Total \in Nat \ {0} /\ Totals \subseteq Nat \ {0} /\ Levels \subseteq Nat
  /\ MaxDay \in Nat /\ Sizes \subseteq Nat \ {0} /\ Drives \subseteq Nat \ {0}
  /\ Uses \subseteq 0..100 /\ Shares \subseteq 0..100
  /\ MaxReadings \in Nat /\ MaxVdevs \in Nat /\ MaxAdded \in Nat

VARIABLE plan   \* the request that is answered, NoPlan between two

NoPlan == [about |-> "nothing"]
Some(S, n) == UNION {[1..k -> S] : k \in 1..n}
----------------------------------------------------------------------------
\* handleForecast passes the readings of GetCapacityTrend on, which come in the
\* order of their times, and asks some days after the last of them.  Times that
\* time.Parse does not understand, as they are stored, are all the same.
Days ==
  {d \in Some(0..MaxDay, MaxReadings) :
     /\ d[1] = 0
     /\ (\A i \in 2..Len(d) : d[i - 1] < d[i]) \/ (\A i \in 2..Len(d) : d[i] = 0)}
ForecastRequests ==
  {q \in [about : {"forecast"}, day : Days, used : Some(Levels, MaxReadings),
          total : Some(Totals, MaxReadings), later : 0..1] :
     /\ Len(q.day) = Len(q.used) /\ Len(q.total) = Len(q.used)
     /\ \A i \in 1..Len(q.used) : q.used[i] <= q.total[i]}

LastOf(q) == Len(q.used)
Grown(q) == q.used[LastOf(q)] - q.used[1]
Lasted(q) == q.day[LastOf(q)] - q.day[1]
\* The last percentage less the first, each of its own total, over their product.
PctGrown(q) == q.used[LastOf(q)] * q.total[1] - q.used[1] * q.total[LastOf(q)]

\* GetCapacityTrend: the days from the last reading until 80% are used, along the
\* line through the percentages of the first and the last one; -1 if it does not
\* rise.
DaysUntilFull(q) ==
  LET used == q.used[LastOf(q)]
      total == q.total[LastOf(q)]
  IN IF LastOf(q) < 2 \/ Lasted(q) <= 0 \/ PctGrown(q) <= 0 THEN -1
     ELSE IF 100 * used >= 80 * total THEN 0
     ELSE (((80 * total - 100 * used) * Lasted(q)) * q.total[1]) \div (100 * PctGrown(q))

\* FitLinear: the line of least squares, slope and intercept as rise / spread and
\* base / (n * spread).
Fits(q) == LastOf(q) >= 3 /\ Lasted(q) >= 1
FitLinear(q) ==
  LET n   == LastOf(q)
      t   == [i \in 1..n |-> q.day[i] - q.day[1]]
      su  == SumOf(q.used)
      st  == SumOf(t)
      rise   == n * SumOf([i \in 1..n |-> t[i] * q.used[i]]) - st * su
      spread == n * SumOf([i \in 1..n |-> t[i] * t[i]]) - st * st
  IN [n |-> n, rise |-> rise, spread |-> spread, base |-> su * spread - rise * st]

\* Mutant: the time of the forecast is not counted from the origin of the line.
FromNow(q) == q.later
FromOrigin(q) == Lasted(q) + q.later

\* LinearRegression.DaysUntilFull for 80% of the last total, from now; -1 stands
\* for nil.
DaysUntilEighty(q) ==
  LET l == FitLinear(q)
      now  == 100 * (l.n * l.rise * FromOrigin(q) + l.base)  \* times n * spread
      goal == 80 * q.total[LastOf(q)] * l.n * l.spread
  IN IF l.rise <= 0 THEN -1
     ELSE IF now >= goal THEN 0 ELSE (goal - now) \div (100 * l.n * l.rise)

OnALine(q) ==
  \A i \in 1..LastOf(q) :
    (q.used[i] - q.used[1]) * Lasted(q) = Grown(q) * (q.day[i] - q.day[1])

SameTotal(q) == \A i \in 1..LastOf(q) : q.total[i] = q.total[1]

\* One forecast goes by percentages of the totals of then, the other by bytes and
\* the last total.  They are the same for readings on a line that rises while the
\* total stays; neither is made of readings that never rise while the total never
\* shrinks, both are made of readings that always rise while it never grows
\* (capacity.go:76-94, forecast.go:120-132, forecast_handler.go:53).  Of a pool
\* that grew there may be one and not the other.
ForecastsAgree ==
  (plan.about = "forecast" /\ Fits(plan)) =>
    /\ (OnALine(plan) /\ SameTotal(plan) /\ Grown(plan) > 0) =>
         LET later == DaysUntilFull(plan) - plan.later
         IN DaysUntilEighty(plan) = IF later < 0 THEN 0 ELSE later
    /\ (\A i \in 2..LastOf(plan) :
          plan.used[i] <= plan.used[i - 1] /\ plan.total[i] >= plan.total[i - 1]) =>
         DaysUntilFull(plan) = -1 /\ DaysUntilEighty(plan) = -1
    /\ (\A i \in 2..LastOf(plan) :
          plan.used[i] > plan.used[i - 1] /\ plan.total[i] <= plan.total[i - 1]) =>
         DaysUntilFull(plan) >= 0 /\ DaysUntilEighty(plan) >= 0
----------------------------------------------------------------------------
\* capacity.AnalyzePool: the percentage of a pool that is used, those of its
\* vdevs, the dedup ratio in tenths.
CapacityRequests ==
  [about : {"capacity"}, used : Uses, vdevs : Some(Shares, MaxVdevs), dedup : {0, 10, 11}]

\* More than 10 points above the mean, which one vdev alone cannot be.
Bottlenecks(q) ==
  {i \in DOMAIN q.vdevs :
     Len(q.vdevs) > 1 /\ (q.vdevs[i] - 10) * Len(q.vdevs) > SumOf(q.vdevs)}

\* estimateTrend takes 1% a day, and what is used above 80% for what is missing:
\* drives are to be ordered before 80% only once it is past.
DaysToEighty(q) == IF q.used > 80 THEN q.used - 80 ELSE 0

Recommendations(q) ==
  {r \in {"add capacity", "plan expansion", "disable dedup", "rebalance", "order drives"} :
     \/ r = "add capacity" /\ q.used > 90
     \/ r = "plan expansion" /\ q.used \in 81..90
     \/ r = "disable dedup" /\ q.dedup \in 1..10
     \/ r = "rebalance" /\ Bottlenecks(q) # {}
     \/ r = "order drives" /\ DaysToEighty(q) \in 1..29}
----------------------------------------------------------------------------
VdevTypes == {"mirror", "raidz1", "raidz2", "raidz3", "single"}
Parity == [raidz1 |-> 1, raidz2 |-> 2, raidz3 |-> 3]
MinDrives == [mirror |-> 2, raidz1 |-> 3, raidz2 |-> 4, raidz3 |-> 5, single |-> 1]

\* The type and the drive size of the pool may be unknown.
ExpansionRequests ==
  [about : {"expansion"}, poolType : VdevTypes \cup {""}, poolDrive : Sizes \cup {0},
   type : VdevTypes, count : Drives, size : Sizes]

ValidConfig(q) ==
  IF q.type = "single" THEN q.count = 1 ELSE q.count >= MinDrives[q.type]

\* In halves of a drive.
UsableHalves(q) ==
  CASE q.type = "mirror" -> q.count
    [] q.type = "single" -> 2 * q.count
    [] OTHER -> 2 * (q.count - Parity[q.type])
FaultTolerance(q) ==
  CASE q.type = "mirror" -> q.count \div 2
    [] q.type = "single" -> 0
    [] OTHER -> Parity[q.type]
Warnings(q) ==
  {w \in {"mixed", "mismatch", "no redundancy"} :
     \/ w = "mixed" /\ q.poolType \notin {"", q.type}
     \/ w = "mismatch" /\ q.poolDrive \notin {0, q.size}
     \/ w = "no redundancy" /\ q.type = "single"}

\* Three times the efficiency, rounded.
Efficiency(q) == (3 * UsableHalves(q) + q.count) \div (2 * q.count)

\* Mutant: only the warning counts against a single drive.
ScoreLenient(q) == 5 + 2 * FaultTolerance(q) + Efficiency(q) - Cardinality(Warnings(q))
Score(q) ==
  5 + 2 * FaultTolerance(q) + Efficiency(q) - Cardinality(Warnings(q))
    - (IF q.type = "single" THEN 4 ELSE 0)
Verdict(q) ==
  IF Score(q) >= 8 THEN "recommended"
  ELSE IF Score(q) >= 5 THEN "acceptable" ELSE "not_recommended"

Problems(q) ==
  {p \in {"invalid", "too small"} :
     \/ p = "invalid" /\ ~ValidConfig(q)
     \/ p = "too small" /\ q.poolDrive > 0 /\ 2 * q.size < q.poolDrive}
----------------------------------------------------------------------------
\* What is used of a pool need not be what its vdevs say.
RebalanceRequests ==
  [about : {"rebalance"}, vdevs : Some(Sizes, MaxVdevs), add : Some(Sizes, MaxAdded),
   used : 0..Total, total : Sizes \cup {Total}]

After(q) == q.vdevs \o q.add
AfterTotal(q) == SumOf(After(q))

\* Six tenths of the share of what is used that the new vdevs ought to have.
DataMovement(q) ==
  IF AfterTotal(q) <= q.total THEN 0
  ELSE (6 * q.used * (AfterTotal(q) - q.total)) \div (10 * AfterTotal(q))

AfterDistribution(q) ==
  [i \in DOMAIN After(q) |-> (q.used * After(q)[i]) \div AfterTotal(q)]
----------------------------------------------------------------------------
\* A request is answered from its own data.
Ask ==
  /\ plan = NoPlan
  /\ \/ plan' \in ForecastRequests
     \/ plan' \in CapacityRequests
     \/ plan' \in ExpansionRequests
     \/ plan' \in RebalanceRequests
Answer == plan # NoPlan /\ plan' = NoPlan

Init == plan = NoPlan
Next == Ask \/ Answer
----------------------------------------------------------------------------
\* An expansion that can be made is advised against exactly when it is a single
\* drive, whatever warnings the others have, drives that Validate finds too small
\* have a warning, and it adds some space but no more than its drives have
\* (expansion/planner.go:61-156); a pool that is to be rebalanced has a vdev that is
\* no bottleneck (capacity/planner.go:96-220); a rebalance loses no data but what is
\* rounded off, and moves no more than comes to the new vdevs
\* (rebalance.go:150-237).
PlansAreSound ==
  /\ (plan.about = "expansion" /\ ValidConfig(plan)) =>
       /\ (Verdict(plan) = "not_recommended") = (plan.type = "single")
       /\ Problems(plan) # {} => "mismatch" \in Warnings(plan)
       /\ UsableHalves(plan) \in 1..(2 * plan.count)
  /\ (plan.about = "capacity" /\ "rebalance" \in Recommendations(plan)) =>
       DOMAIN plan.vdevs \ Bottlenecks(plan) # {}
  /\ plan.about = "rebalance" =>
       LET then == AfterDistribution(plan)
           old  == Len(plan.vdevs)
       IN /\ DataMovement(plan) <= plan.used
          /\ SumOf(then) \in (plan.used - Len(then) + 1)..plan.used
          /\ plan.total = SumOf(plan.vdevs) =>
               DataMovement(plan) <=
                 SumOf(SubSeq(then, old + 1, Len(then))) + Len(plan.add)
=============================================================================
