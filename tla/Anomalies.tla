------------------------------ MODULE Anomalies ------------------------------
(***************************************************************************)
(* The detectors of ARC anomalies, internal/anomaly/detector.go and        *)
(* manager.go, behind internal/web/anomaly_handler.go.  A detector keeps a *)
(* window of hit ratios and, at some lengths of it, takes its mean and     *)
(* standard deviation for the baseline that points are compared with.      *)
(*                                                                         *)
(* Ratios are integers on a scale.  A baseline is the number, the sum and  *)
(* the sum of the squares of its points, so that "below the mean by more   *)
(* than so many deviations" is an inequality of integers.                  *)
(***************************************************************************)
EXTENDS Integers, Sequences, SequencesExt, FiniteSetsExt, Folds

CONSTANTS
  Feeders,      \* goroutines that measure
  Ratios,       \* the hit ratios they find, in percent
  WindowSize, Every, Enough,  \* 40, 10 and 20 points
  Sensitivity,  \* 2 deviations
  MaxAnomalies, \* Detector.maxEvents: 200
  MaxPoints     \* bound on the measurements

\* With a window of another length the baseline would stay as it is once the
\* window is full.
AnomaliesAssumption ==
  /\ WindowSize % Every = 0
  /\ Every \in Nat \ {0} /\ WindowSize \in Nat \ {0} /\ Enough \in Nat
  /\ Ratios \subseteq 0..100 /\ Ratios # {} /\ Sensitivity \in Nat
  /\ MaxAnomalies \in Nat

VARIABLES
  there,      \* does the manager have a detector for the pool?
  window,     \* Detector.window
  base,       \* Detector.baseline
  anomalies,  \* Detector.RecentEvents
  feeding,    \* feeding[f]: where Feed is
  fed         \* history: the points that were recorded, in their order

anomalyVars == <<there, window, base, anomalies, feeding, fed>>

Sum(s) == FoldLeft(+, 0, s)
Squares(s) == FoldLeft(LAMBDA a, x : a + x * x, 0, s)
Stats(s) == [n |-> Len(s), sum |-> Sum(s), squares |-> Squares(s)]

\* n squared times the variance.
Spread(b) == b.n * b.squares - b.sum * b.sum

\* The baseline of a new detector: a mean of 0.85, a deviation of 0.05, here the
\* mean of the ratios and no point.
NewBase == [n |-> 2, sum |-> Min(Ratios) + Max(Ratios),
            squares |-> Min(Ratios) * Min(Ratios) + Max(Ratios) * Max(Ratios)]

\* p is below the mean by more than Sensitivity deviations.
Below(p, b) ==
  LET under == b.sum - b.n * p
  IN Spread(b) > 0 /\ under > 0 /\ under * under > Sensitivity * Sensitivity * Spread(b)

\* Mutant: EnsurePool makes a detector without looking again.
EnsurePoolBlind ==
  there' = TRUE /\ window' = <<>> /\ base' = NewBase /\ anomalies' = <<>>
\* EnsurePool looks again, under the lock.
EnsurePool ==
  there' = TRUE /\ UNCHANGED <<window, base, anomalies>>

\* The first look of Feed, under the read lock.
Look(f) ==
  /\ feeding[f] = "idle" /\ Len(fed) < MaxPoints
  /\ feeding' = [feeding EXCEPT ![f] = IF there THEN "record" ELSE "ensure"]
  /\ UNCHANGED <<there, window, base, anomalies, fed>>

Ensure(f) ==
  /\ feeding[f] = "ensure"
  /\ EnsurePool
  /\ feeding' = [feeding EXCEPT ![f] = "record"]
  /\ UNCHANGED fed

Slide(s) == IF Len(s) > WindowSize THEN Tail(s) ELSE s

\* Record, under the lock of the detector.
Record(f) ==
  /\ feeding[f] = "record" /\ Len(fed) < MaxPoints
  /\ \E p \in Ratios :
       /\ window' = Slide(Append(window, p))
       /\ base' = IF Len(window') % Every = 0 THEN Stats(window') ELSE base
       /\ anomalies' =
            IF Len(window') < Enough \/ ~Below(p, base') THEN anomalies
            ELSE LET all == Append(anomalies, [ratio |-> p, base |-> base'])
                 IN IF Len(all) > MaxAnomalies THEN Tail(all) ELSE all
       /\ fed' = Append(fed, p)
  /\ feeding' = [feeding EXCEPT ![f] = "idle"]
  /\ UNCHANGED there

NotFeeding == [f \in Feeders |-> "idle"]

Init ==
  /\ there = FALSE /\ window = <<>> /\ base = NewBase /\ anomalies = <<>>
  /\ feeding = NotFeeding /\ fed = <<>>

\* The process starts again.
Restart ==
  /\ there' = FALSE /\ window' = <<>> /\ base' = NewBase /\ anomalies' = <<>>
  /\ feeding' = NotFeeding /\ fed' = <<>>

Next == Restart \/ \E f \in Feeders : Look(f) \/ Ensure(f) \/ Record(f)
----------------------------------------------------------------------------
Typed ==
  /\ there \in BOOLEAN
  /\ window \in Seq(Ratios) /\ Len(window) <= WindowSize
  /\ base \in [n : Nat, sum : Nat, squares : Nat]
  /\ Len(anomalies) <= MaxAnomalies /\ fed \in Seq(Ratios)
  /\ feeding \in [Feeders -> {"idle", "ensure", "record"}]

\* Two feeders that find no detector at the same time still feed one: its window
\* is the last points of all of them (manager.go:31-46), and its baseline that
\* of a window at most Every - 1 points ago (detector.go:70-77).
OneDetector ==
  /\ window = SubSeq(fed, Max({1, Len(fed) - WindowSize + 1}), Len(fed))
  /\ Len(fed) >= Every =>
       \E k \in 0..(Every - 1) :
         LET then == SubSeq(fed, 1, Len(fed) - k)
         IN base = Stats(SubSeq(then, Max({1, Len(then) - WindowSize + 1}), Len(then)))
=============================================================================
