------------------------------ MODULE Hotspots -------------------------------
(***************************************************************************)
(* The tracker of checksum errors, internal/hotspot/hotspot.go, behind     *)
(* internal/web/hotspot_handler.go.  A collection compares the counter of  *)
(* a vdev with a baseline and records the difference.  It reads and writes *)
(* the baseline under a lock, but releases the lock in between; several    *)
(* requests may collect at the same time.                                  *)
(***************************************************************************)
EXTENDS Naturals, Sequences, Lists, SequencesExt, FiniteSetsExt

CONSTANTS
  Collectors,   \* requests that collect
  MaxErrors,    \* bound on the counter of the vdev
  Readable,     \* 1023: zpool status prints more than that as 1.00K and the like
  MaxAge, Hours24, Hours1,   \* 72, 24 and 1 hours
  MaxHours,     \* bound on the clock
  MaxCollects   \* bound on the collections

HotspotsAssumption ==
  /\ Hours1 \in Nat /\ Hours24 \in Nat /\ MaxAge \in Nat \ {0} /\ Hours1 <= Hours24
  /\ MaxErrors \in Nat /\ MaxHours \in Nat /\ Readable \in Nat

VARIABLES
  hours,
  counter,    \* the checksum errors zpool status shows for the vdev
  collect,    \* collect[c]: where the request is, and its locals
  baseline,   \* Tracker.baseline of the vdev, 0 if there is none
  errors,     \* Tracker.events
  history     \* since the process started: the errors that happened, those from
              \* before included, the sum of the differences that were counted,
              \* the highest counter that was compared, whether collections
              \* overlapped, whether the counter was cleared

hotspotVars == <<hours, counter, collect, baseline, errors, history>>

\* Tracker.events holds differences that are positive.
ChecksumEvent == [count : 1..MaxErrors, at : 0..MaxHours]
NoCollect == [at |-> "idle", cksum |-> 0, prev |-> 0, delta |-> 0, when |-> 0]

\* Errors happen, `zpool clear` (once), time passes.
VdevErrs ==
  /\ \/ /\ counter < MaxErrors /\ counter' = counter + 1
        /\ history' = [history EXCEPT !.happened = @ + 1] /\ UNCHANGED hours
     \/ /\ counter > 0 /\ ~history.cleared /\ counter' = 0
        /\ history' = [history EXCEPT !.cleared = TRUE] /\ UNCHANGED hours
     \/ hours < MaxHours /\ hours' = hours + 1 /\ UNCHANGED <<counter, history>>
  /\ UNCHANGED <<collect, baseline, errors>>

\* strconv.ParseInt: a counter that is abbreviated is an error, and is passed
\* over as 0 is.
CksumErrors == IF counter <= Readable THEN counter ELSE 0

\* zpool status.
ReadStatus(c) ==
  /\ collect[c].at = "idle" /\ history.collects < MaxCollects
  /\ collect' = [collect EXCEPT ![c] =
       [NoCollect EXCEPT !.at = IF CksumErrors = 0 THEN "append" ELSE "compare",
                         !.cksum = CksumErrors, !.when = hours]]
  /\ history' = [history EXCEPT !.collects = @ + 1,
       !.overlapped = @ \/ \E d \in Collectors : collect[d].at # "idle"]
  /\ UNCHANGED <<hours, counter, baseline, errors>>

\* Under the read lock.
ReadBaseline(c) ==
  /\ collect[c].at = "compare"
  /\ collect' = [collect EXCEPT ![c].at = "write", ![c].prev = baseline]
  /\ UNCHANGED <<hours, counter, baseline, errors, history>>

\* Mutant: the difference to what the baseline is now, after it was written.
DeltaLate(c) == 0
\* cksumErrors - prev, if it is positive.
Delta(c) == IF collect[c].cksum > collect[c].prev THEN collect[c].cksum - collect[c].prev ELSE 0

\* Under the write lock.
WriteBaseline(c) ==
  /\ collect[c].at = "write"
  /\ baseline' = collect[c].cksum
  /\ collect' = [collect EXCEPT ![c].at = "append", ![c].delta = Delta(c)]
  /\ history' = [history EXCEPT !.sum = @ + Delta(c),
                                !.highest = Max({@, collect[c].cksum})]
  /\ UNCHANGED <<hours, counter, errors>>

\* The new events are kept and those that are too old dropped.
AppendEvents(c) ==
  /\ collect[c].at = "append"
  /\ LET new == [count |-> collect[c].delta, at |-> collect[c].when]
         all == IF collect[c].delta > 0 THEN Append(errors, new) ELSE errors
     IN errors' = Kept(all, {e \in ChecksumEvent : e.at + MaxAge > hours})
  /\ collect' = [collect EXCEPT ![c] = NoCollect]
  /\ UNCHANGED <<hours, counter, baseline, history>>

CountOf(s) == FoldLeft(LAMBDA n, e : n + e.count, 0, s)
\* The errors that are at most age hours old.
Within(age) == CountOf(Kept(errors, {e \in ChecksumEvent : e.at + age >= hours}))

\* DetectHotspots: the severity of the vdev.
Severity ==
  IF Within(Hours24) < 2 THEN "none"
  ELSE IF Within(Hours1) >= 3 \/ Within(Hours24) >= 10 THEN "critical" ELSE "warning"

\* PredictFailures.  The 7 days it looks back are more than events are kept.
Risk == Min({100, 5 * Within(MaxHours) + 10 * Within(Hours24)})

Recommendation ==
  CASE Risk >= 80 -> "replace_immediately"
    [] Risk \in 50..79 -> "schedule_replacement"
    [] Risk \in 20..49 -> "monitor_closely"
    [] OTHER -> "healthy"

NoHistory ==
  [happened |-> 0, sum |-> 0, highest |-> 0, overlapped |-> FALSE, cleared |-> FALSE, collects |-> 0]
NoCollects == [c \in Collectors |-> NoCollect]

Init ==
  /\ hours = 0 /\ counter = 0 /\ baseline = 0 /\ errors = <<>>
  /\ collect = NoCollects /\ history = NoHistory

\* The process starts again and counts from nothing; the vdev does not.
Restart ==
  /\ baseline' = 0 /\ errors' = <<>> /\ collect' = NoCollects
  /\ history' = [NoHistory EXCEPT !.happened = counter]
  /\ UNCHANGED <<hours, counter>>

Next ==
  \/ VdevErrs \/ Restart
  \/ \E c \in Collectors :
       ReadStatus(c) \/ ReadBaseline(c) \/ WriteBaseline(c) \/ AppendEvents(c)
----------------------------------------------------------------------------
Typed ==
  /\ hours \in 0..MaxHours /\ counter \in 0..MaxErrors /\ baseline \in 0..MaxErrors
  /\ \A c \in Collectors : collect[c].at \in {"idle", "compare", "write", "append"}
  /\ errors \in Seq(ChecksumEvent)
  /\ history.sum \in Nat /\ history.happened \in Nat /\ history.highest \in 0..MaxErrors

\* However collections overlap (hotspot.go:104-113), no new high of the counter
\* that was compared is lost; and unless they overlap no more errors are counted
\* than happened.  What is not counted after `zpool clear`, up to the baseline of
\* before, and what is abbreviated, is outside of this.  The two reports that are
\* made of the events agree: a hotspot is never called healthy
\* (hotspot.go:136-140, 174-181).
IncreasesCounted ==
  /\ history.sum >= history.highest
  /\ ~history.overlapped => history.sum <= history.happened
  /\ Severity # "none" => Recommendation # "healthy"
=============================================================================
