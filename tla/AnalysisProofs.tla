--------------------------- MODULE AnalysisProofs ----------------------------
(***************************************************************************)
(* Theorems about Analysis, for every set of pools, lines and vdevs, every *)
(* length of the list and the window, every number of requests and every   *)
(* width of the counters.                                                  *)
(***************************************************************************)
EXTENDS Analysis, SequenceTheorems, TLAPS

\* An entry of the list.
Entry == [finding : Findings, at : Nat, status : {"detected", "acknowledged"}]

\* The list holds nothing from the future.
ListInv ==
  /\ clock \in Nat
  /\ found \subseteq Findings
  /\ events \in Seq(Entry)
  /\ Len(events) <= MaxSize
  /\ \A i \in 1..Len(events) : events[i].at <= clock
  /\ NoRepeatInWindow

\* The fields of the entries.
LEMMA Entries ==
  ASSUME ListInv
  PROVE  \A i \in 1..Len(events) : events[i].at \in Nat /\ events[i].finding \in Findings
<1>1. \A e \in Entry : e.at \in Nat /\ e.finding \in Findings
  BY DEF Entry
<1>2. \A i \in 1..Len(events) : events[i] \in Entry
  BY DEF ListInv
<1> QED
  BY <1>1, <1>2

\* Every finding of a poll names a pool and a message.
LEMMA FindingsOfOutput ==
  ASSUME NEW p \in Pools, NEW o \in Output
  PROVE  CheckPoolErrors(p, o) \subseteq Findings
<1>1. /\ o.dataErrors \subseteq Lines /\ o.prose \subseteq Prose
      /\ \A v \in Vdevs : o.counters[v] \in Readings
  BY DEF Output
<1>2. \A l \in Lines : Finding(p, "data errors", l, 0) \in Findings
  BY DeadLettersAssumption DEF Finding, Findings
<1>3. \A v \in Vdevs, n \in Readings : Finding(p, "counters", v, n) \in Findings
  BY DEF Finding, Findings
<1>4. \A l \in Prose \cup {"errors:"} : Finding(p, "counters", l, 0) \in Findings
  BY DeadLettersAssumption DEF Finding, Findings
<1> QED
  BY <1>1, <1>2, <1>3, <1>4 DEF CheckPoolErrors

\* So do all that a poll comes to.
LEMMA FindingsOfPoll ==
  ASSUME NEW o \in [Pools -> Output], NEW k \in SUBSET KernelLines,
         NEW low \in SUBSET {"arc"}
  PROVE  /\ CheckPools(o) \subseteq Findings
         /\ CheckKernelLog(k) \subseteq Findings
         /\ CheckARCStats(low) \subseteq Findings
<1>1. \A p \in Pools : CheckPoolErrors(p, o[p]) \subseteq Findings
  BY FindingsOfOutput
<1>2. \A l \in KernelLines : Finding("system", "kernel log", l, 0) \in Findings
  BY DeadLettersAssumption DEF Finding, Findings
<1>3. Finding("system", "ratio", "arc", 0) \in Findings
  BY DeadLettersAssumption DEF Finding, Findings
<1>4. CheckPools(o) \subseteq Findings
  BY <1>1 DEF CheckPools
<1>5. CheckKernelLog(k) \subseteq Findings
  BY <1>2 DEF CheckKernelLog
<1>6. CheckARCStats(low) \subseteq Findings
  BY <1>3 DEF CheckARCStats
<1> QED
  BY <1>4, <1>5, <1>6

\* Eviction takes the oldest entry away and moves the others down by one.
LEMMA Evicted ==
  ASSUME ListInv
  PROVE  /\ Evict \in Seq(Entry) /\ Len(Evict) < MaxSize
         /\ \E d \in {0, 1} :
              /\ Len(Evict) = Len(events) - d
              /\ \A i \in 1..Len(Evict) : i + d \in 1..Len(events) /\ Evict[i] = events[i + d]
<1> USE DeadLettersAssumption
<1>1. CASE Len(events) >= MaxSize
  <2>1. events # <<>> /\ Evict = Tail(events)
    BY <1>1 DEF Evict, ListInv
  <2>2. /\ Tail(events) \in Seq(Entry) /\ Len(Tail(events)) = Len(events) - 1
        /\ \A i \in 1..Len(Tail(events)) : Tail(events)[i] = events[i + 1]
    BY <2>1, HeadTailProperties DEF ListInv
  <2>3. /\ Len(Evict) = Len(events) - 1
        /\ \A i \in 1..Len(Evict) : i + 1 \in 1..Len(events) /\ Evict[i] = events[i + 1]
    BY <2>1, <2>2 DEF ListInv
  <2>4. Len(Evict) < MaxSize
    BY <2>1, <2>2, DeadLettersAssumption DEF ListInv
  <2> QED
    BY <2>1, <2>2, <2>3, <2>4
<1>2. CASE ~(Len(events) >= MaxSize)
  <2>1. Evict = events
    BY <1>2 DEF Evict
  <2>2. \A i \in 1..Len(events) : i + 0 \in 1..Len(events) /\ events[i] = events[i + 0]
    BY DEF ListInv
  <2> QED
    BY <1>2, <2>1, <2>2 DEF ListInv
<1> QED
  BY <1>1, <1>2

\* What is appended is a window apart from what is left of its finding.
LEMMA AddEventStep ==
  ASSUME ListInv, AddEvent
  PROVE  ListInv'
<1>1. PICK f \in found :
        events' = IF Recent(f) THEN events
                  ELSE Append(Evict, [finding |-> f, at |-> clock, status |-> "detected"])
  BY DEF AddEvent
<1>2. clock' = clock /\ found' \subseteq Findings /\ f \in Findings
  BY DEF AddEvent, ListInv
<1>3. CASE Recent(f)
  BY <1>1, <1>2, <1>3 DEF ListInv, NoRepeatInWindow
<1>4. CASE ~Recent(f)
  <2> DEFINE e == [finding |-> f, at |-> clock, status |-> "detected"]
             n == Len(Evict)
  <2>1. e \in Entry /\ e.finding = f /\ e.at = clock
    BY <1>2 DEF Entry, ListInv
  <2>2. PICK d \in {0, 1} :
          /\ n = Len(events) - d
          /\ \A i \in 1..n : i + d \in 1..Len(events) /\ Evict[i] = events[i + d]
    BY Evicted
  <2>3. /\ Evict \in Seq(Entry) /\ n \in Nat /\ n < MaxSize
    BY Evicted
  <2>4. /\ events' = Append(Evict, e) /\ events' \in Seq(Entry)
        /\ Len(events') = n + 1 /\ events'[n + 1] = e
        /\ \A i \in 1..n : events'[i] = Evict[i]
    <3>1. events' = Append(Evict, e)
      BY <1>1, <1>4
    <3> HIDE DEF e
    <3> QED
      BY <2>1, <2>3, <3>1
  <2>5. Len(events') <= MaxSize
    BY <2>3, <2>4, DeadLettersAssumption
  <2> HIDE DEF e, n
  <2>6. \A i \in 1..n : events'[i] = events[i + d] /\ i + d \in 1..Len(events)
    BY <2>2, <2>4
  <2>7. ASSUME NEW i \in 1..Len(events')
        PROVE  events'[i].at <= clock'
    <3>1. CASE i = n + 1
      BY <1>2, <2>1, <2>4, <3>1, Entries DEF ListInv
    <3>2. CASE i \in 1..n
      BY <1>2, <2>6, <3>2 DEF ListInv
    <3> QED
      BY <2>3, <2>4, <3>1, <3>2
  <2>8. ASSUME NEW i \in 1..Len(events'), NEW j \in 1..Len(events'),
               i < j, events'[i].finding = events'[j].finding
        PROVE  events'[j].at - events'[i].at >= Window
    <3>1. i \in 1..n /\ i + d \in 1..Len(events)
      BY <2>3, <2>4, <2>6, <2>8
    <3>2. CASE j = n + 1
      <4>1. events[i + d].finding = f /\ events'[j].at = clock
            /\ events'[i].at = events[i + d].at
        BY <2>1, <2>4, <2>6, <2>8, <3>1, <3>2
      <4>2. ~(events[i + d].at + Window > clock)
        BY <1>4, <3>1, <4>1 DEF Recent
      <4>3. events[i + d].at \in Nat
        BY <3>1, Entries
      <4> QED
        BY <4>1, <4>2, <4>3, DeadLettersAssumption DEF ListInv
    <3>3. CASE j \in 1..n
      <4>1. j + d \in 1..Len(events) /\ i + d < j + d
        BY <2>3, <2>6, <2>8, <3>1, <3>3
      <4> QED
        BY <2>6, <2>8, <3>1, <3>3, <4>1 DEF ListInv, NoRepeatInWindow
    <3> QED
      BY <2>3, <2>4, <3>2, <3>3
  <2>9. NoRepeatInWindow'
    BY <2>8 DEF NoRepeatInWindow
  <2> QED
    BY <1>2, <2>4, <2>5, <2>7, <2>9 DEF ListInv
<1> QED
  BY <1>3, <1>4

\* An acknowledgement changes neither what was found nor when.
LEMMA AcknowledgeStep ==
  ASSUME ListInv, Acknowledge
  PROVE  ListInv'
<1>1. PICK k \in 1..Len(events) : events' = [events EXCEPT ![k].status = "acknowledged"]
  BY DEF Acknowledge, Acked
<1>2. events[k] \in Entry
  BY DEF ListInv
<1>3. [events[k] EXCEPT !.status = "acknowledged"] \in Entry
  BY <1>2 DEF Entry
<1>4. events' \in Seq(Entry) /\ Len(events') = Len(events)
  BY <1>1, <1>3 DEF ListInv
<1>5. \A i \in 1..Len(events) :
        events'[i].finding = events[i].finding /\ events'[i].at = events[i].at
  BY <1>1, <1>2 DEF ListInv, Entry
<1>6. clock' = clock /\ found' = found
  BY DEF Acknowledge
<1>7. NoRepeatInWindow'
  BY <1>4, <1>5 DEF ListInv, NoRepeatInWindow
<1> QED
  BY <1>4, <1>5, <1>6, <1>7 DEF ListInv

\* Every step of the detector.
LEMMA ListStep ==
  ASSUME ListInv, Next
  PROVE  ListInv'
<1>1. CASE Tick
  <2>1. clock' \in Nat /\ clock' >= clock /\ UNCHANGED <<found, events>>
    BY <1>1 DEF Tick, ListInv
  <2> QED
    BY <2>1, Entries DEF ListInv, NoRepeatInWindow
<1>2. CASE Collect
  <2>1. PICK o \in [Pools -> Output], k \in SUBSET KernelLines, low \in SUBSET {"arc"} :
          found' = CheckPools(o) \cup CheckKernelLog(k) \cup CheckARCStats(low)
    BY <1>2 DEF Collect
  <2>2. /\ CheckPools(o) \subseteq Findings
        /\ CheckKernelLog(k) \subseteq Findings
        /\ CheckARCStats(low) \subseteq Findings
    BY FindingsOfPoll
  <2>3. found' \subseteq Findings
    BY <2>1, <2>2
  <2> QED
    BY <1>2, <2>3 DEF Collect, ListInv, NoRepeatInWindow
<1>3. CASE IndexOutOfRange
  BY <1>3 DEF IndexOutOfRange, ListInv, NoRepeatInWindow
<1>4. CASE Restart
  BY <1>4, DeadLettersAssumption DEF Restart, ListInv, NoRepeatInWindow
<1> QED
  BY <1>1, <1>2, <1>3, <1>4, AddEventStep, AcknowledgeStep DEF Next

\* Every variable of the parts together.
allVars == <<unit, vars, incidentVars, hotspotVars, anomalyVars, heatVars, answerVars>>

\* For every size of the list and every window, evictions, acknowledgements and
\* restarts included: two entries of one finding are a window apart
\* (dlq.go:250-266).
THEOREM RepeatsAreApart == AnalysisSpec => []NoRepeatInWindow
<1>1. AnalysisInit => ListInv
  <2> SUFFICES ASSUME AnalysisInit
               PROVE  ListInv
    OBVIOUS
  <2>1. clock = 0 /\ found = {} /\ events = <<>>
    BY DEF AnalysisInit, Init
  <2> QED
    BY <2>1, DeadLettersAssumption DEF ListInv, NoRepeatInWindow
<1>2. ListInv /\ [AnalysisNext]_allVars => ListInv'
  <2> SUFFICES ASSUME ListInv, [AnalysisNext]_allVars
               PROVE  ListInv'
    OBVIOUS
  <2>1. CASE Next
    BY <2>1, ListStep
  <2>2. CASE UNCHANGED vars
    BY <2>2 DEF vars, ListInv, NoRepeatInWindow
  <2> QED
    BY <2>1, <2>2 DEF allVars, AnalysisNext, DeadLettersMove, IncidentsMove, HotspotsMove,
                      AnomaliesMove, HeatMoves, AnswersMove
<1>3. ListInv => NoRepeatInWindow
  BY DEF ListInv
<1> QED
  BY <1>1, <1>2, <1>3, PTL DEF AnalysisSpec, allVars
-----------------------------------------------------------------------------
\* What the locals of a request may hold, and what is known of the reports.
Requests == [at : {"idle", "read", "report"}, bytes : Nat, time : Nat,
             alone : {"yes", "no"}, life : 0..2]
Reports == [lives : 1..2, bytes : Nat, life : 0..2, counted : {"yes", "no"}, amount : Nat]

HeatShape ==
  /\ bytes \in 0..MaxBytes /\ stamps \in Nat
  /\ prev \in [bytes : 0..MaxBytes, time : 0..stamps]
  /\ sampler \in [Samplers -> Requests]
  /\ \A r \in Samplers :
       /\ sampler[r].bytes <= MaxBytes /\ sampler[r].time <= stamps
       /\ sampler[r].at # "idle" => sampler[r].time > 0
  /\ reported \in Reports

\* What is remembered is what the last request had read.  Nobody read a
\* life of the counter that is to come.
Remembered ==
  /\ reported.life # 0 => prev # HeatMap!NoSample /\ prev.bytes = reported.bytes
  /\ reported.life <= reported.lives
  /\ reported.life = reported.lives => reported.bytes <= bytes
  /\ \A r \in Samplers : sampler[r].life <= reported.lives

\* Who read the present life of the counter read no more than it is.
ReadsAreBelow ==
  \A r \in Samplers :
    sampler[r].at = "report" /\ sampler[r].life = reported.lives => sampler[r].bytes <= bytes

\* A request that is alone is the only one under way and later than the last, and
\* has read no less if it read the same life of the counter.
AloneIsLater ==
  \A r \in Samplers :
    sampler[r].at # "idle" /\ sampler[r].alone = "yes" =>
      /\ \A o \in Samplers : sampler[o].at # "idle" => o = r
      /\ prev.time < sampler[r].time
      /\ sampler[r].life # 0 /\ sampler[r].life = reported.life =>
           reported.bytes <= sampler[r].bytes

\* Who has not read yet has read no life of the counter.
Unread == \A r \in Samplers : sampler[r].at = "read" => sampler[r].life = 0

HeatInv == HeatShape /\ Remembered /\ ReadsAreBelow /\ AloneIsLater /\ Unread

\* A difference that is not negative is the number itself.
LEMMA SmallDifference ==
  ASSUME NEW W \in Nat, NEW p \in Nat, NEW s \in Nat, p <= s, s < W
  PROVE  (s + W - p) % W = s - p
<1>1. s - p \in 0..(W - 1) /\ s + W - p = (s - p) + 1 * W
  OBVIOUS
<1> QED
  BY <1>1, SMTT(60)

\* A step of one request leaves the others alone.
LEMMA OneSampler ==
  ASSUME HeatShape, NEW r \in Samplers, NEW q \in Requests,
         sampler' = [sampler EXCEPT ![r] = q]
  PROVE  /\ sampler' \in [Samplers -> Requests]
         /\ sampler'[r] = q
         /\ \A o \in Samplers \ {r} : sampler'[o] = sampler[o]
BY DEF HeatShape

\* A request that is idle is nothing else.
LEMMA IdleRequest ==
  /\ HeatMap!Idle \in Requests
  /\ HeatMap!Idle.at = "idle" /\ HeatMap!Idle.bytes = 0 /\ HeatMap!Idle.time = 0
  /\ HeatMap!Idle.alone = "no" /\ HeatMap!Idle.life = 0
BY DEF HeatMap!Idle, Requests

\* What is reported is the difference, and the next one starts from it.
LEMMA ReportStep ==
  ASSUME HeatInv, NEW r \in Samplers, HeatMap!GetDatasetIOHeat(r)
  PROVE  /\ HeatInv'
         /\ sampler[r].alone = "yes" /\ sampler[r].life # 0
              /\ sampler[r].life = reported.life =>
                /\ reported'.counted = "yes"
                /\ reported'.amount = sampler[r].bytes - reported.bytes
<1> DEFINE sample == [bytes |-> sampler[r].bytes, time |-> sampler[r].time]
           c == IF prev # HeatMap!NoSample /\ sample.time > prev.time THEN "yes" ELSE "no"
           n == (sample.bytes + Width - prev.bytes) % Width
<1>1. MaxBytes \in Nat /\ Width \in Nat /\ MaxBytes < Width
  BY AnalysisAssumption DEF HeatMap!IoHeatAssumption
<1>2. /\ sampler[r].at = "report" /\ prev' = sample
      /\ sampler' = [sampler EXCEPT ![r] = HeatMap!Idle]
      /\ UNCHANGED <<bytes, stamps>>
      /\ reported' = [reported EXCEPT !.bytes = sample.bytes, !.life = sampler[r].life,
                                      !.counted = c, !.amount = n]
  BY DEF HeatMap!GetDatasetIOHeat, HeatMap!Remember
<1>3. /\ sampler[r].bytes \in 0..MaxBytes /\ sampler[r].time \in 1..stamps
      /\ sampler[r].life \in 0..2
      /\ prev.bytes \in 0..MaxBytes /\ prev.time \in 0..stamps /\ bytes \in 0..MaxBytes
      /\ reported \in Reports /\ stamps \in Nat
  BY <1>1, <1>2 DEF HeatInv, HeatShape, Requests
<1>4. /\ sampler' \in [Samplers -> Requests] /\ sampler'[r] = HeatMap!Idle
      /\ \A o \in Samplers \ {r} : sampler'[o] = sampler[o]
  BY <1>2, IdleRequest, OneSampler DEF HeatInv
<1>5. c \in {"yes", "no"} /\ n \in Nat /\ sample.bytes \in Nat
  BY <1>1, <1>3
<1>6. /\ reported' \in Reports
      /\ reported'.bytes = sampler[r].bytes /\ reported'.life = sampler[r].life
      /\ reported'.counted = c /\ reported'.amount = n
      /\ reported'.lives = reported.lives
  <2> HIDE DEF c, n
  <2> QED
    BY <1>2, <1>3, <1>5 DEF Reports
<1>7. HeatShape'
  <2>1. prev' \in [bytes : 0..MaxBytes, time : 0..stamps']
    BY <1>2, <1>3
  <2>2. \A o \in Samplers : /\ sampler'[o].bytes <= MaxBytes /\ sampler'[o].time <= stamps'
                            /\ sampler'[o].at # "idle" => sampler'[o].time > 0
    BY <1>1, <1>2, <1>3, <1>4, IdleRequest DEF HeatInv, HeatShape
  <2> QED
    BY <1>2, <1>3, <1>4, <1>6, <2>1, <2>2 DEF HeatShape
<1>8. Remembered'
  <2>1. prev' # HeatMap!NoSample /\ prev'.bytes = reported'.bytes
    <3>1. prev'.time > 0 /\ prev'.bytes = sampler[r].bytes
      BY <1>2, <1>3
    <3> QED
      BY <1>6, <3>1 DEF HeatMap!NoSample
  <2>2. \A o \in Samplers : sampler'[o].life <= reported'.lives
    BY <1>3, <1>4, <1>6, IdleRequest DEF HeatInv, Remembered, Reports
  <2>3. reported'.life <= reported'.lives
    BY <1>6 DEF HeatInv, Remembered
  <2>4. reported'.life = reported'.lives => reported'.bytes <= bytes'
    BY <1>2, <1>6 DEF HeatInv, ReadsAreBelow
  <2> QED
    BY <2>1, <2>2, <2>3, <2>4 DEF Remembered
<1>9. AloneIsLater'
  <2> SUFFICES ASSUME NEW o \in Samplers, sampler'[o].at # "idle", sampler'[o].alone = "yes"
               PROVE  FALSE
    BY DEF AloneIsLater
  <2>1. o # r /\ sampler[o].at # "idle" /\ sampler[o].alone = "yes"
    BY <1>4, IdleRequest
  <2> QED
    BY <1>2, <2>1 DEF HeatInv, AloneIsLater
<1>10. ASSUME sampler[r].alone = "yes", sampler[r].life # 0, sampler[r].life = reported.life
       PROVE  reported'.counted = "yes" /\ reported'.amount = sampler[r].bytes - reported.bytes
  <2>1. /\ prev.time < sampler[r].time /\ reported.bytes <= sampler[r].bytes
        /\ prev # HeatMap!NoSample /\ prev.bytes = reported.bytes
    BY <1>2, <1>10 DEF HeatInv, AloneIsLater, Remembered
  <2>2. c = "yes"
    BY <2>1
  <2>3. n = sampler[r].bytes - reported.bytes
    <3>1. /\ sampler[r].bytes \in Nat /\ prev.bytes \in Nat
          /\ sampler[r].bytes < Width /\ prev.bytes <= sampler[r].bytes
      BY <1>1, <1>3, <2>1
    <3>2. (sampler[r].bytes + Width - prev.bytes) % Width = sampler[r].bytes - prev.bytes
      BY <1>1, <3>1, SmallDifference
    <3> QED
      BY <2>1, <3>2
  <2> QED
    BY <1>6, <2>2, <2>3
<1>11. ReadsAreBelow'
  BY <1>2, <1>4, <1>6, IdleRequest DEF HeatInv, ReadsAreBelow
<1>12. Unread'
  BY <1>4, IdleRequest DEF HeatInv, Unread
<1>13. HeatInv'
  BY <1>7, <1>8, <1>9, <1>11, <1>12 DEF HeatInv
<1> HIDE DEF sample, c, n
<1> QED
  BY <1>10, <1>13

\* The dataset is read, or starts anew.
LEMMA DatasetWorksStep ==
  ASSUME HeatInv, HeatMap!DatasetWorks
  PROVE  HeatInv'
<1>1. MaxBytes \in Nat
  BY AnalysisAssumption DEF HeatMap!IoHeatAssumption
<1>2. /\ UNCHANGED <<stamps, sampler, prev>> /\ bytes' \in 0..MaxBytes
      /\ \/ bytes' = bytes + 1 /\ UNCHANGED reported
         \/ /\ bytes' = 0 /\ reported.lives = 1
            /\ reported' = [reported EXCEPT !.lives = 2]
      /\ bytes \in Nat /\ reported \in Reports /\ sampler \in [Samplers -> Requests]
  BY <1>1 DEF HeatMap!DatasetWorks, HeatInv, HeatShape
<1>3. CASE bytes' = bytes + 1 /\ UNCHANGED reported
  <2>1. HeatShape' /\ AloneIsLater' /\ Unread'
    BY <1>2, <1>3 DEF HeatInv, HeatShape, AloneIsLater, Unread
  <2>2. Remembered'
    BY <1>2, <1>3 DEF HeatInv, Remembered, Reports, HeatMap!NoSample
  <2>3. ReadsAreBelow'
    BY <1>2, <1>3 DEF HeatInv, ReadsAreBelow, Requests
  <2> QED
    BY <2>1, <2>2, <2>3 DEF HeatInv
<1>4. CASE /\ bytes' = 0 /\ reported.lives = 1
           /\ reported' = [reported EXCEPT !.lives = 2]
  <2>1. /\ reported'.lives = 2 /\ reported'.bytes = reported.bytes
        /\ reported'.life = reported.life /\ reported' \in Reports
        /\ reported.life \in 0..2
    BY <1>2, <1>4 DEF Reports
  <2>2. HeatShape' /\ AloneIsLater' /\ Unread'
    BY <1>2, <2>1 DEF HeatInv, HeatShape, AloneIsLater, Unread
  <2>3. \A r \in Samplers : sampler[r].life \in 0..2 /\ sampler[r].life <= 1
    BY <1>2, <1>4 DEF HeatInv, Remembered, Requests
  <2>4. Remembered' /\ ReadsAreBelow'
    BY <1>2, <1>4, <2>1, <2>3 DEF HeatInv, Remembered, ReadsAreBelow, HeatMap!NoSample
  <2> QED
    BY <2>2, <2>4 DEF HeatInv
<1> QED
  BY <1>2, <1>3, <1>4

\* A request begins; the others are not alone any more.
LEMMA StampStep ==
  ASSUME HeatInv, NEW r \in Samplers, HeatMap!Stamp(r)
  PROVE  HeatInv'
<1> DEFINE a == IF \A d \in Samplers : sampler[d].at = "idle" THEN "yes" ELSE "no"
           q == [HeatMap!Idle EXCEPT !.at = "read", !.time = stamps + 1, !.alone = a]
<1>1. /\ stamps \in Nat /\ stamps' = stamps + 1 /\ sampler[r].at = "idle"
      /\ UNCHANGED <<bytes, prev, reported>>
      /\ prev.time \in 0..stamps /\ prev \in [bytes : 0..MaxBytes, time : 0..stamps]
      /\ bytes \in 0..MaxBytes /\ sampler \in [Samplers -> Requests] /\ MaxBytes \in Nat
  BY AnalysisAssumption DEF HeatMap!Stamp, HeatInv, HeatShape, HeatMap!IoHeatAssumption
<1>2. sampler' = [o \in Samplers |->
        IF o # r THEN [sampler[o] EXCEPT !.alone = "no"] ELSE q]
  BY DEF HeatMap!Stamp
<1>3. a \in {"yes", "no"} /\ (a = "yes" => \A d \in Samplers : sampler[d].at = "idle")
  OBVIOUS
<1>4. /\ q \in Requests /\ q.at = "read" /\ q.bytes = 0 /\ q.time = stamps + 1
      /\ q.alone = a /\ q.life = 0
  <2> DEFINE r1 == [HeatMap!Idle EXCEPT !.at = "read"]
             r2 == [r1 EXCEPT !.time = stamps + 1]
  <2> HIDE DEF a
  <2>1. r1 = [at |-> "read", bytes |-> 0, time |-> 0, alone |-> "no", life |-> 0]
    BY DEF HeatMap!Idle
  <2> HIDE DEF r1
  <2>2. r2 = [at |-> "read", bytes |-> 0, time |-> stamps + 1, alone |-> "no", life |-> 0]
    BY <2>1
  <2>3. q = [r2 EXCEPT !.alone = a]
    BY DEF r1
  <2> HIDE DEF r2, q
  <2>4. q = [at |-> "read", bytes |-> 0, time |-> stamps + 1, alone |-> a, life |-> 0]
    BY <2>2, <2>3
  <2>5. stamps + 1 \in Nat /\ 0 \in Nat /\ 0 \in 0..2
    BY <1>1
  <2> QED
    BY <1>3, <2>4, <2>5 DEF Requests
<1> HIDE DEF a, q
<1>5. sampler'[r] = q
  BY <1>2
<1>6. ASSUME NEW o \in Samplers, o # r
      PROVE  /\ sampler'[o] \in Requests /\ sampler'[o].at = sampler[o].at
             /\ sampler'[o].bytes = sampler[o].bytes /\ sampler'[o].time = sampler[o].time
             /\ sampler'[o].life = sampler[o].life /\ sampler'[o].alone = "no"
  <2>1. sampler'[o] = [sampler[o] EXCEPT !.alone = "no"] /\ sampler[o] \in Requests
    BY <1>1, <1>2, <1>6
  <2> QED
    BY <2>1 DEF Requests
<1>7. sampler' \in [Samplers -> Requests]
  <2>1. \A o \in Samplers : sampler'[o] \in Requests
    BY <1>4, <1>5, <1>6
  <2> QED
    BY <1>2, <2>1
<1>8. HeatShape'
  <2>1. prev' \in [bytes : 0..MaxBytes, time : 0..stamps']
    BY <1>1
  <2>2. ASSUME NEW o \in Samplers
        PROVE  /\ sampler'[o].bytes <= MaxBytes /\ sampler'[o].time <= stamps'
               /\ sampler'[o].at # "idle" => sampler'[o].time > 0
    <3>1. CASE o = r
      BY <1>1, <1>4, <1>5, <3>1
    <3>2. CASE o # r
      BY <1>1, <1>6, <3>2 DEF HeatInv, HeatShape, Requests
    <3> QED
      BY <3>1, <3>2
  <2> QED
    BY <1>1, <1>7, <2>1, <2>2 DEF HeatInv, HeatShape
<1>9. Remembered'
  <2>1. \A o \in Samplers : sampler'[o].life <= reported.lives
    BY <1>4, <1>5, <1>6 DEF HeatInv, HeatShape, Remembered, Reports
  <2> QED
    BY <1>1, <2>1 DEF HeatInv, Remembered, HeatMap!NoSample
<1>10. ReadsAreBelow'
  BY <1>1, <1>4, <1>5, <1>6 DEF HeatInv, ReadsAreBelow
<1>11. AloneIsLater'
  <2> SUFFICES ASSUME NEW o \in Samplers, sampler'[o].at # "idle", sampler'[o].alone = "yes"
               PROVE  /\ \A d \in Samplers : sampler'[d].at # "idle" => d = o
                      /\ prev'.time < sampler'[o].time
                      /\ sampler'[o].life = 0
    BY DEF AloneIsLater
  <2>1. o = r
    BY <1>6
  <2>2. a = "yes"
    BY <1>4, <1>5, <2>1
  <2>3. \A d \in Samplers : d # r => sampler'[d].at = "idle"
    BY <1>3, <1>6, <2>2
  <2> QED
    BY <1>1, <1>4, <1>5, <2>1, <2>3
<1>12. Unread'
  BY <1>4, <1>5, <1>6 DEF HeatInv, Unread
<1> QED
  BY <1>8, <1>9, <1>10, <1>11, <1>12 DEF HeatInv

\* A request reads the counter, or finds none, or answers something made up.
LEMMA ReadKstatsStep ==
  ASSUME HeatInv, NEW r \in Samplers,
         HeatMap!ReadDatasetKstats(r) \/ HeatMap!MockDatasetIOHeat(r)
  PROVE  HeatInv'
<1>1. /\ sampler[r].at = "read" /\ sampler[r] \in Requests
      /\ bytes \in 0..MaxBytes /\ MaxBytes \in Nat /\ reported.lives \in 1..2
      /\ sampler \in [Samplers -> Requests]
      /\ UNCHANGED <<bytes, prev, stamps, reported>>
  BY AnalysisAssumption
  DEF HeatMap!ReadDatasetKstats, HeatMap!MockDatasetIOHeat, HeatInv, HeatShape, Reports,
      HeatMap!IoHeatAssumption
<1>2. PICK q \in Requests :
        /\ sampler' = [sampler EXCEPT ![r] = q]
        /\ \/ q = HeatMap!Idle
           \/ /\ q.at = "report" /\ q.time = sampler[r].time /\ q.alone = sampler[r].alone
              /\ \/ q.bytes = bytes /\ q.life = reported.lives
                 \/ q.bytes = sampler[r].bytes /\ q.life = sampler[r].life
  <2>1. CASE HeatMap!MockDatasetIOHeat(r)
    BY <2>1, IdleRequest DEF HeatMap!MockDatasetIOHeat
  <2>2. CASE sampler' = [sampler EXCEPT ![r].at = "report", ![r].bytes = bytes,
                                        ![r].life = reported.lives]
    <3> DEFINE q == [sampler[r] EXCEPT !.at = "report", !.bytes = bytes,
                                       !.life = reported.lives]
    <3> DEFINE q1 == [sampler[r] EXCEPT !.at = "report"]
               q2 == [q1 EXCEPT !.bytes = bytes]
    <3>1. q \in Requests
      <4>1. q1 \in Requests
        BY <1>1 DEF Requests
      <4> HIDE DEF q1
      <4>2. q2 \in Requests
        BY <1>1, <4>1 DEF Requests
      <4> HIDE DEF q2
      <4>3. [q2 EXCEPT !.life = reported.lives] \in Requests
        BY <1>1, <4>2 DEF Requests
      <4> QED
        BY <4>3 DEF q1, q2
    <3>2. sampler' = [sampler EXCEPT ![r] = q]
      BY <2>2
    <3>3. /\ q.at = "report" /\ q.time = sampler[r].time /\ q.alone = sampler[r].alone
          /\ q.bytes = bytes /\ q.life = reported.lives
      BY <1>1 DEF Requests
    <3> QED
      BY <3>1, <3>2, <3>3
  <2>3. CASE sampler' = [sampler EXCEPT ![r].at = "report"]
    <3> DEFINE q == [sampler[r] EXCEPT !.at = "report"]
    <3>1. q \in Requests
      BY <1>1 DEF Requests
    <3>2. sampler' = [sampler EXCEPT ![r] = q]
      BY <2>3
    <3>3. /\ q.at = "report" /\ q.time = sampler[r].time /\ q.alone = sampler[r].alone
          /\ q.bytes = sampler[r].bytes /\ q.life = sampler[r].life
      BY <1>1 DEF Requests
    <3> QED
      BY <3>1, <3>2, <3>3
  <2> QED
    BY <2>1, <2>2, <2>3 DEF HeatMap!ReadDatasetKstats
<1>3. /\ sampler' \in [Samplers -> Requests] /\ sampler'[r] = q
      /\ \A o \in Samplers \ {r} : sampler'[o] = sampler[o]
  BY <1>2, OneSampler DEF HeatInv
<1>4. q.life <= reported.lives /\ q.bytes <= MaxBytes
  BY <1>1, <1>2, IdleRequest DEF HeatInv, HeatShape, Remembered
<1>5. q.life = reported.lives /\ q.at = "report" => q.bytes <= bytes
  <2>1. sampler[r].life = 0 /\ HeatMap!Idle.at # "report"
    BY <1>1, IdleRequest DEF HeatInv, Unread
  <2>2. reported.lives \in Int /\ bytes \in Int /\ reported.lives # 0
    BY <1>1
  <2> QED
    BY <1>2, <2>1, <2>2
<1>6. HeatShape'
  <2>1. \A o \in Samplers : /\ sampler'[o].bytes <= MaxBytes /\ sampler'[o].time <= stamps
                            /\ sampler'[o].at # "idle" => sampler'[o].time > 0
    BY <1>1, <1>2, <1>3, <1>4, IdleRequest DEF HeatInv, HeatShape
  <2> QED
    BY <1>1, <1>3, <2>1 DEF HeatInv, HeatShape
<1>7. Remembered'
  BY <1>1, <1>3, <1>4 DEF HeatInv, Remembered, HeatMap!NoSample
<1>8. ReadsAreBelow'
  BY <1>1, <1>3, <1>5, IdleRequest DEF HeatInv, ReadsAreBelow
<1>9. AloneIsLater'
  <2> SUFFICES ASSUME NEW o \in Samplers, sampler'[o].at # "idle", sampler'[o].alone = "yes"
               PROVE  /\ \A d \in Samplers : sampler'[d].at # "idle" => d = o
                      /\ prev'.time < sampler'[o].time
                      /\ sampler'[o].life # 0 /\ sampler'[o].life = reported'.life =>
                           reported'.bytes <= sampler'[o].bytes
    BY DEF AloneIsLater
  <2>1. CASE o # r
    BY <1>1, <1>3, <2>1 DEF HeatInv, AloneIsLater
  <2>2. CASE o = r
    <3>1. /\ q.at = "report" /\ q.time = sampler[r].time /\ q.alone = sampler[r].alone
          /\ \/ q.bytes = bytes /\ q.life = reported.lives
             \/ q.bytes = sampler[r].bytes /\ q.life = sampler[r].life
      BY <1>2, <1>3, <2>2, IdleRequest
    <3>2. /\ \A d \in Samplers : sampler[d].at # "idle" => d = r
          /\ prev.time < sampler[r].time
          /\ sampler[r].life # 0 /\ sampler[r].life = reported.life =>
               reported.bytes <= sampler[r].bytes
      BY <1>1, <1>3, <2>2, <3>1 DEF HeatInv, AloneIsLater
    <3>3. reported.life = reported.lives => reported.bytes <= bytes
      BY DEF HeatInv, Remembered
    <3> QED
      BY <1>1, <1>3, <2>2, <3>1, <3>2, <3>3
  <2> QED
    BY <2>1, <2>2
<1>10. Unread'
  BY <1>2, <1>3, IdleRequest DEF HeatInv, Unread
<1> QED
  BY <1>6, <1>7, <1>8, <1>9, <1>10 DEF HeatInv

\* Nothing is read yet.
LEMMA NothingRead ==
  ASSUME bytes = 0, stamps = 0, prev = HeatMap!NoSample, sampler = HeatMap!NoRequest,
         reported = HeatMap!NoReport
  PROVE  HeatInv
<1>1. MaxBytes \in Nat
  BY AnalysisAssumption DEF HeatMap!IoHeatAssumption
<1>2. /\ \A r \in Samplers : sampler[r] = HeatMap!Idle
      /\ sampler \in [Samplers -> Requests]
  BY IdleRequest DEF HeatMap!NoRequest
<1>3. /\ reported \in Reports /\ reported.life = 0 /\ reported.lives = 1
  BY DEF HeatMap!NoReport, Reports
<1>4. prev \in [bytes : 0..MaxBytes, time : 0..stamps]
  BY <1>1 DEF HeatMap!NoSample
<1> QED
  BY <1>1, <1>2, <1>3, <1>4, IdleRequest
  DEF HeatInv, HeatShape, Remembered, ReadsAreBelow, AloneIsLater, Unread

\* Every step of the requests, and what happens to the dataset.
LEMMA HeatStep ==
  ASSUME HeatInv, HeatMap!Next
  PROVE  HeatInv'
<1>1. CASE HeatMap!Restart
  <2>1. (/\ bytes = 0 /\ stamps = 0 /\ prev = HeatMap!NoSample
         /\ sampler = HeatMap!NoRequest /\ reported = HeatMap!NoReport)'
    BY <1>1 DEF HeatMap!Restart
  <2> QED
    BY <2>1, NothingRead, PTL
<1> QED
  BY <1>1, DatasetWorksStep, StampStep, ReadKstatsStep, ReportStep DEF HeatMap!Next

\* The heat map starts with nothing.
LEMMA HeatStarts == AnalysisInit => HeatInv
BY NothingRead DEF AnalysisInit, HeatMap!Init

\* For every width of the counters, every number of requests and every order of
\* their steps: a request that was alone reports exactly what was read since the
\* one before it, if both read the same life of the counter (dataset_io.go:49-62).
THEOREM LoneRequestsAreExact == AnalysisSpec => BytesAccounted
<1>1. AnalysisInit => HeatInv
  BY HeatStarts
<1>2. HeatInv /\ [AnalysisNext]_allVars => HeatInv'
  <2> SUFFICES ASSUME HeatInv, [AnalysisNext]_allVars
               PROVE  HeatInv'
    OBVIOUS
  <2>1. CASE HeatMap!Next
    BY <2>1, HeatStep
  <2>2. CASE UNCHANGED heatVars
    BY <2>2 DEF heatVars, HeatInv, HeatShape, Remembered, ReadsAreBelow, AloneIsLater,
                Unread, HeatMap!NoSample
  <2> QED
    BY <2>1, <2>2 DEF allVars, AnalysisNext, DeadLettersMove, IncidentsMove, HotspotsMove,
                      AnomaliesMove, HeatMoves, AnswersMove
<1>3. HeatInv /\ [AnalysisNext]_allVars =>
        [\A r \in Samplers :
           HeatMap!GetDatasetIOHeat(r) /\ sampler[r].alone = "yes"
             /\ sampler[r].life # 0 /\ sampler[r].life = reported.life =>
               /\ reported'.counted = "yes"
               /\ reported'.amount = sampler[r].bytes - reported.bytes]_HeatMap!heatVars
  BY ReportStep
<1> QED
  BY <1>1, <1>2, <1>3, PTL DEF AnalysisSpec, allVars, BytesAccounted, HeatMap!BytesAccounted
-----------------------------------------------------------------------------
\* The elements of s that are in S, of either of the two modules that look for them.
Keeping == INSTANCE FoldTheorems WITH
  Op <- LAMBDA S, t, e : IF e \in S THEN Append(t, e) ELSE t, Base <- <<>>
Kept(S, s) == Keeping!Fold(S, s)

\* It is what both of them mean.
LEMMA KeptByBoth ==
  ASSUME NEW s, NEW S
  PROVE  Correlator!Kept(s, S) = Kept(S, s) /\ Tracker!Kept(s, S) = Kept(S, s)
<1>1. Correlator!Kept(s, S) = Kept(S, s)
  BY DEF Correlator!Kept, Correlator!FoldLeft, Correlator!MapThenFoldSet, Correlator!Max,
         Kept, Keeping!Fold, Keeping!FoldLeft, Keeping!MapThenFoldSet, Keeping!Max
<1>2. Tracker!Kept(s, S) = Kept(S, s)
  BY DEF Tracker!Kept, Tracker!FoldLeft, Tracker!MapThenFoldSet, Tracker!Max,
         Kept, Keeping!Fold, Keeping!FoldLeft, Keeping!MapThenFoldSet, Keeping!Max
<1> QED
  BY <1>1, <1>2

\* An element that is appended is kept or not.
LEMMA KeptAppend ==
  ASSUME NEW S, NEW T, NEW s \in Seq(T), NEW x \in T
  PROVE  /\ Kept(S, <<>>) = <<>>
         /\ x \in S => Kept(S, Append(s, x)) = Append(Kept(S, s), x)
         /\ x \notin S => Kept(S, Append(s, x)) = Kept(S, s)
<1>1. Kept(S, <<>>) = <<>>
  BY Keeping!FoldEmpty DEF Kept
<1>2. Kept(S, Append(s, x)) = IF x \in S THEN Append(Kept(S, s), x) ELSE Kept(S, s)
  BY Keeping!FoldAppend DEF Kept
<1> QED
  BY <1>1, <1>2

\* What is kept are elements of the list that are in the set.
LEMMA KeptElements ==
  ASSUME NEW S, NEW T
  PROVE  \A s \in Seq(T) : Kept(S, s) \in Seq(T) /\ Kept(S, s) \in Seq(S)
<1> DEFINE A == {s \in Seq(T) : Kept(S, s) \in Seq(T) /\ Kept(S, s) \in Seq(S)}
<1>1. <<>> \in A
  <2>1. Kept(S, <<>>) = <<>>
    BY Keeping!FoldEmpty DEF Kept
  <2>2. <<>> \in Seq(T) /\ <<>> \in Seq(S)
    OBVIOUS
  <2> QED
    BY <2>1, <2>2
<1>2. ASSUME NEW s \in Seq(T), NEW x \in T, s \in A
      PROVE  Append(s, x) \in A
  <2>1. Append(s, x) \in Seq(T)
    BY AppendProperties
  <2>2. CASE x \in S
    <3>1. Kept(S, Append(s, x)) = Append(Kept(S, s), x)
      BY <2>2, KeptAppend
    <3>2. Kept(S, s) \in Seq(T) /\ Kept(S, s) \in Seq(S)
      BY <1>2
    <3> DEFINE k == Kept(S, s)
    <3> HIDE DEF k
    <3>3. Append(k, x) \in Seq(T) /\ Append(k, x) \in Seq(S)
      BY <2>2, <3>2, AppendProperties DEF k
    <3> QED
      BY <2>1, <3>1, <3>3 DEF k
  <2>3. CASE x \notin S
    <3>1. Kept(S, Append(s, x)) = Kept(S, s)
      BY <2>3, KeptAppend
    <3> QED
      BY <1>2, <2>1, <3>1
  <2> QED
    BY <2>2, <2>3
<1>3. Seq(T) \subseteq A
  <2> HIDE DEF A
  <2> QED
    BY <1>1, <1>2, Keeping!AllSequences
<1> QED
  BY <1>3

\* Two conditions, one after the other, are both of them.
LEMMA KeptTwice ==
  ASSUME NEW S, NEW R, NEW T
  PROVE  \A s \in Seq(T) : Kept(R, Kept(S, s)) = Kept(S \cap R, s)
<1> DEFINE A == {s \in Seq(T) : Kept(R, Kept(S, s)) = Kept(S \cap R, s)}
<1>1. <<>> \in A
  <2>1. \A Q : Kept(Q, <<>>) = <<>>
    BY Keeping!FoldEmpty DEF Kept
  <2> QED
    BY <2>1
<1>2. ASSUME NEW s \in Seq(T), NEW x \in T, s \in A
      PROVE  Append(s, x) \in A
  <2>1. Append(s, x) \in Seq(T) /\ Kept(S, s) \in Seq(T)
    BY AppendProperties, KeptElements
  <2>2. Kept(S \cap R, Append(s, x))
          = IF x \in S \cap R THEN Append(Kept(S \cap R, s), x) ELSE Kept(S \cap R, s)
    BY KeptAppend
  <2>3. CASE x \in S
    <3>1. Kept(S, Append(s, x)) = Append(Kept(S, s), x)
      BY <2>3, KeptAppend
    <3>2. Kept(R, Append(Kept(S, s), x))
            = IF x \in R THEN Append(Kept(R, Kept(S, s)), x) ELSE Kept(R, Kept(S, s))
      BY <2>1, KeptAppend
    <3> QED
      BY <1>2, <2>1, <2>2, <2>3, <3>1, <3>2
  <2>4. CASE x \notin S
    <3>1. Kept(S, Append(s, x)) = Kept(S, s)
      BY <2>4, KeptAppend
    <3> QED
      BY <1>2, <2>1, <2>2, <2>4, <3>1
  <2> QED
    BY <2>3, <2>4
<1>3. Seq(T) \subseteq A
  <2> HIDE DEF A
  <2> QED
    BY <1>1, <1>2, Keeping!AllSequences
<1> QED
  BY <1>3

-----------------------------------------------------------------------------
\* The posts of a pool, and of a pool since a time.
OfPool(p) == {e \in Correlator!Posts : e.pool = p}
Since(t) == {e \in Correlator!Posts : e.time + Related > t}

Incident == [events : Seq(Correlator!Posts), updated : Times \cup {0}, created : Times \cup {0},
             resolved : BOOLEAN]

\* A pool whose events warrant a cause has the incident.
ReportedAs(p, evs, cause) ==
  cause # "unknown" =>
    /\ incidents[<<p, cause>>] # Correlator!NoIncident
    /\ incidents[<<p, cause>>].events = evs
Reported(p) ==
  ReportedAs(p, Correlator!Evidence(p), Correlator!Classify(Correlator!Evidence(p)))

CorrelatorInv ==
  /\ Correlator!Typed
  /\ Len(posted) <= MaxBuffer =>
       /\ eventBuf = posted
       /\ \A p \in EventPools : Reported(p)

\* What the model keeps, in terms of Kept.
LEMMA KeptByCorrelator ==
  /\ \A evs, ev : Correlator!RelatedTo(evs, ev)
       = Kept({e \in Correlator!Posts : e.pool = ev.pool /\ e.time + Related > ev.time}, evs)
  /\ \A evs, type : Correlator!Count(evs, type)
       = Len(Kept({e \in Correlator!Posts : e.type = type}, evs))
BY KeptByBoth DEF Correlator!RelatedTo, Correlator!Count

\* No events have no cause, and other events one of the causes or none.
LEMMA CausesOf ==
  /\ Correlator!Classify(<<>>) = "unknown"
  /\ \A evs : Correlator!Classify(evs) # "unknown"
        => Correlator!Classify(evs) \in Correlator!Causes
<1>1. Correlator!Classify(<<>>) = "unknown"
  <2>1. \A type : Correlator!Count(<<>>, type) = 0
    <3>1. \A S : Kept(S, <<>>) = <<>>
      BY Keeping!FoldEmpty DEF Kept
    <3>2. Len(<<>>) = 0
      OBVIOUS
    <3> QED
      BY <3>1, <3>2, KeptByCorrelator
  <2>2. /\ AboveFaulted \in Nat /\ AboveSector \in Nat /\ AboveLatency \in Nat
        /\ AboveSpikes \in Nat
    BY AnalysisAssumption DEF Correlator!IncidentsAssumption
  <2> QED
    BY <2>1, <2>2 DEF Correlator!Classify
<1>2. \A evs : Correlator!Classify(evs) # "unknown"
          => Correlator!Classify(evs) \in Correlator!Causes
  BY DEF Correlator!Classify, Correlator!Causes
<1> QED
  BY <1>1, <1>2

\* The evidence is what is related to the last event of the pool.
LEMMA EvidenceOfLast ==
  ASSUME posted \in Seq(Correlator!Posts), NEW ev \in Correlator!Posts,
         posted' = Append(posted, ev), NEW p \in EventPools
  PROVE  /\ p # ev.pool => Correlator!Evidence(p)' = Correlator!Evidence(p)
         /\ p = ev.pool => Correlator!Evidence(p)' = Correlator!RelatedTo(posted', ev)
<1>1. /\ \A q : ev \in OfPool(q) <=> ev.pool = q
      /\ Kept(OfPool(p), posted) \in Seq(Correlator!Posts)
  BY KeptElements DEF OfPool
<1>2. /\ p = ev.pool => Kept(OfPool(p), posted') = Append(Kept(OfPool(p), posted), ev)
      /\ p # ev.pool => Kept(OfPool(p), posted') = Kept(OfPool(p), posted)
  BY <1>1, KeptAppend
<1>3. Correlator!Evidence(p) =
        LET of == Kept(OfPool(p), posted)
        IN IF of = <<>> THEN <<>> ELSE Kept(Since(Correlator!Last(of).time), of)
  BY KeptByBoth DEF Correlator!Evidence, OfPool, Since
<1>4. Correlator!Evidence(p)' =
        LET of == Kept(OfPool(p), posted')
        IN IF of = <<>> THEN <<>> ELSE Kept(Since(Correlator!Last(of).time), of)
  BY KeptByBoth DEF Correlator!Evidence, OfPool, Since
<1>5. CASE p # ev.pool
  BY <1>2, <1>3, <1>4, <1>5
<1>6. CASE p = ev.pool
  <2> DEFINE k == Kept(OfPool(p), posted)
             of == Append(k, ev)
  <2>1. k \in Seq(Correlator!Posts)
    BY <1>1
  <2> HIDE DEF k
  <2>2. of # <<>> /\ Len(of) = Len(k) + 1 /\ of[Len(k) + 1] = ev
    BY <2>1, AppendProperties
  <2>3. Correlator!Last(of) = ev
    BY <2>2 DEF Correlator!Last
  <2>4. Kept(OfPool(p), posted') = of
    BY <1>2, <1>6 DEF k
  <2>5. Correlator!Evidence(p)' = Kept(Since(ev.time), Kept(OfPool(p), posted'))
    BY <1>4, <2>2, <2>3, <2>4
  <2>6. posted' \in Seq(Correlator!Posts)
    BY AppendProperties
  <2>7. Correlator!Evidence(p)' = Kept(OfPool(p) \cap Since(ev.time), posted')
    <3>1. \A s \in Seq(Correlator!Posts) :
            Kept(Since(ev.time), Kept(OfPool(p), s)) = Kept(OfPool(p) \cap Since(ev.time), s)
      BY KeptTwice
    <3> QED
      BY <2>5, <2>6, <3>1
  <2>8. OfPool(p) \cap Since(ev.time)
          = {e \in Correlator!Posts : e.pool = ev.pool /\ e.time + Related > ev.time}
    BY <1>6 DEF OfPool, Since
  <2> QED
    BY <1>6, <2>7, <2>8, KeptByCorrelator
<1> QED
  BY <1>5, <1>6

\* What an event makes of the incidents: only the one of its pool and cause changes.
LEMMA IncidentsTyped ==
  ASSUME Correlator!Typed, NEW buf \in Seq(Correlator!Posts), NEW ev \in Correlator!Posts,
         NEW evs, evs = Correlator!RelatedTo(buf, ev),
         NEW cause, cause = Correlator!Classify(evs),
         incidents' = Correlator!Correlate(buf, ev)
  PROVE  /\ incidents' \in [EventPools \X Correlator!Causes -> Incident]
         /\ cause # "unknown" =>
              /\ incidents'[<<ev.pool, cause>>] # Correlator!NoIncident
              /\ incidents'[<<ev.pool, cause>>].events = evs
         /\ \A k \in EventPools \X Correlator!Causes :
              k # <<ev.pool, cause>> \/ cause = "unknown" => incidents'[k] = incidents[k]
<1>1. evs \in Seq(Correlator!Posts) /\ ev.time \in Times /\ ev.pool \in EventPools
  BY KeptByCorrelator, KeptElements DEF Correlator!Posts
<1>2. incidents \in [EventPools \X Correlator!Causes -> Incident]
  BY DEF Correlator!Typed, Incident
<1>3. CASE cause = "unknown"
  BY <1>2, <1>3 DEF Correlator!Correlate
<1>4. CASE cause # "unknown"
  <2> DEFINE old == incidents[<<ev.pool, cause>>]
             since == IF old = Correlator!NoIncident THEN ev.time ELSE old.created
             new == [events |-> evs, updated |-> ev.time, resolved |-> old.resolved,
                     created |-> since]
  <2>1. cause \in Correlator!Causes /\ evs # <<>>
    BY <1>4, CausesOf
  <2>2. incidents' = [incidents EXCEPT ![<<ev.pool, cause>>] = new]
    BY <1>4 DEF Correlator!Correlate
  <2>3. <<ev.pool, cause>> \in EventPools \X Correlator!Causes
    BY <1>1, <2>1
  <2>4. old \in Incident
    BY <1>2, <2>3
  <2>5. old.resolved \in BOOLEAN /\ old.created \in Times \cup {0}
    BY <2>4 DEF Incident
  <2> HIDE DEF old
  <2>6. since \in Times \cup {0} /\ ev.time \in Times \cup {0}
    BY <1>1, <2>5
  <2> HIDE DEF since
  <2>7. new \in Incident /\ new.events = evs
    BY <1>1, <2>5, <2>6 DEF Incident
  <2>8. new # Correlator!NoIncident
    BY <2>1, <2>7 DEF Correlator!NoIncident
  <2> HIDE DEF new
  <2>9. incidents' \in [EventPools \X Correlator!Causes -> Incident]
    BY <1>2, <2>2, <2>7
  <2>10. incidents'[<<ev.pool, cause>>] = new
    BY <1>2, <2>2, <2>3
  <2>11. \A k \in EventPools \X Correlator!Causes :
           k # <<ev.pool, cause>> => incidents'[k] = incidents[k]
    BY <1>2, <2>2
  <2> QED
    BY <1>4, <2>7, <2>8, <2>9, <2>10, <2>11
<1> QED
  BY <1>3, <1>4

\* The buffer keeps what was posted as long as it is not full.
LEMMA Buffered ==
  ASSUME Correlator!Typed, NEW ev \in Correlator!Posts
  PROVE  /\ Correlator!LastEvents(Append(eventBuf, ev)) \in Seq(Correlator!Posts)
         /\ Len(Correlator!LastEvents(Append(eventBuf, ev))) <= MaxBuffer
         /\ Len(eventBuf) < MaxBuffer =>
              Correlator!LastEvents(Append(eventBuf, ev)) = Append(eventBuf, ev)
<1> DEFINE a == Append(eventBuf, ev)
           n == Len(eventBuf)
<1>0. MaxBuffer \in Nat \ {0}
  BY AnalysisAssumption DEF Correlator!IncidentsAssumption
<1>1. eventBuf \in Seq(Correlator!Posts) /\ n \in Nat /\ n <= MaxBuffer
  BY DEF Correlator!Typed
<1>2. a \in Seq(Correlator!Posts) /\ Len(a) = n + 1
  BY <1>1, AppendProperties
<1> HIDE DEF a, n
<1>3. CASE n < MaxBuffer
  <2>1. Correlator!LastEvents(a) = a
    BY <1>0, <1>1, <1>2, <1>3 DEF Correlator!LastEvents
  <2> QED
    BY <1>0, <1>1, <1>2, <1>3, <2>1 DEF a, n
<1>4. CASE n = MaxBuffer
  <2>1. Correlator!LastEvents(a) = SubSeq(a, 2, MaxBuffer + 1)
    BY <1>0, <1>2, <1>4 DEF Correlator!LastEvents
  <2>2. \A i \in 2..(MaxBuffer + 1) : a[i] \in Correlator!Posts
    BY <1>0, <1>2, <1>4, ElementOfSeq
  <2>3. /\ SubSeq(a, 2, MaxBuffer + 1) \in Seq(Correlator!Posts)
        /\ Len(SubSeq(a, 2, MaxBuffer + 1)) = MaxBuffer
    <3>1. 2 \in Int /\ MaxBuffer + 1 \in Int
      BY <1>0
    <3> QED
      BY <1>0, <1>2, <1>4, <2>2, <3>1, SubSeqProperties
  <2> QED
    BY <1>0, <1>4, <2>1, <2>3 DEF a, n
<1> QED
  BY <1>0, <1>1, <1>3, <1>4

\* Before anything is posted there is nothing to report.
LEMMA NothingPosted ==
  /\ (eventBuf = <<>> /\ posted = <<>> /\ incidents = Correlator!None) => CorrelatorInv
  /\ (eventBuf' = <<>> /\ posted' = <<>> /\ incidents' = Correlator!None) => CorrelatorInv'
<1>1. /\ Len(<<>>) = 0 /\ <<>> \in Seq(Correlator!Posts) /\ MaxBuffer \in Nat
      /\ Correlator!NoIncident \in Incident
  BY AnalysisAssumption DEF Correlator!IncidentsAssumption, Correlator!NoIncident, Incident
<1>2. Correlator!None \in [EventPools \X Correlator!Causes -> Incident]
  BY <1>1 DEF Correlator!None
<1>3. \A S : Kept(S, <<>>) = <<>>
  BY Keeping!FoldEmpty DEF Kept
<1>4. \A p : posted = <<>> => Correlator!Evidence(p) = <<>>
  BY <1>3, KeptByBoth DEF Correlator!Evidence
<1>5. \A p : posted' = <<>> => Correlator!Evidence(p)' = <<>>
  BY <1>3, KeptByBoth DEF Correlator!Evidence
<1>6. (eventBuf = <<>> /\ posted = <<>> /\ incidents = Correlator!None) => CorrelatorInv
  BY <1>1, <1>2, <1>4, CausesOf DEF CorrelatorInv, Correlator!Typed, Incident, Reported, ReportedAs
<1>7. (eventBuf' = <<>> /\ posted' = <<>> /\ incidents' = Correlator!None) => CorrelatorInv'
  BY <1>1, <1>2, <1>5, CausesOf DEF CorrelatorInv, Correlator!Typed, Incident, Reported, ReportedAs
<1> QED
  BY <1>6, <1>7

\* An event leaves the other pools as they were, and reports its own.
LEMMA IngestStep ==
  ASSUME CorrelatorInv, Correlator!Ingest
  PROVE  CorrelatorInv'
<1>0. MaxBuffer \in Nat \ {0}
  BY AnalysisAssumption DEF Correlator!IncidentsAssumption
<1>1. PICK ev \in Correlator!Posts :
        /\ eventBuf' = Correlator!LastEvents(Append(eventBuf, ev))
        /\ incidents' = Correlator!Correlate(eventBuf', ev)
        /\ posted' = Append(posted, ev)
  BY DEF Correlator!Ingest
<1>2. /\ Correlator!Typed /\ posted \in Seq(Correlator!Posts)
      /\ incidents \in [EventPools \X Correlator!Causes -> Incident]
  BY DEF CorrelatorInv, Correlator!Typed, Incident
<1>3. /\ posted' \in Seq(Correlator!Posts) /\ Len(posted') = Len(posted) + 1
      /\ Len(posted) \in Nat
  BY <1>1, <1>2, AppendProperties
<1>4. eventBuf' \in Seq(Correlator!Posts) /\ Len(eventBuf') <= MaxBuffer
  BY <1>1, <1>2, Buffered
<1> DEFINE evs == Correlator!RelatedTo(eventBuf', ev)
           cause == Correlator!Classify(evs)
<1>5. /\ incidents' \in [EventPools \X Correlator!Causes -> Incident]
      /\ cause # "unknown" =>
           /\ incidents'[<<ev.pool, cause>>] # Correlator!NoIncident
           /\ incidents'[<<ev.pool, cause>>].events = evs
      /\ \A k \in EventPools \X Correlator!Causes :
           k # <<ev.pool, cause>> \/ cause = "unknown" => incidents'[k] = incidents[k]
  BY <1>1, <1>2, <1>4, IncidentsTyped
<1>6. Correlator!Typed'
  BY <1>3, <1>4, <1>5 DEF Correlator!Typed, Incident
<1>7. ASSUME Len(posted') <= MaxBuffer
      PROVE  eventBuf' = posted'
  <2>1. eventBuf = posted /\ Len(eventBuf) < MaxBuffer
    BY <1>0, <1>3, <1>7 DEF CorrelatorInv
  <2> QED
    BY <1>1, <1>2, <2>1, Buffered
<1>8. ASSUME Len(posted') <= MaxBuffer, NEW p \in EventPools
      PROVE  Reported(p)'
  <2>1. eventBuf' = posted'
    BY <1>7, <1>8
  <2>2. Reported(p)
    BY <1>0, <1>3, <1>8 DEF CorrelatorInv
  <2>3. CASE p = ev.pool
    <3>1. Correlator!Evidence(p)' = evs
      BY <1>1, <1>2, <2>1, <2>3, EvidenceOfLast
    <3> HIDE DEF evs
    <3> QED
      BY <1>5, <2>3, <3>1 DEF Reported, ReportedAs
  <2>4. CASE p # ev.pool
    <3>1. Correlator!Evidence(p)' = Correlator!Evidence(p)
      BY <1>1, <1>2, <2>4, EvidenceOfLast
    <3> DEFINE mine == Correlator!Classify(Correlator!Evidence(p))
    <3>2. mine # "unknown" => mine \in Correlator!Causes
      BY CausesOf
    <3>3. Reported(p)' = (mine # "unknown" =>
                            /\ incidents'[<<p, mine>>] # Correlator!NoIncident
                            /\ incidents'[<<p, mine>>].events = Correlator!Evidence(p))
      BY <3>1 DEF Reported, ReportedAs
    <3>4. mine # "unknown" =>
             /\ incidents[<<p, mine>>] # Correlator!NoIncident
             /\ incidents[<<p, mine>>].events = Correlator!Evidence(p)
      BY <2>2 DEF Reported, ReportedAs
    <3> HIDE DEF mine, cause
    <3>5. mine # "unknown" => incidents'[<<p, mine>>] = incidents[<<p, mine>>]
      <4>1. mine # "unknown" => <<p, mine>> \in EventPools \X Correlator!Causes
        BY <3>2
      <4>2. <<p, mine>> # <<ev.pool, cause>>
        BY <2>4
      <4> QED
        BY <1>5, <4>1, <4>2
    <3> QED
      BY <3>3, <3>4, <3>5
  <2> QED
    BY <2>3, <2>4
<1>9. Correlator!Typed' /\ (Len(posted') <= MaxBuffer =>
                              eventBuf' = posted' /\ \A p \in EventPools : Reported(p)')
  BY <1>6, <1>7, <1>8
<1> QED
  BY <1>9 DEF CorrelatorInv

\* Every step of the correlator.
LEMMA CorrelatorStep ==
  ASSUME CorrelatorInv, Correlator!Next
  PROVE  CorrelatorInv'
<1>1. CASE Correlator!Resolve
  <2>1. PICK p \in EventPools, c \in Correlator!Causes :
          /\ incidents[<<p, c>>] # Correlator!NoIncident
          /\ incidents' = [incidents EXCEPT ![<<p, c>>].resolved = TRUE]
    BY <1>1 DEF Correlator!Resolve
  <2> DEFINE old == incidents[<<p, c>>]
             new == [old EXCEPT !.resolved = TRUE]
  <2>2. incidents \in [EventPools \X Correlator!Causes -> Incident]
    BY DEF CorrelatorInv, Correlator!Typed, Incident
  <2>3. <<p, c>> \in EventPools \X Correlator!Causes
    OBVIOUS
  <2>4. old \in Incident
    BY <2>2, <2>3
  <2>5. new \in Incident /\ new.events = old.events
    BY <2>4 DEF Incident
  <2>6. incidents' = [incidents EXCEPT ![<<p, c>>] = new]
    BY <2>1
  <2>7. new # Correlator!NoIncident
    <3> HIDE DEF old
    <3>1. new.resolved = TRUE
      BY <2>4 DEF Incident
    <3>2. Correlator!NoIncident.resolved = FALSE
      BY DEF Correlator!NoIncident
    <3> HIDE DEF new
    <3>3. TRUE # FALSE
      OBVIOUS
    <3> QED
      BY <3>1, <3>2, <3>3, Zenon
  <2> HIDE DEF new
  <2>8. incidents' \in [EventPools \X Correlator!Causes -> Incident]
    BY <2>2, <2>5, <2>6
  <2>9. \A k \in EventPools \X Correlator!Causes :
          /\ incidents[k] # Correlator!NoIncident => incidents'[k] # Correlator!NoIncident
          /\ incidents'[k].events = incidents[k].events
    BY <2>2, <2>5, <2>6, <2>7
  <2>10. UNCHANGED <<eventBuf, posted>>
    BY <1>1 DEF Correlator!Resolve
  <2>11. Correlator!Typed'
    BY <2>8, <2>10 DEF CorrelatorInv, Correlator!Typed, Incident
  <2>12. ASSUME NEW q \in EventPools, Reported(q)
         PROVE  Reported(q)'
    <3> DEFINE mine == Correlator!Classify(Correlator!Evidence(q))
    <3>1. mine # "unknown" => <<q, mine>> \in EventPools \X Correlator!Causes
      BY CausesOf
    <3>2. Correlator!Evidence(q)' = Correlator!Evidence(q)
      BY <2>10 DEF Correlator!Evidence
    <3>3. Reported(q)' = (mine # "unknown" =>
                            /\ incidents'[<<q, mine>>] # Correlator!NoIncident
                            /\ incidents'[<<q, mine>>].events = Correlator!Evidence(q))
      BY <3>2 DEF Reported, ReportedAs
    <3>4. mine # "unknown" =>
             /\ incidents[<<q, mine>>] # Correlator!NoIncident
             /\ incidents[<<q, mine>>].events = Correlator!Evidence(q)
      BY <2>12 DEF Reported, ReportedAs
    <3> HIDE DEF mine
    <3> QED
      BY <2>9, <3>1, <3>3, <3>4
  <2> QED
    BY <2>10, <2>11, <2>12 DEF CorrelatorInv
<1>2. CASE Correlator!Restart
  <2>1. eventBuf' = <<>> /\ posted' = <<>> /\ incidents' = Correlator!None
    BY <1>2 DEF Correlator!Restart
  <2> QED
    BY <2>1, NothingPosted DEF CorrelatorInv
<1> QED
  BY <1>1, <1>2, IngestStep DEF Correlator!Next

\* A failure names every vdev that its evidence names.
LEMMA FailuresNameVdevs ==
  ASSUME NEW evs, NEW cause, Correlator!Severity(cause) = "failure",
         NEW i \in 1..Len(evs), evs[i].vdev # ""
  PROVE  <<"replace_vdev", evs[i].vdev>> \in Correlator!Actions(cause, evs)
<1>1. cause = "drive_failure"
  BY DEF Correlator!Severity
<1> QED
  BY <1>1 DEF Correlator!Actions, Correlator!UniqueVdevs

\* For every length of the buffer and every window, whatever the pools post in
\* between and in whatever order times come: as long as the buffer has not
\* overflowed, a pool whose events warrant a cause has its incident, with that
\* evidence and advice for every vdev it names (correlator.go:84-112).
THEOREM WarrantedIncidentsAreThere == AnalysisSpec => []NothingMissed
<1>1. AnalysisInit => CorrelatorInv
  BY NothingPosted DEF AnalysisInit, Correlator!Init
<1>2. CorrelatorInv /\ [AnalysisNext]_allVars => CorrelatorInv'
  <2> SUFFICES ASSUME CorrelatorInv, [AnalysisNext]_allVars
               PROVE  CorrelatorInv'
    OBVIOUS
  <2>1. CASE Correlator!Next
    BY <2>1, CorrelatorStep
  <2>2. CASE UNCHANGED incidentVars
    BY <2>2 DEF incidentVars, CorrelatorInv, Correlator!Typed, Reported, ReportedAs,
                Correlator!Evidence
  <2> QED
    BY <2>1, <2>2 DEF allVars, AnalysisNext, DeadLettersMove, IncidentsMove, HotspotsMove,
                      AnomaliesMove, HeatMoves, AnswersMove
<1>3. CorrelatorInv => NothingMissed
  <2> SUFFICES ASSUME CorrelatorInv, Len(posted) <= MaxBuffer, NEW p \in EventPools,
                      NEW evs, evs = Correlator!Evidence(p),
                      NEW cause, cause = Correlator!Classify(evs), cause # "unknown"
               PROVE  /\ <<p, cause>> \in Correlator!List
                      /\ incidents[<<p, cause>>].events = evs
                      /\ Correlator!Severity(cause) = "failure" =>
                           \A i \in 1..Len(evs) :
                             evs[i].vdev # "" =>
                               <<"replace_vdev", evs[i].vdev>> \in Correlator!Actions(cause, evs)
    BY DEF NothingMissed, Correlator!NothingMissed
  <2>1. /\ incidents[<<p, cause>>] # Correlator!NoIncident
        /\ incidents[<<p, cause>>].events = evs
    BY DEF CorrelatorInv, Reported, ReportedAs
  <2>2. <<p, cause>> \in DOMAIN incidents
    <3>1. cause \in Correlator!Causes
      BY CausesOf
    <3>2. DOMAIN incidents = EventPools \X Correlator!Causes
      BY DEF CorrelatorInv, Correlator!Typed
    <3> QED
      BY <3>1, <3>2
  <2> QED
    BY <2>1, <2>2, FailuresNameVdevs DEF Correlator!List
<1> QED
  BY <1>1, <1>2, <1>3, PTL DEF AnalysisSpec, allVars
-----------------------------------------------------------------------------
\* The sum of the counts of a list.
Counting == INSTANCE FoldTheorems WITH Op <- LAMBDA c, n, e : n + e.count, Base <- 0

\* A request, and what is known of the counting.
CollectRecord == [at : {"idle", "compare", "write", "append"}, cksum : 0..MaxErrors,
                  prev : 0..MaxErrors, delta : 0..MaxErrors, when : 0..MaxHours]
HistoryRecord == [happened : Nat, sum : Nat, highest : 0..MaxErrors, overlapped : BOOLEAN,
                  cleared : BOOLEAN, collects : Nat]

TrackerShape ==
  /\ hours \in 0..MaxHours /\ counter \in 0..MaxErrors /\ baseline \in 0..MaxErrors
  /\ collect \in [Collectors -> CollectRecord]
  /\ errors \in Seq(Tracker!ChecksumEvent)
  /\ history \in HistoryRecord

\* The baseline, and what a request has read of it, are values that were compared.
Compared ==
  /\ baseline <= history.highest
  /\ history.highest <= history.sum
  /\ \A c \in Collectors : collect[c].at = "write" => collect[c].prev <= history.highest

\* Without an overlap one request is under way.
OneCollect ==
  ~history.overlapped =>
    \A c, d \in Collectors : collect[c].at # "idle" /\ collect[d].at # "idle" => c = d

\* What a number is above another.
Over(a, b) == IF a > b THEN a - b ELSE 0

\* Without an overlap, what was counted and what is yet to be counted, the counter
\* staying as it is, are no more errors than happened.  A request under way counts
\* its reading, and the next one what was added to it.
NoneInvented ==
  ~history.overlapped =>
    /\ (\A c \in Collectors : collect[c].at \notin {"compare", "write"}) =>
         history.sum + Over(counter, baseline) <= history.happened
    /\ \A c \in Collectors :
         collect[c].at \in {"compare", "write"} =>
           /\ history.sum + Over(collect[c].cksum, baseline)
                + Over(counter, collect[c].cksum) <= history.happened
           /\ collect[c].at = "write" => collect[c].prev = baseline

TrackerInv == TrackerShape /\ Compared /\ OneCollect /\ NoneInvented

\* The lesser and the greater of two numbers.
LEMMA LesserGreater ==
  ASSUME NEW a \in Int, NEW b \in Int
  PROVE  /\ Tracker!Min({a, b}) = IF a <= b THEN a ELSE b
         /\ Tracker!Max({a, b}) = IF a >= b THEN a ELSE b
<1>1. /\ \E x \in {a, b} : \A y \in {a, b} : x >= y
      /\ \E x \in {a, b} : \A y \in {a, b} : x <= y
  OBVIOUS
<1>2. Tracker!Max({a, b}) \in {a, b} /\ \A y \in {a, b} : Tracker!Max({a, b}) >= y
  BY <1>1 DEF Tracker!Max
<1>3. Tracker!Min({a, b}) \in {a, b} /\ \A y \in {a, b} : Tracker!Min({a, b}) <= y
  BY <1>1 DEF Tracker!Min
<1> QED
  BY <1>2, <1>3

\* Errors are counted with numbers.
LEMMA WithinIsNumber ==
  ASSUME errors \in Seq(Tracker!ChecksumEvent)
  PROVE  \A age : Tracker!Within(age) \in Nat
<1> SUFFICES ASSUME NEW age
             PROVE  Tracker!Within(age) \in Nat
  OBVIOUS
<1> DEFINE recent == {e \in Tracker!ChecksumEvent : e.at + age >= hours}
           s == Kept(recent, errors)
<1>1. s \in Seq(Tracker!ChecksumEvent)
  BY KeptElements
<1>2. \A n \in Nat, e \in Tracker!ChecksumEvent : n + e.count \in Nat
  <2>1. \A e \in Tracker!ChecksumEvent : e.count \in 1..MaxErrors
    BY DEF Tracker!ChecksumEvent
  <2>2. \A n \in Nat, m \in 1..MaxErrors : n + m \in Nat
    BY AnalysisAssumption DEF Tracker!HotspotsAssumption
  <2> QED
    BY <2>1, <2>2
<1> HIDE DEF s
<1>3. Counting!Fold(0, s) \in Nat
  BY <1>1, <1>2, Counting!FoldStays
<1>4. Tracker!CountOf(s) = Counting!Fold(0, s)
  BY DEF Tracker!CountOf, Tracker!FoldLeft, Tracker!MapThenFoldSet, Tracker!Max,
         Counting!Fold, Counting!FoldLeft, Counting!MapThenFoldSet, Counting!Max
<1> QED
  BY <1>3, <1>4, KeptByBoth DEF Tracker!Within, s

\* A hotspot is not called healthy.
LEMMA HotspotsAreNotHealthy ==
  ASSUME errors \in Seq(Tracker!ChecksumEvent), Tracker!Severity # "none"
  PROVE  Tracker!Recommendation # "healthy"
<1>1. Tracker!Within(Hours24) \in Nat /\ Tracker!Within(MaxHours) \in Nat
  BY WithinIsNumber
<1>2. Tracker!Within(Hours24) >= 2
  BY <1>1 DEF Tracker!Severity
<1> DEFINE n == 5 * Tracker!Within(MaxHours) + 10 * Tracker!Within(Hours24)
<1>3. n \in Int /\ n >= 20
  BY <1>1, <1>2
<1>4. Tracker!Risk = IF 100 <= n THEN 100 ELSE n
  <2>1. Tracker!Risk = Tracker!Min({100, n})
    BY DEF Tracker!Risk
  <2> HIDE DEF n
  <2> QED
    BY <1>3, <2>1, LesserGreater
<1>5. Tracker!Risk \in Int /\ Tracker!Risk >= 20
  <2> HIDE DEF n
  <2> QED
    BY <1>3, <1>4
<1> DEFINE r == Tracker!Risk
<1>6. r >= 80 \/ (r \in 50..79 /\ ~(r >= 80)) \/ (r \in 20..49 /\ ~(r >= 80) /\ r \notin 50..79)
  <2> HIDE DEF r
  <2> QED
    BY <1>5 DEF r
<1>7. Tracker!Recommendation = CASE r >= 80 -> "replace_immediately"
                                 [] r \in 50..79 -> "schedule_replacement"
                                 [] r \in 20..49 -> "monitor_closely"
                                 [] OTHER -> "healthy"
  BY DEF Tracker!Recommendation
<1> HIDE DEF r
<1> QED
  BY <1>6, <1>7

\* A step of one request leaves the others alone.
LEMMA OneCollector ==
  ASSUME TrackerShape, NEW c \in Collectors, NEW q \in CollectRecord,
         collect' = [collect EXCEPT ![c] = q]
  PROVE  /\ collect' \in [Collectors -> CollectRecord]
         /\ collect'[c] = q
         /\ \A d \in Collectors \ {c} : collect'[d] = collect[d]
BY DEF TrackerShape

\* Errors and clearings of the counter, and time.
LEMMA VdevErrsStep ==
  ASSUME TrackerInv, Tracker!VdevErrs
  PROVE  TrackerInv'
<1>0. MaxErrors \in Nat /\ MaxHours \in Nat
  BY AnalysisAssumption DEF Tracker!HotspotsAssumption
<1>1. /\ UNCHANGED <<collect, baseline, errors>>
      /\ \/ /\ counter < MaxErrors /\ counter' = counter + 1 /\ UNCHANGED hours
            /\ history' = [history EXCEPT !.happened = history.happened + 1]
         \/ /\ counter' = 0 /\ history' = [history EXCEPT !.cleared = TRUE]
            /\ UNCHANGED hours
         \/ hours < MaxHours /\ hours' = hours + 1 /\ UNCHANGED <<counter, history>>
  BY DEF Tracker!VdevErrs
<1>2. /\ hours \in 0..MaxHours /\ counter \in 0..MaxErrors /\ history \in HistoryRecord
      /\ collect \in [Collectors -> CollectRecord] /\ baseline \in 0..MaxErrors
  BY DEF TrackerInv, TrackerShape
<1>3. /\ history.sum \in Nat /\ history.happened \in Nat
      /\ \A c \in Collectors : collect[c].cksum \in 0..MaxErrors
  BY <1>2 DEF HistoryRecord, CollectRecord
<1>4. CASE /\ counter < MaxErrors /\ counter' = counter + 1 /\ UNCHANGED hours
           /\ history' = [history EXCEPT !.happened = history.happened + 1]
  <2>1. /\ history'.happened = history.happened + 1 /\ history'.sum = history.sum
        /\ history'.highest = history.highest
        /\ history'.overlapped = history.overlapped
        /\ history' \in HistoryRecord
    BY <1>2, <1>3, <1>4 DEF HistoryRecord
  <2>2. TrackerShape' /\ Compared' /\ OneCollect'
    BY <1>0, <1>1, <1>4, <1>2, <2>1 DEF TrackerInv, TrackerShape, Compared, OneCollect
  <2>3. \A n \in 0..MaxErrors : /\ Over(counter', n) <= Over(counter, n) + 1
                               /\ Over(counter', n) \in Nat /\ Over(counter, n) \in Nat
    BY <1>0, <1>2, <1>4 DEF Over
  <2>4. \A m \in 0..MaxErrors : \A n \in 0..MaxErrors : Over(m, n) \in Nat
    BY <1>0 DEF Over
  <2>5. NoneInvented'
    BY <1>1, <1>2, <1>3, <2>1, <2>3, <2>4 DEF TrackerInv, NoneInvented
  <2> QED
    BY <2>2, <2>5 DEF TrackerInv
<1>5. CASE counter' = 0 /\ history' = [history EXCEPT !.cleared = TRUE] /\ UNCHANGED hours
  <2>1. /\ history'.happened = history.happened /\ history'.sum = history.sum
        /\ history'.highest = history.highest
        /\ history'.overlapped = history.overlapped
        /\ history' \in HistoryRecord
    BY <1>2, <1>5 DEF HistoryRecord
  <2>2. TrackerShape' /\ Compared' /\ OneCollect'
    BY <1>0, <1>1, <1>5, <2>1 DEF TrackerInv, TrackerShape, Compared, OneCollect
  <2>3. \A n \in 0..MaxErrors : /\ Over(counter', n) = 0
                               /\ Over(counter, n) \in Nat
    BY <1>0, <1>2, <1>5 DEF Over
  <2>4. \A m \in 0..MaxErrors : \A n \in 0..MaxErrors : Over(m, n) \in Nat
    BY <1>0 DEF Over
  <2>5. NoneInvented'
    BY <1>1, <1>2, <1>3, <2>1, <2>3, <2>4 DEF TrackerInv, NoneInvented
  <2> QED
    BY <2>2, <2>5 DEF TrackerInv
<1>6. CASE hours < MaxHours /\ hours' = hours + 1 /\ UNCHANGED <<counter, history>>
  BY <1>0, <1>1, <1>2, <1>6
  DEF TrackerInv, TrackerShape, Compared, OneCollect, NoneInvented
<1> QED
  BY <1>1, <1>4, <1>5, <1>6

\* A request reads the counter.
LEMMA ReadStatusStep ==
  ASSUME TrackerInv, NEW c \in Collectors, Tracker!ReadStatus(c)
  PROVE  TrackerInv'
<1> DEFINE k == Tracker!CksumErrors
           a == IF k = 0 THEN "append" ELSE "compare"
           q == [Tracker!NoCollect EXCEPT !.at = a, !.cksum = k, !.when = hours]
<1>0. MaxErrors \in Nat /\ MaxHours \in Nat
  BY AnalysisAssumption DEF Tracker!HotspotsAssumption
<1>1. /\ hours \in 0..MaxHours /\ counter \in 0..MaxErrors /\ history \in HistoryRecord
      /\ baseline \in 0..MaxErrors
  BY DEF TrackerInv, TrackerShape
<1>2. k \in 0..MaxErrors /\ (k # 0 => k = counter)
  BY <1>0, <1>1 DEF Tracker!CksumErrors
<1>3. a \in {"append", "compare"} /\ (a = "compare" => k # 0)
  OBVIOUS
<1>4. q \in CollectRecord /\ q.cksum = k /\ q.at = a
  <2>3. 0 \in 0..MaxErrors /\ a \in {"idle", "compare", "write", "append"}
    BY <1>0, <1>3
  <2> HIDE DEF a, k
  <2>6. q = [at |-> a, cksum |-> k, prev |-> 0, delta |-> 0, when |-> hours]
    <3> DEFINE r1 == [Tracker!NoCollect EXCEPT !.at = a]
               r2 == [r1 EXCEPT !.cksum = k]
    <3>1. r1 = [at |-> a, cksum |-> 0, prev |-> 0, delta |-> 0, when |-> 0]
      BY DEF Tracker!NoCollect
    <3> HIDE DEF r1
    <3>2. r2 = [at |-> a, cksum |-> k, prev |-> 0, delta |-> 0, when |-> 0]
      BY <3>1
    <3>3. q = [r2 EXCEPT !.when = hours]
      BY DEF r1
    <3> HIDE DEF r2, q
    <3> QED
      BY <3>2, <3>3
  <2> HIDE DEF q
  <2>4. q.cksum = k /\ q.at = a
    BY <2>6
  <2>5. q \in CollectRecord
    BY <1>1, <1>2, <2>3, <2>6 DEF CollectRecord
  <2> QED
    BY <2>4, <2>5
<1>5. /\ collect' = [collect EXCEPT ![c] = q] /\ collect[c].at = "idle"
      /\ UNCHANGED <<hours, counter, baseline, errors>>
  BY DEF Tracker!ReadStatus
<1>6. /\ history'.sum = history.sum /\ history'.highest = history.highest
      /\ history'.happened = history.happened
      /\ history' \in HistoryRecord
      /\ ~history'.overlapped =>
           ~history.overlapped /\ \A d \in Collectors : collect[d].at = "idle"
  <2> DEFINE o == history.overlapped \/ \E d \in Collectors : collect[d].at # "idle"
             n == history.collects + 1
  <2>1. history' = [history EXCEPT !.collects = n, !.overlapped = o]
    BY DEF Tracker!ReadStatus
  <2>2. o \in BOOLEAN /\ n \in Nat
    BY <1>1 DEF HistoryRecord
  <2>3. ~o => ~history.overlapped /\ \A d \in Collectors : collect[d].at = "idle"
    OBVIOUS
  <2> HIDE DEF o, n
  <2>4. /\ history'.sum = history.sum /\ history'.highest = history.highest
        /\ history'.happened = history.happened /\ history'.overlapped = o
        /\ history' \in HistoryRecord
    BY <1>1, <2>1, <2>2 DEF HistoryRecord
  <2>5. ~history'.overlapped => ~o
    BY <2>4, Zenon
  <2> QED
    BY <2>3, <2>4, <2>5
<1> HIDE DEF q, a, k
<1>7. /\ collect' \in [Collectors -> CollectRecord]
      /\ collect'[c] = q
      /\ \A d \in Collectors \ {c} : collect'[d] = collect[d]
  BY <1>4, <1>5, OneCollector DEF TrackerInv
<1>8. TrackerShape'
  BY <1>5, <1>6, <1>7 DEF TrackerInv, TrackerShape
<1>9. Compared'
  BY <1>4, <1>5, <1>6, <1>7, <1>3 DEF TrackerInv, Compared
<1>10. OneCollect'
  BY <1>6, <1>7 DEF OneCollect
<1>11. NoneInvented'
  <2> SUFFICES ASSUME ~history'.overlapped
               PROVE  NoneInvented'
    BY DEF NoneInvented
  <2>1. /\ history.sum + Over(counter, baseline) <= history.happened
        /\ \A d \in Collectors \ {c} : collect'[d].at = "idle"
    BY <1>6, <1>7 DEF TrackerInv, NoneInvented
  <2>2. /\ baseline' = baseline /\ counter' = counter
        /\ history'.sum = history.sum /\ history'.happened = history.happened
        /\ history.sum \in Nat /\ Over(counter, baseline) \in Nat
        /\ Over(counter, counter) = 0
    BY <1>0, <1>1, <1>5, <1>6 DEF Over, HistoryRecord
  <2>3. q.at = "compare" => k = counter
    BY <1>4, <1>3, <1>2
  <2> QED
    BY <1>4, <1>7, <1>3, <2>1, <2>2, <2>3 DEF NoneInvented
<1> QED
  BY <1>8, <1>9, <1>10, <1>11 DEF TrackerInv

\* It reads the baseline.
LEMMA ReadBaselineStep ==
  ASSUME TrackerInv, NEW c \in Collectors, Tracker!ReadBaseline(c)
  PROVE  TrackerInv'
<1> DEFINE q == [collect[c] EXCEPT !.at = "write", !.prev = baseline]
<1>1. /\ baseline \in 0..MaxErrors /\ collect \in [Collectors -> CollectRecord]
      /\ collect[c] \in CollectRecord
  BY DEF TrackerInv, TrackerShape
<1>2. q \in CollectRecord /\ q.cksum = collect[c].cksum /\ q.at = "write" /\ q.prev = baseline
  BY <1>1 DEF CollectRecord
<1>3. /\ collect' = [collect EXCEPT ![c] = q] /\ collect[c].at = "compare"
      /\ UNCHANGED <<hours, counter, baseline, errors, history>>
  BY <1>1 DEF Tracker!ReadBaseline
<1> HIDE DEF q
<1>4. /\ collect' \in [Collectors -> CollectRecord]
      /\ collect'[c] = q
      /\ \A d \in Collectors \ {c} : collect'[d] = collect[d]
  BY <1>2, <1>3, OneCollector DEF TrackerInv
<1>5. TrackerShape'
  BY <1>3, <1>4 DEF TrackerInv, TrackerShape
<1>6. Compared' /\ OneCollect'
  BY <1>2, <1>3, <1>4 DEF TrackerInv, Compared, OneCollect
<1>7. NoneInvented'
  <2> SUFFICES ASSUME ~history.overlapped
               PROVE  NoneInvented'
    BY <1>3 DEF NoneInvented
  <2>1. \A d \in Collectors \ {c} : collect'[d].at = "idle"
    BY <1>3, <1>4 DEF TrackerInv, OneCollect
  <2>2. history.sum + Over(q.cksum, baseline) + Over(counter, q.cksum) <= history.happened
    BY <1>2, <1>3 DEF TrackerInv, NoneInvented
  <2> QED
    BY <1>2, <1>3, <1>4, <2>1, <2>2 DEF NoneInvented
<1> QED
  BY <1>5, <1>6, <1>7 DEF TrackerInv

\* It writes the baseline, and the difference to the one it read is counted.
LEMMA WriteBaselineStep ==
  ASSUME TrackerInv, NEW c \in Collectors, Tracker!WriteBaseline(c)
  PROVE  TrackerInv'
<1> DEFINE k == collect[c].cksum
           p == collect[c].prev
           d == IF k > p THEN k - p ELSE 0
           q == [collect[c] EXCEPT !.at = "append", !.delta = d]
           sum == history.sum + d
           highest == IF history.highest >= k THEN history.highest ELSE k
<1>0. MaxErrors \in Nat
  BY AnalysisAssumption DEF Tracker!HotspotsAssumption
<1>1. /\ baseline \in 0..MaxErrors /\ collect \in [Collectors -> CollectRecord]
      /\ collect[c] \in CollectRecord /\ history \in HistoryRecord /\ counter \in 0..MaxErrors
  BY DEF TrackerInv, TrackerShape
<1>2. /\ k \in 0..MaxErrors /\ p \in 0..MaxErrors
      /\ history.sum \in Nat /\ history.highest \in 0..MaxErrors
      /\ history.happened \in Nat
  BY <1>1 DEF CollectRecord, HistoryRecord
<1>3. d \in 0..MaxErrors
  BY <1>0, <1>2
<1>4. q \in CollectRecord /\ q.at = "append"
  <2> HIDE DEF d
  <2> QED
    BY <1>1, <1>3 DEF CollectRecord
<1>5. /\ collect' = [collect EXCEPT ![c] = q] /\ collect[c].at = "write"
      /\ baseline' = k
      /\ UNCHANGED <<hours, counter, errors>>
  BY <1>1 DEF Tracker!WriteBaseline, Tracker!Delta
<1>6. history' = [history EXCEPT !.sum = sum, !.highest = highest]
  <2>1. history' = [history EXCEPT !.sum = sum,
                                   !.highest = Tracker!Max({history.highest, k})]
    BY DEF Tracker!WriteBaseline, Tracker!Delta
  <2>2. Tracker!Max({history.highest, k}) = highest
    <3>1. history.highest \in Int /\ k \in Int
      BY <1>2
    <3> QED
      BY <3>1, LesserGreater
  <2> QED
    BY <2>1, <2>2
<1>7. sum \in Nat /\ highest \in 0..MaxErrors
  <2>1. sum \in Nat
    <3> HIDE DEF d
    <3> QED
      BY <1>0, <1>2, <1>3
  <2>2. highest \in 0..MaxErrors
    BY <1>2
  <2> QED
    BY <2>1, <2>2
<1> HIDE DEF q, sum, highest
<1>8. /\ collect' \in [Collectors -> CollectRecord]
      /\ collect'[c] = q
      /\ \A o \in Collectors \ {c} : collect'[o] = collect[o]
  BY <1>4, <1>5, OneCollector DEF TrackerInv
<1>9. /\ history'.sum = sum /\ history'.highest = highest
      /\ history'.overlapped = history.overlapped
      /\ history'.happened = history.happened
      /\ history' \in HistoryRecord
  BY <1>1, <1>6, <1>7 DEF HistoryRecord
<1>10. TrackerShape'
  BY <1>2, <1>5, <1>8, <1>9 DEF TrackerInv, TrackerShape
<1>11. Compared'
  <2>1. p <= history.highest /\ history.highest <= history.sum
    BY <1>5 DEF TrackerInv, Compared
  <2>2. k <= highest /\ history.highest <= highest /\ highest <= sum
    BY <1>0, <1>2, <2>1 DEF sum, highest
  <2>3. \A o \in Collectors \ {c} : collect[o].prev \in 0..MaxErrors
    BY <1>1 DEF CollectRecord
  <2>4. baseline' <= history'.highest /\ history'.highest <= history'.sum
    BY <1>5, <1>9, <2>2
  <2>5. ASSUME NEW o \in Collectors, collect'[o].at = "write"
        PROVE  collect'[o].prev <= history'.highest
    <3>1. o # c /\ collect'[o] = collect[o]
      BY <1>4, <1>8, <2>5
    <3>2. collect[o].prev <= history.highest
      BY <2>5, <3>1 DEF TrackerInv, Compared
    <3> QED
      BY <1>2, <1>7, <1>9, <2>2, <2>3, <3>1, <3>2
  <2> QED
    BY <2>4, <2>5 DEF Compared
<1>12. OneCollect'
  <2>1. collect[c].at # "idle"
    BY <1>5
  <2> QED
    BY <1>8, <1>9, <2>1 DEF TrackerInv, OneCollect
<1>13. NoneInvented'
  <2> SUFFICES ASSUME ~history'.overlapped
               PROVE  NoneInvented'
    BY DEF NoneInvented
  <2>1. /\ history.sum + Over(k, baseline) + Over(counter, k) <= history.happened
        /\ p = baseline
        /\ \A o \in Collectors \ {c} : collect[o].at = "idle"
    BY <1>5, <1>9 DEF TrackerInv, NoneInvented, OneCollect
  <2>2. d = Over(k, baseline)
    BY <2>1 DEF Over
  <2>3. history'.sum + Over(counter', baseline') <= history'.happened
    <3>1. /\ history'.sum = history.sum + Over(k, baseline) /\ counter' = counter
          /\ baseline' = k /\ history'.happened = history.happened
      BY <1>5, <1>9, <2>2 DEF sum
    <3> QED
      BY <2>1, <3>1
  <2> QED
    BY <1>4, <1>8, <2>1, <2>3 DEF NoneInvented
<1> QED
  BY <1>10, <1>11, <1>12, <1>13 DEF TrackerInv

\* Its event is appended, and old ones are dropped.
LEMMA AppendEventsStep ==
  ASSUME TrackerInv, NEW c \in Collectors, Tracker!AppendEvents(c)
  PROVE  TrackerInv'
<1>0. MaxErrors \in Nat /\ MaxHours \in Nat
  BY AnalysisAssumption DEF Tracker!HotspotsAssumption
<1> DEFINE new == [count |-> collect[c].delta, at |-> collect[c].when]
           all == IF collect[c].delta > 0 THEN Append(errors, new) ELSE errors
           young == {e \in Tracker!ChecksumEvent : e.at + MaxAge > hours}
<1>1. /\ collect[c].at = "append" /\ collect' = [collect EXCEPT ![c] = Tracker!NoCollect]
      /\ errors' = Kept(young, all)
      /\ UNCHANGED <<hours, counter, baseline, history>>
  <2>1. errors' = Tracker!Kept(all, young)
    BY DEF Tracker!AppendEvents
  <2> QED
    BY <2>1, KeptByBoth DEF Tracker!AppendEvents
<1>2. /\ errors \in Seq(Tracker!ChecksumEvent) /\ collect[c] \in CollectRecord
      /\ Tracker!NoCollect \in CollectRecord
  BY <1>0 DEF TrackerInv, TrackerShape, CollectRecord, Tracker!NoCollect
<1>3. collect[c].delta \in 0..MaxErrors /\ collect[c].when \in 0..MaxHours
  BY <1>2 DEF CollectRecord
<1>4. collect[c].delta > 0 => new \in Tracker!ChecksumEvent
  BY <1>0, <1>3 DEF Tracker!ChecksumEvent
<1> HIDE DEF new
<1>5. all \in Seq(Tracker!ChecksumEvent)
  BY <1>2, <1>4, AppendProperties
<1> HIDE DEF all, young
<1>6. errors' \in Seq(Tracker!ChecksumEvent)
  BY <1>1, <1>5, KeptElements
<1>7. /\ collect' \in [Collectors -> CollectRecord]
      /\ collect'[c] = Tracker!NoCollect
      /\ \A d \in Collectors \ {c} : collect'[d] = collect[d]
  BY <1>1, <1>2, OneCollector DEF TrackerInv
<1>8. Tracker!NoCollect.at = "idle"
  BY DEF Tracker!NoCollect
<1>9. TrackerShape'
  BY <1>1, <1>6, <1>7 DEF TrackerInv, TrackerShape
<1>10. Compared' /\ OneCollect'
  BY <1>1, <1>7, <1>8 DEF TrackerInv, Compared, OneCollect
<1>11. NoneInvented'
  <2> SUFFICES ASSUME ~history.overlapped
               PROVE  NoneInvented'
    BY <1>1 DEF NoneInvented
  <2>1. \A d \in Collectors : collect[d].at \notin {"compare", "write"}
    BY <1>1 DEF TrackerInv, OneCollect
  <2>2. \A d \in Collectors : collect'[d].at \notin {"compare", "write"}
    BY <1>7, <1>8, <2>1
  <2> QED
    BY <1>1, <2>1, <2>2 DEF TrackerInv, NoneInvented
<1> QED
  BY <1>9, <1>10, <1>11 DEF TrackerInv

\* A history of which nothing has been compared.
LEMMA FreshHistory ==
  ASSUME NEW n \in Nat, MaxErrors \in Nat, NEW no \in BOOLEAN, NEW h,
         h = [happened |-> n, sum |-> 0, highest |-> 0, overlapped |-> no, cleared |-> no,
              collects |-> 0]
  PROVE  h \in HistoryRecord /\ h.sum = 0 /\ h.highest = 0 /\ h.happened = n
BY DEF HistoryRecord

\* Nothing is counted yet.
LEMMA NothingCounted ==
  ASSUME hours \in 0..MaxHours, counter \in 0..MaxErrors, baseline = 0, errors = <<>>,
         collect = Tracker!NoCollects,
         history = [Tracker!NoHistory EXCEPT !.happened = counter]
  PROVE  TrackerInv
<1>0. MaxErrors \in Nat /\ MaxHours \in Nat
  BY AnalysisAssumption DEF Tracker!HotspotsAssumption
<1>1. /\ collect \in [Collectors -> CollectRecord]
      /\ \A c \in Collectors : collect[c].at = "idle"
  BY <1>0 DEF Tracker!NoCollects, Tracker!NoCollect, CollectRecord
<1>2. /\ history \in HistoryRecord /\ history.sum = 0 /\ history.highest = 0
      /\ history.happened = counter
  <2>1. PICK b \in BOOLEAN : b = FALSE
    OBVIOUS
  <2>2. history = [happened |-> counter, sum |-> 0, highest |-> 0, overlapped |-> b,
                   cleared |-> b, collects |-> 0]
    BY <2>1 DEF Tracker!NoHistory
  <2>3. counter \in Nat /\ 0 \in 0..MaxErrors
    BY <1>0
  <2> QED
    BY <1>0, <2>1, <2>2, <2>3, FreshHistory
<1>3. Over(counter, 0) = counter
  BY <1>0 DEF Over
<1>4. TrackerShape /\ Compared /\ OneCollect
  BY <1>0, <1>1, <1>2 DEF TrackerShape, Compared, OneCollect
<1>5. NoneInvented
  BY <1>0, <1>1, <1>2, <1>3 DEF NoneInvented
<1> QED
  BY <1>4, <1>5 DEF TrackerInv

\* The tracker starts with nothing.
LEMMA TrackerStarts == AnalysisInit => TrackerInv
<1> SUFFICES ASSUME AnalysisInit
             PROVE  TrackerInv
  OBVIOUS
<1>1. MaxErrors \in Nat /\ MaxHours \in Nat
  BY AnalysisAssumption DEF Tracker!HotspotsAssumption
<1>2. /\ hours = 0 /\ counter = 0 /\ baseline = 0 /\ errors = <<>>
      /\ collect = Tracker!NoCollects
      /\ history = [Tracker!NoHistory EXCEPT !.happened = counter]
  <2>1. /\ hours = 0 /\ counter = 0 /\ baseline = 0 /\ errors = <<>>
        /\ collect = Tracker!NoCollects /\ history = Tracker!NoHistory
    BY DEF AnalysisInit, Tracker!Init
  <2>2. Tracker!NoHistory = [Tracker!NoHistory EXCEPT !.happened = 0]
    BY DEF Tracker!NoHistory
  <2> QED
    BY <2>1, <2>2
<1>3. hours \in 0..MaxHours /\ counter \in 0..MaxErrors
  BY <1>1, <1>2
<1> QED
  BY <1>2, <1>3, NothingCounted

\* Every step of the tracker.
LEMMA TrackerStep ==
  ASSUME TrackerInv, Tracker!Next
  PROVE  TrackerInv'
<1>1. CASE Tracker!Restart
  <2>1. (/\ hours \in 0..MaxHours /\ counter \in 0..MaxErrors /\ baseline = 0 /\ errors = <<>>
         /\ collect = Tracker!NoCollects
         /\ history = [Tracker!NoHistory EXCEPT !.happened = counter])'
    BY <1>1 DEF Tracker!Restart, TrackerInv, TrackerShape
  <2> QED
    BY <2>1, NothingCounted, PTL
<1> QED
  BY <1>1, VdevErrsStep, ReadStatusStep, ReadBaselineStep, WriteBaselineStep, AppendEventsStep
  DEF Tracker!Next

\* For every number of requests, every bound of the counter, every limit of what
\* is printed in digits and every age: however collections overlap, no new high of
\* the counter that was compared is lost; unless they overlap no more errors are
\* counted than happened; a hotspot is never called healthy (hotspot.go:104-113,
\* 136-140, 174-181).
THEOREM IncreasesAreCounted == AnalysisSpec => []IncreasesCounted
<1>1. AnalysisInit => TrackerInv
  BY TrackerStarts
<1>2. TrackerInv /\ [AnalysisNext]_allVars => TrackerInv'
  <2> SUFFICES ASSUME TrackerInv, [AnalysisNext]_allVars
               PROVE  TrackerInv'
    OBVIOUS
  <2>1. CASE Tracker!Next
    BY <2>1, TrackerStep
  <2>2. CASE UNCHANGED hotspotVars
    BY <2>2 DEF hotspotVars, TrackerInv, TrackerShape, Compared, OneCollect, NoneInvented
  <2> QED
    BY <2>1, <2>2 DEF allVars, AnalysisNext, DeadLettersMove, IncidentsMove, HotspotsMove,
                      AnomaliesMove, HeatMoves, AnswersMove
<1>3. TrackerInv => IncreasesCounted
  <2> SUFFICES ASSUME TrackerInv
               PROVE  IncreasesCounted
    OBVIOUS
  <2>1. history.sum >= history.highest
    BY DEF TrackerInv, TrackerShape, HistoryRecord, Compared
  <2>2. ~history.overlapped => history.sum <= history.happened
    <3>1. /\ history.sum \in Nat /\ history.happened \in Nat
          /\ \A m \in 0..MaxErrors : \A n \in 0..MaxErrors : Over(m, n) \in Nat
      BY AnalysisAssumption
      DEF TrackerInv, TrackerShape, HistoryRecord, Over, Tracker!HotspotsAssumption
    <3>2. /\ counter \in 0..MaxErrors /\ baseline \in 0..MaxErrors
          /\ \A c \in Collectors : collect[c].cksum \in 0..MaxErrors
      BY DEF TrackerInv, TrackerShape, CollectRecord
    <3> QED
      BY <3>1, <3>2 DEF TrackerInv, NoneInvented
  <2>3. Tracker!Severity # "none" => Tracker!Recommendation # "healthy"
    BY HotspotsAreNotHealthy DEF TrackerInv, TrackerShape
  <2> QED
    BY <2>1, <2>2, <2>3 DEF IncreasesCounted, Tracker!IncreasesCounted
<1> QED
  BY <1>1, <1>2, <1>3, PTL DEF AnalysisSpec, allVars
-----------------------------------------------------------------------------
\* What is known of an output that is parsed.
LEMMA RowsOfOutput ==
  ASSUME NEW o \in Parsers!Outputs
  PROVE  /\ DOMAIN o.rows = Disks \cup {"pool"}
         /\ o.scan \in Parsers!Scans
         /\ "pool" \in Parsers!Rows(o)
         /\ Parsers!Rows(o) \subseteq DOMAIN o.rows
         /\ \A d \in DOMAIN o.rows :
              d \in Parsers!Rows(o) <=> o.rows[d].state # "AVAIL"
         /\ \A d \in Parsers!Rows(o) :
              /\ o.rows[d] \in Parsers!Row /\ o.rows[d].state \in Parsers!States
              /\ o.rows[d].read \in Nat /\ o.rows[d].write \in Nat /\ o.rows[d].cksum \in Nat
<1> DEFINE Shapes == [scan : Parsers!Scans,
                      rows : [Disks \cup {"pool"} -> Parsers!Row \cup {[state |-> "AVAIL"]}]]
<1>1. o \in Shapes /\ o.rows["pool"].state # "AVAIL"
  BY DEF Parsers!Outputs
<1>2. /\ o.scan \in Parsers!Scans
      /\ o.rows \in [Disks \cup {"pool"} -> Parsers!Row \cup {[state |-> "AVAIL"]}]
  BY <1>1
<1>3. \A d \in Disks \cup {"pool"} :
        o.rows[d].state # "AVAIL" => o.rows[d] \in Parsers!Row
  BY <1>2
<1>4. \A w \in Parsers!Row : /\ w.state \in Parsers!States
                             /\ w.read \in Nat /\ w.write \in Nat /\ w.cksum \in Nat
  BY AnalysisAssumption DEF Parsers!ParsersAssumption, Parsers!Row
<1> QED
  BY <1>1, <1>2, <1>3, <1>4 DEF Parsers!Rows, Parsers!HasCounters

\* A row as the tree shows it.
LEMMA RowInTree ==
  ASSUME NEW o \in Parsers!Outputs, NEW d \in Parsers!Rows(o), d # "pool"
  PROVE  /\ Parsers!VdevTree(o)[d].state = o.rows[d].state
         /\ Parsers!VdevTree(o)[d].cksum = Parsers!ParseInt(o.rows[d].cksum)
         /\ Parsers!Plain(o.rows[d]) => Parsers!VdevTree(o)[d] = o.rows[d]
<1> DEFINE w == o.rows[d]
           r == Parsers!ParseInt(w.read)
           v == Parsers!ParseInt(w.write)
           k == Parsers!ParseInt(w.cksum)
           parsed == [w EXCEPT !.read = r, !.write = v, !.cksum = k]
<1>1. w \in Parsers!Row /\ d \in DOMAIN o.rows /\ w.state # "AVAIL"
  BY RowsOfOutput
<1>2. Parsers!VdevTree(o)[d] = parsed
  BY <1>1 DEF Parsers!VdevTree, Parsers!HasCounters
<1>3. Parsers!Plain(w) => r = w.read /\ v = w.write /\ k = w.cksum
  BY DEF Parsers!Plain, Parsers!ParseInt
<1>4. parsed.state = w.state /\ parsed.cksum = k
  <2> HIDE DEF r, v, k
  <2> QED
    BY <1>1 DEF Parsers!Row
<1>5. Parsers!Plain(w) => parsed = w
  <2> HIDE DEF r, v, k
  <2> QED
    BY <1>1, <1>3 DEF Parsers!Row
<1> HIDE DEF parsed
<1> QED
  BY <1>2, <1>4, <1>5

\* The sum of the counters is spread over the three of them, nothing of it lost.
LEMMA SumIsSpread ==
  ASSUME NEW n \in Nat
  PROVE  n \div 3 + n \div 3 + (n - 2 * (n \div 3)) = n
OBVIOUS

\* The features agree on an output.
LEMMA OutputIsAgreedOn ==
  ASSUME NEW o \in Parsers!Outputs
  PROVE  /\ Parsers!Faulted(o) \subseteq DOMAIN Parsers!Issues(o)
         /\ \A d \in DOMAIN Parsers!Issues(o) \ {"pool"} :
              d \in Parsers!Faulted(o) <=> Parsers!VdevTree(o)[d].state \in {"FAULTED", "UNAVAIL"}
         /\ Parsers!Topology(o) = Parsers!Rows(o)
         /\ (/\ o.rows["pool"].state \in {"ONLINE", "DEGRADED", "FAULTED"}
             /\ DOMAIN Parsers!Issues(o) # {}) => Parsers!RepairSteps(o) > 0
<1>1. /\ Parsers!Rows(o) \subseteq DOMAIN o.rows
      /\ \A d \in DOMAIN o.rows : d \in Parsers!Rows(o) <=> o.rows[d].state # "AVAIL"
      /\ \A d \in Parsers!Rows(o) : o.rows[d].state \in Parsers!States
  BY RowsOfOutput
<1>2. DOMAIN Parsers!Issues(o)
        = {e \in Parsers!Rows(o) : o.rows[e].state \in Parsers!IssueStates}
  BY DEF Parsers!Issues
<1>3. Parsers!Faulted(o) \subseteq DOMAIN Parsers!Issues(o)
  BY <1>1, <1>2 DEF Parsers!Faulted, Parsers!IssueStates
<1>4. ASSUME NEW d \in DOMAIN Parsers!Issues(o), d # "pool"
      PROVE  d \in Parsers!Faulted(o)
               <=> Parsers!VdevTree(o)[d].state \in {"FAULTED", "UNAVAIL"}
  <2>1. d \in Parsers!Rows(o)
    BY <1>2
  <2>2. Parsers!VdevTree(o)[d].state = o.rows[d].state
    BY <1>4, <2>1, RowInTree
  <2> QED
    BY <1>1, <1>4, <2>1, <2>2 DEF Parsers!Faulted
<1>5. Parsers!Topology(o) = Parsers!Rows(o)
  BY <1>1 DEF Parsers!Topology, Parsers!States
<1>6. ASSUME o.rows["pool"].state \in {"ONLINE", "DEGRADED", "FAULTED"},
             DOMAIN Parsers!Issues(o) # {}
      PROVE  Parsers!RepairSteps(o) > 0
  BY <1>6 DEF Parsers!RepairSteps
<1> QED
  BY <1>3, <1>4, <1>5, <1>6

\* They agree on each of its rows.
LEMMA RowIsAgreedOn ==
  ASSUME NEW o \in Parsers!Outputs, NEW d \in Parsers!Rows(o)
  PROVE  Parsers!RowAgreed(o, d) /\ (d \in DOMAIN Parsers!ChecksumErrors(o) =>
                                       d \in Parsers!NonZero(o))
<1> DEFINE row == o.rows[d]
<1>1. /\ row.read \in Nat /\ row.write \in Nat /\ row.cksum \in Nat
      /\ row.state \in Parsers!States /\ d \in DOMAIN o.rows
  BY RowsOfOutput
<1>2. DOMAIN Parsers!Issues(o)
        = {e \in Parsers!Rows(o) : o.rows[e].state \in Parsers!IssueStates}
  BY DEF Parsers!Issues
<1>3. DOMAIN Parsers!VdevSamples(o) = {e \in Parsers!Rows(o) : o.rows[e].state # "UNAVAIL"}
  BY DEF Parsers!VdevSamples
<1>4. d \in DOMAIN Parsers!ChecksumErrors(o) <=> Parsers!ParseInt(row.cksum) # 0
  BY DEF Parsers!ChecksumErrors
<1>5. IF row.state = "UNAVAIL"
      THEN /\ d \notin DOMAIN Parsers!VdevSamples(o) /\ d \in DOMAIN Parsers!Issues(o)
           /\ d \in Parsers!Faulted(o) \cup {"pool"}
      ELSE d \in DOMAIN Parsers!VdevSamples(o) /\ Parsers!VdevSamples(o)[d] = row
  <2>1. ASSUME row.state = "UNAVAIL"
        PROVE  /\ d \notin DOMAIN Parsers!VdevSamples(o) /\ d \in DOMAIN Parsers!Issues(o)
               /\ d \in Parsers!Faulted(o) \cup {"pool"}
    BY <1>1, <1>2, <1>3, <2>1 DEF Parsers!Faulted, Parsers!IssueStates
  <2>2. ASSUME row.state # "UNAVAIL"
        PROVE  d \in DOMAIN Parsers!VdevSamples(o) /\ Parsers!VdevSamples(o)[d] = row
    BY <1>3, <2>2 DEF Parsers!VdevSamples
  <2> QED
    BY <2>1, <2>2
<1>7. ASSUME Parsers!Plain(row)
      PROVE  /\ d # "pool" => Parsers!VdevTree(o)[d] = row
             /\ d \in DOMAIN Parsers!ChecksumErrors(o) <=> row.cksum # 0
  BY <1>4, <1>7, RowInTree DEF Parsers!Plain, Parsers!ParseInt
<1>8. ASSUME Parsers!Plain(row), d \in DOMAIN Parsers!Issues(o)
      PROVE  Parsers!Issues(o)[d].read + Parsers!Issues(o)[d].write
               + Parsers!Issues(o)[d].cksum = row.read + row.write + row.cksum
  <2> DEFINE n == Parsers!ErrorTotal(o, d)
  <2>1. Parsers!Issues(o)[d] = Parsers!BuildVdevIssue(row.state, n)
    BY <1>2, <1>8 DEF Parsers!Issues
  <2>2. n = row.read + row.write + row.cksum
    BY <1>1, <1>8 DEF Parsers!ErrorTotal, Parsers!Plain, Parsers!Sscanf
  <2>3. n \in Nat
    BY <1>1, <2>2
  <2> HIDE DEF n
  <2>4. /\ Parsers!Issues(o)[d].read = n \div 3 /\ Parsers!Issues(o)[d].write = n \div 3
        /\ Parsers!Issues(o)[d].cksum = n - 2 * (n \div 3)
    BY <2>1 DEF Parsers!BuildVdevIssue
  <2>5. n \div 3 + n \div 3 + (n - 2 * (n \div 3)) = n
    BY <2>3, SumIsSpread
  <2> QED
    BY <2>2, <2>4, <2>5
<1>9. row.cksum >= 1024 =>
        /\ d \notin DOMAIN Parsers!ChecksumErrors(o)
        /\ d # "pool" => Parsers!VdevTree(o)[d].cksum = 0
  BY <1>1, <1>4, RowInTree DEF Parsers!ParseInt
<1>10. d \in DOMAIN Parsers!ChecksumErrors(o) => d \in Parsers!NonZero(o)
  BY <1>1, <1>4 DEF Parsers!ParseInt, Parsers!NonZero
<1> QED
  BY <1>5, <1>7, <1>8, <1>9, <1>10 DEF Parsers!RowAgreed

\* For every set of devices and of counters: of what zpool status prints the
\* features tell the same, but that the samples lack the rows that are UNAVAIL and
\* that tree and hotspots lose what is abbreviated (local.go:252-314,
\* vdev/health.go:268, hotspot.go:101).
THEOREM FeaturesAgree == AnalysisSpec => []ParsersAgree
<1>1. AnalysisInit => Parsers!Typed
  BY DEF AnalysisInit, Parsers!Init, Parsers!Typed
<1>2. Parsers!Typed /\ [AnalysisNext]_allVars => Parsers!Typed'
  <2> SUFFICES ASSUME Parsers!Typed, [AnalysisNext]_allVars
               PROVE  Parsers!Typed'
    OBVIOUS
  <2>1. CASE Parsers!Next
    BY <2>1 DEF Parsers!Next, Parsers!Show, Parsers!Parsed, Parsers!Typed
  <2>2. CASE UNCHANGED shown
    BY <2>2 DEF Parsers!Typed
  <2> QED
    BY <2>1, <2>2 DEF allVars, answerVars, AnalysisNext, DeadLettersMove, IncidentsMove,
                      HotspotsMove, AnomaliesMove, HeatMoves, AnswersMove
<1>3. Parsers!Typed => ParsersAgree
  <2> SUFFICES ASSUME Parsers!Typed, shown # Parsers!Nothing
               PROVE  Parsers!ParsersAgree
    BY DEF ParsersAgree, Parsers!ParsersAgree
  <2>1. shown \in Parsers!Outputs
    BY DEF Parsers!Typed
  <2>2. (Parsers!ScrubState(shown) = "none") = (Parsers!ScrubEvent(shown) = "none")
    BY DEF Parsers!ScrubState, Parsers!ScrubEvent
  <2>3. Parsers!Resilvers(shown) = Parsers!Resilvering(shown)
    BY <2>1, RowsOfOutput DEF Parsers!Resilvers, Parsers!Resilvering
  <2>4. \A d \in Parsers!Rows(shown) : Parsers!RowAgreed(shown, d)
    BY <2>1, RowIsAgreedOn
  <2>5. DOMAIN Parsers!ChecksumErrors(shown) \subseteq Parsers!NonZero(shown)
    <3>1. DOMAIN Parsers!ChecksumErrors(shown) \subseteq Parsers!Rows(shown)
      BY DEF Parsers!ChecksumErrors
    <3> QED
      BY <2>1, <3>1, RowIsAgreedOn
  <2> QED
    BY <2>1, <2>2, <2>3, <2>4, <2>5, OutputIsAgreedOn DEF Parsers!ParsersAgree
<1> QED
  BY <1>1, <1>2, <1>3, PTL DEF AnalysisSpec, allVars
-----------------------------------------------------------------------------
\* The window of a detector that was fed s.
Latest(s) == SubSeq(s, Detectors!Max({1, Len(s) - WindowSize + 1}), Len(s))

\* The baseline is that of the window k points ago; k is what the length of the
\* window leaves, divided by Every.
Fresh(k) ==
  /\ base = Detectors!Stats(Latest(SubSeq(fed, 1, Len(fed) - k)))
  /\ Len(fed) < WindowSize => k = Len(fed) % Every
  /\ Len(fed) >= WindowSize => k = 0

FeedInv ==
  /\ fed \in Seq(Ratios)
  /\ window = Latest(fed)
  /\ Len(fed) >= Every => \E k \in 0..(Every - 1) : Fresh(k)

\* The greater of two numbers.
LEMMA Greater ==
  ASSUME NEW a \in Int, NEW b \in Int
  PROVE  Detectors!Max({a, b}) = IF a >= b THEN a ELSE b
<1>1. \E x \in {a, b} : \A y \in {a, b} : x >= y
  OBVIOUS
<1>2. Detectors!Max({a, b}) \in {a, b} /\ \A y \in {a, b} : Detectors!Max({a, b}) >= y
  BY <1>1 DEF Detectors!Max
<1> QED
  BY <1>2

\* The window holds the last points, WindowSize of them if there are.
LEMMA LatestPoints ==
  ASSUME NEW s \in Seq(Ratios)
  PROVE  \E m \in Int :
           /\ 1 <= m /\ m <= Len(s) + 1
           /\ Len(s) <= WindowSize => m = 1
           /\ Len(s) > WindowSize => m = Len(s) - WindowSize + 1
           /\ Latest(s) \in Seq(Ratios)
           /\ Len(Latest(s)) = Len(s) - m + 1
           /\ \A i \in 1..(Len(s) - m + 1) : Latest(s)[i] = s[m + i - 1]
<1>0. WindowSize \in Nat \ {0}
  BY AnalysisAssumption DEF Detectors!AnomaliesAssumption
<1> DEFINE n == Len(s)
           m == IF n <= WindowSize THEN 1 ELSE n - WindowSize + 1
<1>1. n \in Nat /\ \A i \in 1..n : s[i] \in Ratios
  BY ElementOfSeq
<1>2. /\ m \in Int /\ 1 <= m /\ m <= n + 1
      /\ n <= WindowSize => m = 1
      /\ n > WindowSize => m = n - WindowSize + 1
  BY <1>0, <1>1
<1>3. Latest(s) = SubSeq(s, m, n)
  <2>1. Detectors!Max({1, n - WindowSize + 1}) = m
    <3>1. 1 \in Int /\ n - WindowSize + 1 \in Int
      BY <1>0, <1>1
    <3>2. Detectors!Max({1, n - WindowSize + 1})
            = IF 1 >= n - WindowSize + 1 THEN 1 ELSE n - WindowSize + 1
      BY <3>1, Greater
    <3> QED
      BY <1>0, <1>1, <3>2
  <2> QED
    BY <2>1 DEF Latest
<1>4. m \in Int /\ n \in Int /\ \A i \in m..n : s[i] \in Ratios
  BY <1>1, <1>2
<1> HIDE DEF m, n
<1>5. /\ SubSeq(s, m, n) \in Seq(Ratios)
      /\ Len(SubSeq(s, m, n)) = IF m <= n THEN n - m + 1 ELSE 0
      /\ \A i \in 1..(n - m + 1) : SubSeq(s, m, n)[i] = s[m + i - 1]
  BY <1>4, SubSeqProperties
<1>6. Len(SubSeq(s, m, n)) = n - m + 1
  BY <1>1, <1>2, <1>5
<1> QED
  BY <1>2, <1>3, <1>5, <1>6 DEF n

\* A point that is appended slides the window by one.
LEMMA Slides ==
  ASSUME NEW s \in Seq(Ratios), NEW p \in Ratios
  PROVE  Detectors!Slide(Append(Latest(s), p)) = Latest(Append(s, p))
<1>0. WindowSize \in Nat \ {0}
  BY AnalysisAssumption DEF Detectors!AnomaliesAssumption
<1> DEFINE w == Latest(s)
           a == Append(s, p)
           b == Append(w, p)
           l == Latest(a)
<1>1. PICK m \in Int :
        /\ 1 <= m /\ m <= Len(s) + 1
        /\ Len(s) <= WindowSize => m = 1
        /\ Len(s) > WindowSize => m = Len(s) - WindowSize + 1
        /\ w \in Seq(Ratios)
        /\ Len(w) = Len(s) - m + 1
        /\ \A i \in 1..(Len(s) - m + 1) : w[i] = s[m + i - 1]
  BY LatestPoints
<1>2. /\ a \in Seq(Ratios) /\ Len(a) = Len(s) + 1 /\ a[Len(s) + 1] = p
      /\ \A i \in 1..Len(s) : a[i] = s[i]
  BY AppendProperties
<1> HIDE DEF w, a
<1>3. /\ b \in Seq(Ratios) /\ Len(b) = Len(w) + 1 /\ b[Len(w) + 1] = p /\ b # <<>>
      /\ \A i \in 1..Len(w) : b[i] = w[i]
  <2>1. w \in Seq(Ratios)
    BY <1>1
  <2> QED
    BY <2>1, AppendProperties
<1>4. PICK k \in Int :
        /\ 1 <= k /\ k <= Len(a) + 1
        /\ Len(a) <= WindowSize => k = 1
        /\ Len(a) > WindowSize => k = Len(a) - WindowSize + 1
        /\ l \in Seq(Ratios)
        /\ Len(l) = Len(a) - k + 1
        /\ \A i \in 1..(Len(a) - k + 1) : l[i] = a[k + i - 1]
  BY <1>2, LatestPoints
<1> HIDE DEF b, l
<1>5. /\ Len(s) \in Nat /\ Len(w) \in Nat /\ Len(a) \in Nat /\ Len(b) \in Nat /\ Len(l) \in Nat
      /\ Len(w) = Len(s) - m + 1 /\ Len(a) = Len(s) + 1 /\ Len(b) = Len(w) + 1
      /\ Len(l) = Len(a) - k + 1
  <2>1. \A q \in Seq(Ratios) : Len(q) \in Nat
    OBVIOUS
  <2>2. s \in Seq(Ratios) /\ w \in Seq(Ratios) /\ a \in Seq(Ratios)
        /\ b \in Seq(Ratios) /\ l \in Seq(Ratios)
    BY <1>1, <1>2, <1>3, <1>4
  <2> HIDE DEF w, a, b, l
  <2>3. Len(s) \in Nat /\ Len(w) \in Nat /\ Len(a) \in Nat /\ Len(b) \in Nat /\ Len(l) \in Nat
    BY <2>1, <2>2
  <2> QED
    BY <1>1, <1>2, <1>3, <1>4, <2>3
<1>6. /\ m <= Len(s) + 1
      /\ \A i \in 1..(Len(w) + 1) : b[i] = a[m + i - 1]
  <2>1. m <= Len(s) + 1
    BY <1>0, <1>1, <1>5
  <2>2. ASSUME NEW i \in 1..(Len(w) + 1)
        PROVE  b[i] = a[m + i - 1]
    <3>1. CASE i = Len(w) + 1
      <4>1. m + i - 1 = Len(s) + 1
        BY <1>1, <1>5, <3>1
      <4> QED
        BY <1>2, <1>3, <3>1, <4>1
    <3>2. CASE i # Len(w) + 1
      <4>0. i \in 1..(Len(s) - m + 1)
        BY <1>1, <1>5, <3>2
      <4>1. i \in 1..Len(w) /\ m + i - 1 \in 1..Len(s)
        <5>1. i \in Int /\ 1 <= i /\ i <= Len(w) /\ 1 <= m
          BY <1>1, <1>5, <3>2
        <5> QED
          BY <1>5, <5>1
      <4>2. b[i] = w[i]
        BY <1>3, <4>1
      <4>3. w[i] = s[m + i - 1]
        BY <1>1, <4>0
      <4>4. a[m + i - 1] = s[m + i - 1]
        BY <1>2, <4>1
      <4> QED
        BY <4>2, <4>3, <4>4
    <3> QED
      BY <3>1, <3>2
  <2> QED
    BY <2>1, <2>2
<1>7. CASE Len(w) < WindowSize
  <2>1. Detectors!Slide(b) = b
    BY <1>0, <1>1, <1>3, <1>5, <1>7 DEF Detectors!Slide
  <2>2. Len(s) < WindowSize /\ m = 1 /\ k = 1
    BY <1>0, <1>1, <1>2, <1>4, <1>5, <1>7
  <2>3. Len(b) = Len(l)
    BY <1>1, <1>2, <1>3, <1>4, <1>5, <2>2
  <2>4. \A i \in 1..Len(b) : b[i] = l[i]
    BY <1>1, <1>2, <1>3, <1>4, <1>5, <1>6, <2>2
  <2>5. b = l
    BY <1>3, <1>4, <2>3, <2>4, SeqEqual
  <2> QED
    BY <2>1, <2>5 DEF b, l, w, a
<1>8. CASE ~(Len(w) < WindowSize)
  <2>1. Len(w) = WindowSize /\ k = m + 1 /\ Len(s) >= WindowSize
    BY <1>0, <1>1, <1>2, <1>4, <1>5, <1>8
  <2>2. Detectors!Slide(b) = Tail(b)
    BY <1>0, <1>1, <1>3, <1>5, <2>1 DEF Detectors!Slide
  <2>3. /\ Tail(b) \in Seq(Ratios) /\ Len(Tail(b)) = Len(w)
        /\ \A i \in 1..Len(w) : Tail(b)[i] = b[i + 1]
    <3>1. /\ Tail(b) \in Seq(Ratios) /\ Len(Tail(b)) = Len(b) - 1
          /\ \A i \in 1..Len(Tail(b)) : Tail(b)[i] = b[i + 1]
      BY <1>3, HeadTailProperties
    <3>2. Len(b) - 1 = Len(w)
      BY <1>3, <1>0, <2>1
    <3> QED
      BY <3>1, <3>2
  <2>4. Len(Tail(b)) = Len(l)
    BY <1>0, <1>1, <1>2, <1>4, <1>5, <2>1, <2>3
  <2>5. ASSUME NEW i \in 1..Len(w)
        PROVE  Tail(b)[i] = l[i]
    <3>1. i + 1 \in 1..(Len(w) + 1) /\ m + (i + 1) - 1 = k + i - 1
      BY <1>0, <2>1
    <3>2. i \in 1..(Len(a) - k + 1)
      BY <1>4, <2>3, <2>4
    <3> QED
      BY <1>4, <1>6, <2>3, <3>1, <3>2
  <2>6. Tail(b) = l
    BY <1>4, <2>3, <2>4, <2>5, SeqEqual
  <2> QED
    BY <2>2, <2>6 DEF b, l, w, a
<1> QED
  BY <1>7, <1>8

\* The rest of the next number is the next rest, or 0.
LEMMA NextRest ==
  ASSUME NEW N \in Nat \ {0}, NEW n \in Nat, (n + 1) % N # 0
  PROVE  (n + 1) % N = (n % N) + 1
<1> DEFINE q == n \div N
           r == n % N
           u == (n + 1) \div N
           v == (n + 1) % N
<1>1. /\ q \in Nat /\ r \in 0..(N - 1) /\ n = N * q + r
      /\ u \in Nat /\ v \in 0..(N - 1) /\ n + 1 = N * u + v
  OBVIOUS
<1>2. v # 0
  OBVIOUS
<1> HIDE DEF q, r, u, v
<1>3. CASE u >= q + 1
  <2>1. N * u >= N * (q + 1) /\ N * (q + 1) = N * q + N
    BY <1>1, <1>3
  <2> QED
    BY <1>1, <1>2, <2>1
<1>4. CASE u <= q - 1
  <2>1. N * (u + 1) <= N * q /\ N * (u + 1) = N * u + N
    BY <1>1, <1>4
  <2> QED
    BY <1>1, <2>1
<1>5. CASE u = q
  <2>1. v = r + 1
    BY <1>1, <1>5
  <2> QED
    BY <2>1 DEF r, v
<1> QED
  BY <1>1, <1>3, <1>4, <1>5

\* Feeding a point, with the baseline taken anew or not.
LEMMA RecordStep ==
  ASSUME FeedInv, NEW f \in Feeders, Detectors!Record(f)
  PROVE  FeedInv'
<1>0. /\ WindowSize \in Nat \ {0} /\ Every \in Nat \ {0} /\ WindowSize % Every = 0
  BY AnalysisAssumption DEF Detectors!AnomaliesAssumption
<1>1. PICK p \in Ratios :
        /\ window' = Detectors!Slide(Append(window, p))
        /\ base' = IF Len(window') % Every = 0 THEN Detectors!Stats(window') ELSE base
        /\ fed' = Append(fed, p)
  BY DEF Detectors!Record
<1> DEFINE n == Len(fed)
<1>2. /\ fed' \in Seq(Ratios) /\ Len(fed') = n + 1 /\ n \in Nat
      /\ \A i \in 1..n : fed'[i] = fed[i]
  BY <1>1, AppendProperties DEF FeedInv
<1>3. window' = Latest(fed')
  BY <1>1, Slides DEF FeedInv
<1>4. Len(window') = IF n + 1 <= WindowSize THEN n + 1 ELSE WindowSize
  <2>1. PICK m \in Int :
          /\ Len(fed') <= WindowSize => m = 1
          /\ Len(fed') > WindowSize => m = Len(fed') - WindowSize + 1
          /\ Len(Latest(fed')) = Len(fed') - m + 1
    <3>1. fed' \in Seq(Ratios)
      BY <1>2
    <3> QED
      BY <3>1, LatestPoints
  <2> HIDE DEF n
  <2> QED
    BY <1>0, <1>2, <1>3, <2>1
<1>5. \A k \in Nat : k <= n => SubSeq(fed', 1, Len(fed') - (k + 1)) = SubSeq(fed, 1, n - k)
  <2> SUFFICES ASSUME NEW k \in Nat, k <= n
               PROVE  SubSeq(fed', 1, n - k) = SubSeq(fed, 1, n - k)
    BY <1>2
  <2>1. \A i \in 1..n : fed[i] \in Ratios /\ fed'[i] \in Ratios
    BY <1>2, ElementOfSeq DEF FeedInv
  <2>2. /\ 1 \in Int /\ n - k \in Int /\ \A i \in 1..(n - k) : i \in 1..n
    BY <1>2
  <2> HIDE DEF n
  <2>3. /\ SubSeq(fed', 1, n - k) \in Seq(Ratios) /\ SubSeq(fed, 1, n - k) \in Seq(Ratios)
        /\ Len(SubSeq(fed', 1, n - k)) = Len(SubSeq(fed, 1, n - k))
        /\ Len(SubSeq(fed', 1, n - k)) = IF 1 <= n - k THEN n - k - 1 + 1 ELSE 0
        /\ \A i \in 1..(n - k - 1 + 1) : /\ SubSeq(fed', 1, n - k)[i] = fed'[1 + i - 1]
                                       /\ SubSeq(fed, 1, n - k)[i] = fed[1 + i - 1]
    <3>1. \A i \in 1..(n - k) : fed[i] \in Ratios /\ fed'[i] \in Ratios
      BY <2>1, <2>2
    <3> DEFINE m == n - k
    <3>2. m \in Int
      BY <2>2
    <3> HIDE DEF m
    <3>3. /\ SubSeq(fed', 1, m) \in Seq(Ratios)
          /\ Len(SubSeq(fed', 1, m)) = IF 1 <= m THEN m - 1 + 1 ELSE 0
          /\ \A i \in 1..(m - 1 + 1) : SubSeq(fed', 1, m)[i] = fed'[1 + i - 1]
      BY <3>1, <3>2, SubSeqProperties DEF m
    <3>4. /\ SubSeq(fed, 1, m) \in Seq(Ratios)
          /\ Len(SubSeq(fed, 1, m)) = IF 1 <= m THEN m - 1 + 1 ELSE 0
          /\ \A i \in 1..(m - 1 + 1) : SubSeq(fed, 1, m)[i] = fed[1 + i - 1]
      BY <3>1, <3>2, SubSeqProperties DEF m
    <3> QED
      BY <3>3, <3>4 DEF m
  <2>4. \A i \in 1..Len(SubSeq(fed', 1, n - k)) :
          SubSeq(fed', 1, n - k)[i] = SubSeq(fed, 1, n - k)[i]
    BY <1>2, <2>2, <2>3
  <2> QED
    BY <2>3, <2>4, SeqEqual
<1>6. SubSeq(fed', 1, Len(fed') - 0) = fed'
  BY <1>2
<1> HIDE DEF n
<1>7. CASE Len(window') % Every = 0
  <2>1. base' = Detectors!Stats(Latest(SubSeq(fed', 1, Len(fed') - 0)))
    BY <1>1, <1>3, <1>6, <1>7
  <2>2. n + 1 < WindowSize => 0 = (n + 1) % Every
    BY <1>0, <1>2, <1>4, <1>7
  <2>3. Fresh(0)'
    BY <1>2, <2>1, <2>2 DEF Fresh
  <2>4. 0 \in 0..(Every - 1)
    BY <1>0
  <2> QED
    BY <1>2, <1>3, <2>3, <2>4 DEF FeedInv
<1>8. CASE Len(window') % Every # 0
  <2>1. n + 1 < WindowSize /\ (n + 1) % Every # 0
    BY <1>0, <1>2, <1>4, <1>8
  <2>2. base' = base
    BY <1>1, <1>8
  <2>3. ASSUME Len(fed') >= Every
        PROVE  \E k \in 0..(Every - 1) : Fresh(k)'
    <3>1. n >= Every
      BY <1>0, <1>2, <2>1, <2>3
    <3>2. PICK k \in 0..(Every - 1) : Fresh(k)
      BY <3>1 DEF FeedInv, n
    <3>3. k = n % Every
      BY <1>0, <1>2, <2>1, <3>2 DEF Fresh, n
    <3>4. (n + 1) % Every = k + 1 /\ k + 1 \in 0..(Every - 1)
      <4>1. (n + 1) % Every = (n % Every) + 1
        BY <1>0, <1>2, <2>1, NextRest
      <4>2. (n + 1) % Every \in 0..(Every - 1)
        BY <1>0, <1>2
      <4> QED
        BY <3>3, <4>1, <4>2
    <3>5. base' = Detectors!Stats(Latest(SubSeq(fed', 1, Len(fed') - (k + 1))))
      <4>1. base = Detectors!Stats(Latest(SubSeq(fed, 1, n - k)))
        BY <3>2 DEF Fresh, n
      <4>2. k \in Nat /\ k <= n
        BY <1>0, <1>2, <3>1
      <4>3. SubSeq(fed', 1, Len(fed') - (k + 1)) = SubSeq(fed, 1, n - k)
        BY <1>5, <4>2
      <4> QED
        BY <2>2, <4>1, <4>3
    <3>6. Fresh(k + 1)'
      <4>1. Len(fed') < WindowSize => k + 1 = Len(fed') % Every
        BY <1>2, <3>4
      <4>2. ~(Len(fed') >= WindowSize)
        BY <1>0, <1>2, <2>1
      <4> QED
        BY <3>5, <4>1, <4>2 DEF Fresh
    <3> QED
      BY <3>4, <3>6
  <2> QED
    BY <1>2, <1>3, <2>3 DEF FeedInv
<1> QED
  BY <1>7, <1>8

\* A detector that was fed nothing.
LEMMA NothingFed ==
  ASSUME fed = <<>>, window = <<>>
  PROVE  FeedInv
<1>1. WindowSize \in Nat \ {0} /\ Every \in Nat \ {0}
  BY AnalysisAssumption DEF Detectors!AnomaliesAssumption
<1>2. fed \in Seq(Ratios) /\ Len(fed) = 0
  OBVIOUS
<1>3. Latest(fed) \in Seq(Ratios) /\ Len(Latest(fed)) = 0
  <2>1. PICK m \in Int : /\ Len(fed) <= WindowSize => m = 1
                         /\ Latest(fed) \in Seq(Ratios)
                         /\ Len(Latest(fed)) = Len(fed) - m + 1
    <3>1. \A s \in Seq(Ratios) :
            \E m \in Int : /\ Len(s) <= WindowSize => m = 1
                         /\ Latest(s) \in Seq(Ratios)
                         /\ Len(Latest(s)) = Len(s) - m + 1
      <4> SUFFICES ASSUME NEW s \in Seq(Ratios)
                   PROVE  \E m \in Int : /\ Len(s) <= WindowSize => m = 1
                                        /\ Latest(s) \in Seq(Ratios)
                                        /\ Len(Latest(s)) = Len(s) - m + 1
        OBVIOUS
      <4> QED
        BY LatestPoints
    <3> QED
      BY <1>2, <3>1
  <2> QED
    BY <1>1, <1>2, <2>1
<1>4. Latest(fed) = <<>>
  BY <1>3, EmptySeq
<1> QED
  BY <1>1, <1>2, <1>4 DEF FeedInv

\* Every step of the feeders.
LEMMA FeedStep ==
  ASSUME FeedInv, Detectors!Next
  PROVE  FeedInv'
<1>1. CASE Detectors!Restart
  <2>1. fed' = <<>> /\ window' = <<>>
    BY <1>1 DEF Detectors!Restart
  <2>2. (fed = <<>> /\ window = <<>>)'
    BY <2>1
  <2>3. (fed = <<>> /\ window = <<>> => FeedInv)'
    BY NothingFed, PTL
  <2> QED
    BY <2>2, <2>3
<1>2. ASSUME NEW f \in Feeders, Detectors!Look(f) \/ Detectors!Ensure(f)
      PROVE  FeedInv'
  BY <1>2 DEF Detectors!Look, Detectors!Ensure, Detectors!EnsurePool, FeedInv, Fresh
<1> QED
  BY <1>1, <1>2, RecordStep DEF Detectors!Next

\* For every window, every schedule of the baseline and every number of feeders:
\* all points that are fed enter the window of one detector, and its baseline is
\* that of a window less than Every points ago (manager.go:31-46,
\* detector.go:65-77).
THEOREM FeedersShareADetector == AnalysisSpec => []OneDetector
<1>1. AnalysisInit => FeedInv
  BY NothingFed DEF AnalysisInit, Detectors!Init
<1>2. FeedInv /\ [AnalysisNext]_allVars => FeedInv'
  <2> SUFFICES ASSUME FeedInv, [AnalysisNext]_allVars
               PROVE  FeedInv'
    OBVIOUS
  <2>1. CASE Detectors!Next
    BY <2>1, FeedStep
  <2>2. CASE UNCHANGED anomalyVars
    BY <2>2 DEF anomalyVars, FeedInv, Fresh
  <2> QED
    BY <2>1, <2>2 DEF allVars, AnalysisNext, DeadLettersMove, IncidentsMove, HotspotsMove,
                      AnomaliesMove, HeatMoves, AnswersMove
<1>3. FeedInv => OneDetector
  <2> SUFFICES ASSUME FeedInv
               PROVE  OneDetector
    OBVIOUS
  <2>1. window = SubSeq(fed, Detectors!Max({1, Len(fed) - WindowSize + 1}), Len(fed))
    BY DEF FeedInv, Latest
  <2>2. ASSUME Len(fed) >= Every
        PROVE  \E k \in 0..(Every - 1) :
                 LET then == SubSeq(fed, 1, Len(fed) - k)
                 IN base = Detectors!Stats(SubSeq(then,
                      Detectors!Max({1, Len(then) - WindowSize + 1}), Len(then)))
    BY <2>2 DEF FeedInv, Fresh, Latest
  <2> QED
    BY <2>1, <2>2 DEF OneDetector, Detectors!OneDetector
<1> QED
  BY <1>1, <1>2, <1>3, PTL DEF AnalysisSpec, allVars
-----------------------------------------------------------------------------
Summing == INSTANCE FoldTheorems WITH Op <- LAMBDA c, a, x : a + x, Base <- 0
Squaring == INSTANCE FoldTheorems WITH Op <- LAMBDA c, a, x : a + x * x, Base <- 0

\* A baseline, and an anomaly with the one it was found by.
Baseline == [n : Nat, sum : Nat, squares : Nat]
Anomaly == [ratio : Ratios, base : Baseline]

DetectorShape ==
  /\ there \in BOOLEAN
  /\ base \in Baseline
  /\ anomalies \in Seq(Anomaly) /\ Len(anomalies) <= MaxAnomalies
  /\ feeding \in [Feeders -> {"idle", "ensure", "record"}]

DetectorInv == FeedInv /\ DetectorShape

\* The least and the greatest of the ratios.
LEMMA EndsOfRatios ==
  Detectors!Min(Ratios) \in Nat /\ Detectors!Max(Ratios) \in Nat
<1>0. Ratios \in SUBSET (0..100) /\ Ratios # {} /\ 100 \in Nat
  BY AnalysisAssumption DEF Detectors!AnomaliesAssumption
<1>1. Detectors!Max(Ratios) \in Ratios
  <2>1. Summing!Max(Ratios) \in Ratios
    BY <1>0, Summing!Greatest
  <2> QED
    BY <2>1 DEF Summing!Max, Detectors!Max
<1> DEFINE u == {100 - x : x \in Ratios}
<1>2. u \in SUBSET (0..100) /\ u # {}
  <2>1. \A x \in 0..100 : 100 - x \in 0..100
    OBVIOUS
  <2>2. \A x \in Ratios : 100 - x \in 0..100
    BY <1>0, <2>1
  <2>3. \E x \in Ratios : 100 - x \in u
    BY <1>0
  <2> QED
    BY <2>2, <2>3
<1>3. /\ \A y \in Ratios : 100 - y \in u
      /\ \A m \in u : \E x \in Ratios : m = 100 - x
  OBVIOUS
<1> HIDE DEF u
<1>4. Summing!Max(u) \in u /\ \A y \in u : Summing!Max(u) >= y
  BY <1>0, <1>2, Summing!Greatest
<1>5. PICK x \in Ratios : Summing!Max(u) = 100 - x
  BY <1>3, <1>4
<1>6. \A y \in Ratios : x <= y
  <2> SUFFICES ASSUME NEW y \in Ratios
               PROVE  x <= y
    OBVIOUS
  <2>1. 100 - x >= 100 - y
    BY <1>3, <1>4, <1>5
  <2>2. x \in Nat /\ y \in Nat
    BY <1>0
  <2> QED
    BY <2>1, <2>2
<1>7. Detectors!Min(Ratios) \in Ratios
  BY <1>6 DEF Detectors!Min
<1>8. \A r \in Ratios : r \in Nat
  BY <1>0
<1> QED
  BY <1>1, <1>7, <1>8

\* A baseline of ratios is one of numbers, and so is the one to begin with.
LEMMA BaselinesAreNumbers ==
  /\ Detectors!NewBase \in Baseline
  /\ \A s \in Seq(Ratios) : Detectors!Stats(s) \in Baseline
<1>0. \A r \in Ratios : r \in Nat
  BY AnalysisAssumption DEF Detectors!AnomaliesAssumption
<1>1. Detectors!NewBase \in Baseline
  <2> DEFINE l == Detectors!Min(Ratios)
             g == Detectors!Max(Ratios)
  <2>1. l \in Nat /\ g \in Nat
    BY EndsOfRatios
  <2>2. Detectors!NewBase = [n |-> 2, sum |-> l + g, squares |-> l * l + g * g]
    BY DEF Detectors!NewBase
  <2> HIDE DEF l, g
  <2>3. l + g \in Nat /\ l * l + g * g \in Nat
    BY <2>1
  <2> QED
    BY <2>2, <2>3 DEF Baseline
<1>2. ASSUME NEW s \in Seq(Ratios)
      PROVE  Detectors!Stats(s) \in Baseline
  <2>1. \A a \in Nat, x \in Ratios : a + x \in Nat
    BY <1>0
  <2>2. \A a \in Nat, x \in Ratios : a + x * x \in Nat
    BY <1>0
  <2>3. Summing!Fold(0, s) \in Nat
    BY <2>1, Summing!FoldStays
  <2>4. Squaring!Fold(0, s) \in Nat
    BY <2>2, Squaring!FoldStays
  <2>5. Detectors!Sum(s) = Summing!Fold(0, s)
    BY DEF Detectors!Sum, Detectors!FoldLeft, Detectors!MapThenFoldSet, Detectors!Max,
           Summing!Fold, Summing!FoldLeft, Summing!MapThenFoldSet, Summing!Max
  <2>6. Detectors!Squares(s) = Squaring!Fold(0, s)
    BY DEF Detectors!Squares, Detectors!FoldLeft, Detectors!MapThenFoldSet, Detectors!Max,
           Squaring!Fold, Squaring!FoldLeft, Squaring!MapThenFoldSet, Squaring!Max
  <2>7. Len(s) \in Nat
    OBVIOUS
  <2> QED
    BY <2>3, <2>4, <2>5, <2>6, <2>7 DEF Detectors!Stats, Baseline
<1> QED
  BY <1>1, <1>2

\* The list of anomalies stays within its bound.
LEMMA AnomaliesKept ==
  ASSUME NEW s \in Seq(Anomaly), Len(s) <= MaxAnomalies, NEW a \in Anomaly
  PROVE  LET all == Append(s, a)
             kept == IF Len(all) > MaxAnomalies THEN Tail(all) ELSE all
         IN kept \in Seq(Anomaly) /\ Len(kept) <= MaxAnomalies
<1> DEFINE all == Append(s, a)
<1>0. MaxAnomalies \in Nat
  BY AnalysisAssumption DEF Detectors!AnomaliesAssumption
<1>1. all \in Seq(Anomaly) /\ Len(all) = Len(s) + 1 /\ all # <<>> /\ Len(s) \in Nat
  BY AppendProperties
<1> HIDE DEF all
<1>2. Tail(all) \in Seq(Anomaly) /\ Len(Tail(all)) = Len(all) - 1
  BY <1>1, HeadTailProperties
<1>3. CASE Len(all) > MaxAnomalies
  BY <1>0, <1>1, <1>2, <1>3 DEF all
<1>4. CASE ~(Len(all) > MaxAnomalies)
  BY <1>0, <1>1, <1>4 DEF all
<1> QED
  BY <1>3, <1>4

\* Every step of the detectors.
LEMMA DetectorStep ==
  ASSUME DetectorInv, Detectors!Next
  PROVE  DetectorInv'
<1>1. FeedInv'
  BY FeedStep DEF DetectorInv
<1>2. CASE Detectors!Restart
  <2>1. /\ there' = FALSE /\ base' = Detectors!NewBase /\ anomalies' = <<>>
        /\ feeding' = [f \in Feeders |-> "idle"]
    BY <1>2 DEF Detectors!Restart, Detectors!NotFeeding
  <2>2. <<>> \in Seq(Anomaly) /\ Len(<<>>) <= MaxAnomalies
    BY AnalysisAssumption DEF Detectors!AnomaliesAssumption
  <2> QED
    BY <1>1, <2>1, <2>2, BaselinesAreNumbers DEF DetectorInv, DetectorShape
<1>3. ASSUME NEW f \in Feeders, Detectors!Look(f)
      PROVE  DetectorShape'
  <2> DEFINE w == IF there THEN "record" ELSE "ensure"
  <2>1. w \in {"idle", "ensure", "record"} /\ feeding' = [feeding EXCEPT ![f] = w]
    BY <1>3 DEF Detectors!Look
  <2> HIDE DEF w
  <2>2. feeding' \in [Feeders -> {"idle", "ensure", "record"}]
    BY <2>1 DEF DetectorInv, DetectorShape
  <2>3. UNCHANGED <<there, base, anomalies>>
    BY <1>3 DEF Detectors!Look
  <2> QED
    BY <2>2, <2>3 DEF DetectorInv, DetectorShape
<1>4. ASSUME NEW f \in Feeders, Detectors!Ensure(f)
      PROVE  DetectorShape'
  BY <1>4 DEF Detectors!Ensure, Detectors!EnsurePool, DetectorInv, DetectorShape
<1>5. ASSUME NEW f \in Feeders, Detectors!Record(f)
      PROVE  DetectorShape'
  <2>1. PICK p \in Ratios :
          /\ base' = IF Len(window') % Every = 0 THEN Detectors!Stats(window') ELSE base
          /\ anomalies' =
               IF Len(window') < Enough \/ ~Detectors!Below(p, base') THEN anomalies
               ELSE LET all == Append(anomalies, [ratio |-> p, base |-> base'])
                    IN IF Len(all) > MaxAnomalies THEN Tail(all) ELSE all
    BY <1>5 DEF Detectors!Record
  <2>2. window' \in Seq(Ratios)
    <3>1. \A s \in Seq(Ratios) : Latest(s) \in Seq(Ratios)
      BY LatestPoints
    <3> QED
      BY <1>1, <3>1 DEF FeedInv
  <2>3. base' \in Baseline
    BY <2>1, <2>2, BaselinesAreNumbers DEF DetectorInv, DetectorShape
  <2>4. [ratio |-> p, base |-> base'] \in Anomaly
    BY <2>3 DEF Anomaly
  <2>5. anomalies' \in Seq(Anomaly) /\ Len(anomalies') <= MaxAnomalies
    BY <2>1, <2>4, AnomaliesKept DEF DetectorInv, DetectorShape
  <2>6. feeding' = [feeding EXCEPT ![f] = "idle"] /\ UNCHANGED there
    BY <1>5 DEF Detectors!Record
  <2> QED
    BY <2>3, <2>5, <2>6 DEF DetectorInv, DetectorShape
<1> QED
  BY <1>1, <1>2, <1>3, <1>4, <1>5 DEF Detectors!Next, DetectorInv

-----------------------------------------------------------------------------
\* The detector of silent failures: the list, and the rest of its state.
DeadLettersInv ==
  ListInv /\ alive \in BOOLEAN /\ ticked \in BOOLEAN /\ output \in [Pools -> Output]

\* Every step of it.
LEMMA DeadLettersStep ==
  ASSUME DeadLettersInv, Next
  PROVE  DeadLettersInv'
<1>1. ListInv'
  BY ListStep DEF DeadLettersInv
<1>2. (alive \in BOOLEAN)' /\ (ticked \in BOOLEAN)'
  BY DEF DeadLettersInv, Next, Tick, Collect, AddEvent, IndexOutOfRange, Acknowledge, Restart
<1>3. [p \in Pools |-> NoOutput] \in [Pools -> Output]
  <2>1. NoOutput \in Output
    BY DeadLettersAssumption DEF NoOutput, Output
  <2> QED
    BY <2>1
<1>4. (output \in [Pools -> Output])'
  <2>1. Collect => \E o \in [Pools -> Output] : output' = o
    BY DEF Collect
  <2> QED
    BY <1>3, <2>1
       DEF DeadLettersInv, Next, Tick, AddEvent, IndexOutOfRange, Acknowledge, Restart
<1> QED
  BY <1>1, <1>2, <1>4 DEF DeadLettersInv

\* The requests of the heat map: no more stamps than MaxStamps.
HeatTypeInv == HeatInv /\ stamps <= MaxStamps

\* The shape of all that keep state.
ShapesInv == DeadLettersInv /\ CorrelatorInv /\ TrackerInv /\ DetectorInv /\ HeatTypeInv

\* For every bound of the lists and every number of requests: what is kept has
\* the shape it ought to have, and lists do not outgrow their bounds
\* (dlq.go:262, correlator.go:88, detector.go:66 and 92).
THEOREM AnalysisTypeCorrect == AnalysisSpec => []AnalysisTypeOK
<1>1. AnalysisInit => ShapesInv
  <2> SUFFICES ASSUME AnalysisInit
               PROVE  ShapesInv
    OBVIOUS
  <2>1. DeadLettersInv
    <3>1. /\ clock = 0 /\ found = {} /\ events = <<>> /\ alive = TRUE /\ ticked = TRUE
          /\ output = [p \in Pools |-> NoOutput]
      BY DEF AnalysisInit, Init
    <3>2. ListInv
      BY <3>1, DeadLettersAssumption DEF ListInv, NoRepeatInWindow
    <3>3. output \in [Pools -> Output]
      BY <3>1, DeadLettersAssumption DEF NoOutput, Output
    <3>4. alive \in BOOLEAN /\ ticked \in BOOLEAN
      BY <3>1, Zenon
    <3> QED
      BY <3>2, <3>3, <3>4 DEF DeadLettersInv
  <2>2. CorrelatorInv
    BY NothingPosted DEF AnalysisInit, Correlator!Init
  <2>3. TrackerInv
    BY TrackerStarts
  <2>4. DetectorInv
    <3>1. FeedInv
      BY NothingFed DEF AnalysisInit, Detectors!Init
    <3>2. <<>> \in Seq(Anomaly) /\ Len(<<>>) <= MaxAnomalies
      BY AnalysisAssumption DEF Detectors!AnomaliesAssumption
    <3>3. /\ there = FALSE /\ base = Detectors!NewBase /\ anomalies = <<>>
          /\ feeding = [f \in Feeders |-> "idle"]
      BY DEF AnalysisInit, Detectors!Init, Detectors!NotFeeding
    <3> QED
      BY <3>1, <3>2, <3>3, BaselinesAreNumbers DEF DetectorInv, DetectorShape
  <2>5. HeatTypeInv
    <3>1. HeatInv
      BY HeatStarts
    <3>2. stamps = 0
      BY DEF AnalysisInit, HeatMap!Init
    <3> QED
      BY <3>1, <3>2, AnalysisAssumption DEF HeatTypeInv, HeatMap!IoHeatAssumption
  <2> QED
    BY <2>1, <2>2, <2>3, <2>4, <2>5 DEF ShapesInv
<1>2. ShapesInv /\ [AnalysisNext]_allVars => ShapesInv'
  <2> SUFFICES ASSUME ShapesInv, [AnalysisNext]_allVars
               PROVE  ShapesInv'
    OBVIOUS
  <2>1. /\ Next \/ UNCHANGED vars
        /\ Correlator!Next \/ UNCHANGED incidentVars
        /\ Tracker!Next \/ UNCHANGED hotspotVars
        /\ Detectors!Next \/ UNCHANGED anomalyVars
        /\ HeatMap!Next \/ UNCHANGED heatVars
    BY DEF allVars, AnalysisNext, DeadLettersMove, IncidentsMove, HotspotsMove,
           AnomaliesMove, HeatMoves, AnswersMove
  <2>2. DeadLettersInv'
    <3>1. CASE UNCHANGED vars
      BY <3>1 DEF ShapesInv, DeadLettersInv, vars, ListInv, NoRepeatInWindow
    <3> QED
      BY <2>1, <3>1, DeadLettersStep DEF ShapesInv
  <2>3. CorrelatorInv'
    <3>1. CASE UNCHANGED incidentVars
      BY <3>1 DEF ShapesInv, incidentVars, CorrelatorInv, Correlator!Typed, Reported,
                  ReportedAs, Correlator!Evidence
    <3> QED
      BY <2>1, <3>1, CorrelatorStep DEF ShapesInv
  <2>4. TrackerInv'
    <3>1. CASE UNCHANGED hotspotVars
      BY <3>1 DEF ShapesInv, hotspotVars, TrackerInv, TrackerShape, Compared, OneCollect,
                  NoneInvented
    <3> QED
      BY <2>1, <3>1, TrackerStep DEF ShapesInv
  <2>5. DetectorInv'
    <3>1. CASE UNCHANGED anomalyVars
      BY <3>1 DEF ShapesInv, anomalyVars, DetectorInv, DetectorShape, FeedInv, Fresh
    <3> QED
      BY <2>1, <3>1, DetectorStep DEF ShapesInv
  <2>6. HeatTypeInv'
    <3>1. CASE UNCHANGED heatVars
      BY <3>1 DEF ShapesInv, heatVars, HeatTypeInv, HeatInv, HeatShape, Remembered, ReadsAreBelow,
                  AloneIsLater, Unread, HeatMap!NoSample
    <3>2. CASE HeatMap!Next
      <4>1. HeatInv'
        BY <3>2, HeatStep DEF ShapesInv, HeatTypeInv
      <4>2. stamps' <= MaxStamps
        <5>1. stamps \in Nat /\ MaxStamps \in Nat /\ stamps <= MaxStamps
          BY AnalysisAssumption
          DEF ShapesInv, HeatTypeInv, HeatInv, HeatShape, HeatMap!IoHeatAssumption
        <5>2. stamps' = stamps \/ stamps' = 0 \/ (stamps < MaxStamps /\ stamps' = stamps + 1)
          BY <3>2 DEF HeatMap!Next, HeatMap!DatasetWorks, HeatMap!Restart, HeatMap!Stamp,
                      HeatMap!ReadDatasetKstats, HeatMap!MockDatasetIOHeat,
                      HeatMap!GetDatasetIOHeat
        <5> QED
          BY <5>1, <5>2
      <4> QED
        BY <4>1, <4>2 DEF HeatTypeInv
    <3> QED
      BY <2>1, <3>1, <3>2
  <2> QED
    BY <2>2, <2>3, <2>4, <2>5, <2>6 DEF ShapesInv
<1>3. ShapesInv => AnalysisTypeOK
  <2> SUFFICES ASSUME ShapesInv
               PROVE  AnalysisTypeOK
    OBVIOUS
  <2>1. TypeOK
    BY DEF ShapesInv, DeadLettersInv, ListInv, Entry, TypeOK
  <2>2. Correlator!Typed
    BY DEF ShapesInv, CorrelatorInv
  <2>3. Tracker!Typed
    <3>1. /\ \A c \in Collectors : collect[c] \in CollectRecord
          /\ history \in HistoryRecord
      BY DEF ShapesInv, TrackerInv, TrackerShape
    <3>2. \A c \in Collectors : collect[c].at \in {"idle", "compare", "write", "append"}
      BY <3>1 DEF CollectRecord
    <3>3. /\ history.sum \in Nat /\ history.happened \in Nat
          /\ history.highest \in 0..MaxErrors
      BY <3>1 DEF HistoryRecord
    <3> QED
      BY <3>2, <3>3 DEF ShapesInv, TrackerInv, TrackerShape, Tracker!Typed
  <2>4. Detectors!Typed
    <3>1. window \in Seq(Ratios) /\ Len(window) <= WindowSize
      <4>1. fed \in Seq(Ratios) /\ window = Latest(fed)
        BY DEF ShapesInv, DetectorInv, FeedInv
      <4>2. WindowSize \in Nat
        BY AnalysisAssumption DEF Detectors!AnomaliesAssumption
      <4>3. Len(fed) \in Nat
        BY <4>1
      <4>4. PICK m \in Int :
              /\ 1 <= m /\ m <= Len(fed) + 1
              /\ Len(fed) <= WindowSize => m = 1
              /\ Len(fed) > WindowSize => m = Len(fed) - WindowSize + 1
              /\ Latest(fed) \in Seq(Ratios)
              /\ Len(Latest(fed)) = Len(fed) - m + 1
        BY <4>1, LatestPoints
      <4> QED
        BY <4>1, <4>2, <4>3, <4>4
    <3> QED
      BY <3>1 DEF ShapesInv, DetectorInv, DetectorShape, FeedInv, Baseline, Detectors!Typed
  <2>5. HeatMap!Typed
    <3>1. HeatShape /\ stamps <= MaxStamps
      BY DEF ShapesInv, HeatTypeInv, HeatInv
    <3>2. MaxStamps \in Nat /\ MaxBytes \in Nat
      BY AnalysisAssumption DEF HeatMap!IoHeatAssumption
    <3>3. ASSUME NEW r \in Samplers
          PROVE  sampler[r] \in [at : {"idle", "read", "report"}, bytes : 0..MaxBytes,
                                 time : 0..MaxStamps, alone : {"yes", "no"}, life : 0..2]
      <4>1. sampler[r] \in Requests /\ sampler[r].bytes <= MaxBytes /\ sampler[r].time <= stamps
        BY <3>1 DEF HeatShape
      <4>2. stamps \in Nat
        BY <3>1 DEF HeatShape
      <4>3. /\ sampler[r].bytes \in 0..MaxBytes /\ sampler[r].time \in 0..MaxStamps
            /\ sampler[r].at \in {"idle", "read", "report"}
            /\ sampler[r].alone \in {"yes", "no"} /\ sampler[r].life \in 0..2
        BY <3>1, <3>2, <4>1, <4>2 DEF Requests
      <4> QED
        BY <4>1, <4>3 DEF Requests
    <3>4. sampler \in [Samplers -> [at : {"idle", "read", "report"}, bytes : 0..MaxBytes,
                                    time : 0..MaxStamps, alone : {"yes", "no"}, life : 0..2]]
      BY <3>1, <3>3 DEF HeatShape
    <3>5. prev \in [bytes : 0..MaxBytes, time : 0..MaxStamps]
      BY <3>1, <3>2 DEF HeatShape
    <3>6. bytes \in 0..MaxBytes /\ stamps \in 0..MaxStamps
      BY <3>1, <3>2 DEF HeatShape
    <3>7. reported.amount \in Nat
      BY <3>1 DEF HeatShape, Reports
    <3> QED
      BY <3>4, <3>5, <3>6, <3>7 DEF HeatMap!Typed
  <2> QED
    BY <2>1, <2>2, <2>3, <2>4, <2>5 DEF AnalysisTypeOK
<1> QED
  BY <1>1, <1>2, <1>3, PTL DEF AnalysisSpec, allVars
=============================================================================
