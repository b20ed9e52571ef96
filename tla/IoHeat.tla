------------------------------- MODULE IoHeat --------------------------------
(***************************************************************************)
(* The heat map of datasets, internal/zfs/dataset_io.go.  A request takes  *)
(* the time, reads the counters of the kernel and then, under a lock,      *)
(* reports the difference to the sample of the request before it.  The     *)
(* counters are of 64 bits without a sign, and so are their differences.   *)
(***************************************************************************)
EXTENDS Integers, FiniteSets

CONSTANTS
  Samplers,   \* requests
  MaxBytes,   \* bound on what is read from the dataset
  MaxStamps,  \* bound on the requests
  Width       \* 2^64

IoHeatAssumption == MaxBytes \in Nat /\ MaxStamps \in Nat /\ Width \in Nat /\ MaxBytes < Width

VARIABLES
  bytes,     \* the counter nread of the dataset
  stamps,    \* the time: no two requests get the same
  sampler,   \* sampler[r]: where the request is, and its sample; history: whether
             \* it is alone since it began, and which life of the counter it read
             \* of, 0 for none
  prev,      \* ioHeatPrev of the dataset
  reported   \* history: the lives of the counter, what the last request that
             \* finished had read and of which life, what it reported if it did

heatVars == <<bytes, stamps, sampler, prev, reported>>

Idle == [at |-> "idle", bytes |-> 0, time |-> 0, alone |-> "no", life |-> 0]
NoSample == [bytes |-> 0, time |-> 0]

\* The dataset is read, or exported and imported again (once).
DatasetWorks ==
  /\ \/ bytes < MaxBytes /\ bytes' = bytes + 1 /\ UNCHANGED reported
     \/ /\ bytes > 0 /\ reported.lives = 1 /\ bytes' = 0
        /\ reported' = [reported EXCEPT !.lives = 2]
  /\ UNCHANGED <<stamps, sampler, prev>>

Stamp(r) ==
  /\ sampler[r].at = "idle" /\ stamps < MaxStamps
  /\ stamps' = stamps + 1
  /\ sampler' = [o \in Samplers |->
       IF o # r THEN [sampler[o] EXCEPT !.alone = "no"]
       ELSE [Idle EXCEPT !.at = "read", !.time = stamps + 1,
               !.alone = IF \A d \in Samplers : sampler[d].at = "idle" THEN "yes" ELSE "no"]]
  /\ UNCHANGED <<bytes, prev, reported>>

\* A counter that is not there, or is no number, is 0.
ReadDatasetKstats(r) ==
  /\ sampler[r].at = "read"
  /\ \/ sampler' = [sampler EXCEPT ![r].at = "report", ![r].bytes = bytes,
                                   ![r].life = reported.lives]
     \/ sampler' = [sampler EXCEPT ![r].at = "report"]
  /\ UNCHANGED <<bytes, stamps, prev, reported>>

\* No counters of the pool at all: the answer is made up, and nothing is remembered.
MockDatasetIOHeat(r) ==
  /\ sampler[r].at = "read"
  /\ sampler' = [sampler EXCEPT ![r] = Idle]
  /\ UNCHANGED <<bytes, stamps, prev, reported>>

\* Mutant: the first sample stays the one that all are compared with.
RememberFirst(sample) == IF prev = NoSample THEN sample ELSE prev
Remember(sample) == sample

\* A sample that is not newer than the one before is remembered, too.
GetDatasetIOHeat(r) ==
  LET sample == [bytes |-> sampler[r].bytes, time |-> sampler[r].time]
  IN /\ sampler[r].at = "report"
     /\ prev' = Remember(sample)
     /\ reported' = [reported EXCEPT
          !.bytes = sample.bytes, !.life = sampler[r].life,
          !.counted = IF prev # NoSample /\ sample.time > prev.time THEN "yes" ELSE "no",
          !.amount = (sample.bytes + Width - prev.bytes) % Width]
     /\ sampler' = [sampler EXCEPT ![r] = Idle]
     /\ UNCHANGED <<bytes, stamps>>

NoReport == [lives |-> 1, bytes |-> 0, life |-> 0, counted |-> "no", amount |-> 0]
NoRequest == [r \in Samplers |-> Idle]

Init ==
  /\ bytes = 0 /\ stamps = 0 /\ prev = NoSample
  /\ sampler = NoRequest /\ reported = NoReport

\* The machine starts again.
Restart ==
  /\ bytes' = 0 /\ stamps' = 0 /\ prev' = NoSample
  /\ sampler' = NoRequest /\ reported' = NoReport

Next ==
  \/ DatasetWorks \/ Restart
  \/ \E r \in Samplers :
       Stamp(r) \/ ReadDatasetKstats(r) \/ MockDatasetIOHeat(r) \/ GetDatasetIOHeat(r)
----------------------------------------------------------------------------
Typed ==
  /\ bytes \in 0..MaxBytes /\ stamps \in 0..MaxStamps
  /\ sampler \in [Samplers -> [at : {"idle", "read", "report"}, bytes : 0..MaxBytes,
                               time : 0..MaxStamps, alone : {"yes", "no"}, life : 0..2]]
  /\ prev \in [bytes : 0..MaxBytes, time : 0..MaxStamps]
  /\ reported.amount \in Nat

\* A request that was alone from beginning to end is not passed over and reports
\* exactly what was read since the request before it, if both read the same life
\* of the counter: what overlapping requests leave behind, in whatever order they
\* stamped, read and stored, harms none but themselves (dataset_io.go:49-62).
BytesAccounted ==
  [][\A r \in Samplers :
       GetDatasetIOHeat(r) /\ sampler[r].alone = "yes"
         /\ sampler[r].life # 0 /\ sampler[r].life = reported.life =>
           /\ reported'.counted = "yes"
           /\ reported'.amount = sampler[r].bytes - reported.bytes]_heatVars
=============================================================================
