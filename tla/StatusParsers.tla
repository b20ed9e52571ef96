---------------------------- MODULE StatusParsers ----------------------------
(***************************************************************************)
(* The parsers of the output of `zpool status` and `zfs list`.  The server *)
(* has one per feature (internal/zfs, vdev, hotspot), each with rules of   *)
(* its own for what is a vdev, which states count and how counters read.   *)
(*                                                                         *)
(* An output is the lines the parsers look at: the scan line, the rows of  *)
(* the configuration and the errors.  A row has a state and, unless it is  *)
(* a spare, three counters.  zpool abbreviates a counter from 1024 on,     *)
(* unless it is asked not to (-p), as only vdev/health.go does here.       *)
(***************************************************************************)
EXTENDS Naturals, FiniteSets, FiniteSetsExt

CONSTANTS
  Disks,      \* rows with a device path
  Counters    \* the values of counters

States == {"ONLINE", "DEGRADED", "FAULTED", "OFFLINE", "UNAVAIL", "REMOVED"}
Scans == {"none requested", "scrub in progress", "scrub paused", "scrub repaired",
          "resilver in progress", "resilvered"}
ParsersAssumption == Counters \subseteq Nat

VARIABLE shown   \* the output that is parsed, Nothing between two

Row == [state : States, read : Counters, write : Counters, cksum : Counters]
Nothing == [scan |-> "nothing", rows |-> <<>>]
\* A spare has a name and a state only; there is a row of the pool.
Outputs ==
  {o \in [scan : Scans, rows : [Disks \cup {"pool"} -> Row \cup {[state |-> "AVAIL"]}]] :
     o.rows["pool"].state # "AVAIL"}

HasCounters(o, d) == o.rows[d].state # "AVAIL"
Rows(o) == {d \in DOMAIN o.rows : HasCounters(o, d)}

\* strconv.ParseInt of "1.00K" is an error, which is dropped.
ParseInt(n) == IF n < 1024 THEN n ELSE 0
\* fmt.Sscanf reads the digits before the point.
Sscanf(n) == IF n < 1024 THEN n ELSE n \div 1024

\* parseVdevTree: every row but the pool's, spares included.
VdevTree(o) ==
  [d \in DOMAIN o.rows \ {"pool"} |->
     IF HasCounters(o, d)
     THEN [o.rows[d] EXCEPT !.read = ParseInt(@), !.write = ParseInt(@),
                            !.cksum = ParseInt(@)]
     ELSE [state |-> "AVAIL", read |-> 0, write |-> 0, cksum |-> 0]]

\* PoolHealth.parse: rows in trouble.  buildVdevIssue spreads the sum of the
\* counters over the three of them again.
IssueStates == {"FAULTED", "UNAVAIL", "DEGRADED", "REMOVED"}
ErrorTotal(o, d) == Sscanf(o.rows[d].read) + Sscanf(o.rows[d].write) + Sscanf(o.rows[d].cksum)
BuildVdevIssue(state, n) ==
  [state |-> state, read |-> n \div 3, write |-> n \div 3, cksum |-> n - 2 * (n \div 3)]
Issues(o) ==
  [d \in {e \in Rows(o) : o.rows[e].state \in IssueStates} |->
     BuildVdevIssue(o.rows[d].state, ErrorTotal(o, d))]

\* buildRepairSteps: how many steps the state of the pool asks for.
RepairSteps(o) ==
  CASE o.rows["pool"].state \in {"FAULTED", "DEGRADED"} -> 4
    [] o.rows["pool"].state = "ONLINE" /\ DOMAIN Issues(o) # {} -> 2
    [] OTHER -> 0

\* vdev.parseZpoolStatus, of `zpool status -p`; it does not know UNAVAIL.
VdevSamples(o) ==
  [d \in {e \in Rows(o) : o.rows[e].state # "UNAVAIL"} |-> o.rows[d]]

\* Tracker.parseZpoolStatus: the checksum errors of the rows that have any.
ChecksumErrors(o) ==
  [d \in {e \in Rows(o) : ParseInt(o.rows[e].cksum) # 0} |-> ParseInt(o.rows[d].cksum)]

\* Mutant: a device that cannot be opened is not a faulted one.
FaultedOnly(o) ==
  {d \in DOMAIN o.rows \ {"pool"} : o.rows[d].state = "FAULTED"}
\* ListFaultedDevices: rows with a path.
Faulted(o) ==
  {d \in DOMAIN o.rows \ {"pool"} : o.rows[d].state \in {"FAULTED", "UNAVAIL"}}

\* parseVDevLines, for the topology: every row in a state it knows.
Topology(o) == {d \in DOMAIN o.rows : o.rows[d].state \in States}

\* The rows dlq.checkPoolErrors reports, if it comes to them.
NonZero(o) ==
  {d \in Rows(o) : o.rows[d].read # 0 \/ o.rows[d].write # 0 \/ o.rows[d].cksum # 0}

\* parseScrubStatus, and ParseScrubStatus of the progress events.
ScrubState(o) ==
  CASE o.scan = "scrub repaired" -> "finished"
    [] o.scan = "scrub in progress" -> "scanning"
    [] o.scan = "scrub paused" -> "paused"
    [] OTHER -> "none"
ScrubEvent(o) ==
  CASE o.scan = "scrub in progress" -> "running"
    [] o.scan = "scrub paused" -> "paused"
    [] o.scan = "scrub repaired" -> "finished"
    [] OTHER -> "none"

\* GetResiverStatus, Resilvering, GetResilverStatus.
Resilvers(o) == o.scan = "resilver in progress"
Resilvering(o) == o.scan \in {"resilver in progress", "resilvered"} /\ o.scan # "resilvered"

Show == shown = Nothing /\ shown' \in Outputs
Parsed == shown # Nothing /\ shown' = Nothing

Init == shown = Nothing
Next == Show \/ Parsed
----------------------------------------------------------------------------
Typed == shown = Nothing \/ shown \in Outputs

\* No counter of the row is abbreviated.
Plain(row) == row.read < 1024 /\ row.write < 1024 /\ row.cksum < 1024

\* How the features tell of one row that has counters.  The samples have all of it
\* and lack what is UNAVAIL, of which the lists of faulted devices and of issues
\* tell instead.  A counter that is not abbreviated is the same to all; one that is
\* is lost to the tree and to the hotspots.
RowAgreed(o, d) ==
  LET row == o.rows[d] IN
  /\ IF row.state = "UNAVAIL"
     THEN /\ d \notin DOMAIN VdevSamples(o) /\ d \in DOMAIN Issues(o)
          /\ d \in Faulted(o) \cup {"pool"}
     ELSE d \in DOMAIN VdevSamples(o) /\ VdevSamples(o)[d] = row
  /\ Plain(row) =>
       /\ d # "pool" => VdevTree(o)[d] = row
       /\ d \in DOMAIN ChecksumErrors(o) <=> row.cksum # 0
       /\ d \in DOMAIN Issues(o) =>
            Issues(o)[d].read + Issues(o)[d].write + Issues(o)[d].cksum
              = row.read + row.write + row.cksum
  /\ row.cksum >= 1024 =>
       d \notin DOMAIN ChecksumErrors(o) /\ (d # "pool" => VdevTree(o)[d].cksum = 0)

\* Whatever zpool prints, the features tell the same of every row but for the two
\* differences that RowAgreed names (local.go:304-308, hotspot.go:101,
\* vdev/health.go:268).  They agree on which devices are faulted (replace.go:22,
\* health.go:89) and on whether a scrub or a resilver runs; a checksum error of the
\* hotspots is one the silent failure detector would report, too (dlq.go:143).  A
\* pool that is up and has a row in trouble gets repair steps (health.go:104-128).
ParsersAgree ==
  shown # Nothing =>
    LET o == shown IN
    /\ \A d \in Rows(o) : RowAgreed(o, d)
    /\ Faulted(o) \subseteq DOMAIN Issues(o)
    /\ \A d \in DOMAIN Issues(o) \ {"pool"} :
         d \in Faulted(o) <=> VdevTree(o)[d].state \in {"FAULTED", "UNAVAIL"}
    /\ Topology(o) = Rows(o)
    /\ (o.rows["pool"].state \in {"ONLINE", "DEGRADED", "FAULTED"} /\ DOMAIN Issues(o) # {})
         => RepairSteps(o) > 0
    /\ DOMAIN ChecksumErrors(o) \subseteq NonZero(o)
    /\ (ScrubState(o) = "none") = (ScrubEvent(o) = "none")
    /\ Resilvers(o) = Resilvering(o)
=============================================================================
