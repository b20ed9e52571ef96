------------------------------ MODULE Incidents ------------------------------
(***************************************************************************)
(* The correlator of events, internal/incident/correlator.go, behind       *)
(* internal/web/incident_handler.go.  Clients post events, with times of   *)
(* their own; each event is classified together with the recent events of  *)
(* its pool, and opens or updates the incident of the cause.               *)
(***************************************************************************)
EXTENDS Naturals, Sequences, Lists, SequencesExt, FiniteSets

CONSTANTS
  EventPools,
  Devices,      \* the vdevs events name; "" if they name none
  MaxBuffer,    \* Correlator.maxEvents: 1000
  Related,      \* the window of correlate: 5 minutes
  AboveFaulted, AboveSector, AboveLatency, AboveSpikes,  \* of classify: 5, 10, 2, 5
  Times,        \* the times events carry
  MaxPosts      \* bound on the events posted

Types == {"checksum_mismatch", "vdev_faulted", "latency_spike", "scrub_error"}
Causes == {"drive_failure", "sector_failure", "silent_corruption", "vdev_degraded"}

IncidentsAssumption ==
  /\ {AboveFaulted, AboveSector, AboveLatency, AboveSpikes} \subseteq Nat
  /\ Times \subseteq Nat /\ Related \in Nat \ {0} /\ MaxBuffer \in Nat \ {0}

VARIABLES
  eventBuf,   \* Correlator.eventBuf
  incidents,  \* Correlator.incidents: by pool and cause, NoIncident if absent
  posted      \* history: all the events that were ingested

incidentVars == <<eventBuf, incidents, posted>>

Posts == [time : Times, pool : EventPools, vdev : Devices, type : Types]
NoIncident == [events |-> <<>>, updated |-> 0, created |-> 0, resolved |-> FALSE]

Count(evs, type) == Len(Kept(evs, {e \in Posts : e.type = type}))

\* The cause of the first case that holds; its confidence is 0.60 or more, and
\* without a cause 0.
Classify(evs) ==
  LET checksums == Count(evs, "checksum_mismatch")
      latency   == Count(evs, "latency_spike")
  IN IF Count(evs, "vdev_faulted") > 0 /\ checksums > AboveFaulted
       THEN "drive_failure"
     ELSE IF checksums > AboveSector /\ latency > AboveLatency
       THEN "sector_failure"
     ELSE IF Count(evs, "scrub_error") > 0 /\ checksums > 0 THEN "silent_corruption"
     ELSE IF latency > AboveSpikes THEN "vdev_degraded" ELSE "unknown"

Severity(cause) ==
  CASE cause = "drive_failure" -> "failure"
    [] cause \in {"sector_failure", "silent_corruption"} -> "degradation"
    [] OTHER -> "warning"

UniqueVdevs(evs) == {evs[i].vdev : i \in 1..Len(evs)} \ {""}

\* What is to be done: an action, and the vdev it is for.
Actions(cause, evs) ==
  CASE cause = "drive_failure" ->
         {<<"replace_vdev", v>> : v \in UniqueVdevs(evs)} \cup {<<"run_scrub", "pool">>}
    [] cause \in {"sector_failure", "silent_corruption"} -> {<<"run_scrub", "pool">>}
    [] OTHER -> {<<"investigate", "pool">>}

\* Mutant: the buffer, which the pools share, is taken for that of one pool.
RelatedToAll(evs, ev) ==
  Kept(evs, {e \in Posts : e.time + Related > ev.time})
\* Events after ev are related to it, too, however late.
RelatedTo(evs, ev) ==
  Kept(evs, {e \in Posts : e.pool = ev.pool /\ e.time + Related > ev.time})

LastEvents(s) == IF Len(s) > MaxBuffer THEN SubSeq(s, Len(s) - MaxBuffer + 1, Len(s)) ELSE s

\* An incident that was resolved stays so while events go on updating it.
Correlate(buf, ev) ==
  LET evs   == RelatedTo(buf, ev)
      cause == Classify(evs)
      old   == incidents[<<ev.pool, cause>>]
  IN IF cause = "unknown" THEN incidents
     ELSE [incidents EXCEPT ![<<ev.pool, cause>>] =
             [events |-> evs, updated |-> ev.time, resolved |-> old.resolved,
              created |-> IF old = NoIncident THEN ev.time ELSE old.created]]

Ingest ==
  /\ Len(posted) < MaxPosts
  /\ \E ev \in Posts :
       /\ eventBuf' = LastEvents(Append(eventBuf, ev))
       /\ incidents' = Correlate(eventBuf', ev)
       /\ posted' = Append(posted, ev)

Resolve ==
  /\ \E p \in EventPools, c \in Causes :
       /\ incidents[<<p, c>>] # NoIncident
       /\ incidents' = [incidents EXCEPT ![<<p, c>>].resolved = TRUE]
  /\ UNCHANGED <<eventBuf, posted>>

List == {k \in DOMAIN incidents : incidents[k] # NoIncident}

None == [k \in EventPools \X Causes |-> NoIncident]

Init == eventBuf = <<>> /\ posted = <<>> /\ incidents = None

Restart == eventBuf' = <<>> /\ posted' = <<>> /\ incidents' = None

Next == Ingest \/ Resolve \/ Restart
----------------------------------------------------------------------------
Typed ==
  /\ eventBuf \in Seq(Posts) /\ Len(eventBuf) <= MaxBuffer
  /\ posted \in Seq(Posts)
  /\ incidents \in [EventPools \X Causes ->
       [events : Seq(Posts), updated : Times \cup {0}, created : Times \cup {0},
        resolved : BOOLEAN]]

\* The events of a pool that a reader of all posts relates to its last one.
Evidence(p) ==
  LET of == Kept(posted, {e \in Posts : e.pool = p})
  IN IF of = <<>> THEN <<>>
     ELSE Kept(of, {e \in Posts : e.time + Related > Last(of).time})

\* As long as the shared buffer has not overflowed, whatever other pools post in
\* between and in whatever order times come: a pool whose events warrant a cause
\* has its incident, with that evidence, and advice for every vdev it names
\* (correlator.go:84-112).
NothingMissed ==
  Len(posted) <= MaxBuffer =>
    \A p \in EventPools :
      LET cause == Classify(Evidence(p)) IN
      cause # "unknown" =>
        /\ <<p, cause>> \in List
        /\ incidents[<<p, cause>>].events = Evidence(p)
        /\ Severity(cause) = "failure" =>
             \A i \in 1..Len(Evidence(p)) :
               Evidence(p)[i].vdev # "" =>
                 <<"replace_vdev", Evidence(p)[i].vdev>> \in Actions(cause, Evidence(p))
=============================================================================
