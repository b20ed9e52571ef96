------------------------------ MODULE Analysis -------------------------------
(***************************************************************************)
(* The parts of the server that make something of what ZFS reports: the    *)
(* silent failure detector, the correlator of incidents, the tracker of    *)
(* checksum errors, the anomaly detectors, the heat map, the parsers, the  *)
(* planners and the advisors.  Each is behind handlers of its own, none    *)
(* calls another and they share no state: a behaviour here moves one of    *)
(* them, which unit says.                                                  *)
(***************************************************************************)
EXTENDS DeadLetters

CONSTANTS
  EventPools, Devices, MaxBuffer, Related, Times, MaxPosts,         \* of Incidents
  AboveFaulted, AboveSector, AboveLatency, AboveSpikes,
  Collectors, MaxErrors, Readable, MaxAge, Hours24, Hours1, MaxHours,       \* of Hotspots
  MaxCollects,
  Feeders, Ratios, WindowSize, Every, Enough, Sensitivity,          \* of Anomalies
  MaxAnomalies, MaxPoints,
  Samplers, MaxBytes, MaxStamps, Width,                             \* of IoHeat
  Disks, Counters,                                                  \* of StatusParsers
  Totals, Levels, MaxDay, MaxReadings, Uses, Shares, Sizes, Total,  \* of Planners
  Drives,
  MaxVdevs, MaxAdded,
  Ages, Held, MaxSnapshots, Errs, Counts, MaxTrend, Gaps, Delays,   \* of Advisors
  Percents, AlertAbove, Samples, MaxProfiled, Prices, MaxUsages

VARIABLES
  unit,
  eventBuf, incidents, posted,
  hours, counter, collect, baseline, errors, history,
  there, window, base, anomalies, feeding, fed,
  bytes, stamps, sampler, prev, reported,
  shown, plan, case

Correlator == INSTANCE Incidents
Tracker == INSTANCE Hotspots
Detectors == INSTANCE Anomalies
HeatMap == INSTANCE IoHeat
Parsers == INSTANCE StatusParsers
Planner == INSTANCE Planners
Advisor == INSTANCE Advisors

ASSUME AnalysisAssumption ==
  /\ Correlator!IncidentsAssumption /\ Tracker!HotspotsAssumption
  /\ Detectors!AnomaliesAssumption /\ HeatMap!IoHeatAssumption
  /\ Parsers!ParsersAssumption /\ Planner!PlannersAssumption
  /\ Advisor!AdvisorsAssumption

incidentVars == <<eventBuf, incidents, posted>>
hotspotVars == <<hours, counter, collect, baseline, errors, history>>
anomalyVars == <<there, window, base, anomalies, feeding, fed>>
heatVars == <<bytes, stamps, sampler, prev, reported>>
answerVars == <<shown, plan, case>>

AnalysisInit ==
  /\ unit \in {"dead letters", "incidents", "hotspots", "anomalies", "heat",
               "parsers", "planners", "advisors"}
  /\ Init /\ Correlator!Init /\ Tracker!Init /\ Detectors!Init /\ HeatMap!Init
  /\ Parsers!Init /\ Planner!Init /\ Advisor!Init

DeadLettersMove ==
  /\ unit = "dead letters" /\ Next
  /\ UNCHANGED <<unit, incidentVars, hotspotVars, anomalyVars, heatVars, answerVars>>

IncidentsMove ==
  /\ unit = "incidents" /\ Correlator!Next
  /\ UNCHANGED <<unit, vars, hotspotVars, anomalyVars, heatVars, answerVars>>

HotspotsMove ==
  /\ unit = "hotspots" /\ Tracker!Next
  /\ UNCHANGED <<unit, vars, incidentVars, anomalyVars, heatVars, answerVars>>

AnomaliesMove ==
  /\ unit = "anomalies" /\ Detectors!Next
  /\ UNCHANGED <<unit, vars, incidentVars, hotspotVars, heatVars, answerVars>>

HeatMoves ==
  /\ unit = "heat" /\ HeatMap!Next
  /\ UNCHANGED <<unit, vars, incidentVars, hotspotVars, anomalyVars, answerVars>>

AnswersMove ==
  /\ \/ unit = "parsers" /\ Parsers!Next /\ UNCHANGED <<plan, case>>
     \/ unit = "planners" /\ Planner!Next /\ UNCHANGED <<shown, case>>
     \/ unit = "advisors" /\ Advisor!Next /\ UNCHANGED <<shown, plan>>
  /\ UNCHANGED <<unit, vars, incidentVars, hotspotVars, anomalyVars, heatVars>>

AnalysisNext ==
  \/ DeadLettersMove \/ IncidentsMove \/ HotspotsMove
  \/ AnomaliesMove \/ HeatMoves \/ AnswersMove

AnalysisSpec ==
  /\ AnalysisInit
  /\ [][AnalysisNext]_<<unit, vars, incidentVars, hotspotVars, anomalyVars, heatVars,
                        answerVars>>
----------------------------------------------------------------------------
\* The shape of the state of those that keep state, lists within their bounds
\* (dlq.go:262, correlator.go:88, detector.go:66 and 92).
AnalysisTypeOK ==
  /\ TypeOK
  /\ Correlator!Typed /\ Tracker!Typed /\ Detectors!Typed /\ HeatMap!Typed

\* A pool whose events warrant an incident has it (correlator.go:84-112).
NothingMissed == Correlator!NothingMissed

\* No new high of a counter that was compared is lost, and only requests that
\* overlap count more errors than happened (hotspot.go:104-113).
IncreasesCounted == Tracker!IncreasesCounted

\* All feeders of a pool feed one detector (manager.go:31-46).
OneDetector == Detectors!OneDetector

\* A request for the heat map that was alone reports what was read, whatever
\* requests did before (dataset_io.go:49-62).
BytesAccounted == HeatMap!BytesAccounted

\* Of what zpool status prints the features tell the same, but for what is
\* UNAVAIL and what is abbreviated (local.go:252-314, vdev/health.go:268).
ParsersAgree == Parsers!ParsersAgree

\* The two forecasts of a pool whose size stays agree (capacity.go:76-94,
\* forecast.go:120-132).
ForecastsAgree == Planner!ForecastsAgree

\* What plans and advice promise adds up: space and data that are moved, freed or
\* charged; risks grow with errors, and readings like the others do not alert
\* (planner.go:61-156, health.go:166-250).
AdviceIsSound == Planner!PlansAreSound /\ Advisor!AdviceIsSound
=============================================================================
