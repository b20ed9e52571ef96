----------------------------- MODULE Operations ------------------------------
(***************************************************************************)
(* The parts of the server that run beside accounts, alerts and the        *)
(* database: the event stream, the buffers of scrub events, the ZFS        *)
(* handlers with the store of hosts, transfers, the agent and the licence. *)
(* No call leads from one to another at this commit, and they share no     *)
(* state, so that no step of one enables or disables a step of another: a  *)
(* behaviour here moves one of them, which unit says.                      *)
(***************************************************************************)
EXTENDS EventSystem

CONSTANTS
  Appenders, Subscribers, Size, QueueSize, MaxAppends,  \* of ScrubBuffer
  Requests, Ops, MaxMore, MaxChanges,                   \* of Hosts
  Chunks, Buffer,                                       \* of Transfers
  MaxIds,                                               \* of Agent
  Keys, Day, MaxTime                                    \* of Licence

VARIABLES
  unit,
  ring, pos, scrubSubs, queue, appending, appended,
  kind, state, job, host, newest,
  send, sent, sender, sendErr, recv, taken, copier, piped, input, pw, pr,
  runner, err, status,
  agent, reg, table, granted, failed,
  time, key, cache, check, answer, lastPaid

Scrubs == INSTANCE ScrubBuffer WITH subs <- scrubSubs
Handlers == INSTANCE Hosts
Transfer == INSTANCE Transfers WITH pc <- runner
Remote == INSTANCE Agent
Tier == INSTANCE Licence

ASSUME OperationsAssumption ==
  /\ Scrubs!ScrubAssumption /\ Handlers!HostsAssumption
  /\ Transfer!TransfersAssumption /\ Remote!AgentAssumption
  /\ Tier!LicenceAssumption

eventVars == <<part, vars, pumpVars>>
scrubVars == <<ring, pos, scrubSubs, queue, appending, appended>>
hostVars == <<kind, state, job, host, newest>>
transferVars == <<send, sent, sender, sendErr, recv, taken, copier, piped, input,
                  pw, pr, runner, err, status>>
agentVars == <<agent, reg, table, granted, failed>>
licenceVars == <<time, key, cache, check, answer, lastPaid>>
unitVars == <<eventVars, scrubVars, hostVars, transferVars, agentVars, licenceVars>>

OperationsInit ==
  /\ unit \in {"events", "scrubs", "hosts", "transfer", "agent", "licence"}
  /\ SystemInit /\ (unit # "events" => part = "bus")
  /\ Scrubs!Init
  /\ Handlers!Init /\ (unit # "hosts" => kind = "local")
  /\ Transfer!Init
  /\ Remote!Init
  /\ Tier!Init /\ (unit # "licence" => key = "none")

EventsMove ==
  /\ unit = "events" /\ SystemNext
  /\ UNCHANGED <<unit, scrubVars, hostVars, transferVars, agentVars, licenceVars>>

ScrubsMove ==
  /\ unit = "scrubs" /\ Scrubs!Next
  /\ UNCHANGED <<unit, eventVars, hostVars, transferVars, agentVars, licenceVars>>

HostsMove ==
  /\ unit = "hosts" /\ Handlers!Next
  /\ UNCHANGED <<unit, eventVars, scrubVars, transferVars, agentVars, licenceVars>>

TransferMoves ==
  /\ unit = "transfer" /\ Transfer!Next
  /\ UNCHANGED <<unit, eventVars, scrubVars, hostVars, agentVars, licenceVars>>

AgentMoves ==
  /\ unit = "agent" /\ Remote!Next
  /\ UNCHANGED <<unit, eventVars, scrubVars, hostVars, transferVars, licenceVars>>

LicenceMoves ==
  /\ unit = "licence" /\ Tier!Next
  /\ UNCHANGED <<unit, eventVars, scrubVars, hostVars, transferVars, agentVars>>

OperationsNext ==
  \/ EventsMove \/ ScrubsMove \/ HostsMove
  \/ TransferMoves \/ AgentMoves \/ LicenceMoves

\* The fairness of SystemSpec.  Handlers take the steps they can take, what a
\* done context ends does end, and clients leave at last; commands need not end.
\* The goroutines and processes of a transfer make the progress they can make.
OperationsSpec ==
  /\ OperationsInit
  /\ [][OperationsNext]_<<unit, unitVars>>
  /\ \A s \in Streams : WF_vars(part = "bus" /\ Hurries(s))
  /\ \A p \in Publishers : WF_vars(part = "bus" /\ Publishing(p))
  /\ WF_pumpVars(part = "pump" /\ Pump!Step)
  /\ WF_pumpVars(part = "pump" /\ Pump!KillChild)
  /\ \A r \in Requests : WF_hostVars(unit = "hosts" /\ Handlers!Handles(r))
  /\ \A r \in Requests : WF_hostVars(unit = "hosts" /\ Handlers!Cut(r))
  /\ \A r \in Requests : WF_hostVars(unit = "hosts" /\ Handlers!Leave(r))
  /\ WF_transferVars(unit = "transfer" /\ Transfer!Progress)
----------------------------------------------------------------------------
\* The shape of the state of all of them.
OperationsTypeOK ==
  /\ SystemTypeOK
  /\ Scrubs!Typed /\ Handlers!Typed /\ Transfer!Typed /\ Remote!Typed /\ Tier!Typed

\* The ring holds the last events and Latest is the last one (scrub.go:36-38).
RingIsRecent == Scrubs!RingIsRecent

\* No record of a host is older than one that was stored before its request
\* came in (handler.go:311-330).
StaleOnlyByOverlap == Handlers!StaleOnlyByOverlap

\* Every handler of a local host or of TrueNAS returns if clients leave at last
\* (local.go:117-138, handler.go:402-440).
EveryRequestReturns == Handlers!EveryRequestReturns

\* A complete job means that both processes succeeded (send_receive.go:47-61).
CompleteMeansBothSucceeded == Transfer!CompleteMeansBothSucceeded

\* A transfer ends, and leaves no process behind (send_receive.go:47-53).
TransferEnds == unit = "transfer" => Transfer!TransferEnds

\* The agent reports under the first registration it stored (agent.go:46-60).
ReportsAsRegistered == Remote!ReportsAsRegistered

\* A paid tier stood in an answer of the licence server within the last day,
\* whatever its status and whatever key it was for (license.go:50-73).
PaidWasAnswered == Tier!PaidWasAnswered
=============================================================================
