----------------------------- MODULE EventSystem -----------------------------
(***************************************************************************)
(* The two halves of the event stream as this commit starts them: the pump *)
(* of startEventBus, which reads zpool events, and the bus of              *)
(* handleEventsStream.  No call leads from one to the other (publish has   *)
(* no caller), and they share no state, so that no step of one enables or  *)
(* disables a step of the other.  A behaviour here therefore moves one of  *)
(* them, which part says.                                                  *)
(***************************************************************************)
EXTENDS EventBus

CONSTANTS
  PumpCapacity,  \* of the channel of startEventBus: 256
  MaxLines       \* bound on the lines one child prints

VARIABLES
  part,                                \* the half that moves
  place, cancelled, child, lines, ch   \* the state of EventPump

pumpVars == <<place, cancelled, child, lines, ch>>

Pump == INSTANCE EventPump WITH pc <- place, Capacity <- PumpCapacity

ASSUME EventSystemAssumption == Pump!PumpAssumption

SystemInit == part \in {"bus", "pump"} /\ Init /\ Pump!Init

BusMoves == part = "bus" /\ Next /\ UNCHANGED <<part, pumpVars>>

PumpMoves == part = "pump" /\ Pump!Next /\ UNCHANGED <<part, vars>>

\* After a shutdown the goroutine is gone.
PumpStopped ==
  /\ part = "pump" /\ place = "stopped" /\ child # "running"
  /\ UNCHANGED <<part, pumpVars, vars>>

SystemNext == BusMoves \/ PumpMoves \/ PumpStopped

\* Goroutines take the steps they can take, and os/exec kills the child of a
\* cancelled context.  Clients need neither read what is sent to them nor come
\* or go, nobody needs to publish, a child need not exit by itself and nobody
\* need cancel the context.
SystemSpec ==
  /\ SystemInit
  /\ [][SystemNext]_<<part, vars, pumpVars>>
  /\ \A s \in Streams : WF_vars(part = "bus" /\ Hurries(s))
  /\ \A p \in Publishers : WF_vars(part = "bus" /\ Publishing(p))
  /\ WF_pumpVars(part = "pump" /\ Pump!Step)
  /\ WF_pumpVars(part = "pump" /\ Pump!KillChild)
----------------------------------------------------------------------------
\* The shape of the state of both halves.
SystemTypeOK == TypeOK /\ Pump!TypeOK /\ part \in {"bus", "pump"}

\* A restart never finds a child of the one before (zpool_events.go:101).
OneChild == Pump!OneChild

\* A shutdown ends the goroutine of startEventBus wherever it is blocked
\* (zpool_events.go:94-98, events_handler.go:55).
StopsOnCancel == Pump!StopsOnCancel
=============================================================================
