------------------------------ MODULE EventPump ------------------------------
(***************************************************************************)
(* The goroutine of startEventBus (internal/web/events_handler.go:50) and  *)
(* StreamEvents, which it calls in a loop (internal/zfs/zpool_events.go).  *)
(* StreamEvents runs `zpool events -v` and sends what it parses on a       *)
(* channel; when it returns, startEventBus sleeps, empties the channel and *)
(* calls it again.  Nothing receives from the channel in between.          *)
(*                                                                         *)
(* The child process and os/exec are external: the child prints lines and  *)
(* exits; CommandContext kills it when the context is cancelled and        *)
(* refuses to start it afterwards.                                         *)
(***************************************************************************)
EXTENDS Naturals

CONSTANTS
  Capacity,     \* of the channel: 256
  MaxLines      \* bound on the lines one child prints

\* What the code grants of the constants.
PumpAssumption == Capacity \in Nat \ {0} /\ MaxLines \in Nat

VARIABLES
  pc,         \* where the goroutine is
  cancelled,  \* has the context been cancelled?
  child,      \* the last child process: "none", "running" or "exited"
  lines,      \* the events the child has still to print
  ch          \* the number of events in the channel

vars == <<pc, cancelled, child, lines, ch>>

Places == {"call", "scan", "send", "wait", "returned", "sleep", "drain", "stopped"}
----------------------------------------------------------------------------
(***************************************************************************)
(* StreamEvents.                                                           *)
(***************************************************************************)
\* cmd.Start; zpool may be missing.
StartChild ==
  /\ pc = "call"
  /\ \/ /\ ~cancelled
        /\ pc' = "scan"
        /\ child' = "running"
        /\ lines' \in 0..MaxLines
     \/ /\ pc' = "returned"
        /\ UNCHANGED <<child, lines>>
  /\ UNCHANGED <<cancelled, ch>>

\* scanner.Scan: a line that is an event, end of file once the child is gone,
\* or a line longer than the buffer of the scanner, which ends the loop while
\* the child still runs.
Scan ==
  /\ pc = "scan"
  /\ \/ /\ lines > 0
        /\ lines' = lines - 1
        /\ pc' \in {"send", "wait"}
     \/ /\ lines = 0
        /\ child = "exited"
        /\ pc' = "wait"
        /\ UNCHANGED lines
  /\ UNCHANGED <<cancelled, child, ch>>

\* Mutant: the send does not watch the context.
SendOnly ==
  /\ pc = "send"
  /\ ch < Capacity
  /\ ch' = ch + 1
  /\ pc' = "scan"
  /\ UNCHANGED <<cancelled, child, lines>>
\* The select between the channel and ctx.Done.
Send ==
  /\ pc = "send"
  /\ \/ /\ ch < Capacity
        /\ ch' = ch + 1
        /\ pc' = "scan"
     \/ /\ cancelled
        /\ pc' = "returned"
        /\ UNCHANGED ch
  /\ UNCHANGED <<cancelled, child, lines>>

\* Mutant: the function returns the error of the scanner without cmd.Wait.
WaitSkipped ==
  /\ pc = "wait"
  /\ pc' = "returned"
  /\ UNCHANGED <<cancelled, child, lines, ch>>
\* cmd.Wait: a child that cannot write its remaining lines does not exit.
Wait ==
  /\ pc = "wait"
  /\ child = "exited"
  /\ pc' = "returned"
  /\ UNCHANGED <<cancelled, child, lines, ch>>
----------------------------------------------------------------------------
(***************************************************************************)
(* The loop of startEventBus.                                              *)
(***************************************************************************)
Returned ==
  /\ pc = "returned"
  /\ pc' = IF cancelled THEN "stopped" ELSE "sleep"
  /\ UNCHANGED <<cancelled, child, lines, ch>>

Sleep ==
  /\ pc = "sleep"
  /\ pc' = "drain"
  /\ UNCHANGED <<cancelled, child, lines, ch>>

Drain ==
  /\ pc = "drain"
  /\ ch' = 0
  /\ pc' = "call"
  /\ UNCHANGED <<cancelled, child, lines>>
----------------------------------------------------------------------------
\* The child exits by itself when it has printed everything, or dies.
ChildExits ==
  /\ child = "running"
  /\ child' = "exited"
  /\ lines' \in 0..lines
  /\ UNCHANGED <<pc, cancelled, ch>>

\* os/exec kills the child of a cancelled context.
KillChild ==
  /\ cancelled
  /\ child = "running"
  /\ child' = "exited"
  /\ UNCHANGED <<pc, cancelled, lines, ch>>

Cancel ==
  /\ ~cancelled
  /\ cancelled' = TRUE
  /\ UNCHANGED <<pc, child, lines, ch>>

Init ==
  /\ pc = "call" /\ cancelled = FALSE
  /\ child = "none" /\ lines = 0 /\ ch = 0

Step == StartChild \/ Scan \/ Send \/ Wait \/ Returned \/ Sleep \/ Drain

Next == Step \/ ChildExits \/ KillChild \/ Cancel

Spec == Init /\ [][Next]_vars
----------------------------------------------------------------------------
TypeOK ==
  /\ pc \in Places
  /\ cancelled \in BOOLEAN
  /\ child \in {"none", "running", "exited"}
  /\ lines \in 0..MaxLines
  /\ ch \in 0..Capacity

\* Once the server is shut down the goroutine ends, wherever it is: blocked on
\* a full channel, reading from the child, waiting for it, or asleep.
StopsOnCancel == cancelled ~> pc = "stopped"

\* The loop never has two children: whenever it is about to start one, the one
\* before has exited, also when the scanner gave up in the middle of its output.
OneChild == pc = "call" => child # "running"
=============================================================================
