----------------------------- MODULE DeadLetters -----------------------------
(***************************************************************************)
(* The detector of silent failures, internal/dlq/dlq.go, and its two       *)
(* handlers in internal/web/dlq_handler.go.  Watch polls; a poll turns the *)
(* output of `zpool status` of every pool, the kernel log and the ARC      *)
(* statistics into findings, which addEvent appends to a bounded list      *)
(* unless the same finding is already there and recent.                    *)
(*                                                                         *)
(* A message is a tuple of what it is put together from.                   *)
(***************************************************************************)
EXTENDS Naturals, Sequences

CONSTANTS
  Pools,
  Lines,        \* the lines that may follow "errors:" in zpool status
  Vdevs,        \* the vdevs of a pool
  Readings,     \* what the counters of a vdev may read
  Prose,        \* the other lines of at least five fields, such as "scan:"
  KernelLines,  \* the lines of dbgmsg that match an error pattern
  MaxSize,      \* Manager.maxSize: 200
  Window,       \* of the deduplication: 5 minutes
  MaxClock      \* bound on the clock

ASSUME DeadLettersAssumption ==
  /\ Readings \subseteq Nat /\ 0 \in Readings
  /\ MaxSize \in Nat \ {0}
  /\ Window \in Nat \ {0}
  /\ MaxClock \in Nat

VARIABLES
  clock,
  alive,     \* is the process alive?
  ticked,    \* has the ticker of Watch fired since the last poll?
  output,    \* output[p]: what zpool status printed for p, while a local holds it
  found,     \* the findings of this poll still to be added; their order is the
             \* order of lines in outputs, which can be any
  events     \* Manager.events

vars == <<clock, alive, ticked, output, found, events>>

\* A status output: whether it says "No known data errors", the data errors it
\* lists otherwise, the counters of the vdevs, the other lines it has.
Output ==
  {o \in [failed : BOOLEAN, clean : BOOLEAN, dataErrors : SUBSET Lines,
          counters : [Vdevs -> Readings], prose : SUBSET Prose] :
     o.clean => o.dataErrors = {}}

NoOutput ==
  [failed |-> TRUE, clean |-> TRUE, dataErrors |-> {},
   counters |-> [v \in Vdevs |-> 0], prose |-> {}]

Findings ==
  [pool : Pools \cup {"system"},
   message : {"data errors", "counters", "kernel log", "ratio"} \X
             (Lines \cup Vdevs \cup KernelLines \cup Prose \cup {"errors:", "arc"}) \X
             Readings]

Finding(p, k, x, n) == [pool |-> p, message |-> <<k, x, n>>]

\* checkPoolErrors.  A clean output ends the function before it comes to the
\* counters.  Otherwise every line of at least five fields whose third, fourth
\* or fifth is not "0" counts as a vdev: the line "errors:" itself does, and those
\* of the scan and the status.  The message about a vdev has its counters in it.
CheckPoolErrors(p, o) ==
  IF o.failed \/ o.clean THEN {}
  ELSE {Finding(p, "data errors", l, 0) : l \in o.dataErrors}
         \cup {Finding(p, "counters", v, o.counters[v]) :
                v \in {w \in Vdevs : o.counters[w] # 0}}
         \cup {Finding(p, "counters", l, 0) : l \in o.prose \cup {"errors:"}}

CheckPools(o) == UNION {CheckPoolErrors(p, o[p]) : p \in Pools}

\* A finding per matching line, and one for statistics that look like thrashing.
CheckKernelLog(k) == {Finding("system", "kernel log", l, 0) : l \in k}
CheckARCStats(low) == {Finding("system", "ratio", a, 0) : a \in low}
----------------------------------------------------------------------------
\* The ticker keeps one tick for a receiver that is late.  The unit of the clock
\* is longer than the 30 seconds between two ticks.
Tick ==
  /\ alive
  /\ clock' \in {clock, clock + 1} \cap 0..MaxClock
  /\ ticked' = TRUE
  /\ UNCHANGED <<alive, output, found, events>>

\* collect, up to the calls of addEvent.
Collect ==
  /\ alive
  /\ ticked
  /\ found = {}
  /\ ticked' = FALSE
  /\ \E o \in [Pools -> Output], k \in SUBSET KernelLines, low \in SUBSET {"arc"} :
       /\ output' = o
       /\ found' = CheckPools(o) \cup CheckKernelLog(k) \cup CheckARCStats(low)
  /\ UNCHANGED <<clock, alive, events>>

\* Mutant: an event that was acknowledged is not compared.
RecentOpen(f) ==
  \E i \in 1..Len(events) :
    /\ events[i].finding = f /\ events[i].at + Window > clock
    /\ events[i].status = "detected"
\* The same pool and message were detected within the window.
Recent(f) ==
  \E i \in 1..Len(events) :
    events[i].finding = f /\ events[i].at + Window > clock

\* Mutant: the bound is checked after the list has outgrown it.
EvictLate == IF Len(events) > MaxSize THEN Tail(events) ELSE events
Evict == IF Len(events) >= MaxSize THEN Tail(events) ELSE events

AddEvent ==
  /\ alive
  /\ found # {}
  /\ \E f \in found :
       /\ events' = IF Recent(f) THEN events
                    ELSE Append(Evict, [finding |-> f, at |-> clock,
                                        status |-> "detected"])
       /\ found' = found \ {f}
  /\ output' = [p \in Pools |-> NoOutput]
  /\ UNCHANGED <<clock, alive, ticked>>

\* generateID indexes a string of 16 digits with a remainder of up to 22.  It
\* runs before addEvent, on the goroutine of Watch, which recovers nothing.
IndexOutOfRange ==
  /\ alive
  /\ found # {}
  /\ alive' = FALSE
  /\ UNCHANGED <<clock, ticked, output, found, events>>

Acked(i) == [events EXCEPT ![i].status = "acknowledged"]

\* handleDLQAcknowledge: ids may collide, so any event can be the first one
\* that carries the id of the request.
Acknowledge ==
  /\ alive
  /\ \E i \in 1..Len(events) : events' = Acked(i)
  /\ UNCHANGED <<clock, alive, ticked, output, found>>

\* systemd starts the process again (zfsdash.service, Restart=on-failure) with
\* an empty list; Watch polls at once.
Restart ==
  /\ ~alive
  /\ alive' = TRUE
  /\ ticked' = TRUE
  /\ output' = [p \in Pools |-> NoOutput]
  /\ found' = {}
  /\ events' = <<>>
  /\ UNCHANGED clock

Init ==
  /\ clock = 0 /\ alive = TRUE /\ ticked = TRUE
  /\ output = [p \in Pools |-> NoOutput]
  /\ found = {}
  /\ events = <<>>

Next ==
  Tick \/ Collect \/ AddEvent \/ IndexOutOfRange \/ Acknowledge \/ Restart

Spec == Init /\ [][Next]_vars
----------------------------------------------------------------------------
TypeOK ==
  /\ clock \in Nat
  /\ alive \in BOOLEAN /\ ticked \in BOOLEAN
  /\ output \in [Pools -> Output]
  /\ found \subseteq Findings
  /\ events \in Seq([finding : Findings, at : Nat,
                     status : {"detected", "acknowledged"}])
  /\ Len(events) <= MaxSize

\* The same message of a pool is listed twice only if the two detections are at
\* least the window apart, whatever was evicted or acknowledged in between
\* (dlq.go:250-266).  Other counters of a vdev make another message (dlq.go:150).
NoRepeatInWindow ==
  \A i, j \in 1..Len(events) :
    i < j /\ events[i].finding = events[j].finding
      => events[j].at - events[i].at >= Window

\* dlq.go:131: "Check vdev error counters": the counters of a pool whose status
\* could be read are reported.
CountersAreReported ==
  [][\A p \in Pools, v \in Vdevs :
       ~output'[p].failed /\ output'[p].counters[v] # 0
         => Finding(p, "counters", v, output'[p].counters[v]) \in found']_output

\* dlq.go:58: "Watch starts background polling for ZFS kernel events"; its loop
\* ends when the context is cancelled (dlq.go:67), which no step here does.
PollingGoesOn == alive
=============================================================================
