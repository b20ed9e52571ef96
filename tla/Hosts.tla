-------------------------------- MODULE Hosts --------------------------------
(***************************************************************************)
(* The ZFS handlers of internal/web/handler.go over the three collectors   *)
(* (internal/zfs/local.go, ssh.go and truenas.go) and the store of the     *)
(* latest data per host (internal/store/store.go).                         *)
(*                                                                         *)
(* A request runs one command, then what follows from its output, and      *)
(* answers.  The pools of a host are stored on the way.  A command may     *)
(* hang: what ends it is its own timeout or the context it was given,      *)
(* which is the request's for reads and the background for changes.  Over  *)
(* ssh neither does: the session is opened without a context, and closing  *)
(* it is a message to a server that may not answer.                        *)
(***************************************************************************)
EXTENDS Naturals

CONSTANTS
  Requests,   \* requests in flight at the same time
  Ops,        \* the operations asked for
  MaxMore,    \* bound on the commands after the first one
  MaxChanges  \* bound on the changes of the pools of the host

Reads == {"pools", "datasets", "snapshots", "smart"}
Changes == {"create", "delete", "scrub"}

HostsAssumption ==
  /\ Ops \subseteq Reads \cup Changes
  /\ MaxMore \in Nat /\ MaxChanges \in Nat \ {0}

VARIABLES
  kind,      \* of the collector of the host
  state,     \* the version of the host's pools; it only grows
  job,       \* job[r]: the request and the locals of its handler
  host,      \* Store.hosts[name], for the one host considered
  newest     \* history: the newest version that was ever stored

hostVars == <<kind, state, job, host, newest>>

\* floor is history: what newest was when the request came in.
NoJob ==
  [pc |-> "idle", op |-> "none", left |-> FALSE, first |-> TRUE, todo |-> 0,
   began |-> 0, floor |-> 0, sample |-> 0]

NoHost == [sample |-> 0, floor |-> 0]

\* What is left to do is to write the answer.
Answers(r) ==
  job' = [job EXCEPT ![r] = [NoJob EXCEPT !.pc = "answer", !.op = job[r].op]]

\* TrueNAS has no command behind these: the collector answers at once.
Commandless(op) == kind = "truenas" /\ op \in Changes \cup {"smart"}

\* Without collectors, for an unknown host or with a body that does not parse,
\* the handler answers before it comes to a command.
Arrive(r) ==
  /\ job[r].pc = "idle"
  /\ \E op \in Ops, known \in BOOLEAN :
       job' = [job EXCEPT ![r] =
                 IF known /\ ~Commandless(op)
                 THEN [NoJob EXCEPT !.pc = "next", !.op = op, !.todo = 1,
                                    !.floor = IF op = "pools" THEN newest ELSE 0]
                 ELSE [NoJob EXCEPT !.pc = "answer", !.op = op]]
  /\ UNCHANGED <<kind, state, host, newest>>

\* The client is gone; net/http cancels the request's context.  After the last
\* command nobody looks at it.
Leave(r) ==
  /\ job[r].pc \in {"next", "opening", "running"} /\ ~job[r].left
  /\ job' = [job EXCEPT ![r].left = TRUE]
  /\ UNCHANGED <<kind, state, host, newest>>

\* The pools change, or any property of them.
HostChanges ==
  /\ state < MaxChanges
  /\ state' = state + 1
  /\ UNCHANGED <<kind, job, host, newest>>

Begins(r) ==
  job' = [job EXCEPT ![r].pc = "running",
            ![r].began = IF job[r].op = "pools" /\ job[r].first THEN state ELSE 0]

\* A local command and a request to TrueNAS begin at once; over ssh a session
\* comes first.
RunCommand(r) ==
  /\ job[r].pc = "next" /\ job[r].todo > 0
  /\ IF kind = "ssh" THEN job' = [job EXCEPT ![r].pc = "opening"] ELSE Begins(r)
  /\ UNCHANGED <<kind, state, host, newest>>

\* Mutant: a collector that answers from what it collected before.
SamplesCached(r) == 0..state
\* The output shows the pools as they were at some time while the command ran.
Samples(r) == job[r].began..state

\* The first command is over.  Without output the handler answers an error (the
\* SMART data an empty map).  The commands after it are the scrub status and the
\* vdev tree of each pool, or smartctl for each disk.
FirstEnds(r, out) ==
  IF out = "error" \/ job[r].op \notin {"pools", "smart"} THEN Answers(r)
  ELSE \E n \in 0..MaxMore, v \in IF job[r].op = "pools" THEN Samples(r) ELSE {0} :
         job' = [job EXCEPT ![r].pc = "next", ![r].first = FALSE, ![r].todo = n,
                   ![r].began = 0, ![r].sample = v]

\* The errors of the commands after the first one are ignored.
MoreEnds(r) ==
  job' = [job EXCEPT ![r].pc = "next", ![r].todo = job[r].todo - 1]

CommandOver(r, out) ==
  /\ IF job[r].first THEN FirstEnds(r, out) ELSE MoreEnds(r)
  /\ UNCHANGED <<kind, state, host, newest>>

\* NewSession waits for the server, whatever becomes of the request.
OpenSession(r) ==
  /\ job[r].pc = "opening"
  /\ \/ Begins(r) /\ UNCHANGED <<kind, state, host, newest>>
     \/ CommandOver(r, "error")

\* The command ends by itself, or its session or its request fails.  Over ssh
\* whatever was printed before is taken for all of it, also when the session
\* was closed because the context is done.
CommandEnds(r) ==
  /\ job[r].pc = "running"
  /\ \E out \in {"output", "error"} : CommandOver(r, out)

\* Mutant: only the caller's context bounds a command.
TimedNever(r) == FALSE
\* LocalCollector gives every command lc.timeout, but for the SMART data.
Timed(r) == kind = "local" /\ job[r].op # "smart"

\* Reads use the request's context, changes the background's.
Cancelled(r) == job[r].left /\ job[r].op \in Reads

\* The context of a command that is still running is done: os/exec kills the
\* process, net/http gives up.
Cut(r) ==
  /\ job[r].pc = "running" /\ kind # "ssh"
  /\ Timed(r) \/ Cancelled(r)
  /\ CommandOver(r, "error")

\* SetHostData replaces the record under the lock; the pools then go to the
\* alert engine.
SetHostData(r) ==
  /\ job[r].pc = "next" /\ job[r].todo = 0 /\ job[r].op = "pools"
  /\ host' = [sample |-> job[r].sample, floor |-> job[r].floor]
  /\ newest' = IF job[r].sample > newest THEN job[r].sample ELSE newest
  /\ Answers(r)
  /\ UNCHANGED <<kind, state>>

SmartDone(r) ==
  /\ job[r].pc = "next" /\ job[r].todo = 0 /\ job[r].op = "smart"
  /\ Answers(r)
  /\ UNCHANGED <<kind, state, host, newest>>

Answer(r) ==
  /\ job[r].pc = "answer"
  /\ job' = [job EXCEPT ![r] = NoJob]
  /\ UNCHANGED <<kind, state, host, newest>>

Init ==
  /\ kind \in {"local", "ssh", "truenas"}
  /\ state = 1
  /\ job = [r \in Requests |-> NoJob]
  /\ host = NoHost
  /\ newest = 0

\* What a handler does when nothing holds it up.
Handles(r) == RunCommand(r) \/ SetHostData(r) \/ SmartDone(r) \/ Answer(r)

Next ==
  \/ HostChanges
  \/ \E r \in Requests :
       Arrive(r) \/ Leave(r) \/ Handles(r) \/ OpenSession(r) \/ CommandEnds(r)
       \/ Cut(r)
----------------------------------------------------------------------------
Typed ==
  /\ kind \in {"local", "ssh", "truenas"}
  /\ state \in 1..MaxChanges
  /\ host \in [sample : 0..state, floor : 0..state]
  /\ newest \in 0..state
  /\ job \in [Requests ->
       [pc : {"idle", "next", "opening", "running", "answer"}, 
        op : Ops \cup {"none"}, left : BOOLEAN, first : BOOLEAN,
        todo : 0..(MaxMore + 1), began : 0..state, floor : 0..state,
        sample : 0..state]]

\* However requests for the pools of a host overlap (handler.go:311-330): a
\* record is never older than one that was stored before its request came in.
StaleOnlyByOverlap == host.sample >= host.floor

\* The handlers of a local host and of TrueNAS return although commands may hang
\* for ever, if clients leave at last: a change, which does not watch its client,
\* has a timeout (local.go:117-138, handler.go:402-440).  Over ssh nothing is
\* promised (ssh.go:78-87).
EveryRequestReturns ==
  \A r \in Requests : job[r].pc # "idle" /\ kind # "ssh" ~> job[r].pc = "idle"
=============================================================================
