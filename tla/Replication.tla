----------------------------- MODULE Replication -----------------------------
(***************************************************************************)
(* SendReceive of internal/zfs/replication.go.  Unlike SendSnapshot it     *)
(* gives zfs receive the reading end of the output of zfs send itself, as  *)
(* an inherited file.  The parent's own copy of that end stays open until  *)
(* send.Wait has seen the sender exit.                                     *)
(***************************************************************************)
EXTENDS Naturals

CONSTANTS
  Length,     \* of the stream
  PipeSize    \* what the pipe of the kernel holds

VARIABLES
  source, written,   \* zfs send, and what it has written
  sink, consumed,    \* zfs receive, and what it has read
  ours,              \* the parent's copy of the reading end: is it open?
  at,                \* where SendReceive is
  result             \* what it returns

replicationVars == <<source, written, sink, consumed, ours, at, result>>

Exited == {"ok", "failed"}

Return(what) == at' = "returned" /\ result' = what

StartSource ==
  /\ at = "startSource"
  /\ \/ source' = "alive" /\ ours' = TRUE /\ at' = "startSink" /\ UNCHANGED result
     \/ Return("failed") /\ UNCHANGED <<source, ours>>
  /\ UNCHANGED <<written, sink, consumed>>

\* When recv does not start, send is left behind.
StartSink ==
  /\ at = "startSink"
  /\ \/ sink' = "alive" /\ at' = "waitSource" /\ UNCHANGED result
     \/ Return("failed") /\ UNCHANGED sink
  /\ UNCHANGED <<source, written, consumed, ours>>

\* A write into a pipe that nobody can read is a signal that kills the sender;
\* into a full one it blocks.
SourceMoves ==
  /\ source = "alive"
  /\ \/ written = Length /\ source' = "ok" /\ UNCHANGED written
     \/ /\ written < Length /\ (ours \/ sink = "alive")
        /\ written - consumed < PipeSize
        /\ written' = written + 1 /\ UNCHANGED source
     \/ /\ written < Length /\ ~ours /\ sink # "alive"
        /\ source' = "failed" /\ UNCHANGED written
  /\ UNCHANGED <<sink, consumed, ours, at, result>>

SourceFails ==
  /\ source = "alive" /\ source' = "failed"
  /\ UNCHANGED <<written, sink, consumed, ours, at, result>>

\* zfs receive reads to the end of the stream, or until the writers are gone.
SinkMoves ==
  /\ sink = "alive"
  /\ \/ consumed < written /\ consumed' = consumed + 1 /\ UNCHANGED sink
     \/ consumed = Length /\ sink' = "ok" /\ UNCHANGED consumed
     \/ consumed = written /\ consumed < Length /\ source \in Exited
          /\ sink' = "failed" /\ UNCHANGED consumed
  /\ UNCHANGED <<source, written, ours, at, result>>

\* The destination does not exist, is full, or the ssh connection breaks.
SinkFails ==
  /\ sink = "alive" /\ sink' = "failed"
  /\ UNCHANGED <<source, written, consumed, ours, at, result>>

\* send.Wait closes the parent's end when the sender has exited.  After an error
\* recv, which was started, is waited for by nobody.
WaitSource ==
  /\ at = "waitSource" /\ source \in Exited
  /\ ours' = FALSE
  /\ IF source = "ok" THEN at' = "waitSink" /\ UNCHANGED result ELSE Return("failed")
  /\ UNCHANGED <<source, written, sink, consumed>>

WaitSink ==
  /\ at = "waitSink" /\ sink \in Exited
  /\ Return(sink)
  /\ UNCHANGED <<source, written, sink, consumed, ours>>

Init ==
  /\ source = "none" /\ written = 0 /\ sink = "none" /\ consumed = 0
  /\ ours = FALSE /\ at = "startSource" /\ result = "none"

\* SendReceive runs, and a process that can read, write or end does so.  The
\* context, which would kill both, need not be cancelled.
Progress ==
  StartSource \/ StartSink \/ WaitSource \/ WaitSink \/ SourceMoves \/ SinkMoves

Next == Progress \/ SourceFails \/ SinkFails

Spec ==
  /\ Init /\ [][Next]_replicationVars
  /\ WF_replicationVars(StartSource \/ StartSink \/ WaitSource \/ WaitSink)
  /\ WF_replicationVars(SourceMoves)
  /\ WF_replicationVars(SinkMoves)
----------------------------------------------------------------------------
\* replication.go:142: "SendReceive performs zfs send | zfs receive".  When
\* either side of such a pipeline ends, the other one does, and so does the
\* call: a full pipe without a reader (replication.go:163) ends as well.
PipelineEnds == <>(at = "returned")
=============================================================================
