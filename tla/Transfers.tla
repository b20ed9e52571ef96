------------------------------ MODULE Transfers ------------------------------
(***************************************************************************)
(* A transfer of internal/web/send_receive_handler.go: SendSnapshot of     *)
(* internal/zfs/send_receive.go (ResumeReceive has the same structure)     *)
(* runs `zfs send` on one goroutine and `zfs recv` on another one, joined  *)
(* by an io.Pipe, and the goroutine of the job records what became of it.  *)
(*                                                                         *)
(* Between the processes the stream passes two goroutines of os/exec: one  *)
(* copies the output of send into the io.Pipe, one copies from it into the *)
(* input of recv.  What waits before the second one is counted in piped,   *)
(* what waits behind it in input.                                          *)
(***************************************************************************)
EXTENDS Naturals

CONSTANTS
  Chunks,    \* the length of the stream; its last chunk is the END record
  Buffer     \* how much waits in either place

TransfersAssumption == Chunks \in Nat \ {0} /\ Buffer \in Nat \ {0}

VARIABLES
  send,      \* the process zfs send
  sent,      \* chunks it has written
  sender,    \* where the goroutine that runs it is
  sendErr,   \* the variable both goroutines share
  recv,      \* the process zfs recv
  taken,       \* chunks it has read
  copier,    \* the goroutine that copies into the input of recv
  piped, input,
  pw, pr,    \* the ends of the io.Pipe
  pc,        \* where the goroutine of the job is
  err,       \* recvErr, then what SendSnapshot returns
  status     \* SendReceiveJob.Status

transferVars == <<send, sent, sender, sendErr, recv, taken, copier, piped, input,
                  pw, pr, pc, err, status>>
stream == <<sent, taken, piped, input>>
job == <<pc, err, status>>
sending == <<send, sender, sendErr>>
receiving == <<recv, copier>>

Gone == {"ok", "failed"}

\* The process is there, or it could not be started.
StartSend ==
  /\ sender = "start"
  /\ \/ send' = "alive" /\ sender' = "run"
     \/ send' = "failed" /\ sender' = "run"
  /\ UNCHANGED <<sendErr, stream, receiving, pw, pr, job>>

\* zfs send writes, and is killed by the signal of a broken pipe when the copy
\* of its output has ended.
SendWrites ==
  /\ send = "alive" /\ sent < Chunks
  /\ \/ /\ pr = "open" /\ piped < Buffer
        /\ sent' = sent + 1 /\ piped' = piped + 1
        /\ UNCHANGED send
     \/ pr = "closed" /\ send' = "failed" /\ UNCHANGED <<sent, piped>>
  /\ UNCHANGED <<taken, input, sender, sendErr, receiving, pw, pr, job>>

\* It ends with the stream; even then its exit status may be an error.
SendExits ==
  /\ send = "alive" /\ sent = Chunks
  /\ send' \in Gone
  /\ UNCHANGED <<sender, sendErr, stream, receiving, pw, pr, job>>

SendFails ==
  /\ send = "alive" /\ sent < Chunks
  /\ send' = "failed"
  /\ UNCHANGED <<sender, sendErr, stream, receiving, pw, pr, job>>

\* sendCmd.Run: the process is gone and its output is copied, or cannot be.
SendRunReturns ==
  /\ sender = "run" /\ send \in Gone
  /\ piped = 0 \/ pr = "closed"
  /\ sendErr' = IF send = "ok" /\ piped = 0 THEN "nil" ELSE "error"
  /\ sender' = "close"
  /\ UNCHANGED <<send, stream, receiving, pw, pr, job>>

\* Mutant: the pipe is closed before the error is there to be read.
ClosePipeEarly ==
  /\ sender \in {"run", "close"} /\ send \in Gone
  /\ piped = 0 \/ pr = "closed"
  /\ pw' = "closed"
  /\ sender' = IF sender = "run" THEN "run" ELSE "end"
  /\ UNCHANGED <<send, sendErr, stream, receiving, pr, job>>
\* pw.Close
ClosePipe ==
  /\ sender = "close"
  /\ pw' = "closed"
  /\ sender' = "end"
  /\ UNCHANGED <<send, sendErr, stream, receiving, pr, job>>

\* recvCmd.Run starts zfs recv, or returns at once.
StartRecv ==
  /\ pc = "start"
  /\ \/ recv' = "alive" /\ copier' = "copying" /\ pc' = "run" /\ UNCHANGED err
     \/ pc' = "close" /\ err' = "recv" /\ UNCHANGED <<recv, copier>>
  /\ UNCHANGED <<sending, stream, pw, pr, status>>

\* Without a reader of the input the copy ends at the next chunk, without a
\* writer when everything is copied.
Copy ==
  /\ copier = "copying"
  /\ \/ /\ piped > 0 /\ recv = "alive" /\ input < Buffer
        /\ piped' = piped - 1 /\ input' = input + 1
        /\ UNCHANGED copier
     \/ piped > 0 /\ recv # "alive" /\ copier' = "end"
          /\ piped' = piped - 1 /\ UNCHANGED input
     \/ piped = 0 /\ pw = "closed" /\ copier' = "end" /\ UNCHANGED <<piped, input>>
  /\ UNCHANGED <<sent, taken, sending, recv, pw, pr, job>>

\* zfs recv reads.  It succeeds after the END record only, and fails when the
\* stream ends without one.
RecvReads ==
  /\ recv = "alive"
  /\ \/ input > 0 /\ input' = input - 1 /\ taken' = taken + 1 /\ UNCHANGED recv
     \/ taken = Chunks /\ recv' = "ok" /\ UNCHANGED <<input, taken>>
     \/ /\ input = 0 /\ copier = "end" /\ taken < Chunks
        /\ recv' = "failed"
        /\ UNCHANGED <<input, taken>>
  /\ UNCHANGED <<sent, piped, sending, copier, pw, pr, job>>

\* A destination that does not exist, a full pool, a signal.
RecvFails ==
  /\ recv = "alive"
  /\ recv' = "failed"
  /\ UNCHANGED <<sending, stream, copier, pw, pr, job>>

\* recvCmd.Run waits for the process and for the copy of its input.
RecvRunReturns ==
  /\ pc = "run" /\ recv \in Gone /\ copier = "end"
  /\ err' = IF recv = "ok" THEN "nil" ELSE "recv"
  /\ pc' = "close"
  /\ UNCHANGED <<sending, stream, receiving, pw, pr, status>>

\* Mutant: the reading end stays open.
CloseReaderNot ==
  /\ pc = "close" /\ pc' = "sendErr"
  /\ UNCHANGED <<sending, stream, receiving, pw, pr, err, status>>
\* pr.Close
CloseReader ==
  /\ pc = "close" /\ pr' = "closed" /\ pc' = "sendErr"
  /\ UNCHANGED <<sending, stream, receiving, pw, err, status>>

\* sendErr is looked at, whether the goroutine has written it or not.
ReadSendErr ==
  /\ pc = "sendErr"
  /\ err' = IF sendErr = "error" THEN "send" ELSE err
  /\ pc' = "record"
  /\ UNCHANGED <<sending, stream, receiving, pw, pr, status>>

\* The goroutine of handleStartSendReceive, under srMu.
Record ==
  /\ pc = "record"
  /\ status' = IF err = "nil" THEN "complete" ELSE "failed"
  /\ pc' = "end"
  /\ UNCHANGED <<sending, stream, receiving, pw, pr, err>>

\* The job was put into srJobs and is running.
Init ==
  /\ send = "none" /\ sent = 0 /\ sender = "start" /\ sendErr = "nil"
  /\ recv = "none" /\ taken = 0 /\ copier = "none"
  /\ piped = 0 /\ input = 0 /\ pw = "open" /\ pr = "open"
  /\ pc = "start" /\ err = "nil" /\ status = "running"

\* Goroutines run, and a process that can write, read or end does so.
Progress ==
  \/ StartSend \/ SendWrites \/ SendExits \/ SendRunReturns \/ ClosePipe
  \/ StartRecv \/ Copy \/ RecvReads \/ RecvRunReturns
  \/ CloseReader \/ ReadSendErr \/ Record

Over == pc = "end" /\ sender = "end" /\ UNCHANGED transferVars

Next == Progress \/ SendFails \/ RecvFails \/ Over
----------------------------------------------------------------------------
Typed ==
  /\ send \in {"none", "alive"} \cup Gone /\ recv \in {"none", "alive"} \cup Gone
  /\ sender \in {"start", "run", "close", "end"} /\ sendErr \in {"nil", "error"}
  /\ copier \in {"none", "copying", "end"}
  /\ piped \in 0..Buffer /\ input \in 0..Buffer
  /\ sent \in 0..Chunks /\ taken + input + piped \in 0..sent
  /\ pw \in {"open", "closed"} /\ pr \in {"open", "closed"}
  /\ pc \in {"start", "run", "close", "sendErr", "record", "end"}
  /\ err \in {"nil", "send", "recv"}
  /\ status \in {"running", "complete", "failed"}

\* A job is reported complete only if both processes succeeded, although
\* sendErr is read without waiting for the goroutine that writes it
\* (send_receive.go:47-61, send_receive_handler.go:69).
CompleteMeansBothSucceeded ==
  status = "complete" => send = "ok" /\ recv = "ok" /\ taken = Chunks

\* Whichever process fails first, the job ends, and no zfs send is left behind
\* blocked on its output (send_receive.go:47-53).
TransferEnds == <>(status # "running" /\ sender = "end" /\ send \in Gone)
=============================================================================
