--------------------------- MODULE OperationsProofs ---------------------------
(***************************************************************************)
(* Theorems about Operations, for every number of requests, keys and       *)
(* registrations, every length of a stream and every bound.  Each part has *)
(* an invariant of its own, which the steps of the others leave alone.     *)
(***************************************************************************)
EXTENDS Operations, EventSystemProofs

\* What is a sequence over a set is one over a larger set.
LEMMA WiderSeq ==
  ASSUME NEW S, NEW T, S \subseteq T, NEW q \in Seq(S)
  PROVE  q \in Seq(T)
<1>1. q \in [1..Len(q) -> S] /\ Len(q) \in Nat
  BY LenProperties
<1>2. q \in [1..Len(q) -> T]
  BY <1>1
<1> QED
  BY <1>1, <1>2, SeqDef

\* The registrations of the table are some of those the server granted.
AgentShape ==
  /\ agent \in {"down", "select", "register", "insert", "run"}
  /\ granted \in 0..MaxIds /\ reg \in 0..granted
  /\ table \in Seq(0..granted) /\ Len(table) <= MaxIds

\* The agent knows only then of no registration when there is none.
AgentInv ==
  /\ agent \in {"register", "insert"} /\ ~failed => table = <<>>
  /\ ReportsAsRegistered
  /\ AgentShape

\* A row is inserted only by an agent that found none, or that failed.
LEMMA AgentStep ==
  ASSUME AgentInv, Remote!Next
  PROVE  AgentInv'
<1>0. MaxIds \in Nat \ {0}
  BY OperationsAssumption DEF Remote!AgentAssumption
<1> USE <1>0 DEF AgentInv, ReportsAsRegistered, Remote!ReportsAsRegistered, AgentShape
<1>1. CASE Remote!Start
  BY <1>1 DEF Remote!Start
<1>2. CASE Remote!Select
  <2>1. table # <<>> => table[1] \in 0..granted
    OBVIOUS
  <2> QED
    BY <1>2, <2>1 DEF Remote!Select, Remote!FirstRow
<1>3. CASE Remote!Register
  <2>1. table \in Seq(0..(granted + 1))
    BY WiderSeq
  <2> QED
    BY <1>3, <2>1 DEF Remote!Register
<1>4. CASE Remote!Insert
  <2>1. CASE Len(table) < MaxIds /\ table' = Append(table, reg) /\ UNCHANGED failed
    <3>1. table' \in Seq(0..granted) /\ table' # <<>> /\ Len(table') = Len(table) + 1
      BY <2>1
    <3>2. table = <<>> => table'[1] = reg
      BY <2>1
    <3> QED
      BY <1>4, <2>1, <3>1, <3>2 DEF Remote!Insert
  <2>2. CASE failed' /\ UNCHANGED table
    BY <1>4, <2>2 DEF Remote!Insert
  <2> QED
    BY <1>4, <2>1, <2>2 DEF Remote!Insert
<1>5. CASE Remote!Stop
  BY <1>5 DEF Remote!Stop
<1> QED
  BY <1>1, <1>2, <1>3, <1>4, <1>5 DEF Remote!Next

\* The other parts of the unit leave the agent alone.
LEMMA AgentAlways == OperationsSpec => []AgentInv
<1>1. OperationsInit => AgentInv
  <2>1. Remote!Init => AgentShape
    <3>1. <<>> \in Seq(0..0) /\ Len(<<>>) = 0 /\ 0 \in 0..MaxIds /\ 0 <= MaxIds
      BY OperationsAssumption DEF Remote!AgentAssumption
    <3> QED
      BY <3>1 DEF Remote!Init, AgentShape
  <2> QED
    BY <2>1 DEF OperationsInit, Remote!Init, AgentInv, ReportsAsRegistered,
                Remote!ReportsAsRegistered
<1>2. AgentInv /\ [OperationsNext]_<<unit, unitVars>> => AgentInv'
  <2> SUFFICES ASSUME AgentInv, [OperationsNext]_<<unit, unitVars>>
               PROVE  AgentInv'
    OBVIOUS
  <2>1. CASE Remote!Next
    BY <2>1, AgentStep
  <2>2. CASE UNCHANGED agentVars
    BY <2>2 DEF agentVars, AgentInv, ReportsAsRegistered, Remote!ReportsAsRegistered,
                AgentShape
  <2> QED
    BY <2>1, <2>2 DEF OperationsNext, EventsMove, ScrubsMove, HostsMove,
                      TransferMoves, AgentMoves, LicenceMoves, unitVars
<1> QED
  BY <1>1, <1>2, PTL DEF OperationsSpec

\* Over restarts and crashes the agent reports under the first registration it
\* stored, unless a statement of this process failed (agent.go:46-60).
THEOREM AgentIsRegisteredOnce == OperationsSpec => []ReportsAsRegistered
<1>1. AgentInv => ReportsAsRegistered
  BY DEF AgentInv
<1> QED
  BY <1>1, AgentAlways, PTL
-----------------------------------------------------------------------------
\* A paid tier in the cache is not younger than the latest answer that gave one.
LicenceInv ==
  /\ time \in Nat /\ lastPaid \in Nat /\ lastPaid <= time + 1
  /\ answer.at \in Nat /\ answer.at <= time
  /\ cache.at \in Nat /\ (cache.tier = "paid" => cache.at < lastPaid)
  /\ PaidWasAnswered /\ Tier!Typed

\* Only an answer that is later than the cache replaces it.
LEMMA LicenceStep ==
  ASSUME LicenceInv, Tier!Next
  PROVE  LicenceInv'
<1>0. Day \in Nat \ {0} /\ MaxTime \in Nat
  BY OperationsAssumption DEF Tier!LicenceAssumption
<1> USE <1>0 DEF LicenceInv, PaidWasAnswered, Tier!PaidWasAnswered, Tier!Typed, Tier!Tiers
<1>1. CASE Tier!Environment
  BY <1>1 DEF Tier!Environment
<1>2. CASE Tier!Validate
  BY <1>2 DEF Tier!Validate, Tier!Fresh, Tier!Says
<1>3. CASE Tier!Refused
  BY <1>3 DEF Tier!Refused, Tier!Says
<1>4. CASE Tier!Accepted
  BY <1>4 DEF Tier!Accepted, Tier!Says, Tier!Broken
<1> QED
  BY <1>1, <1>2, <1>3, <1>4 DEF Tier!Next

\* The other parts of the unit leave the licence alone.
LEMMA LicenceAlways == OperationsSpec => []LicenceInv
<1>1. OperationsInit => LicenceInv
  BY OperationsAssumption
     DEF Tier!LicenceAssumption, OperationsInit, Tier!Init, Tier!Broken,
         LicenceInv, PaidWasAnswered, Tier!PaidWasAnswered, Tier!Typed, Tier!Tiers
<1>2. LicenceInv /\ [OperationsNext]_<<unit, unitVars>> => LicenceInv'
  <2> SUFFICES ASSUME LicenceInv, [OperationsNext]_<<unit, unitVars>>
               PROVE  LicenceInv'
    OBVIOUS
  <2>1. CASE Tier!Next
    BY <2>1, LicenceStep
  <2>2. CASE UNCHANGED licenceVars
    BY <2>2 DEF licenceVars, LicenceInv, PaidWasAnswered, Tier!PaidWasAnswered, Tier!Typed
  <2> QED
    BY <2>1, <2>2 DEF OperationsNext, EventsMove, ScrubsMove, HostsMove,
                      TransferMoves, AgentMoves, LicenceMoves, unitVars
<1> QED
  BY <1>1, <1>2, PTL DEF OperationsSpec

\* For any length of a day and any keys: what is answered as a paid tier stood in
\* an answer of the licence server that is less than a day old, whatever status it
\* had and whatever key it was for (license.go:50-73).
THEOREM PaidTiersWereAnswered == OperationsSpec => []PaidWasAnswered
<1>1. LicenceInv => PaidWasAnswered
  BY DEF LicenceInv
<1> QED
  BY <1>1, LicenceAlways, PTL
-----------------------------------------------------------------------------
\* The error of send is written before the pipe is closed, and zfs recv cannot
\* come to its end with the input still being copied unless the pipe is closed.
TransferShape == Transfer!Typed /\ taken \in Nat

SendErrIsWritten ==
  /\ sender \in {"close", "end"} /\ sendErr = "nil" => send = "ok"
  /\ pw = "closed" => sender = "end"

RecvSawTheEnd ==
  /\ recv = "ok" => taken = Chunks
  /\ recv = "none" => copier = "none"
  /\ copier = "end" /\ recv # "failed" => pw = "closed"

\* What SendSnapshot holds without an error.
ErrIsTrue ==
  /\ runner \in {"close", "sendErr", "record", "end"} /\ err = "nil"
       => recv = "ok" /\ copier = "end"
  /\ runner \in {"record", "end"} /\ err = "nil" => send = "ok"
  /\ status = "complete" => runner = "end" /\ err = "nil"

TransferInv == TransferShape /\ SendErrIsWritten /\ RecvSawTheEnd /\ ErrIsTrue

\* No step of the two processes, the pipe or the handler breaks it.
LEMMA TransferStep ==
  ASSUME TransferInv, Transfer!Next
  PROVE  TransferInv'
<1>0. Chunks \in Nat /\ Buffer \in Nat
  BY OperationsAssumption DEF Transfer!TransfersAssumption
<1> USE <1>0 DEF TransferInv, TransferShape, Transfer!Typed, SendErrIsWritten, RecvSawTheEnd,
                 ErrIsTrue, Transfer!stream, Transfer!job, Transfer!sending,
                 Transfer!receiving, Transfer!Gone
<1>1. CASE Transfer!StartSend
  BY <1>1 DEF Transfer!StartSend
<1>2. CASE Transfer!SendWrites
  BY <1>2 DEF Transfer!SendWrites
<1>3. CASE Transfer!SendExits \/ Transfer!SendFails
  BY <1>3 DEF Transfer!SendExits, Transfer!SendFails
<1>4. CASE Transfer!SendRunReturns
  BY <1>4 DEF Transfer!SendRunReturns
<1>5. CASE Transfer!ClosePipe
  BY <1>5 DEF Transfer!ClosePipe
<1>6. CASE Transfer!StartRecv
  BY <1>6 DEF Transfer!StartRecv
<1>7. CASE Transfer!Copy
  BY <1>7 DEF Transfer!Copy
<1>8. CASE Transfer!RecvReads
  BY <1>8 DEF Transfer!RecvReads
<1>9. CASE Transfer!RecvFails
  BY <1>9 DEF Transfer!RecvFails
<1>10. CASE Transfer!RecvRunReturns \/ Transfer!CloseReader
  BY <1>10 DEF Transfer!RecvRunReturns, Transfer!CloseReader
<1>11. CASE Transfer!ReadSendErr
  BY <1>11 DEF Transfer!ReadSendErr
<1>12. CASE Transfer!Record
  BY <1>12 DEF Transfer!Record
<1>13. CASE Transfer!Over
  BY <1>13 DEF Transfer!Over, Transfer!transferVars
<1> QED
  BY <1>1, <1>2, <1>3, <1>4, <1>5, <1>6, <1>7, <1>8, <1>9, <1>10, <1>11, <1>12,
     <1>13 DEF Transfer!Next, Transfer!Progress

\* The other parts of the unit leave the transfer alone.
LEMMA TransferAlways == OperationsSpec => []TransferInv
<1>1. OperationsInit => TransferInv
  BY OperationsAssumption
     DEF Transfer!TransfersAssumption, OperationsInit, Transfer!Init, TransferInv,
         TransferShape, Transfer!Typed, SendErrIsWritten, RecvSawTheEnd, ErrIsTrue
<1>2. TransferInv /\ [OperationsNext]_<<unit, unitVars>> => TransferInv'
  <2> SUFFICES ASSUME TransferInv, [OperationsNext]_<<unit, unitVars>>
               PROVE  TransferInv'
    OBVIOUS
  <2>1. CASE Transfer!Next
    BY <2>1, TransferStep
  <2>2. CASE UNCHANGED transferVars
    BY <2>2 DEF transferVars, TransferInv, TransferShape, Transfer!Typed,
                SendErrIsWritten, RecvSawTheEnd, ErrIsTrue, Transfer!Gone
  <2> QED
    BY <2>1, <2>2 DEF OperationsNext, EventsMove, ScrubsMove, HostsMove,
                      TransferMoves, AgentMoves, LicenceMoves, unitVars
<1> QED
  BY <1>1, <1>2, PTL DEF OperationsSpec

\* A job is complete only if both processes succeeded, for streams and buffers of
\* every size (send_receive.go:47-61, send_receive_handler.go:69).
THEOREM CompleteJobsAreComplete == OperationsSpec => []CompleteMeansBothSucceeded
<1>1. TransferInv => CompleteMeansBothSucceeded
  BY DEF TransferInv, RecvSawTheEnd, ErrIsTrue, CompleteMeansBothSucceeded,
         Transfer!CompleteMeansBothSucceeded
<1> QED
  BY <1>1, TransferAlways, PTL
-----------------------------------------------------------------------------
\* What a handler holds is not older than what was stored before its request.
JobInv(j) ==
  /\ j.floor <= state /\ j.sample <= state
  /\ j.pc \in {"opening", "running"} => j.todo > 0
  /\ j.pc = "next" /\ j.first => j.todo > 0
  /\ j.pc = "running" /\ j.first /\ j.op = "pools" => j.floor <= j.began
  /\ ~j.first /\ j.op = "pools" => j.floor <= j.sample
  /\ j.began <= state /\ j.todo <= MaxMore + 1

Jobs ==
  [pc : {"idle", "next", "opening", "running", "answer"}, 
   op : Ops \cup {"none"}, left : BOOLEAN, first : BOOLEAN, todo : Nat,
   began : Nat, floor : Nat, sample : Nat]

HostsInv ==
  /\ kind \in {"local", "ssh", "truenas"} /\ state \in 1..MaxChanges
  /\ newest \in 0..state /\ host.sample <= state /\ host.floor <= state
  /\ host \in [sample : Nat, floor : Nat]
  /\ job \in [Requests -> Jobs]
  /\ \A r \in Requests : JobInv(job[r])
  /\ StaleOnlyByOverlap

\* A step of one handler leaves the jobs of the others alone.
LEMMA OneJobChanges ==
  ASSUME HostsInv, NEW r \in Requests, NEW j \in Jobs, JobInv(j),
         job' = [job EXCEPT ![r] = j], UNCHANGED <<kind, state>>
  PROVE  /\ job' \in [Requests -> Jobs]
         /\ \A q \in Requests : JobInv(job[q])'
BY DEF HostsInv, JobInv

\* The bounds of the commands and of the changes.
LEMMA HostsBounds == MaxMore \in Nat /\ MaxChanges \in Nat \ {0}
BY OperationsAssumption DEF Handlers!HostsAssumption

\* An idle request holds nothing.
LEMMA NoJobIsAJob ==
  /\ Handlers!NoJob \in Jobs
  /\ Handlers!NoJob.first /\ Handlers!NoJob.floor = 0
  /\ Handlers!NoJob.sample = 0 /\ Handlers!NoJob.pc = "idle"
  /\ Handlers!NoJob.began = 0 /\ Handlers!NoJob.todo = 0
BY DEF Handlers!NoJob, Jobs

\* Neither does one that only has its answer left.
LEMMA AnswersWell ==
  ASSUME HostsInv, NEW r \in Requests
  PROVE  LET j == [Handlers!NoJob EXCEPT !.pc = "answer", !.op = job[r].op]
         IN /\ j \in Jobs /\ JobInv(j)
            /\ Handlers!NoJob \in Jobs /\ JobInv(Handlers!NoJob)
<1>1. job[r].op \in Ops \cup {"none"} /\ 0 <= state
  BY DEF HostsInv, Jobs
<1> USE HostsBounds
<1> DEFINE j == [Handlers!NoJob EXCEPT !.pc = "answer", !.op = job[r].op]
<1>2. j \in Jobs
  BY <1>1, NoJobIsAJob, HostsBounds DEF Jobs
<1>3. JobInv(j)
  BY <1>1, NoJobIsAJob, HostsBounds DEF Jobs, JobInv
<1>4. JobInv(Handlers!NoJob)
  BY <1>1, NoJobIsAJob, HostsBounds DEF Jobs, JobInv
<1> QED
  BY <1>2, <1>3, <1>4, NoJobIsAJob

\* A command that begins shows the pools as they are now, or as they will be.
LEMMA BeginsWell ==
  ASSUME HostsInv, NEW r \in Requests, Handlers!Begins(r), job[r].todo > 0
  PROVE  \E j \in Jobs : job' = [job EXCEPT ![r] = j] /\ JobInv(j)
<1>0. job[r] \in Jobs /\ JobInv(job[r]) /\ state \in Nat
  BY DEF HostsInv
<1> DEFINE j == [job[r] EXCEPT !.pc = "running",
              !.began = IF job[r].op = "pools" /\ job[r].first THEN state ELSE 0]
<1>1. j \in Jobs
  BY <1>0 DEF Jobs
<1>2. JobInv(j)
  BY <1>0, <1>1 DEF Jobs, JobInv
<1>3. job' = [job EXCEPT ![r] = j]
  BY DEF Handlers!Begins
<1> QED
  BY <1>1, <1>2, <1>3

\* A request that comes in, loses its client or starts a command.
LEMMA HandlerStep ==
  ASSUME HostsInv, NEW r \in Requests,
         Handlers!Arrive(r) \/ Handlers!Leave(r) \/ Handlers!RunCommand(r)
  PROVE  HostsInv'
<1>0. job[r] \in Jobs /\ JobInv(job[r])
  BY DEF HostsInv
<1>1. CASE Handlers!Arrive(r)
  <2>2. PICK j \in Jobs : job' = [job EXCEPT ![r] = j] /\ JobInv(j)
    <3>1. PICK op \in Ops, known \in BOOLEAN :
            job' = [job EXCEPT ![r] =
                      IF known /\ ~Handlers!Commandless(op)
                      THEN [Handlers!NoJob EXCEPT !.pc = "next", !.op = op, !.todo = 1,
                              !.floor = IF op = "pools" THEN newest ELSE 0]
                      ELSE [Handlers!NoJob EXCEPT !.pc = "answer", !.op = op]]
      BY <1>1 DEF Handlers!Arrive
    <3> DEFINE i == [Handlers!NoJob EXCEPT !.pc = "next", !.op = op, !.todo = 1,
                              !.floor = IF op = "pools" THEN newest ELSE 0]
               k == [Handlers!NoJob EXCEPT !.pc = "answer", !.op = op]
    <3> newest \in Nat /\ newest <= state /\ 0 <= state
      BY DEF HostsInv
    <3> USE HostsBounds
    <3>2. i \in Jobs
      BY NoJobIsAJob, HostsBounds DEF Jobs
    <3>3. JobInv(i)
      BY NoJobIsAJob, HostsBounds DEF Jobs, JobInv
    <3>4. k \in Jobs /\ JobInv(k)
      <4>1. k \in Jobs
        BY NoJobIsAJob DEF Jobs
      <4>2. JobInv(k)
        BY NoJobIsAJob, HostsBounds DEF Jobs, JobInv
      <4> QED
        BY <4>1, <4>2
    <3>5. job' = [job EXCEPT ![r] = i] \/ job' = [job EXCEPT ![r] = k]
      BY <3>1
    <3> HIDE DEF i, k
    <3> QED
      BY <3>2, <3>3, <3>4, <3>5
  <2> QED
    BY <1>1, <2>2, OneJobChanges
       DEF Handlers!Arrive, HostsInv, StaleOnlyByOverlap, Handlers!StaleOnlyByOverlap
<1>2. CASE Handlers!Leave(r)
  <2>2. PICK j \in Jobs : job' = [job EXCEPT ![r] = j] /\ JobInv(j)
    <3> DEFINE j == [job[r] EXCEPT !.left = TRUE]
    <3>1. j \in Jobs /\ JobInv(j)
      BY <1>0 DEF Jobs, JobInv
    <3>2. job' = [job EXCEPT ![r] = j]
      BY <1>2 DEF Handlers!Leave
    <3> QED
      BY <3>1, <3>2
  <2> QED
    BY <1>2, <2>2, OneJobChanges
       DEF Handlers!Leave, HostsInv, StaleOnlyByOverlap, Handlers!StaleOnlyByOverlap
<1>3. CASE Handlers!RunCommand(r)
  <2>2. PICK j \in Jobs : job' = [job EXCEPT ![r] = j] /\ JobInv(j)
    <3>0. job[r].todo > 0
      BY <1>3 DEF Handlers!RunCommand
    <3>1. CASE kind = "ssh"
      <4> DEFINE j == [job[r] EXCEPT !.pc = "opening"]
      <4>1. j \in Jobs /\ JobInv(j)
        BY <1>0, <3>0 DEF Jobs, JobInv
      <4>2. job' = [job EXCEPT ![r] = j]
        BY <1>3, <3>1 DEF Handlers!RunCommand
      <4> QED
        BY <4>1, <4>2
    <3>2. CASE kind # "ssh"
      BY <1>3, <3>0, <3>2, BeginsWell DEF Handlers!RunCommand
    <3> QED
      BY <3>1, <3>2
  <2> QED
    BY <1>3, <2>2, OneJobChanges
       DEF Handlers!RunCommand, HostsInv, StaleOnlyByOverlap, Handlers!StaleOnlyByOverlap
<1> QED
  BY <1>1, <1>2, <1>3

\* A command that ends, or is cut, ends the request or hands it what it printed.
LEMMA CommandStep ==
  ASSUME HostsInv, NEW r \in Requests, NEW out \in {"output", "error"},
         \/ job[r].pc = "running"
         \/ job[r].pc = "opening" /\ out = "error",
         Handlers!CommandOver(r, out)
  PROVE  HostsInv'
<1>0. job[r] \in Jobs /\ JobInv(job[r])
  BY DEF HostsInv
<1>1. PICK j \in Jobs : job' = [job EXCEPT ![r] = j] /\ JobInv(j)
  <2>1. CASE ~job[r].first
    <3> DEFINE j == [job[r] EXCEPT !.pc = "next", !.todo = job[r].todo - 1]
    <3>2. job[r].todo - 1 \in Nat
      BY <1>0 DEF Jobs, JobInv
    <3>3. j \in Jobs
      BY <1>0, <3>2 DEF Jobs
    <3>4. JobInv(j)
      BY <1>0, <2>1, <3>2, HostsBounds DEF Jobs, JobInv
    <3>5. job' = [job EXCEPT ![r] = j]
      BY <2>1 DEF Handlers!CommandOver, Handlers!MoreEnds
    <3> QED
      BY <3>3, <3>4, <3>5
  <2>2. CASE job[r].first /\ (out = "error" \/ job[r].op \notin {"pools", "smart"})
    <3> DEFINE j == [Handlers!NoJob EXCEPT !.pc = "answer", !.op = job[r].op]
    <3>1. j \in Jobs /\ JobInv(j)
      BY AnswersWell
    <3>2. job' = [job EXCEPT ![r] = j]
      BY <2>2 DEF Handlers!CommandOver, Handlers!FirstEnds, Handlers!Answers
    <3> QED
      BY <3>1, <3>2
  <2>3. CASE job[r].first /\ out # "error" /\ job[r].op \in {"pools", "smart"}
    <3>1. PICK n \in 0..MaxMore,
               v \in IF job[r].op = "pools" THEN Handlers!Samples(r) ELSE {0} :
            job' = [job EXCEPT ![r].pc = "next", ![r].first = FALSE, ![r].todo = n,
                      ![r].began = 0, ![r].sample = v]
      BY <2>3 DEF Handlers!CommandOver, Handlers!FirstEnds
    <3> DEFINE j == [job[r] EXCEPT !.pc = "next", !.first = FALSE, !.todo = n,
                                   !.began = 0, !.sample = v]
    <3>2. job' = [job EXCEPT ![r] = j]
      BY <3>1
    <3>3. n \in Nat /\ n <= MaxMore /\ v \in Nat /\ v <= state /\ (job[r].op = "pools" => job[r].floor <= v)
      BY <1>0, <2>3, HostsBounds
         DEF Handlers!CommandOver, Handlers!Samples, HostsInv, Jobs, JobInv
    <3>4. state \in Nat
      BY DEF HostsInv
    <3>5. j \in Jobs
      BY <1>0, <3>3 DEF Jobs
    <3>6. JobInv(j)
      BY <1>0, <3>3, <3>4, <3>5, HostsBounds DEF Jobs, JobInv
    <3> QED
      BY <3>2, <3>5, <3>6
  <2> QED
    BY <2>1, <2>2, <2>3
<1> QED
  BY <1>1, OneJobChanges
     DEF Handlers!CommandOver, HostsInv, StaleOnlyByOverlap, Handlers!StaleOnlyByOverlap

\* What a handler stores satisfies what it held.
LEMMA AnswerStep ==
  ASSUME HostsInv, NEW r \in Requests,
         Handlers!SetHostData(r) \/ Handlers!SmartDone(r) \/ Handlers!Answer(r)
  PROVE  HostsInv'
<1>0. job[r] \in Jobs /\ JobInv(job[r])
  BY DEF HostsInv
<1> DEFINE j == [Handlers!NoJob EXCEPT !.pc = "answer", !.op = job[r].op]
<1>1. j \in Jobs /\ JobInv(j) /\ Handlers!NoJob \in Jobs /\ JobInv(Handlers!NoJob)
  BY AnswersWell
<1>2. CASE Handlers!SetHostData(r)
  <2>0. job[r].pc = "next" /\ job[r].todo = 0 /\ job[r].op = "pools"
    BY <1>2 DEF Handlers!SetHostData
  <2>1. job[r].floor <= job[r].sample
    BY <1>0, <2>0 DEF Jobs, JobInv
  <2>2. job' = [job EXCEPT ![r] = j]
    BY <1>2 DEF Handlers!SetHostData, Handlers!Answers
  <2>3. host' = [sample |-> job[r].sample, floor |-> job[r].floor]
        /\ kind' = kind
    BY <1>2 DEF Handlers!SetHostData
  <2>4. host' \in [sample : Nat, floor : Nat]
    BY <1>0, <2>3 DEF Jobs
  <2>5. StaleOnlyByOverlap'
    BY <2>1, <2>3, <1>0 DEF StaleOnlyByOverlap, Handlers!StaleOnlyByOverlap, Jobs
  <2>7. newest' \in 0..state /\ UNCHANGED <<kind, state>>
    BY <1>0, <1>2 DEF Handlers!SetHostData, Jobs, JobInv, HostsInv
  <2>8. host'.sample <= state /\ host'.floor <= state
    BY <1>0, <2>3 DEF JobInv
  <2> HIDE DEF j
  <2> QED
    BY <1>1, <2>2, <2>4, <2>5, <2>7, <2>8, OneJobChanges DEF HostsInv
<1>3. CASE Handlers!SmartDone(r)
  <2>1. job' = [job EXCEPT ![r] = j] /\ UNCHANGED <<kind, state, host, newest>>
    BY <1>3 DEF Handlers!SmartDone, Handlers!Answers
  <2> HIDE DEF j
  <2> QED
    BY <1>1, <2>1, OneJobChanges
       DEF HostsInv, StaleOnlyByOverlap, Handlers!StaleOnlyByOverlap
<1>4. CASE Handlers!Answer(r)
  BY <1>1, <1>4, OneJobChanges
     DEF Handlers!Answer, HostsInv, StaleOnlyByOverlap, Handlers!StaleOnlyByOverlap
<1> QED
  BY <1>2, <1>3, <1>4

\* Every step of the handlers, and the host's own changes.
LEMMA HostsStep ==
  ASSUME HostsInv, Handlers!Next
  PROVE  HostsInv'
<1>1. CASE Handlers!HostChanges
  <2>1. state' = state + 1 /\ UNCHANGED <<kind, job, host, newest>>
    BY <1>1 DEF Handlers!HostChanges
  <2>2. \A r \in Requests : JobInv(job[r])'
    BY <2>1 DEF HostsInv, JobInv, Jobs
  <2>3. state' \in 1..MaxChanges /\ newest \in 0..state'
        /\ host.sample <= state' /\ host.floor <= state'
    BY <1>1, <2>1, HostsBounds DEF Handlers!HostChanges, HostsInv
  <2> QED
    BY <2>1, <2>2, <2>3 DEF HostsInv, StaleOnlyByOverlap, Handlers!StaleOnlyByOverlap
<1>2. ASSUME NEW r \in Requests, Handlers!CommandEnds(r) \/ Handlers!Cut(r)
      PROVE  HostsInv'
  BY <1>2, CommandStep DEF Handlers!CommandEnds, Handlers!Cut
<1>3. ASSUME NEW r \in Requests, Handlers!OpenSession(r)
      PROVE  HostsInv'
  <2>1. CASE Handlers!CommandOver(r, "error")
    BY <1>3, <2>1, CommandStep DEF Handlers!OpenSession
  <2>2. CASE Handlers!Begins(r) /\ UNCHANGED <<kind, state, host, newest>>
    <3>1. job[r].todo > 0
      BY <1>3 DEF Handlers!OpenSession, HostsInv, JobInv
    <3>2. PICK j \in Jobs : job' = [job EXCEPT ![r] = j] /\ JobInv(j)
      BY <2>2, <3>1, BeginsWell
    <3> QED
      BY <2>2, <3>2, OneJobChanges
         DEF HostsInv, StaleOnlyByOverlap, Handlers!StaleOnlyByOverlap
  <2> QED
    BY <1>3, <2>1, <2>2 DEF Handlers!OpenSession
<1> QED
  BY <1>1, <1>2, <1>3, HandlerStep, AnswerStep DEF Handlers!Next, Handlers!Handles

\* The other parts of the unit leave the hosts alone.
LEMMA HostsAlways == OperationsSpec => []HostsInv
<1>1. OperationsInit => HostsInv
  <2> SUFFICES ASSUME OperationsInit
               PROVE  HostsInv
    OBVIOUS
  <2>1. /\ kind \in {"local", "ssh", "truenas"} /\ state \in 1..MaxChanges
        /\ state = 1 /\ newest = 0 /\ host = [sample |-> 0, floor |-> 0]
        /\ job = [r \in Requests |-> Handlers!NoJob]
    BY HostsBounds DEF OperationsInit, Handlers!Init, Handlers!NoHost
  <2>2. \A r \in Requests : job[r] = Handlers!NoJob
    BY <2>1
  <2>3. job \in [Requests -> Jobs]
    BY <2>1, NoJobIsAJob
  <2>4. \A r \in Requests : JobInv(job[r])
    BY <2>1, <2>2, NoJobIsAJob, HostsBounds DEF JobInv
  <2> QED
    BY <2>1, <2>3, <2>4 DEF HostsInv, StaleOnlyByOverlap,
                            Handlers!StaleOnlyByOverlap
<1>2. HostsInv /\ [OperationsNext]_<<unit, unitVars>> => HostsInv'
  <2> SUFFICES ASSUME HostsInv, [OperationsNext]_<<unit, unitVars>>
               PROVE  HostsInv'
    OBVIOUS
  <2>1. CASE Handlers!Next
    BY <2>1, HostsStep
  <2>2. CASE UNCHANGED hostVars
    BY <2>2 DEF hostVars, HostsInv, JobInv, StaleOnlyByOverlap,
                Handlers!StaleOnlyByOverlap
  <2> QED
    BY <2>1, <2>2 DEF OperationsNext, EventsMove, ScrubsMove, HostsMove,
                      TransferMoves, AgentMoves, LicenceMoves, unitVars
<1> QED
  BY <1>1, <1>2, PTL DEF OperationsSpec

\* For any number of overlapping requests: no record of a host is older than one
\* that was stored before its request came in (handler.go:311-330).
THEOREM RecordsAreRecent == OperationsSpec => []StaleOnlyByOverlap
<1>1. HostsInv => StaleOnlyByOverlap
  BY DEF HostsInv
<1> QED
  BY <1>1, HostsAlways, PTL

-----------------------------------------------------------------------------
\* The number of a slot wraps to the first one.
LEMMA SlotsWrap ==
  ASSUME NEW N \in Nat \ {0}, NEW i \in 0..(N - 1)
  PROVE  /\ (i + 1) % N = IF i = N - 1 THEN 0 ELSE i + 1
         /\ (i + N - 1) % N = IF i = 0 THEN N - 1 ELSE i - 1
<1>1. \A a \in Nat : a % N \in 0..(N - 1) /\ a \div N \in Nat /\ a = N * (a \div N) + (a % N)
  OBVIOUS
<1>2. ASSUME NEW q \in Nat, NEW r \in 0..(N - 1), NEW k \in 0..(N - 1), NEW m \in {0, 1},
             N * q + r = N * m + k
      PROVE  r = k
  <2>1. CASE q >= m + 1
    <3>1. N * q >= N * (m + 1)
      BY <2>1
    <3>2. N * (m + 1) = N * m + N
      OBVIOUS
    <3> QED
      BY <1>2, <3>1, <3>2
  <2>2. CASE q <= m - 1
    BY <1>2, <2>2
  <2>3. CASE q = m
    BY <1>2, <2>3
  <2> QED
    BY <2>1, <2>2, <2>3
<1>3. \A k \in 0..(N - 1) : k % N = k /\ (N + k) % N = k
  <2> TAKE k \in 0..(N - 1)
  <2>1. k = N * (k \div N) + (k % N) /\ N + k = N * ((N + k) \div N) + ((N + k) % N)
    BY <1>1
  <2>2. k = N * 0 + k /\ N + k = N * 1 + k
    OBVIOUS
  <2>3. k % N \in 0..(N - 1) /\ k \div N \in Nat
    BY <1>1
  <2>4. (N + k) % N \in 0..(N - 1) /\ (N + k) \div N \in Nat
    BY <1>1
  <2>5. k % N = k
    BY <1>2, <2>1, <2>2, <2>3
  <2>6. (N + k) % N = k
    BY <1>2, <2>1, <2>2, <2>4
  <2> QED
    BY <2>5, <2>6
<1>4. (i + 1) % N = IF i = N - 1 THEN 0 ELSE i + 1
  <2>1. CASE i = N - 1
    <3>1. i + 1 = N + 0 /\ 0 \in 0..(N - 1)
      BY <2>1
    <3> QED
      BY <1>3, <2>1, <3>1
  <2>2. CASE i # N - 1
    <3>1. i + 1 \in 0..(N - 1)
      BY <2>2
    <3> QED
      BY <1>3, <2>2, <3>1
  <2> QED
    BY <2>1, <2>2
<1>5. (i + N - 1) % N = IF i = 0 THEN N - 1 ELSE i - 1
  <2>1. CASE i = 0
    <3>1. i + N - 1 = N - 1 /\ N - 1 \in 0..(N - 1)
      BY <2>1
    <3> QED
      BY <1>3, <2>1, <3>1
  <2>2. CASE i # 0
    <3>1. i + N - 1 = N + (i - 1) /\ i - 1 \in 0..(N - 1)
      BY <2>2
    <3> QED
      BY <1>3, <2>2, <3>1
  <2> QED
    BY <2>1, <2>2
<1> QED
  BY <1>4, <1>5

\* The slots before the position hold what was put since it was at the first
\* one, the slots behind it what was put on the round before, if there was one.
RingInv ==
  /\ appended \in Nat /\ pos \in 0..(Size - 1) /\ pos <= appended
  /\ appended < Size => pos = appended
  /\ ring \in [0..(Size - 1) -> Nat]
  /\ \A i \in 0..(Size - 1) :
       ring[i] = IF i < pos THEN appended - pos + i + 1
                 ELSE IF appended < Size THEN 0
                 ELSE appended - pos - Size + i + 1

\* An event that is put replaces the one that is a whole round older.
LEMMA RingStep ==
  ASSUME RingInv, Scrubs!Next
  PROVE  RingInv'
<1>0. Size \in Nat \ {0}
  BY OperationsAssumption DEF Scrubs!ScrubAssumption
<1>1. ASSUME NEW a \in Appenders, Scrubs!Put(a) PROVE RingInv'
  <2>1. pos' = IF pos = Size - 1 THEN 0 ELSE pos + 1
    BY <1>0, <1>1, SlotsWrap DEF RingInv, Scrubs!Put, Scrubs!Advance
  <2>2. appended' = appended + 1 /\ ring' = [ring EXCEPT ![pos] = appended + 1]
    BY <1>1 DEF Scrubs!Put
  <2>3. /\ appended' \in Nat /\ pos' \in 0..(Size - 1) /\ pos' <= appended'
        /\ appended' < Size => pos' = appended'
        /\ ring' \in [0..(Size - 1) -> Nat]
    BY <1>0, <2>1, <2>2 DEF RingInv
  <2>4. ASSUME NEW i \in 0..(Size - 1)
        PROVE  ring'[i] = IF i < pos' THEN appended' - pos' + i + 1
                          ELSE IF appended' < Size THEN 0
                          ELSE appended' - pos' - Size + i + 1
    <3>1. ring'[i] = IF i = pos THEN appended + 1 ELSE ring[i]
      BY <2>2 DEF RingInv
    <3>2. CASE pos = Size - 1
      BY <1>0, <2>1, <2>2, <3>1, <3>2 DEF RingInv
    <3>3. CASE pos # Size - 1
      <4>1. /\ pos' = pos + 1 /\ appended' = appended + 1 /\ pos + 1 < Size
            /\ appended \in Nat /\ pos \in Nat /\ Size \in Nat /\ i \in Nat
        BY <1>0, <2>1, <2>2, <3>3 DEF RingInv
      <4>2. appended' < Size <=> appended < Size
        BY <4>1 DEF RingInv
      <4>3. ring[i] = IF i < pos THEN appended - pos + i + 1
                      ELSE IF appended < Size THEN 0
                      ELSE appended - pos - Size + i + 1
        BY DEF RingInv
      <4>4. CASE i < pos
        BY <3>1, <4>1, <4>3, <4>4
      <4>5. CASE i = pos
        BY <3>1, <4>1, <4>5
      <4>6. CASE i > pos
        BY <3>1, <4>1, <4>2, <4>3, <4>6
      <4> QED
        BY <4>1, <4>4, <4>5, <4>6
    <3> QED
      BY <3>2, <3>3
  <2> QED
    BY <2>3, <2>4 DEF RingInv
<1>2. CASE UNCHANGED <<ring, pos, appended>>
  BY <1>2 DEF RingInv
<1> QED
  BY <1>1, <1>2 DEF Scrubs!Next, Scrubs!FanOut, Scrubs!Subscribe,
                    Scrubs!Unsubscribe, Scrubs!Receive

\* In such a ring are the last events, and Latest finds the last of them.
LEMMA RingHoldsTheLast == RingInv => RingIsRecent
<1> SUFFICES ASSUME RingInv PROVE RingIsRecent
  OBVIOUS
<1>0. Size \in Nat \ {0}
  BY OperationsAssumption DEF Scrubs!ScrubAssumption
<1>1. Scrubs!Latest = appended
  <2>1. (pos + Size - 1) % Size = IF pos = 0 THEN Size - 1 ELSE pos - 1
    BY <1>0, SlotsWrap DEF RingInv
  <2>2. CASE pos = 0
    BY <1>0, <2>1, <2>2 DEF RingInv, Scrubs!Latest
  <2>3. CASE pos # 0
    BY <1>0, <2>1, <2>3 DEF RingInv, Scrubs!Latest
  <2> QED
    BY <2>2, <2>3
<1>2. ASSUME NEW i \in 0..(Size - 1), ring[i] # 0
      PROVE  ring[i] \in 1..appended /\ ring[i] + Size > appended
  BY <1>0, <1>2 DEF RingInv
<1>3. ASSUME NEW e \in 1..appended, e + Size > appended
      PROVE  \E i \in 0..(Size - 1) : ring[i] = e
  <2>1. CASE e > appended - pos
    <3>1. e - 1 - (appended - pos) \in 0..(Size - 1) /\ e - 1 - (appended - pos) < pos
      BY <1>0, <2>1 DEF RingInv
    <3>2. ring[e - 1 - (appended - pos)] = e
      BY <1>0, <3>1 DEF RingInv
    <3> QED
      BY <3>1, <3>2
  <2>2. CASE ~(e > appended - pos)
    <3>1. /\ e - 1 - (appended - pos) + Size \in 0..(Size - 1)
          /\ e - 1 - (appended - pos) + Size >= pos /\ appended >= Size
      BY <1>0, <1>3, <2>2 DEF RingInv
    <3>2. ring[e - 1 - (appended - pos) + Size] = e
      BY <1>0, <3>1 DEF RingInv
    <3> QED
      BY <3>1, <3>2
  <2> QED
    BY <2>1, <2>2
<1>4. {ring[i] : i \in 0..(Size - 1)} \ {0} = {e \in 1..appended : e + Size > appended}
  <2>1. appended \in Nat
    BY DEF RingInv
  <2> QED
    BY <1>0, <1>2, <1>3, <2>1
<1> QED
  BY <1>1, <1>4 DEF RingIsRecent, Scrubs!RingIsRecent

\* Taking one of several different things out leaves different ones.
LEMMA RemovalKeeps ==
  ASSUME NEW S, NEW q \in Seq(S), Scrubs!IsInjective(q), NEW i \in 1..Len(q)
  PROVE  Scrubs!RemoveAt(q, i) \in Seq(S) /\ Scrubs!IsInjective(Scrubs!RemoveAt(q, i))
<1> DEFINE n == Len(q)
           d == Scrubs!RemoveAt(q, i)
<1>0. n \in Nat /\ \A k \in 1..n : q[k] \in S
  BY LenProperties, ElementOfSeq
<1>1. PICK a, b \in Seq(S) :
        /\ d = a \o b /\ Len(a) = i - 1 /\ Len(b) = n - i
        /\ \A k \in 1..(i - 1) : a[k] = q[k]
        /\ \A k \in 1..(n - i) : b[k] = q[i + k]
  <2>1. /\ SubSeq(q, 1, i - 1) \in Seq(S) /\ Len(SubSeq(q, 1, i - 1)) = i - 1
        /\ \A k \in 1..(i - 1) : SubSeq(q, 1, i - 1)[k] = q[k]
    BY <1>0, SubSeqProperties
  <2>2. /\ SubSeq(q, i + 1, n) \in Seq(S) /\ Len(SubSeq(q, i + 1, n)) = n - i
        /\ \A k \in 1..(n - i) : SubSeq(q, i + 1, n)[k] = q[i + k]
    BY <1>0, SubSeqProperties
  <2> QED
    BY <2>1, <2>2 DEF Scrubs!RemoveAt
<1>2. /\ d \in Seq(S) /\ Len(d) = Len(a) + Len(b)
      /\ \A k \in 1..(Len(a) + Len(b)) :
           d[k] = IF k <= Len(a) THEN a[k] ELSE b[k - Len(a)]
  <2>1. /\ a \o b \in Seq(S) /\ Len(a \o b) = Len(a) + Len(b)
        /\ \A k \in 1..(Len(a) + Len(b)) :
             (a \o b)[k] = IF k <= Len(a) THEN a[k] ELSE b[k - Len(a)]
    BY ConcatProperties
  <2> HIDE DEF d
  <2> QED
    BY <1>1, <2>1
<1>3. Len(d) = n - 1 /\ \A k \in 1..(n - 1) : d[k] = q[IF k < i THEN k ELSE k + 1]
  <2> HIDE DEF d
  <2>1. ASSUME NEW k \in 1..(n - 1) PROVE d[k] = q[IF k < i THEN k ELSE k + 1]
    <3>1. CASE k < i
      BY <1>0, <1>1, <1>2, <3>1
    <3>2. CASE k >= i
      <4>1. k - Len(a) \in 1..(n - i) /\ i + (k - Len(a)) = k + 1
        BY <1>0, <1>1, <3>2
      <4>2. d[k] = b[k - Len(a)]
        BY <1>0, <1>1, <1>2, <3>2
      <4>3. b[k - Len(a)] = q[k + 1]
        BY <1>1, <4>1
      <4> QED
        BY <3>2, <4>2, <4>3
    <3> QED
      BY <3>1, <3>2
  <2> QED
    BY <1>0, <1>1, <1>2, <2>1
<1>4. DOMAIN d = 1..(n - 1) /\ DOMAIN q = 1..n
  BY <1>0, <1>2, <1>3
<1>5. \A x, y \in 1..n : q[x] = q[y] => x = y
  BY <1>4 DEF Scrubs!IsInjective
<1>6. ASSUME NEW x \in 1..(n - 1), NEW y \in 1..(n - 1), d[x] = d[y] PROVE x = y
  <2>1. (IF x < i THEN x ELSE x + 1) \in 1..n /\ (IF y < i THEN y ELSE y + 1) \in 1..n
    BY <1>0
  <2>2. (IF x < i THEN x ELSE x + 1) = (IF y < i THEN y ELSE y + 1)
    BY <1>3, <1>5, <1>6, <2>1
  <2> QED
    BY <1>0, <2>2
<1> QED
  BY <1>2, <1>4, <1>6 DEF Scrubs!IsInjective

\* The channels hold events that were appended, and never too many.
ScrubsShape ==
  /\ RingInv
  /\ scrubSubs \in Seq(Subscribers) /\ Scrubs!IsInjective(scrubSubs)
  /\ queue \in [Subscribers -> Seq(1..appended)]
  /\ \A s \in Subscribers : Len(queue[s]) <= QueueSize
  /\ appending \in [Appenders -> 0..appended]

\* A subscriber that comes anew is different from those that are there.
LEMMA NewcomerKeeps ==
  ASSUME NEW S, NEW q \in Seq(S), Scrubs!IsInjective(q), NEW s \in S,
         ~Scrubs!Contains(q, s)
  PROVE  Append(q, s) \in Seq(S) /\ Scrubs!IsInjective(Append(q, s))
<1>1. /\ Append(q, s) \in Seq(S) /\ Len(Append(q, s)) = Len(q) + 1
      /\ \A i \in 1..Len(q) : Append(q, s)[i] = q[i]
      /\ Append(q, s)[Len(q) + 1] = s /\ Len(q) \in Nat
  BY AppendProperties, LenProperties
<1>2. DOMAIN Append(q, s) = 1..(Len(q) + 1) /\ DOMAIN q = 1..Len(q)
  BY <1>1, LenProperties
<1>3. \A i \in 1..Len(q) : q[i] # s
  BY DEF Scrubs!Contains
<1>4. \A a, b \in 1..Len(q) : q[a] = q[b] => a = b
  BY <1>2 DEF Scrubs!IsInjective
<1>5. ASSUME NEW a \in 1..(Len(q) + 1), NEW b \in 1..(Len(q) + 1),
             Append(q, s)[a] = Append(q, s)[b]
      PROVE  a = b
  <2>1. CASE a \in 1..Len(q) /\ b \in 1..Len(q)
    BY <1>1, <1>4, <1>5, <2>1
  <2>2. CASE a = Len(q) + 1 /\ b \in 1..Len(q)
    BY <1>1, <1>3, <1>5, <2>2
  <2>3. CASE a \in 1..Len(q) /\ b = Len(q) + 1
    BY <1>1, <1>3, <1>5, <2>3
  <2> QED
    BY <1>1, <2>1, <2>2, <2>3
<1> QED
  BY <1>1, <1>2, <1>5 DEF Scrubs!IsInjective

\* A channel that gets an event has room for it, and the others keep theirs.
LEMMA ScrubsStep ==
  ASSUME ScrubsShape, Scrubs!Next
  PROVE  ScrubsShape'
<1>0. RingInv' /\ appended \in Nat
  BY RingStep DEF ScrubsShape, RingInv
<1>1. ASSUME NEW a \in Appenders, Scrubs!Put(a) PROVE ScrubsShape'
  <2>1. appended' = appended + 1 /\ UNCHANGED <<scrubSubs, queue>>
    BY <1>1 DEF Scrubs!Put
  <2>2. ASSUME NEW s \in Subscribers PROVE queue[s] \in Seq(1..appended')
    <3>1. queue[s] \in Seq(1..appended) /\ 1..appended \subseteq 1..appended'
      BY <1>0, <2>1 DEF ScrubsShape
    <3> QED
      BY <3>1, WiderSeq
  <2>3. appending' \in [Appenders -> 0..appended']
    BY <1>0, <1>1 DEF Scrubs!Put, ScrubsShape
  <2> QED
    BY <1>0, <2>1, <2>2, <2>3 DEF ScrubsShape
<1>2. ASSUME NEW a \in Appenders, Scrubs!FanOut(a) PROVE ScrubsShape'
  <2>1. /\ appending[a] \in 1..appended
        /\ queue' = [s \in Subscribers |->
                       IF Scrubs!Contains(scrubSubs, s) /\ Len(queue[s]) < QueueSize
                       THEN Append(queue[s], appending[a]) ELSE queue[s]]
    BY <1>0, <1>2 DEF Scrubs!FanOut, ScrubsShape
  <2>2. ASSUME NEW s \in Subscribers
        PROVE  queue'[s] \in Seq(1..appended) /\ Len(queue'[s]) <= QueueSize
    <3>1. queue[s] \in Seq(1..appended) /\ Len(queue[s]) <= QueueSize
          /\ Len(queue[s]) \in Nat /\ QueueSize \in Nat
      BY OperationsAssumption, LenProperties DEF ScrubsShape, Scrubs!ScrubAssumption
    <3>2. /\ Append(queue[s], appending[a]) \in Seq(1..appended)
          /\ Len(Append(queue[s], appending[a])) = Len(queue[s]) + 1
      BY <2>1, <3>1, AppendProperties
    <3>3. \/ queue'[s] = queue[s]
          \/ Len(queue[s]) < QueueSize /\ queue'[s] = Append(queue[s], appending[a])
      BY <2>1
    <3>4. Len(queue[s]) < QueueSize => Len(queue[s]) + 1 <= QueueSize
      BY <3>1
    <3> QED
      BY <3>1, <3>2, <3>3, <3>4, Zenon
  <2>3. queue' \in [Subscribers -> Seq(1..appended)]
    BY <2>1, <2>2
  <2>4. appending' \in [Appenders -> 0..appended] /\ UNCHANGED <<scrubSubs, appended>>
    BY <1>0, <1>2 DEF Scrubs!FanOut, ScrubsShape
  <2> QED
    BY <1>0, <2>2, <2>3, <2>4 DEF ScrubsShape
<1>3. ASSUME NEW s \in Subscribers, Scrubs!Subscribe(s) \/ Scrubs!Unsubscribe(s)
      PROVE  ScrubsShape'
  <2>1. scrubSubs' \in Seq(Subscribers) /\ Scrubs!IsInjective(scrubSubs)'
    <3>1. CASE Scrubs!Subscribe(s)
      <4>1. /\ scrubSubs \in Seq(Subscribers) /\ Scrubs!IsInjective(scrubSubs)
            /\ ~Scrubs!Contains(scrubSubs, s) /\ scrubSubs' = Append(scrubSubs, s)
        BY <3>1 DEF Scrubs!Subscribe, ScrubsShape
      <4>2. /\ Append(scrubSubs, s) \in Seq(Subscribers)
            /\ Scrubs!IsInjective(Append(scrubSubs, s))
        BY <4>1, NewcomerKeeps
      <4> QED
        BY <4>1, <4>2 DEF Scrubs!IsInjective
    <3>2. CASE Scrubs!Unsubscribe(s)
      <4>1. scrubSubs \in Seq(Subscribers) /\ Scrubs!IsInjective(scrubSubs)
        BY DEF ScrubsShape
      <4>2. PICK i \in 1..Len(scrubSubs) : scrubSubs' = Scrubs!RemoveAt(scrubSubs, i)
        BY <3>2 DEF Scrubs!Unsubscribe
      <4>3. /\ Scrubs!RemoveAt(scrubSubs, i) \in Seq(Subscribers)
            /\ Scrubs!IsInjective(Scrubs!RemoveAt(scrubSubs, i))
        BY <4>1, RemovalKeeps
      <4> QED
        BY <4>2, <4>3 DEF Scrubs!IsInjective
    <3> QED
      BY <1>3, <3>1, <3>2
  <2>2. /\ queue' = [queue EXCEPT ![s] = <<>>]
        /\ UNCHANGED <<appended, appending>>
    BY <1>3 DEF Scrubs!Subscribe, Scrubs!Unsubscribe
  <2>3. <<>> \in Seq(1..appended) /\ Len(<<>>) = 0 /\ 0 <= QueueSize
    BY OperationsAssumption DEF Scrubs!ScrubAssumption
  <2> QED
    BY <1>0, <2>1, <2>2, <2>3 DEF ScrubsShape
<1>4. ASSUME NEW s \in Subscribers, Scrubs!Receive(s) PROVE ScrubsShape'
  <2>1. queue[s] # <<>> /\ queue' = [queue EXCEPT ![s] = Tail(queue[s])]
        /\ UNCHANGED <<scrubSubs, appended, appending>>
    BY <1>4 DEF Scrubs!Receive
  <2>2. queue[s] \in Seq(1..appended) /\ Len(queue[s]) <= QueueSize /\ QueueSize \in Nat
    BY OperationsAssumption DEF ScrubsShape, Scrubs!ScrubAssumption
  <2>3. Tail(queue[s]) \in Seq(1..appended) /\ Len(Tail(queue[s])) <= QueueSize
    <3> DEFINE E == 1..appended
               q == queue[s]
    <3>1. q \in Seq(E) /\ q # <<>> /\ Len(q) <= QueueSize
      BY <2>1, <2>2
    <3> HIDE DEF E, q
    <3>2. Tail(q) \in Seq(E) /\ Len(Tail(q)) = Len(q) - 1 /\ Len(q) \in Nat
      BY <3>1, HeadTailProperties, LenProperties
    <3>3. Len(Tail(q)) <= QueueSize
      BY <2>2, <3>1, <3>2
    <3> QED
      BY <3>2, <3>3 DEF E, q
  <2> QED
    BY <1>0, <2>1, <2>3 DEF ScrubsShape
<1> QED
  BY <1>1, <1>2, <1>3, <1>4 DEF Scrubs!Next

\* The other parts of the unit leave the buffers alone.
LEMMA ScrubsAlways == OperationsSpec => []ScrubsShape
<1>1. OperationsInit => ScrubsShape
  <2> SUFFICES ASSUME Scrubs!Init PROVE ScrubsShape
    BY DEF OperationsInit
  <2>1. Size \in Nat \ {0} /\ QueueSize \in Nat
    BY OperationsAssumption DEF Scrubs!ScrubAssumption
  <2>2. RingInv
    BY <2>1 DEF Scrubs!Init, RingInv
  <2>3. \A S : <<>> \in Seq(S) /\ Len(<<>>) = 0 /\ DOMAIN <<>> = {}
    OBVIOUS
  <2>4. scrubSubs \in Seq(Subscribers) /\ Scrubs!IsInjective(scrubSubs)
    BY <2>3 DEF Scrubs!Init, Scrubs!IsInjective
  <2>5. queue \in [Subscribers -> Seq(1..appended)]
    BY <2>3 DEF Scrubs!Init
  <2>6. \A s \in Subscribers : Len(queue[s]) <= QueueSize
    BY <2>1, <2>3 DEF Scrubs!Init
  <2>7. appending \in [Appenders -> 0..appended]
    BY DEF Scrubs!Init
  <2> QED
    BY <2>2, <2>4, <2>5, <2>6, <2>7 DEF ScrubsShape
<1>2. ScrubsShape /\ [OperationsNext]_<<unit, unitVars>> => ScrubsShape'
  <2> SUFFICES ASSUME ScrubsShape, [OperationsNext]_<<unit, unitVars>>
               PROVE  ScrubsShape'
    OBVIOUS
  <2>1. CASE Scrubs!Next
    BY <2>1, ScrubsStep
  <2>2. CASE UNCHANGED scrubVars
    BY <2>2 DEF scrubVars, ScrubsShape, RingInv, Scrubs!IsInjective
  <2> QED
    BY <2>1, <2>2 DEF OperationsNext, EventsMove, ScrubsMove, HostsMove,
                      TransferMoves, AgentMoves, LicenceMoves, unitVars
<1> QED
  BY <1>1, <1>2, PTL DEF OperationsSpec

\* Whatever the size of the ring and the number of the goroutines that append at
\* the same time, it holds the latest events and Latest is the last of them, on
\* every round (scrub.go:36-38, 76-84).
THEOREM RingsAreRecent == OperationsSpec => []RingIsRecent
<1>1. ScrubsShape => RingIsRecent
  BY RingHoldsTheLast DEF ScrubsShape
<1> QED
  BY <1>1, ScrubsAlways, PTL
-----------------------------------------------------------------------------
\* A behaviour of all parts is one of the event stream, of which the theorems of
\* EventSystemProofs therefore hold here.
THEOREM EventStreamRuns == OperationsSpec => SystemSpec
<1>1. OperationsInit => SystemInit
  BY DEF OperationsInit
<1>2. [OperationsNext]_<<unit, unitVars>> => [SystemNext]_<<part, vars, pumpVars>>
  BY DEF OperationsNext, EventsMove, ScrubsMove, HostsMove, TransferMoves,
         AgentMoves, LicenceMoves, unitVars, eventVars
<1> QED
  BY <1>1, <1>2, PTL DEF OperationsSpec, SystemSpec
-----------------------------------------------------------------------------
\* That a statement of the agent failed is true or false.
LEMMA AgentFailed == OperationsSpec => [](failed \in BOOLEAN)
<1>1. OperationsInit => failed \in BOOLEAN
  BY Zenon DEF OperationsInit, Remote!Init
<1>2. failed \in BOOLEAN /\ [OperationsNext]_<<unit, unitVars>> => (failed \in BOOLEAN)'
  <2>1. Remote!Next => failed' \in {TRUE, FALSE, failed}
    BY Zenon DEF Remote!Next, Remote!Start, Remote!Select, Remote!Register,
                 Remote!Insert, Remote!Stop
  <2>2. UNCHANGED agentVars => failed' = failed
    BY Zenon DEF agentVars
  <2>3. [OperationsNext]_<<unit, unitVars>> => Remote!Next \/ UNCHANGED agentVars
    BY DEF OperationsNext, EventsMove, ScrubsMove, HostsMove, TransferMoves,
           AgentMoves, LicenceMoves, unitVars
  <2> QED
    BY <2>1, <2>2, <2>3, Zenon
<1> QED
  BY <1>1, <1>2, PTL DEF OperationsSpec

\* The state of every part keeps its shape: no channel or pipe overflows, and no
\* counter leaves its bounds.
THEOREM OperationsTypeCorrect == OperationsSpec => []OperationsTypeOK
<1>1. ScrubsShape => Scrubs!Typed
  <2> SUFFICES ASSUME ScrubsShape PROVE Scrubs!Typed
    OBVIOUS
  <2>1. Size \in Nat \ {0}
    BY OperationsAssumption DEF Scrubs!ScrubAssumption
  <2>2. ring \in [0..(Size - 1) -> 0..appended] /\ pos \in 0..(Size - 1)
    <3>1. ASSUME NEW i \in 0..(Size - 1) PROVE ring[i] \in 0..appended
      <4>1. /\ appended \in Nat /\ pos \in Nat /\ pos <= appended /\ i < Size
            /\ ring[i] = IF i < pos THEN appended - pos + i + 1
                         ELSE IF appended < Size THEN 0
                         ELSE appended - pos - Size + i + 1
        BY <2>1 DEF ScrubsShape, RingInv
      <4>2. CASE i < pos
        BY <4>1, <4>2
      <4>3. CASE ~(i < pos) /\ appended < Size
        BY <4>1, <4>3
      <4>4. CASE ~(i < pos) /\ ~(appended < Size)
        BY <2>1, <4>1, <4>4
      <4> QED
        BY <4>2, <4>3, <4>4
    <3> QED
      BY <3>1 DEF ScrubsShape, RingInv
  <2> QED
    BY <2>2 DEF ScrubsShape, Scrubs!Typed
<1>2. HostsInv => Handlers!Typed
  BY DEF HostsInv, JobInv, Jobs, Handlers!Typed
<1>3. TransferInv => Transfer!Typed
  BY DEF TransferInv, TransferShape
<1>4. AgentInv /\ failed \in BOOLEAN => Remote!Typed
  BY DEF AgentInv, AgentShape, Remote!Typed
<1>5. LicenceInv => Tier!Typed
  BY DEF LicenceInv
<1> QED
  BY <1>1, <1>2, <1>3, <1>4, <1>5, SystemTypeCorrect, ScrubsAlways, HostsAlways, TransferAlways,
     AgentAlways, AgentFailed, LicenceAlways, EventStreamRuns, PTL DEF OperationsTypeOK
=============================================================================
