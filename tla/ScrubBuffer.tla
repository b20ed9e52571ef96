----------------------------- MODULE ScrubBuffer -----------------------------
(***************************************************************************)
(* The buffers of scrub events, internal/events/scrub.go: a ring of the    *)
(* latest events per pool, and channels of subscribers.  Append writes the *)
(* ring under one lock and fans out under another one, so that other       *)
(* appends may come in between.                                            *)
(***************************************************************************)
EXTENDS Naturals, Sequences, SequencesExt

CONSTANTS
  Appenders,   \* goroutines that follow the scrubs
  Subscribers,
  Size,        \* bufferSize: 100
  QueueSize,   \* of the channel of a subscriber: 16
  MaxAppends   \* bound on the events; they are numbered as they are appended

ScrubAssumption ==
  Size \in Nat \ {0} /\ QueueSize \in Nat \ {0} /\ MaxAppends \in Nat

VARIABLES
  ring, pos,   \* EventBuffer.events and pos; no event is 0
  subs,        \* EventBuffer.subs, in the order of subscription
  queue,       \* queue[s]: the channel of s
  appending,   \* appending[a]: the event a has to fan out, or 0
  appended     \* history: how many events were put into the ring

scrubVars == <<ring, pos, subs, queue, appending, appended>>

\* Mutant: the position runs into the length before it wraps.
AdvanceLate == IF pos = Size - 1 THEN pos ELSE pos + 1
Advance == (pos + 1) % Size

\* The first half of Append.
Put(a) ==
  /\ appending[a] = 0 /\ appended < MaxAppends
  /\ appended' = appended + 1
  /\ appending' = [appending EXCEPT ![a] = appended + 1]
  /\ ring' = [ring EXCEPT ![pos] = appended + 1]
  /\ pos' = Advance
  /\ UNCHANGED <<subs, queue>>

\* The second half: a full channel does not get the event.
FanOut(a) ==
  /\ appending[a] # 0
  /\ queue' = [s \in Subscribers |->
                 IF Contains(subs, s) /\ Len(queue[s]) < QueueSize
                 THEN Append(queue[s], appending[a]) ELSE queue[s]]
  /\ appending' = [appending EXCEPT ![a] = 0]
  /\ UNCHANGED <<ring, pos, subs, appended>>

\* A subscriber makes a new channel each time.
Subscribe(s) ==
  /\ ~Contains(subs, s)
  /\ subs' = Append(subs, s)
  /\ queue' = [queue EXCEPT ![s] = <<>>]
  /\ UNCHANGED <<ring, pos, appending, appended>>

\* Takes the channel out and closes it.
Unsubscribe(s) ==
  /\ \E i \in 1..Len(subs) : subs[i] = s /\ subs' = RemoveAt(subs, i)
  /\ queue' = [queue EXCEPT ![s] = <<>>]
  /\ UNCHANGED <<ring, pos, appending, appended>>

Receive(s) ==
  /\ queue[s] # <<>>
  /\ queue' = [queue EXCEPT ![s] = Tail(@)]
  /\ UNCHANGED <<ring, pos, subs, appending, appended>>

Latest == IF ring[0] = 0 THEN 0 ELSE ring[(pos + Size - 1) % Size]

\* EventManager.Buffer makes the buffer of a pool when it is first asked for.
Init ==
  /\ ring = [i \in 0..(Size - 1) |-> 0] /\ pos = 0
  /\ subs = <<>> /\ queue = [s \in Subscribers |-> <<>>]
  /\ appending = [a \in Appenders |-> 0] /\ appended = 0

Next ==
  \/ \E a \in Appenders : Put(a) \/ FanOut(a)
  \/ \E s \in Subscribers : Subscribe(s) \/ Unsubscribe(s) \/ Receive(s)
----------------------------------------------------------------------------
Typed ==
  /\ ring \in [0..(Size - 1) -> 0..appended] /\ pos \in 0..(Size - 1)
  /\ subs \in Seq(Subscribers) /\ IsInjective(subs)
  /\ \A s \in Subscribers :
       queue[s] \in Seq(1..appended) /\ Len(queue[s]) <= QueueSize
  /\ appending \in [Appenders -> 0..appended]

\* Whatever was appended at the same time and however often the ring wrapped:
\* it holds the last Size events, and Latest is the last one (scrub.go:36-38,
\* 76-84).
RingIsRecent ==
  /\ Latest = appended
  /\ {ring[i] : i \in 0..(Size - 1)} \ {0} =
       {e \in 1..appended : e + Size > appended}
=============================================================================
