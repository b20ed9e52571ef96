------------------------------- MODULE EventBus -------------------------------
(***************************************************************************)
(* The bus behind GET /api/events/stream (internal/web/events_handler.go): *)
(* a set of channels under an RWMutex.  A handler subscribes, forwards     *)
(* what its channel gives and unsubscribes when the client is gone;        *)
(* unsubscribe removes the channel under the lock and closes it after the  *)
(* lock is released.  publish offers the event to every channel under the  *)
(* read lock and skips the ones that are full.                             *)
(*                                                                         *)
(* Go's RWMutex (external) admits no new reader while a writer waits, and  *)
(* lets the waiting writer in when the last reader leaves.  Sending on a   *)
(* closed channel panics and ends the process.                             *)
(***************************************************************************)
EXTENDS Naturals, Sequences, FiniteSets

CONSTANTS
  Streams,      \* handlers: each has a channel of its own
  Publishers,   \* goroutines that publish
  Capacity,     \* of a channel: 64
  MaxEvents     \* bound on the events published

ASSUME EventBusAssumption ==
  /\ Capacity \in Nat \ {0}
  /\ MaxEvents \in Nat
  /\ Streams \cap Publishers = {}

VARIABLES
  pc,        \* pc[t]: where the thread is, see Places
  subs,      \* eventBus.subs: the channels that are subscribed
  chan,      \* chan[s]: the events buffered in the channel of s
  closed,    \* the channels that are closed
  readers,   \* the publishers that hold the read lock
  writer,    \* the stream that waits for or holds the write lock, if any
  todo,      \* todo[p]: the channels p has still to offer its event to
  event,     \* event[p]: the number of the event p publishes
  next,      \* the number of events published so far
  got        \* got[s]: the events the client of s has received

vars == <<pc, subs, chan, closed, readers, writer, todo, event, next, got>>

Nobody == "nobody"

\* Streams: idle, then waiting to subscribe, streaming, waiting to
\* unsubscribe, removed but not yet closed, and idle again.
StreamPlaces == {"idle", "lock to add", "streaming", "lock to remove", "removed"}
PublisherPlaces == {"idle", "publishing"}

Goto(t, p) == pc' = [pc EXCEPT ![t] = p]
----------------------------------------------------------------------------
(***************************************************************************)
(* handleEventsStream.                                                     *)
(***************************************************************************)
\* make(chan, 64), then mu.Lock: the stream announces itself as a writer.
Subscribe(s) ==
  /\ pc[s] = "idle"
  /\ writer = Nobody
  /\ chan' = [chan EXCEPT ![s] = <<>>]
  /\ closed' = closed \ {s}
  /\ got' = [got EXCEPT ![s] = <<>>]
  /\ writer' = s
  /\ Goto(s, "lock to add")
  /\ UNCHANGED <<subs, readers, todo, event, next>>

\* The critical section of subscribe, entered when no reader is left.
Add(s) ==
  /\ pc[s] = "lock to add"
  /\ readers = {}
  /\ subs' = subs \cup {s}
  /\ writer' = Nobody
  /\ Goto(s, "streaming")
  /\ UNCHANGED <<chan, closed, readers, todo, event, next, got>>

\* Mutant: the event is taken from the channel by peeking at it.
ForwardPeeking(s) ==
  /\ pc[s] = "streaming"
  /\ chan[s] # <<>>
  /\ Len(got[s]) <= MaxEvents
  /\ got' = [got EXCEPT ![s] = Append(@, Head(chan[s]))]
  /\ UNCHANGED <<pc, subs, chan, closed, readers, writer, todo, event, next>>
Forward(s) ==
  /\ pc[s] = "streaming"
  /\ chan[s] # <<>>
  /\ got' = [got EXCEPT ![s] = Append(@, Head(chan[s]))]
  /\ chan' = [chan EXCEPT ![s] = Tail(@)]
  /\ UNCHANGED <<pc, subs, closed, readers, writer, todo, event, next>>

\* The client is gone; the deferred unsubscribe asks for the lock.
Disconnect(s) ==
  /\ pc[s] = "streaming"
  /\ writer = Nobody
  /\ writer' = s
  /\ Goto(s, "lock to remove")
  /\ UNCHANGED <<subs, chan, closed, readers, todo, event, next, got>>

\* Mutant: unsubscribe keeps a channel that still holds events.
RemoveIfEmpty(s) ==
  /\ pc[s] = "lock to remove"
  /\ readers = {}
  /\ subs' = IF chan[s] = <<>> THEN subs \ {s} ELSE subs
  /\ writer' = Nobody
  /\ Goto(s, "removed")
  /\ UNCHANGED <<chan, closed, readers, todo, event, next, got>>
\* Mutant: unsubscribe deletes without waiting for the readers.
RemoveUnlocked(s) ==
  /\ pc[s] = "lock to remove"
  /\ subs' = subs \ {s}
  /\ writer' = Nobody
  /\ Goto(s, "removed")
  /\ UNCHANGED <<chan, closed, readers, todo, event, next, got>>
Remove(s) ==
  /\ pc[s] = "lock to remove"
  /\ readers = {}
  /\ subs' = subs \ {s}
  /\ writer' = Nobody
  /\ Goto(s, "removed")
  /\ UNCHANGED <<chan, closed, readers, todo, event, next, got>>

Close(s) ==
  /\ pc[s] = "removed"
  /\ closed' = closed \cup {s}
  /\ Goto(s, "idle")
  /\ UNCHANGED <<subs, chan, readers, writer, todo, event, next, got>>
----------------------------------------------------------------------------
(***************************************************************************)
(* publish.                                                                *)
(***************************************************************************)
RLock(p) ==
  /\ pc[p] = "idle"
  /\ writer = Nobody
  /\ next < MaxEvents
  /\ readers' = readers \cup {p}
  /\ todo' = [todo EXCEPT ![p] = subs]
  /\ event' = [event EXCEPT ![p] = next + 1]
  /\ next' = next + 1
  /\ Goto(p, "publishing")
  /\ UNCHANGED <<subs, chan, closed, writer, got>>

\* Mutant: the select has no default, so a full channel blocks the send.
OfferBlocking(p, s) ==
  /\ s \in todo[p]
  /\ Len(chan[s]) < Capacity
  /\ chan' = [chan EXCEPT ![s] = Append(@, <<p, event[p]>>)]
  /\ todo' = [todo EXCEPT ![p] = @ \ {s}]
  /\ UNCHANGED <<pc, subs, closed, readers, writer, event, next, got>>
\* Mutant: the events wait in a slice, which has no capacity.
OfferUnbounded(p, s) ==
  /\ s \in todo[p]
  /\ chan' = [chan EXCEPT ![s] = Append(@, <<p, event[p]>>)]
  /\ todo' = [todo EXCEPT ![p] = @ \ {s}]
  /\ UNCHANGED <<pc, subs, closed, readers, writer, event, next, got>>
\* One turn of the loop over the map, whose order is not defined.
Offer(p, s) ==
  /\ s \in todo[p]
  /\ chan' = IF Len(chan[s]) < Capacity
             THEN [chan EXCEPT ![s] = Append(@, <<p, event[p]>>)]
             ELSE chan
  /\ todo' = [todo EXCEPT ![p] = @ \ {s}]
  /\ UNCHANGED <<pc, subs, closed, readers, writer, event, next, got>>

RUnlock(p) ==
  /\ pc[p] = "publishing"
  /\ todo[p] = {}
  /\ readers' = readers \ {p}
  /\ Goto(p, "idle")
  /\ UNCHANGED <<subs, chan, closed, writer, todo, event, next, got>>
----------------------------------------------------------------------------
Init ==
  /\ pc = [t \in Streams \cup Publishers |-> "idle"]
  /\ subs = {} /\ closed = {} /\ readers = {} /\ writer = Nobody
  /\ chan = [s \in Streams |-> <<>>]
  /\ got = [s \in Streams |-> <<>>]
  /\ todo = [p \in Publishers |-> {}]
  /\ event = [p \in Publishers |-> 0]
  /\ next = 0

Stream(s) ==
  Subscribe(s) \/ Add(s) \/ Forward(s) \/ Disconnect(s) \/ Remove(s) \/ Close(s)

Publish(p) == RLock(p) \/ (\E s \in Streams : Offer(p, s)) \/ RUnlock(p)

Next == (\E s \in Streams : Stream(s)) \/ (\E p \in Publishers : Publish(p))

Spec == Init /\ [][Next]_vars

\* The steps a goroutine takes by itself; the others wait for a client.
Hurries(s) == Add(s) \/ Remove(s) \/ Close(s)
Publishing(p) == (\E s \in Streams : Offer(p, s)) \/ RUnlock(p)
----------------------------------------------------------------------------
TypeOK ==
  /\ pc \in [Streams \cup Publishers -> StreamPlaces \cup PublisherPlaces]
  /\ subs \subseteq Streams
  /\ chan \in [Streams -> Seq(Publishers \X Nat)]
  /\ \A s \in Streams : Len(chan[s]) <= Capacity
  /\ closed \subseteq Streams
  /\ readers \subseteq Publishers
  /\ writer \in Streams \cup {Nobody}
  /\ todo \in [Publishers -> SUBSET Streams]
  /\ event \in [Publishers -> Nat]
  /\ next \in Nat
  /\ got \in [Streams -> Seq(Publishers \X Nat)]

\* No send on a closed channel: a publisher never has a channel before it that
\* is closed or may be closed while it sends, although unsubscribe closes
\* outside of the lock (events_handler.go:32-48).
NoSendOnClosed ==
  \A p \in Publishers : todo[p] \cap closed = {}

\* No channel is lost or left behind: a handler that streams is subscribed,
\* and the bus keeps no channel of a handler that has returned.
SubscribedWhileStreaming ==
  \A s \in Streams :
    s \in subs <=> pc[s] \in {"streaming", "lock to remove"}

\* A slow client costs events and never a wait: every publish ends and every
\* handler whose client is gone returns, even when nobody reads
\* (events_handler.go:39-48).
PublishEnds ==
  \A p \in Publishers : pc[p] = "publishing" ~> pc[p] = "idle"

StreamEnds ==
  \A s \in Streams : pc[s] = "lock to remove" ~> pc[s] = "idle"

\* What a client sees of the events of one publisher comes in the order they
\* were published and without repetition, whatever was dropped in between.
Increasing(q) ==
  \A i, j \in 1..Len(q) : i < j /\ q[i][1] = q[j][1] => q[i][2] < q[j][2]
InOrder == \A s \in Streams : Increasing(got[s] \o chan[s])
=============================================================================
