--------------------------- MODULE EventSystemProofs ---------------------------
(***************************************************************************)
(* Theorems about EventSystem, for every capacity of the two channels,     *)
(* every number of streams, publishers and events and every output of the  *)
(* child process.                                                          *)
(*                                                                         *)
(* The first part is the inductive invariant of the bus.  What keeps a     *)
(* publisher off a closed channel is the read lock: the channels it has    *)
(* still to serve are subscribed, nobody unsubscribes while it reads, and  *)
(* a channel is closed after it was unsubscribed.                          *)
(***************************************************************************)
EXTENDS EventSystem, SequenceTheorems, TLAPS

\* A goroutine reads while it publishes, and only then has channels to serve.
ReadersPublish ==
  \A p \in Publishers :
    /\ p \in readers <=> pc[p] = "publishing"
    /\ todo[p] # {} => p \in readers

\* The channels a publisher has still to serve are subscribed.
TodoSubscribed == \A p \in Publishers : todo[p] \subseteq subs

\* The channel of a handler that runs is open.
OpenWhileRunning == \A s \in closed : pc[s] = "idle"

\* What the client of s has received and what is on its way to it.
Seen(s) == got[s] \o chan[s]

\* No event is later than the last one of its publisher, and a channel that is
\* still to be served has only earlier ones.
EarlierOnly(q, s) ==
  \A i \in 1..Len(q) :
    /\ q[i][2] <= event[q[i][1]]
    /\ s \in todo[q[i][1]] => q[i][2] < event[q[i][1]]

Ordered ==
  /\ \A p \in Publishers : event[p] <= next
  /\ \A s \in Streams : EarlierOnly(Seen(s), s) /\ Increasing(Seen(s))

Inv ==
  /\ TypeOK
  /\ ReadersPublish /\ TodoSubscribed
  /\ OpenWhileRunning /\ SubscribedWhileStreaming
  /\ Ordered
----------------------------------------------------------------------------
\* The buffer of a channel stays within its capacity and holds events.
LEMMA OfferType ==
  ASSUME TypeOK, NEW p \in Publishers, NEW s \in Streams, Offer(p, s)
  PROVE  /\ chan' \in [Streams -> Seq(Publishers \X Nat)]
         /\ \A x \in Streams : Len(chan'[x]) <= Capacity
<1>1. CASE Len(chan[s]) < Capacity
  <2>1. chan' = [chan EXCEPT ![s] = Append(chan[s], <<p, event[p]>>)]
    BY <1>1 DEF Offer
  <2>2. <<p, event[p]>> \in Publishers \X Nat /\ chan[s] \in Seq(Publishers \X Nat)
    BY DEF TypeOK
  <2>3. /\ Append(chan[s], <<p, event[p]>>) \in Seq(Publishers \X Nat)
        /\ Len(Append(chan[s], <<p, event[p]>>)) = Len(chan[s]) + 1
    BY <2>2
  <2>4. Len(chan[s]) + 1 <= Capacity
    BY <1>1, <2>2, EventBusAssumption
  <2> QED
    BY <2>1, <2>3, <2>4 DEF TypeOK
<1>2. CASE ~(Len(chan[s]) < Capacity)
  BY <1>2 DEF Offer, TypeOK
<1> QED
  BY <1>1, <1>2

\* What a client reads leaves the channel.
LEMMA ForwardType ==
  ASSUME TypeOK, NEW s \in Streams, Forward(s)
  PROVE  /\ chan' \in [Streams -> Seq(Publishers \X Nat)]
         /\ \A x \in Streams : Len(chan'[x]) <= Capacity
         /\ got' \in [Streams -> Seq(Publishers \X Nat)]
<1>1. /\ chan[s] \in Seq(Publishers \X Nat) /\ chan[s] # <<>>
      /\ got[s] \in Seq(Publishers \X Nat) /\ Len(chan[s]) <= Capacity
  BY DEF Forward, TypeOK
<1>2. /\ Head(chan[s]) \in Publishers \X Nat
      /\ Tail(chan[s]) \in Seq(Publishers \X Nat)
      /\ Len(Tail(chan[s])) = Len(chan[s]) - 1
  BY <1>1
<1>3. Append(got[s], Head(chan[s])) \in Seq(Publishers \X Nat)
  BY <1>1, <1>2
<1>4. Len(Tail(chan[s])) <= Capacity
  BY <1>1, <1>2, EventBusAssumption
<1>5. /\ chan' = [chan EXCEPT ![s] = Tail(chan[s])]
      /\ got' = [got EXCEPT ![s] = Append(got[s], Head(chan[s]))]
  BY DEF Forward
<1> QED
  BY <1>2, <1>3, <1>4, <1>5 DEF TypeOK

\* Every step keeps the types.
LEMMA TypeStep ==
  ASSUME TypeOK, [Next]_vars
  PROVE  TypeOK'
<1>1. ASSUME NEW s \in Streams, Subscribe(s) PROVE TypeOK'
  <2>1. <<>> \in Seq(Publishers \X Nat) /\ Len(<<>>) <= Capacity
    BY EventBusAssumption
  <2>2. chan' \in [Streams -> Seq(Publishers \X Nat)] /\ got' \in [Streams -> Seq(Publishers \X Nat)]
    BY <1>1, <2>1 DEF Subscribe, TypeOK
  <2>3. \A x \in Streams : Len(chan'[x]) <= Capacity
    BY <1>1, <2>1 DEF Subscribe, TypeOK
  <2> QED
    BY <1>1, <2>2, <2>3 DEF Subscribe, Goto, TypeOK, StreamPlaces
<1>2. ASSUME NEW s \in Streams, Add(s) \/ Disconnect(s) \/ Remove(s) \/ Close(s)
      PROVE  TypeOK'
  BY <1>2 DEF Add, Disconnect, Remove, Close, Goto, TypeOK, StreamPlaces
<1>3. ASSUME NEW s \in Streams, Forward(s) PROVE TypeOK'
  BY <1>3, ForwardType DEF Forward, TypeOK
<1>4. ASSUME NEW p \in Publishers, RLock(p) PROVE TypeOK'
  BY <1>4 DEF RLock, Goto, TypeOK, PublisherPlaces
<1>5. ASSUME NEW p \in Publishers, NEW s \in Streams, Offer(p, s) PROVE TypeOK'
  BY <1>5, OfferType DEF Offer, TypeOK
<1>6. ASSUME NEW p \in Publishers, RUnlock(p) PROVE TypeOK'
  BY <1>6 DEF RUnlock, Goto, TypeOK, PublisherPlaces
<1>7. CASE UNCHANGED vars
  BY <1>7 DEF vars, TypeOK
<1> QED
  BY <1>1, <1>2, <1>3, <1>4, <1>5, <1>6, <1>7 DEF Next, Stream, Publish

\* A publisher reads exactly while it publishes.
LEMMA ReadersStep ==
  ASSUME TypeOK, ReadersPublish, [Next]_vars
  PROVE  ReadersPublish'
<1> USE EventBusAssumption
<1>1. ASSUME NEW s \in Streams, Stream(s) PROVE ReadersPublish'
  BY <1>1 DEF Stream, Subscribe, Add, Forward, Disconnect, Remove, Close, Goto,
              TypeOK, ReadersPublish
<1>2. ASSUME NEW p \in Publishers, RLock(p) PROVE ReadersPublish'
  BY <1>2 DEF RLock, Goto, TypeOK, ReadersPublish
<1>3. ASSUME NEW p \in Publishers, NEW s \in Streams, Offer(p, s)
      PROVE  ReadersPublish'
  BY <1>3 DEF Offer, TypeOK, ReadersPublish
<1>4. ASSUME NEW p \in Publishers, RUnlock(p) PROVE ReadersPublish'
  BY <1>4 DEF RUnlock, Goto, TypeOK, ReadersPublish
<1>5. CASE UNCHANGED vars
  BY <1>5 DEF vars, ReadersPublish
<1> QED
  BY <1>1, <1>2, <1>3, <1>4, <1>5 DEF Next, Publish

\* No channel is unsubscribed while somebody reads.
LEMMA TodoStep ==
  ASSUME TypeOK, ReadersPublish, TodoSubscribed, [Next]_vars
  PROVE  TodoSubscribed'
<1>1. ASSUME NEW s \in Streams, Remove(s) PROVE TodoSubscribed'
  BY <1>1 DEF Remove, ReadersPublish, TodoSubscribed
<1>2. ASSUME NEW s \in Streams,
             Subscribe(s) \/ Add(s) \/ Forward(s) \/ Disconnect(s) \/ Close(s)
      PROVE  TodoSubscribed'
  BY <1>2 DEF Subscribe, Add, Forward, Disconnect, Close, TodoSubscribed
<1>3. ASSUME NEW p \in Publishers, Publish(p) PROVE TodoSubscribed'
  BY <1>3 DEF Publish, RLock, Offer, RUnlock, TypeOK, TodoSubscribed
<1>4. CASE UNCHANGED vars
  BY <1>4 DEF vars, TodoSubscribed
<1> QED
  BY <1>1, <1>2, <1>3, <1>4 DEF Next, Stream

\* A channel is subscribed while its handler streams, and closed when the
\* handler has returned.
LEMMA StreamsStep ==
  ASSUME TypeOK, OpenWhileRunning, SubscribedWhileStreaming, [Next]_vars
  PROVE  OpenWhileRunning' /\ SubscribedWhileStreaming'
<1> USE EventBusAssumption
<1>1. ASSUME NEW s \in Streams, Stream(s)
      PROVE  OpenWhileRunning' /\ SubscribedWhileStreaming'
  BY <1>1 DEF Stream, Subscribe, Add, Forward, Disconnect, Remove, Close, Goto,
              TypeOK, OpenWhileRunning, SubscribedWhileStreaming
<1>2. ASSUME NEW p \in Publishers, Publish(p)
      PROVE  OpenWhileRunning' /\ SubscribedWhileStreaming'
  BY <1>2 DEF Publish, RLock, Offer, RUnlock, Goto, TypeOK, OpenWhileRunning,
              SubscribedWhileStreaming
<1>3. CASE UNCHANGED vars
  BY <1>3 DEF vars, OpenWhileRunning, SubscribedWhileStreaming
<1> QED
  BY <1>1, <1>2, <1>3 DEF Next

\* Reading moves the first event of the channel to the end of what was received.
LEMMA MoveHead ==
  ASSUME NEW S, NEW a \in Seq(S), NEW b \in Seq(S), b # <<>>
  PROVE  Append(a, Head(b)) \o Tail(b) = a \o b
<1>1. /\ Head(b) = b[1] /\ Head(b) \in S /\ Tail(b) \in Seq(S)
      /\ Len(Tail(b)) = Len(b) - 1 /\ Len(b) \in Nat \ {0} /\ Len(a) \in Nat
      /\ \A i \in 1..Len(Tail(b)) : Tail(b)[i] = b[i + 1]
  BY HeadTailProperties, EmptySeq, LenProperties
<1>2. /\ Append(a, Head(b)) \in Seq(S) /\ Len(Append(a, Head(b))) = Len(a) + 1
      /\ \A i \in 1..Len(a) : Append(a, Head(b))[i] = a[i]
      /\ Append(a, Head(b))[Len(a) + 1] = b[1]
  BY <1>1, AppendProperties
<1> DEFINE l == Append(a, Head(b)) \o Tail(b)
           r == a \o b
<1>3. /\ l \in Seq(S) /\ Len(l) = Len(a) + Len(b)
      /\ \A i \in 1..(Len(a) + Len(b)) :
           l[i] = IF i <= Len(a) + 1 THEN Append(a, Head(b))[i]
                                     ELSE Tail(b)[i - (Len(a) + 1)]
  BY <1>1, <1>2, ConcatProperties
<1>4. /\ r \in Seq(S) /\ Len(r) = Len(a) + Len(b)
      /\ \A i \in 1..(Len(a) + Len(b)) :
           r[i] = IF i <= Len(a) THEN a[i] ELSE b[i - Len(a)]
  BY ConcatProperties
<1> HIDE DEF l, r
<1>5. ASSUME NEW i \in 1..Len(l) PROVE l[i] = r[i]
  <2>1. CASE i <= Len(a)
    BY <1>1, <1>2, <1>3, <1>4, <2>1
  <2>2. CASE i = Len(a) + 1
    BY <1>1, <1>2, <1>3, <1>4, <2>2
  <2>3. CASE i > Len(a) + 1
    <3>1. i - (Len(a) + 1) \in 1..Len(Tail(b))
      BY <1>1, <1>3, <2>3
    <3>2. Tail(b)[i - (Len(a) + 1)] = b[(i - (Len(a) + 1)) + 1]
      BY <1>1, <3>1
    <3>3. (i - (Len(a) + 1)) + 1 = i - Len(a)
      BY <1>1, <2>3
    <3> QED
      BY <1>1, <1>3, <1>4, <2>3, <3>2, <3>3
  <2>4. Len(a) \in Nat /\ i \in Int
    OBVIOUS
  <2>5. i <= Len(a) \/ i = Len(a) + 1 \/ i > Len(a) + 1
    BY <2>4
  <2> QED
    BY <2>1, <2>2, <2>3, <2>5
<1> QED
  BY <1>3, <1>4, <1>5, SeqEqual DEF l, r

\* An event that is offered comes last.
LEMMA OfferedLast ==
  ASSUME NEW S, NEW a \in Seq(S), NEW b \in Seq(S), NEW e \in S
  PROVE  a \o Append(b, e) = Append(a \o b, e)
<1>1. Append(b, e) = b \o <<e>> /\ <<e>> \in Seq(S) /\ a \o b \in Seq(S)
  BY AppendIsConcat, ConcatProperties
<1>2. Append(a \o b, e) = (a \o b) \o <<e>>
  BY <1>1, AppendIsConcat
<1> QED
  BY <1>1, <1>2, ConcatAssociative

\* Publishing appends an event later than all of its publisher, to a channel
\* the publisher serves once; reading, subscribing and closing repeat nothing.
LEMMA OrderStep ==
  ASSUME TypeOK, Ordered, [Next]_vars
  PROVE  Ordered'
<1> DEFINE E == Publishers \X Nat
<1>0. \A s \in Streams : /\ got[s] \in Seq(E) /\ chan[s] \in Seq(E)
                         /\ Seen(s) \in Seq(E)
  BY ConcatProperties DEF TypeOK, Seen
<1>1. ASSUME NEW s \in Streams, Subscribe(s) PROVE Ordered'
  <2>0. <<>> \o <<>> = <<>>
    BY ConcatEmptySeq, EmptySeq
  <2>1. Seen(s)' = <<>>
    BY <1>1, <2>0 DEF Subscribe, Seen, TypeOK
  <2>2. \A x \in Streams \ {s} : Seen(x)' = Seen(x)
    BY <1>1 DEF Subscribe, Seen, TypeOK
  <2>3. EarlierOnly(<<>>, s)' /\ Increasing(<<>>)
    BY DEF EarlierOnly, Increasing
  <2> QED
    BY <1>1, <2>1, <2>2, <2>3 DEF Subscribe, Ordered, EarlierOnly
<1>2. ASSUME \A x \in Streams : Seen(x)' = Seen(x),
             event' = event, next' = next,
             \A p \in Publishers : todo'[p] \subseteq todo[p]
      PROVE  Ordered'
  <2>1. \A x \in Streams : \A i \in 1..Len(Seen(x)) : Seen(x)[i][1] \in Publishers
    BY <1>0, ElementOfSeq
  <2> QED
    BY <1>2, <2>1 DEF Ordered, EarlierOnly
<1>3. ASSUME NEW s \in Streams, Forward(s) PROVE Ordered'
  <2>1. Seen(s)' = Append(got[s], Head(chan[s])) \o Tail(chan[s])
    BY <1>3 DEF Forward, Seen, TypeOK
  <2>2. Seen(s)' = Seen(s)
    BY <1>0, <1>3, <2>1, MoveHead DEF Forward, Seen
  <2>3. \A x \in Streams : Seen(x)' = Seen(x)
    BY <1>3, <2>2 DEF Forward, Seen, TypeOK
  <2> QED
    BY <1>2, <1>3, <2>3 DEF Forward
<1>4. ASSUME NEW s \in Streams, Add(s) \/ Disconnect(s) \/ Remove(s) \/ Close(s)
      PROVE  Ordered'
  BY <1>2, <1>4 DEF Add, Disconnect, Remove, Close, Seen
<1>5. ASSUME NEW p \in Publishers, RLock(p) PROVE Ordered'
  <2>1. /\ next \in Nat /\ event \in [Publishers -> Nat]
        /\ next' = next + 1 /\ event' = [event EXCEPT ![p] = next + 1]
        /\ todo \in [Publishers -> SUBSET Streams] /\ todo' = [todo EXCEPT ![p] = subs]
        /\ got' = got /\ chan' = chan
    BY <1>5 DEF RLock, TypeOK
  <2>2. \A x \in Streams : Seen(x)' = Seen(x)
    BY <2>1 DEF Seen
  <2>3. \A q \in Publishers : event'[q] <= next'
    BY <2>1 DEF Ordered
  <2>4. ASSUME NEW x \in Streams, NEW i \in 1..Len(Seen(x))
        PROVE  /\ Seen(x)[i][2] <= event'[Seen(x)[i][1]]
               /\ x \in todo'[Seen(x)[i][1]] => Seen(x)[i][2] < event'[Seen(x)[i][1]]
    <3>1. PICK q \in Publishers, n \in Nat : Seen(x)[i] = <<q, n>>
      BY <1>0, ElementOfSeq
    <3>2. n <= event[q] /\ (x \in todo[q] => n < event[q])
      BY <3>1 DEF Ordered, EarlierOnly
    <3>3. event[q] <= next /\ event[q] \in Nat
      BY <2>1 DEF Ordered
    <3>4. n <= event'[q] /\ (x \in todo'[q] => n < event'[q])
      BY <2>1, <3>2, <3>3
    <3> QED
      BY <3>1, <3>4
  <2> QED
    BY <2>2, <2>3, <2>4 DEF Ordered, EarlierOnly
<1>6. ASSUME NEW p \in Publishers, RUnlock(p) PROVE Ordered'
  BY <1>2, <1>6 DEF RUnlock, Seen
<1>7. CASE UNCHANGED vars
  BY <1>2, <1>7 DEF vars, Seen
<1>8. ASSUME NEW p \in Publishers, NEW s \in Streams, Offer(p, s) PROVE Ordered'
  <2>1. /\ todo' = [todo EXCEPT ![p] = todo[p] \ {s}]
        /\ event' = event /\ next' = next /\ got' = got /\ s \in todo[p]
        /\ todo \in [Publishers -> SUBSET Streams]
    BY <1>8 DEF Offer, TypeOK
  <2>2. CASE chan' = chan
    BY <1>2, <2>1, <2>2 DEF Seen
  <2>3. CASE chan' = [chan EXCEPT ![s] = Append(chan[s], <<p, event[p]>>)]
    <3> DEFINE e == <<p, event[p]>>
    <3>1. e \in E /\ e[1] = p /\ e[2] = event[p] /\ event[p] \in Nat
      BY DEF TypeOK
    <3> HIDE DEF e
    <3>2. Seen(s)' = got[s] \o Append(chan[s], e)
      BY <2>1, <2>3 DEF Seen, TypeOK, e
    <3>3. Seen(s)' = Append(Seen(s), e)
      <4>1. got[s] \o Append(chan[s], e) = Append(got[s] \o chan[s], e)
        <5> HIDE DEF E
        <5>1. \A a, b \in Seq(E), d \in E : a \o Append(b, d) = Append(a \o b, d)
          BY OfferedLast
        <5> QED
          BY <1>0, <3>1, <5>1
      <4> QED
        BY <3>2, <4>1 DEF Seen
    <3>4. /\ Len(Append(Seen(s), e)) = Len(Seen(s)) + 1 /\ Len(Seen(s)) \in Nat
          /\ \A i \in 1..Len(Seen(s)) : Append(Seen(s), e)[i] = Seen(s)[i]
          /\ Append(Seen(s), e)[Len(Seen(s)) + 1] = e
      BY <1>0, <3>1, AppendProperties, LenProperties
    <3>5. \A i \in 1..Len(Seen(s)) : /\ Seen(s)[i] \in E
                                    /\ Seen(s)[i][1] \in Publishers
                                    /\ Seen(s)[i][2] \in Nat
      BY <1>0, ElementOfSeq
    <3>6. /\ Increasing(Seen(s))
          /\ \A i \in 1..Len(Seen(s)) :
               /\ Seen(s)[i][2] <= event[Seen(s)[i][1]]
               /\ Seen(s)[i][1] = p => Seen(s)[i][2] < event[p]
      BY <2>1 DEF Ordered, EarlierOnly
    <3>7. Increasing(Append(Seen(s), e))
      BY <3>1, <3>4, <3>5, <3>6 DEF Increasing
    <3>8. ASSUME NEW i \in 1..(Len(Seen(s)) + 1)
          PROVE  LET d == Append(Seen(s), e)[i] IN
                 /\ d[2] <= event[d[1]]
                 /\ s \in todo'[d[1]] => d[2] < event[d[1]]
      <4>1. CASE i = Len(Seen(s)) + 1
        <5>1. s \notin todo'[p]
          BY <2>1
        <5> QED
          BY <3>1, <3>4, <4>1, <5>1
      <4>2. CASE i \in 1..Len(Seen(s))
        <5>1. todo'[Seen(s)[i][1]] \subseteq todo[Seen(s)[i][1]]
          BY <2>1, <3>5, <4>2
        <5>2. s \in todo[Seen(s)[i][1]] => Seen(s)[i][2] < event[Seen(s)[i][1]]
          BY <4>2 DEF Ordered, EarlierOnly
        <5> QED
          BY <3>4, <3>6, <4>2, <5>1, <5>2
      <4> QED
        BY <3>4, <4>1, <4>2
    <3>9. ASSUME NEW x \in Streams, x # s
          PROVE  (EarlierOnly(Seen(x), x) /\ Increasing(Seen(x)))'
      <4>1. Seen(x)' = Seen(x)
        BY <2>1, <2>3, <3>9 DEF Seen, TypeOK
      <4>2. \A i \in 1..Len(Seen(x)) : Seen(x)[i][1] \in Publishers
        BY <1>0, ElementOfSeq
      <4>3. \A q \in Publishers : todo'[q] \subseteq todo[q]
        BY <2>1
      <4> QED
        BY <2>1, <4>1, <4>2, <4>3 DEF Ordered, EarlierOnly
    <3>10. (EarlierOnly(Seen(s), s) /\ Increasing(Seen(s)))'
      BY <2>1, <3>3, <3>4, <3>7, <3>8 DEF EarlierOnly
    <3>11. \A q \in Publishers : event'[q] <= next'
      BY <2>1 DEF Ordered
    <3> QED
      BY <3>9, <3>10, <3>11 DEF Ordered
  <2> QED
    BY <1>8, <2>2, <2>3 DEF Offer
<1> QED
  BY <1>1, <1>3, <1>4, <1>5, <1>6, <1>7, <1>8 DEF Next, Stream, Publish

\* The invariant holds when the server starts.
LEMMA InitInv == Init => Inv
<1> SUFFICES ASSUME Init PROVE Inv
  OBVIOUS
<1>1. <<>> \in Seq(Publishers \X Nat) /\ Len(<<>>) <= Capacity
  BY EventBusAssumption
<1>2. TypeOK
  BY <1>1 DEF Init, TypeOK, StreamPlaces
<1>3. Ordered
  <2>1. \A s \in Streams : Seen(s) = <<>>
    BY DEF Init, Seen
  <2> QED
    BY <2>1 DEF Init, Ordered, EarlierOnly, Increasing
<1> QED
  BY <1>2, <1>3 DEF Inv, Init, ReadersPublish, TodoSubscribed, OpenWhileRunning,
              SubscribedWhileStreaming

\* The invariant is inductive.
LEMMA StepInv == Inv /\ [Next]_vars => Inv'
BY TypeStep, ReadersStep, TodoStep, StreamsStep, OrderStep DEF Inv

\* Under the invariant no channel a publisher has still to serve is closed.
LEMMA SafeInv == Inv => NoSendOnClosed
BY DEF Inv, NoSendOnClosed, TodoSubscribed, OpenWhileRunning,
       SubscribedWhileStreaming, TypeOK
----------------------------------------------------------------------------
\* Between two calls of StreamEvents a child can run only if the context was
\* cancelled, in which case the loop ends at its next test.
ChildEnds ==
  child = "running" => \/ place \in {"scan", "send", "wait", "stopped"}
                       \/ place = "returned" /\ cancelled

PumpInv == Pump!TypeOK /\ ChildEnds /\ OneChild

\* The pump and its child stay within their bounds.
LEMMA PumpTyped ==
  ASSUME Pump!TypeOK, Pump!Next
  PROVE  Pump!TypeOK'
<1>0. PumpCapacity \in Nat \ {0} /\ MaxLines \in Nat
  BY EventSystemAssumption DEF Pump!PumpAssumption
<1> USE <1>0 DEF Pump!TypeOK, Pump!Places
<1>1. CASE Pump!StartChild
  BY <1>1 DEF Pump!StartChild
<1>2. CASE Pump!Scan
  BY <1>2 DEF Pump!Scan
<1>3. CASE Pump!Send \/ Pump!Wait \/ Pump!Drain
  BY <1>3 DEF Pump!Send, Pump!Wait, Pump!Drain
<1>4. CASE Pump!Returned \/ Pump!Sleep \/ Pump!Cancel
  BY <1>4 DEF Pump!Returned, Pump!Sleep, Pump!Cancel
<1>5. CASE Pump!ChildExits \/ Pump!KillChild
  BY <1>5 DEF Pump!ChildExits, Pump!KillChild
<1> QED
  BY <1>1, <1>2, <1>3, <1>4, <1>5 DEF Pump!Next, Pump!Step

\* Waiting for the child is what keeps the loop from a second one, and the only
\* way round it, through the cancelled context, does not come back to the call.
LEMMA PumpStep ==
  ASSUME PumpInv, Pump!Next
  PROVE  PumpInv'
<1>0. Pump!TypeOK'
  BY PumpTyped DEF PumpInv
<1> USE <1>0 DEF PumpInv, ChildEnds, OneChild, Pump!OneChild
<1>1. CASE Pump!StartChild
  BY <1>1 DEF Pump!StartChild
<1>2. CASE Pump!Scan
  BY <1>2 DEF Pump!Scan
<1>3. CASE Pump!Send
  BY <1>3 DEF Pump!Send
<1>4. CASE Pump!Wait
  BY <1>4 DEF Pump!Wait
<1>5. CASE Pump!Returned \/ Pump!Sleep
  BY <1>5 DEF Pump!Returned, Pump!Sleep
<1>6. CASE Pump!Drain
  BY <1>6 DEF Pump!Drain
<1>7. CASE Pump!ChildExits \/ Pump!KillChild \/ Pump!Cancel
  BY <1>7 DEF Pump!ChildExits, Pump!KillChild, Pump!Cancel
<1> QED
  BY <1>1, <1>2, <1>3, <1>4, <1>5, <1>6, <1>7 DEF Pump!Next, Pump!Step

\* A step that leaves the pump alone keeps its invariant.
LEMMA PumpStill ==
  ASSUME PumpInv, UNCHANGED pumpVars
  PROVE  PumpInv'
BY DEF PumpInv, ChildEnds, OneChild, Pump!OneChild,
       Pump!TypeOK, pumpVars

\* A step of the system is a step of one half and a stutter of the other.
LEMMA SystemInvariance == SystemSpec => []PumpInv /\ []Inv
<1>1. SystemInit => PumpInv /\ Inv
  <2>1. PumpCapacity \in Nat \ {0} /\ MaxLines \in Nat
    BY EventSystemAssumption DEF Pump!PumpAssumption
  <2>2. ASSUME Pump!Init PROVE Pump!TypeOK
    <3>1. 0 \in 0..MaxLines /\ 0 \in 0..PumpCapacity
      BY <2>1
    <3> QED
      BY <2>2, <3>1, Zenon DEF Pump!Init, Pump!TypeOK, Pump!Places
  <2>3. ASSUME Pump!Init PROVE ChildEnds /\ OneChild
    BY <2>3 DEF Pump!Init, ChildEnds, OneChild, Pump!OneChild
  <2> QED
    BY <2>2, <2>3, InitInv DEF SystemInit, PumpInv
<1>2. PumpInv /\ [SystemNext]_<<part, vars, pumpVars>> => PumpInv'
  BY PumpStep, PumpStill DEF SystemNext, BusMoves, PumpMoves, PumpStopped
<1>3. Inv /\ [SystemNext]_<<part, vars, pumpVars>> => Inv'
  <2>1. Inv /\ [Next]_vars => Inv'
    BY StepInv
  <2> QED
    BY <2>1 DEF SystemNext, BusMoves, PumpMoves, PumpStopped
<1> QED
  BY <1>1, <1>2, <1>3, PTL DEF SystemSpec

\* No publisher ever sends on a channel that is closed, which would end the
\* process, although the channel is closed outside of the lock.
THEOREM NeverSendsOnClosed == SystemSpec => []NoSendOnClosed
<1>1. Inv => NoSendOnClosed
  BY SafeInv
<1> QED
  BY <1>1, SystemInvariance, PTL

\* The bus has the channels of the handlers that stream, and no other.
THEOREM BusHasItsStreams == SystemSpec => []SubscribedWhileStreaming
<1>1. Inv => SubscribedWhileStreaming
  BY DEF Inv
<1> QED
  BY <1>1, SystemInvariance, PTL

\* Two children of the loop of startEventBus never run at the same time.
THEOREM NeverTwoChildren == SystemSpec => []OneChild
<1>1. PumpInv => OneChild
  BY DEF PumpInv
<1> QED
  BY <1>1, SystemInvariance, PTL

\* Every client gets the events of a publisher in the order in which they were
\* published, although many publishers share its channel and a full one loses
\* some of them.
THEOREM EventsComeInOrder == SystemSpec => []InOrder
<1>1. Inv => InOrder
  BY DEF Inv, Ordered, Seen, InOrder
<1> QED
  BY <1>1, SystemInvariance, PTL

\* The bus and the pump keep the shape of their state: no channel holds more than
\* its capacity.
THEOREM SystemTypeCorrect == SystemSpec => []SystemTypeOK
<1>1. SystemInit => part \in {"bus", "pump"}
  BY DEF SystemInit
<1>2. part \in {"bus", "pump"} /\ [SystemNext]_<<part, vars, pumpVars>>
        => (part \in {"bus", "pump"})'
  BY DEF SystemNext, BusMoves, PumpMoves, PumpStopped
<1>3. PumpInv /\ Inv /\ part \in {"bus", "pump"} => SystemTypeOK
  BY DEF PumpInv, Inv, SystemTypeOK
<1> QED
  BY <1>1, <1>2, <1>3, SystemInvariance, PTL DEF SystemSpec
=============================================================================
