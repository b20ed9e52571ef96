SPECIFICATION OperationsSpec
CONSTANTS
  Streams = {s1, s2}
  Publishers = {p1, p2}
  Capacity = 1
  MaxEvents = 2
  PumpCapacity = 2
  MaxLines = 4
  Appenders = {a1, a2}
  Subscribers = {u1, u2}
  Size = 3
  QueueSize = 1
  MaxAppends = 5
  Requests = {r1, r2}
  Ops = {"pools", "smart", "create"}
  MaxMore = 1
  MaxChanges = 2
  Chunks = 3
  Buffer = 1
  MaxIds = 3
  Keys = {"k1", "k2"}
  Day = 2
  MaxTime = 5
INVARIANTS
  OperationsTypeOK
  NoSendOnClosed
  SubscribedWhileStreaming
  InOrder
  OneChild
  RingIsRecent
  StaleOnlyByOverlap
  CompleteMeansBothSucceeded
  ReportsAsRegistered
  PaidWasAnswered
PROPERTIES
  PublishEnds
  StreamEnds
  StopsOnCancel
  EveryRequestReturns
  TransferEnds
