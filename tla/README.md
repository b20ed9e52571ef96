# ZFSdash in TLA+

This directory specifies the server of ZFSdash (`internal/`, `main.go`) in TLA+. TLC
checks the specifications on small instances; TLAPS proves the theorems of the `*Proofs`
modules for every value of the constants.

- [Inventory](#inventory): the parts of the system, their state and what makes them
  correct
- [Modules](#modules): which module models what, and how
- [Runs](#runs): what each run checks and shows, with its bounds and fairness
- [Proofs](#proofs): what is proved and along which argument
- [Disagreements](#disagreements): where the code and what is said of it differ
- [Limits](#limits): what is only model-checked and what is not modelled
- [Plan](#plan): what comes next

To check a run: `tlc -config AuthCore.cfg AuthMC`. To check the proofs of a module:
`tlapm AuthProofs.tla`.

## Inventory

`main.go:run` opens the database, migrates it, creates the auth service and registers
the routes; each HTTP request then runs on a goroutine of its own. Several parts exist
as code without a caller at this commit: `SetupRoutes`, `startEventBus`,
`initAnomalyManager`, `dlq.Watch`, `publish`, `DetectAndStoreAlerts`, `SetHostError`,
the alert engine, the collectors of `internal/collector`, `SendReceive`, the agent and
the licence check. They are specified as they are written, with the callers their
comments and signatures name.

| Component | State | Operations | Hard behaviour | What makes it correct |
|---|---|---|---|---|
| Accounts and sessions: `auth/auth.go`, `db/db.go`, `wizard/wizard.go`, `web/handler.go:60-270` | tables `users` and `sessions`; the locals of requests in flight | setup, login, logout, `setupGuard`, `requireAuth`, `me`, setup state, delete user, purge | every SQL statement commits by itself, so handlers interleave between statements; statements fail; the process dies between two of them | accounts unique; a logout is final; a token given to a client is lost only by logout, age or deletion; setup cannot get stuck, and who is told that it is over is told what stays so; a request acts only for the holder of a token that was live |
| Connection pool: `db.New`, `vdev/health.go`, `snapshots/snapshots.go` | one connection, its holder, the waiters | acquire, execute, iterate rows, nested statement, cancel | a statement inside open rows waits for the connection these rows hold | the limit; no leak; every handler returns |
| Alert engine: `alerts/alerts.go` | the map of cooldowns; deliveries under way | `CheckPools`, `checkPool`, `dispatch`, send | concurrent evaluations; restart forgets the cooldowns | alerts of a key are a cooldown apart or have a restart between them; nothing is muted without a reason |
| Event bus: `web/events_handler.go` | set of channels under an `RWMutex` | subscribe, publish, forward, unsubscribe | `unsubscribe` closes outside of the lock; full channels | no send on a closed channel; a slow client blocks nobody; order |
| Event pump: `startEventBus`, `zfs/zpool_events.go` | child process, channel, context | start, scan, send, wait, drain, cancel | nobody receives; a long line ends the scan while the child runs | one child at a time; ends with the context |
| Silent failure detector: `dlq/dlq.go`, `web/dlq_handler.go` | bounded list of findings | poll, check, add, acknowledge, list | eviction against deduplication; a panic on the polling goroutine | bounded, ordered, free of repeats |
| ZFS handlers and host store: `web/handler.go:300-460`, `store/store.go` | map host -> latest data; the commands under way | pools, SMART data, datasets, snapshots, create, delete, scrub; set, get | a command may hang; clients leave; requests for one host overlap | the handler returns, unless over ssh; a record is not older than one stored before its request |
| Collectors: `zfs/local.go`, `ssh.go`, `truenas.go` | SSH connection | run a command, parse | timeouts, a session that nothing ends or that is cut with part of the output, three sets of parsers | a local command and a request to TrueNAS are cut or end; the parsers tell the same, but for differences that are known |
| Scrub buffer: `events/scrub.go` | ring of events, queues of subscribers | append, subscribe, unsubscribe, latest | ring and fan-out under different locks | the ring holds the last events, whatever is appended at once |
| Send, receive, replication: `zfs/send_receive.go`, `zfs/replication.go` | two processes, a pipe, a job record | send, receive, resume, status | one side ends first; the error of the other is read without waiting for it | the job ends, no process is left, the status is true |
| Incident correlator: `incident/correlator.go` | a shared buffer, open incidents by pool and cause | ingest, classify, resolve, list | events of several pools out of order; the buffer overflows; events after a resolution | what the events warrant is there, with its evidence |
| Hotspots: `hotspot/hotspot.go` | baseline of counters, events | collect, detect, predict | three critical sections per collection; counters that are abbreviated or cleared | no new high of the counter is lost, and without an overlap none is counted twice |
| Anomaly detector: `anomaly/*.go` | window of ratios, baseline, events | feed, ensure, record | feeders that find no detector at once; schedule of the baseline | one detector sees all points; the baseline is current |
| Heat map and trends: `zfs/dataset_io.go`, `collector/*.go` | the last sample of a dataset | sample, report | overlapping requests; unsigned differences; answers that are made up | a request that is alone reports what was read since the last one |
| Agent: `agent/agent.go` | table of registrations | register, report | crash between the answer and the INSERT; failing statements | it keeps its first registration |
| Licence: `license/license.go` | cache file, key | validate | stale cache, changed keys, truncated file | paid means that the server answered so within a day |
| Planners and advisors: `expansion`, `capacity`, `simulator`, `forecast`, `vdev`, `zvol`, ... | none | pure functions | boundaries, zero, rounding, quotients | features agree with each other and with their data |
| Lifecycle: `main.go`, `zfsdash.service` | listener, signal | start, drain, stop, restart | shutdown with streams open | the process ends |
| Frontend, installer, documents | - | - | - | no state of the server |

How they interact: the handlers call the auth service and the store of `db`, which share
the one connection of the pool; the handler of the pools of a host calls a collector,
stores the result in the host store and hands it to the alert engine; the event pump was
meant to feed the bus, but no call leads from one to the other.

## Modules

**`Auth`** - accounts and sessions. A table is a set of rows; `pc[r]` names the SQL
statement request `r` executes next, `input[r]` and `usr[r]` are its locals, and
`answer[r]` what it has answered. One action is one statement and what the handler
computes up to the next one: `db.New` limits the pool to one connection and no
transaction spans statements, so statements are atomic and anything may come between two
of them. bcrypt, the random token and its SHA-256 are exact: a password matches one
hash, a token is found under its own hash. `Break` makes the database fail or recover,
and while it is broken any statement may fail, with the error path the code has for it
(three of them are swallowed: `TouchLastLogin`, `TouchSessionActivity` and the DELETE of
a logout). `Crash` keeps the tables and drops the requests. `ForeignKeys` says whether
the driver enforces the cascades: the DSN asks for them with `_fk=true`, a parameter of
another SQLite driver than the `modernc.org/sqlite` of `go.mod`, which does not read it,
so the runs say no. The proofs hold for both values. `/api/setup/state` is three
statements (administrators, users, hosts), each of which counts as zero when it fails.
`enrolled`, `granted`, `revoked` and `known` are history: what was ever committed, what
logouts deleted, what clients were given.

**`SessionAuthority`** - what all this promises, without tables: a token is fresh, live,
then dead; a request is allowed only if it saw its token live after it came in and the
holder existed when it was allowed. **`AuthRefinement`** maps `Auth` to it; a token is
live while an unexpired row holds it, a claim is a position in `ValidateSession`.
**`AuthMC`** adds the symmetry for TLC, **`AuthProofs`** the theorems of `Auth` and that
of the refinement.

**`ConnPool`** - who holds the connection. A goroutine runs one of four programs, which
are the four shapes the code has: flat without a context (`ValidateSession`), flat with
one (`CollectAll`), nested with one (`AnalyzeAll`, whose rows stay open while `Analyze`
queries for each), nested without one (`DetectAndStoreAlerts`). `database/sql` is
external: a random waiter gets a connection that is put back, a cancelled context closes
rows and refuses statements. A collection may find no sample and still begins and
commits its transaction. `Limits` are the values of `SetMaxOpenConns` considered: the
code's 1, and 2 to see inner statements run at all.

**`Alerts`** - the engine. `CheckPools` turns readings into a queue of alerts, `Muted`
and `Dispatch` are the two outcomes of `dispatch` under its mutex, `Deliver` the
goroutine per channel, `Restart` the loss of the map. `log` is history: every alert that
was let through, over restarts, with its time and the process (`life`) it came from;
`MaxAlerts` bounds what is raised. **`AlertsMC`** and **`AlertsProofs`** go with it.

**`EventBus`** and **`EventPump`** - the two halves of the event stream, with the lock
of the bus (a waiting writer keeps new readers out) and the places where the pump may
block. **`EventSystem`** puts them together as the commit starts them, side by side and
without a call between them: they share no variable, so a behaviour moves one of them
(`part`) and nothing is lost by not interleaving them. **`EventSystemProofs`** proves
the invariants of the bus and of the pump and the theorems about the system.

**`DeadLetters`** - the detector: `Collect` is `collect` up to its calls of `addEvent`
(in any order: the order of lines), `AddEvent` the append with deduplication and
eviction, by messages that hold the counts of what they report (`Readings`; `Prose`
stands for the `scan:` and `status:` lines that are taken for vdevs), `IndexOutOfRange`
the panic of `generateID`, `Restart` what systemd does next.

**`Hosts`** - the handlers that run ZFS commands. A request arrives, runs its command,
runs what follows from the output of it (`MaxMore` further commands), stores the record
when it asked for pools, and answers. `kind` is the collector of the host and decides
what ends a command that hangs (`Cut`): `local.go` gives every command but those for
SMART data a timeout, os/exec and net/http end what runs under a context that is done;
reads get the context of the request, the three changes the background's. Over ssh a
session is opened first (`OpenSession`), without a context, and closing it only sends a
message, so nothing in the code ends a command there; it ends with output or with an
error, and what a session printed before it broke is output. `state` stands for what the
host would answer now; `floor` is history: the newest record that was stored when the
request came in.

**`ScrubBuffer`** - `Append` in its two critical sections (`Put`, `FanOut`), the
subscribers in the order of the slice, queues that drop.

**`Transfers`** - one `SendSnapshot`. The goroutine of `zfs send` (`sender`), the
process itself (`send`), the goroutine of `os/exec` that copies the pipe into the input
of `zfs recv` (`copier`), that process, and the handler's goroutine, which closes the
reading end, reads `sendErr` without waiting for its writer and records the status.
Streams are `Chunks` long and what waits in each of the two buffers is counted.
**`Replication`** - `SendReceive`, whose processes share an inherited pipe of which the
server keeps the reading end open.

**`Agent`** and **`Licence`** - small: a table of registrations over crashes and failing
statements; the cache file, the key and time, with a licence server whose every answer
in JSON but a 401 is a licence.

**`Operations`** composes these with `EventSystem`. No call leads from one part to
another and they share no variable, so the same argument holds as for `EventSystem`: a
behaviour moves one of them, which `unit` says, and the properties of a part hold of the
composition exactly if they hold of the part.

**`Incidents`**, **`Hotspots`**, **`Anomalies`**, **`IoHeat`** - the parts that remember
what ZFS reports, with the critical sections as steps and the requests that overlap in
between. Means and deviations are inequalities of integers (a baseline is a count, a sum
and a sum of squares). A vdev of `Incidents` may have no name, and then counts as none.
`Hotspots` reads a counter that is abbreviated (above `Readable`) as `ParseInt` does, as
none; a counter may be cleared once. `IoHeat` has the answers that are made up when
there are no counters, counters that cannot be read, and a dataset that is imported
again once (`life`). **`Lists`** is what loops over lists compute: the copy of what
meets a condition, which `Incidents` and `Hotspots` share, and the sum and the k-th
element in order, which planners and advisors use. **`StatusParsers`** - the output of
`zpool status` as rows, and each parser of it as an operator, with the counters
abbreviated but for the command that passes `-p`. **`Planners`** and **`Advisors`** -
the pure functions as operators over requests and cases, whose lists have any length up
to constants (`MaxReadings`, `MaxVdevs`, `MaxSnapshots`, ...); quotients are compared by
cross multiplication. Each reading of a forecast has the total of its day; snapshots and
latencies that cannot be read are the made-up ones of the code; samples of errors are
`Gaps` apart. **`Analysis`** composes all of them with `DeadLetters`, as `Operations`
does.

**`OperationsProofs`**, **`ConnPoolProofs`** and **`AnalysisProofs`** hold theorems
about the modules of their names, **`AnswersProofs`** those about the planners and
advisors of `Analysis`; **`FoldTheorems`** has the lemmas about folds of sequences those
rest on.

`PROJECT.json` maps each definition to its lines.

## Runs

| Run | Instance | What it shows |
|---|---|---|
| `AuthCore` | 2 requests, 2 ids, tokens, names and addresses, a good, a short and a long password, sessions of one tick of a clock of 2, a database that breaks; 0.7M states | The type invariant; `UniqueAccounts` (the name check and the INSERT are different statements and the address is never checked); `RevokedTokensStayDead`; `KnownTokensAccounted`; `NoSetupLimbo`; `SetupAnswersHold`: who is told that setup is complete is told what is so from then on, and the three statements of the setup state never make up "complete without an administrator" unless one fails |
| `AuthAuthority` | deletion and purge included, one name | `ImplementsAuthority`: `Auth` refines `SessionAuthority`, with the foreign keys not enforced |
| `AuthFirstAdmin` | as `AuthCore`, no faults | violation: two administrators |
| `PoolReturns` | 2 goroutines, none to 2 rows, limits 1 and 2 | `ConnectionsAccounted`: the limit, and no result left open; `EveryProgramReturns` if clients disconnect at last |
| `PoolDetect` | `me` against `detect`, limit 1 | violation: `handleMe` never returns |
| `AlertsCooldown` | 2 evaluations, 2 pools, cooldown 2 of 3 minutes, 3 alerts, restarts | `CooldownRespected`: closer than the cooldown only over a restart; `MutedOnlyAfterAlert` |
| `AlertsRepeats` | one pool, two channels | violation: an alert about a scrub mutes a first alert about health |
| `EventRuns` (`Operations`) | 2 streams, 2 publishers, capacity 1, 2 events; pump with capacity 2 and 4 lines | no send on a closed channel, the bus has the channels of the streaming handlers only, order; one child; publishing, leaving and shutting down end |
| | 2 appenders, 2 subscribers, ring of 3, queues of 1, 5 events | `RingIsRecent` |
| | 2 requests of all three collectors for pools, SMART data and a creation, one further command, 2 states of the host | `StaleOnlyByOverlap`; `EveryRequestReturns` of local hosts and TrueNAS |
| | a stream of 3 through buffers of 1 | `CompleteMeansBothSucceeded`; `TransferEnds` |
| | 3 registrations; 2 keys, a day of 2 ticks of 5 | `ReportsAsRegistered`; `PaidWasAnswered` |
| `DlqList` (`Analysis`) | one pool, one of each kind of line, counts up to 2, list of 2, window 2 of 3; 3.4M states in all | list bounded, no repeat within the window |
| | 2 pools, a vdev or none, 4 events at 2 times, a buffer of 3 | `NothingMissed` |
| | 2 collections at once, 3 in all, a counter of 3 that is abbreviated above 2, events kept 2 hours | `IncreasesCounted` |
| | 2 feeders, window of 4, baseline every 2, 6 points | `OneDetector` |
| | 2 requests at once, 4 in all, counters of 4 bits, a reset | `BytesAccounted`: of a request that is alone |
| | all outputs, requests and cases over the small domains of the cfg: 4 readings of pools of 10 and 15, 3 vdevs and 2 more, 2 snapshots, 4 samples of errors up to 2 days apart, 3 latencies now and before, 2 usages | `ParsersAgree`, `ForecastsAgree`, `AdviceIsSound` |
| `DlqCounters`, `DlqWatch` | the detector alone | violations, see below |
| `ReplicationPipe` | a stream of 3, a pipe of 1 | violation: the sender blocks for ever |

*Bounds.* Two requests are enough for every race in question, since each is between a
read of one request and a write of another; a third would only repeat the second. Two
tokens tell a session from another one of the same account, two accounts a logout of one
from a logout of the other. Clocks outlast the duration, cooldown or window they are
compared with by at least one tick, so that both sides of the comparison occur. Buffers
are so small that they fill: the bus drops at capacity 1, the pump blocks with 4 lines
for 2 places, the list evicts at 2, the ring of 3 wraps with 5 events, the window of 4
slides with 6 points, the incident buffer of 3 overflows with 4 events, each pipe holds less
than the stream. A day, a window and an age expire within their clocks. Counters of 4
bits wrap as those of 64 do. The domains of the planners and advisors are chosen around
the thresholds of the code. `MaxAlerts`, `MaxEvents`, `MaxLines`, `MaxRows`, `MaxClock`,
`MaxAppends`, `MaxChanges`, `MaxMore`, `MaxIds`, `MaxTime`, `MaxPosts`, `MaxErrors`,
`MaxHours`, `MaxCollects`, `MaxPoints`, `MaxBytes`, `MaxStamps`, `MaxDay`,
`MaxReadings`, `MaxVdevs`, `MaxAdded`, `MaxSnapshots`, `MaxTrend`, `MaxProfiled` and
`MaxUsages` are the bounds that cut behaviours and lists. Three readings are the fewest
a line is fitted to, and four are one more; the baseline needs 4 samples, so that it has
too few of them and enough.

*Symmetry* is used in `AuthCore`, `AuthAuthority` and `AlertsCooldown`, which check
safety only; nothing in these modules tells the permuted values apart.

*Deadlock* is checked in every run but `PoolDetect` and `ReplicationPipe`, where the
system stops: that is their finding. A stopped pump and a transfer that is over stutter
explicitly (`PumpStopped`, `Over`).

*Fairness.* `Auth`, `Alerts`, `DeadLetters` and `Analysis` have none: nothing they are
asked is about progress. In `ConnPool` a goroutine runs when it can (weak fairness), and
a waiter for a connection gets strong fairness, since `database/sql` picks a random one
each time a connection is put back. Clients that leave at last (`ImpatientSpec`) are an
assumption `EveryProgramReturns` needs: with a patient client, `AnalyzeAll` waits for
its own connection for ever. In `EventSystem` the goroutines and the kill of a cancelled
child are weakly fair, clients, publishers and children are not. `Operations` adds: a
handler takes the steps it can take, and a timeout or a done context does end a local
command and a request to TrueNAS (`Handles`, `Cut`: os/exec kills the process, net/http
gives up). Over ssh there is no such step and no fairness: `NewSession` takes no
context, and what closes a session is a message that a dead connection does not answer
(`ssh.go:78-87`), so `EveryRequestReturns` leaves ssh out. Commands themselves may hang
for ever, so it also needs clients that leave at last: the SMART data and the requests
to TrueNAS have no other end. The goroutines and the two processes of a transfer make
the progress they can make (`Progress`, one weak fairness, since each of its steps is
taken at most once or shortens the stream); the failure of a process is not fair. In
`Replication` the call and the moves of the two processes are weakly fair, their
failures are not.

## Proofs

| Module | Theorem | Property |
|---|---|---|
| `AuthProofs` | `TypeCorrect`, `AccountsAreUnique`, `LogoutIsFinal`, `ClientsKeepTheirSessions`, `SetupTestsAgree`, `SetupAnswersLast` | `TypeOK`, `UniqueAccounts`, `RevokedTokensStayDead`, `KnownTokensAccounted`, `NoSetupLimbo`, `SetupAnswersHold` |
| | `AuthImplementsAuthority` | `ImplementsAuthority` |
| `EventSystemProofs` | `NeverSendsOnClosed`, `BusHasItsStreams`, `EventsComeInOrder`, `NeverTwoChildren`, `SystemTypeCorrect` | `NoSendOnClosed`, `SubscribedWhileStreaming`, `InOrder`, `OneChild`, `SystemTypeOK` |
| `AlertsProofs` | `AlertsKeepTheirDistance`, `MutingHasAReason`, `AlertsTypeCorrect` | `CooldownRespected`, `MutedOnlyAfterAlert`, `TypeOK` |
| `ConnPoolProofs` | `PoolIsAccounted`, `PoolTypeCorrect` | `ConnectionsAccounted`, `TypeOK` |
| `OperationsProofs` | `AgentIsRegisteredOnce`, `PaidTiersWereAnswered`, `CompleteJobsAreComplete`, `RecordsAreRecent`, `RingsAreRecent`, `OperationsTypeCorrect` | `ReportsAsRegistered`, `PaidWasAnswered`, `CompleteMeansBothSucceeded`, `StaleOnlyByOverlap`, `RingIsRecent`, `OperationsTypeOK` |
| | `EventStreamRuns` | `OperationsSpec => SystemSpec` |
| `AnalysisProofs` | `RepeatsAreApart`, `LoneRequestsAreExact`, `WarrantedIncidentsAreThere`, `IncreasesAreCounted`, `FeedersShareADetector`, `FeaturesAgree`, `AnalysisTypeCorrect` | `NoRepeatInWindow`, `BytesAccounted`, `NothingMissed`, `IncreasesCounted`, `OneDetector`, `ParsersAgree`, `AnalysisTypeOK` |
| `AnswersProofs` | `ForecastersAgree`, `PlansAndAdviceAreSound` | `ForecastsAgree`, `AdviceIsSound` |
| | `BaselineAbove` | about the percentile of a profile |

They assume what the `...Assumption` of their module says of the constants, nothing
about their size, and those of `AuthProofs` hold for both values of `DbFaults`,
`ForeignKeys` and `StoreApi`, with one exception: `SetupAnswersLast` is about the
operations the routes call (`~StoreApi`): when the last account is deleted, a setup that
was complete is not any more, but nothing calls `DeleteUser`. That the goroutines of the
pool are finitely many is part of `ConnPoolAssumption`: connections in use are counted.

*Auth.* None of the properties is inductive: that a granted token cannot collide with a
revoked one needs to know that revoked tokens were granted, and that in turn that every
token a request carries was granted. `Inv` adds `LocalsOK` (what a request holds where a
later statement relies on it) and `HistoryOK` (tables within history, tokens of clients
and logouts granted, accounts of sessions enrolled), generalises `KnownTokensAccounted`
to every granted session (`SessionsAccounted`) and replaces `NoSetupLimbo` by its reason
(`AllAdmin`). `Durable` shows that every step of the system does one of seven things to
the tables and the history; each safety part of `Inv` is then shown against these seven
instead of the twenty actions. The types and the locals go action by action. For
`SetupAnswersLast`: what the first statement of the setup state found is kept until the
second one (`FirstAnswersOK`), a client was told of a finished setup only when there was
an account (`ToldOK`), and accounts only grow in number while nothing deletes them
(`AccountsStay`); that each of them is an administrator is part of `Inv`.

*The authority.* `MapInv` adds to `Inv` that a token is granted for one session only
(`UniqueGrants`), so that `HolderOf` has no choice, and that a request has no account
before a session names one (`NobodyYet`). The seven things a step can do to the tables
are then seven steps of the authority or none: enrol, issue, retire (a logout, a purge,
an expiry by the clock) and remove, which takes all live tokens of the account with it
or, without foreign keys, none. A step that moves a request leaves the tokens and asks,
observes, allows or drops (`Ask`, `Observe`, `Allow`, `Drop`); `Observe` needs that the
session that was found had not expired, `Allow` that its account still exists.

*Event bus.* The channels a publisher has before it are subscribed (`TodoSubscribed`),
since nobody unsubscribes while a reader is left (`ReadersPublish`), and a subscribed
channel is open (`OpenWhileRunning`): closing comes after removing. For the order
(`Ordered`), what a client has received and what is on its way to it are one sequence
(`Seen`): no event in it is later than the last one of its publisher, and those of a
publisher whose round still has this channel to serve are earlier than the event of that
round. A channel that loses an event only shortens the sequence.

*Event pump.* A child outlives `StreamEvents` only through the cancelled context, and
then the loop ends before it would call again (`ChildEnds`).

*Alerts.* The map summarises what the running process has added to the log: an entry is
at least as late as every alert of its key from this process (`CooldownCovers`), is the
time of one of them (`CooldownLogged`) and is not in the future (`CooldownPast`). All
others in the log are of earlier processes (`LivesPast`), so that a restart lies between
them and the next alert.

*Connection pool.* A result is open only while its program iterates over it
(`OpenWhileIterating`), so a step lends at most one connection, and only when one is
free (`NothingLent`, `OneLent`); that no result is left open is the first of these.

*Operations and Analysis.* Each part has an invariant of its own, over its own
variables; the steps of the others leave these alone. The theorems are of the
specification of the composition.

- Agent: while it knows of no registration and nothing failed, the table is empty
  (`AgentInv`).
- Licence: a paid tier in the cache is not younger than the latest answer with a paid
  tier (`LicenceInv`), so that a fresh cache implies such an answer within the day.
- Transfer: `sendErr` is written before the pipe is closed (`SendErrIsWritten`), and
  `zfs recv` can end well with the copying over only when the pipe is closed
  (`RecvSawTheEnd`). So `sendErr` can be read without waiting: when recv has ended well,
  it is there.
- Hosts: the collection a request holds began after the request came in, and what it
  sampled is at least what was there when it began: `floor <= began <= sample`
  (`JobInv`).
- Scrub ring: slots before the position hold what was put since it was at the first one,
  those behind it what was put a round earlier (`RingInv`). Between the two critical
  sections of an append the ring is complete already.
- Silent failures: nothing on the list is from the future, and eviction moves entries
  down by one and keeps their distances (`ListInv`, `Evicted`).
- Heat map: what is remembered is what the last request had read (`Remembered`), in
  whatever order requests stored. A request that is alone is the only one under way,
  later than the last, and has read no less than it if both read the same life of the
  counter (`AloneIsLater`, from `ReadsAreBelow` and `Unread`), so the difference modulo the width is
  the difference (`SmallDifference`).
- Correlator: while the buffer is not full it is what was posted, and the incident of a
  pool and the cause its last event warrants holds the evidence at that event
  (`CorrelatorInv`). The evidence of a pool is what is related to its own last event
  (`EvidenceOfLast`), so an event of another pool changes neither (`IngestStep`).
- Hotspots: the baseline and every value a request has read of it were compared, and
  what was counted is at least the highest of these (`Compared`). Without an overlap one
  collection is under way (`OneCollect`), and what was counted and what the counter is
  above the baseline are no more than the errors that happened (`NoneInvented`);
  clearing the counter and abbreviating it only lower that.
- Anomalies: the window is the end of what was fed, and the baseline is that of the
  window `k < Every` points ago; `k` is the length of the window modulo `Every` until it
  is full and 0 from then on (`Fresh`), since a full window stays at `WindowSize`, and
  the length it is tested with is divisible by `Every`.
- Parsers: a row is told by its columns (`RowInTree`, `SumIsSpread`, `RowIsAgreedOn`),
  an output by its rows (`OutputIsAgreedOn`), for each set of devices and counters.

*Answers.* Every request and every case is of one of the kinds there are
(`AnswersTyped`, which the steps of the other units leave alone), and for each kind the
property is a fact about its data.

- Forecasts: with the days counted from the first reading, readings on a line satisfy
  two linear equations, which summed up give the rise and the base of the line of least
  squares (`SumsLinear`, `OnLine`): it is that line, so both forecasts divide the same
  fraction (`SameFraction`), and rounding down commutes with the days that have passed
  since. Of readings that rise or fall the sign of the slope is that of `n * sum(t*u) -
  sum(t) * sum(u)`, which is at least the area between the first and the last pair
  (`RiseTogether`, the inequality of Chebyshev, by one induction over the pairs:
  `PairsLead`). With `u = t` it also says that the spread is positive. What the other
  forecast divides by is a difference of percentages: rising bytes of totals that never
  grow make it positive (`SharesMove`), and of one total it is the rise of the bytes
  (`SharesOfOne`).
- Plans: an expansion's score starts at 5, and a tolerance of one makes up for both
  warnings it may have; the mean of all vdevs cannot lie below each of them
  (`SumAtLeast`); shares that are rounded down lose less than one each (`SharesOf`), and
  what is moved is at most the share of the new vdevs (`MovedAtMost`).
- Advice: each part of the risk grows with what it counts (`CappedGrows`); a sum over
  some snapshots is at most that over all (`SumsBelow`); growing errors are points that
  rise (`RiseOfRising`).
- Percentiles: the k-th smallest exists (`SmallestExists`: of the values with at least k
  places that are no greater, the least one) and is ordered by k (`SmallestOrdered`).
  What is below a value in two lists together is at most what is below it in each of
  them, and the place of a percentile in both lists is no earlier than its places in
  each together (`PlaceOfBoth`), so adding samples no higher than the baseline leaves
  the percentile of the baseline at theirs at least (`BaselineAbove`), whether they were
  measured before or are added between the two locks of a profile.

*Lists.* What a list operation computes is an induction over the list. The lemmas of
`FoldTheorems` do it once, for an operation that is a constant of the module (`Op`,
`Base`): `FoldLeft` chooses a function on sets of indices, which exists (`FoldExists`)
and is the same for a sequence and for the sequence with one more element
(`FoldAppend`). `AnalysisProofs` takes an instance per operation: one for `Kept`, one
for each sum; `AnswersProofs` takes one for `SumOf`, and gets induction over numbers
from an instance as well. That is why `Kept` is a fold over a set rather than
`SelectSeq`, and why a percentile counts what is below it rather than use `SortSeq`.

## Disagreements

Runs that expect a violation check one sentence of the repository:

- `auth.go:92`, "creates the first admin user": two setups that both pass `IsFirstRun`
  create two (`AuthFirstAdmin`).
- `handler.go:254`, `/api/auth/me` "ALWAYS returns HTTP 200": not while
  `DetectAndStoreAlerts`, which nothing calls at this commit, waits for its own
  connection (`PoolDetect`).
- `config.example.yaml:34`, "don't repeat alerts": a first alert that a pool is not
  ONLINE is dropped after one about its scrub, as the key has no kind (`AlertsRepeats`).
- `dlq.go:131`, "Check vdev error counters": never for a pool without data errors
  (`DlqCounters`).
- `dlq.go:58`, "background polling": `generateID` indexes past its alphabet and the
  panic ends the process (`DlqWatch`).
- `replication.go:142`, "zfs send | zfs receive": a receiver that fails early does not
  end the sender, whose pipe the server itself keeps open (`ReplicationPipe`).

Met while modelling and not given a run:

- Accounts: a failed DELETE of a logout is answered "ok" (`handler.go:246`); an account
  that was created is reported as "create failed" when reading it back fails
  (`auth.go:109`); `setupGuard` takes a failing count for an incomplete setup
  (`wizard.go:16`); a setup that commits between the two counts of `/api/setup/state`
  makes it answer "incomplete, with an administrator", which was true at no moment
  (`wizard.go:28`).
- Database: `db.go:18` asks for foreign keys with `_fk=true`, which `modernc.org/sqlite`
  does not read, so the cascade of `schema.go:30` does not run and the sessions of a
  deleted account stay until they expire; `GetUserByID` refuses them.
- Alerts: a restart forgets the cooldowns, and the same alert is sent again at once
  (`alerts.go:69`).
- Events and findings: nothing receives from the channel of `startEventBus`; the `grep`
  of `dlq.go:206` drops the line of the hits, so that its ratio is always 0.
- Silent failures: a message holds the counts (`dlq.go:150`), so a counter that changes
  is a new finding at each poll, whatever the window; `scan:` and `status:` lines of
  five words are taken for vdevs (`dlq.go:135`).
- Collectors: what a cut ssh session printed counts as its whole output, and part of the
  pools is stored as all of them (`ssh.go:87`); nothing ends a session that is blocked
  in `NewSession`, or a command on a dead connection (`ssh.go:78-87`), and the goroutine
  that waits for the background context of a change waits for ever; a timeout of 0 means
  none (`truenas.go`), where `types_ext.go:14` says 30 seconds; `ParseDatasets` reads
  columns in another order than the command of `local.go:196-205` prints them
  (`local.go:330`); the resilver pattern does not match what zpool prints;
  `GetResumeToken` runs without a context; `SetHostError` has no caller.
- Parsers: rows in state UNAVAIL are missing from the samples of `vdev/health.go`;
  `parseObjset` of the attributor takes counts of operations for bytes; the prefix match
  of `dataset_io.go:124` takes `tank2` for `tank`. A counter of 1024 or more is printed
  as "1.00K", which `ParseInt` refuses: the vdev tree and the hotspots see no error
  there (`hotspot.go:101-102`).
- Made-up data: when the command or the file behind them cannot be read, the heat map
  (`dataset_io.go:39-42`), the cost of snapshots (`snapshot_advisor.go:43-45`) and the
  latencies of a vdev (`vdev_latency.go:60-62`, `81-83`) are answered with invented
  numbers and nothing that says so. The snapshot analysis then advises to delete a
  snapshot that does not exist, and its totals are not those of its list.
- Analysis: the events of `anomaly/manager.go:48` ("newest first") are so within a pool
  only; a counter that was cleared leaves its baseline behind, up to which new errors
  are not counted (`hotspot.go:102`, `107`); the difference of the heat map wraps to an
  amount near 2^64 when requests overlap or a dataset was imported again
  (`dataset_io.go:58`).
- Forecasts: the times of readings are columns of text, and one that is not RFC 3339 is
  taken for the zero time, so that there is no forecast (`capacity.go:65`). Of a pool
  that was expanded between its readings there may be one forecast and not the other, as
  one goes by the percentages of then (`capacity.go:76`) and the other by bytes and the
  last total (`forecast_handler.go:53`).
- Advice: a latency of more than three times the baseline is reported as "more than 2x";
  the predicted use of a forecast may exceed its upper bound; the days to 80 % are given
  only past 80 %, so the advice to order drives comes only then, and may exceed those to
  full (`capacity/planner.go:173`, `222`); a vdev with 99 errors may have 0 days left
  and one with 100 has 1; the history of latencies is written and read under two locks
  (`vdev_latency.go:89-90`), between which other profiles come; a FAULTED vdev without
  errors scores 30 and is called healthy; the tier of a snapshot is looked for in its
  whole name; `snapshot_advisor.go:60` reads the fifth field where four are enough to
  get there; the owner of a charge is that of the oldest sample.
- Agent: an error the server answers with is stored as a registration without an id
  (`agent.go:56`).
- Licence: any answer in JSON but a 401 is a licence: `valid` is set to true, and it is
  cached for a day, also when the server said 402, 403 or 500 (`license.go:65-71`). A
  changed key does not make the cache stale (`license.go:53`).

## Limits

*Only model-checked.* All liveness (`EveryProgramReturns`, `PublishEnds`, `StreamEnds`,
`StopsOnCancel`, `EveryRequestReturns`, `TransferEnds`): fairness and ENABLED are out of
the reach of the prover. And the instances behind the violations. Every invariant and
every action property of the passing runs is a theorem.

*Abstracted.* Texts of alerts, findings and answers that no property tells apart;
columns and formats of command output, except where parsers disagree about them; the
text a `time.Time` is stored as in `expires_at` and its zone, which is the driver's
business. Floating point is compared by integers, so rounding below a unit is not
modelled. The cases of `Advisors` take their series of latencies for the risk of a vdev
from three (too short, slower, much slower) and whole ratios of deduplication. Requests
of `Auth` take the connection for granted; the wait for it is `ConnPool`'s.

*Not modelled.*

- Start, signals and shutdown (`main.go`) are calls into `net/http` in a row; crashes
  and restarts are actions of the modules of what keeps state.
- The host registry and the histories of `db.go` are single statements no two of which
  depend on each other.
- `initDLQ` (`dlq_handler.go:15`) and the encoding of a job or an incident beside its
  writer race on plain variables; the language gives no set of outcomes to check.
- Attribution, zvol advice and the estimates of the dedup table are tables of strings
  and products of floats; ARC and iostat collectors divide two numbers of a file.
- The SMART parsers, the API client of TrueNAS beyond how its requests end, and the
  handlers that only read: no state.
- The web client, scripts and documents.

## Plan

In this order:

1. Proofs: the safety half of what the liveness properties rest on (which step is
   enabled where).
2. Abstract specifications: a bus as a lossy ordered channel per client, the store as a
   register per host.
3. `Hosts` composed with `Alerts` once a handler calls the engine, and with `ConnPool`
   for the histories that handlers store.
