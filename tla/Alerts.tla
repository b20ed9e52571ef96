-------------------------------- MODULE Alerts --------------------------------
(***************************************************************************)
(* The alert engine of internal/alerts/alerts.go.  Every request for the   *)
(* pools of a host ends in CheckPools (handler.go:329), so several         *)
(* evaluations run at a time.  An evaluation turns a reading of each pool  *)
(* into alerts and dispatches them one by one; dispatch consults and sets  *)
(* the cooldown under the mutex and leaves the delivery to a goroutine per *)
(* channel, whose failure is only logged.                                  *)
(***************************************************************************)
EXTENDS Integers, Sequences
LOCAL INSTANCE FiniteSetsExt

CONSTANTS
  Enabled,           \* Config
  Evaluations,       \* goroutines in CheckPools
  Hosts, Pools,
  Capacities,        \* percentages a reading may show
  CapacityWarning,   \* Config, 0 when the file does not set it
  CapacityCritical,
  CooldownMinutes,
  DefaultWarning, DefaultCritical, DefaultCooldown,  \* 80, 90 and 60 in New
  Channels,          \* the e-mail target and the webhooks
  MaxClock,          \* bound on the clock
  MaxAlerts          \* bound on the alerts that are queued or were let through

ASSUME AlertsAssumption ==
  /\ {CapacityWarning, CapacityCritical, CooldownMinutes, MaxClock,
      MaxAlerts, DefaultWarning, DefaultCritical, DefaultCooldown} \subseteq Nat
  /\ DefaultCooldown > 0
  /\ Enabled \in BOOLEAN
  /\ Capacities \subseteq Nat

VARIABLES
  clock,       \* minutes
  cooldown,    \* Engine.cooldown: key -> the time of its last alert
  queue,       \* queue[e]: the alerts evaluation e has still to dispatch
  sending,     \* the deliveries under way: <<position in log, channel>>
  life,        \* the running process, named by the alerts sent before it began
  log          \* what the world has seen: the alerts let through, oldest
               \* first, each with its time and the process life it came from

vars == <<clock, cooldown, queue, sending, life, log>>

\* New replaces a zero by its default.
OrDefault(n, default) == IF n = 0 THEN default ELSE n

Warning  == OrDefault(CapacityWarning, DefaultWarning)
Critical == OrDefault(CapacityCritical, DefaultCritical)
Cooldown == OrDefault(CooldownMinutes, DefaultCooldown)

Levels == {"warning", "critical"}
Kinds  == {"health", "capacity", "scrub"}

Alert == [level : Levels, host : Hosts, pool : Pools, kind : Kinds]

\* What a reading says of a pool: whether Health is anything but ONLINE or
\* empty, the capacity in use, and whether the last scrub found errors.
Reading == [ailing : BOOLEAN, capacity : Capacities, scrubErrors : BOOLEAN]

Never == -1
Keys == Hosts \X Pools \X Levels

\* Mutant: the level is not part of the key, so a warning mutes a critical.
KeyNoLevel(a) == <<a.host, a.pool, "critical">>
Key(a) == <<a.host, a.pool, a.level>>
----------------------------------------------------------------------------
CapacityAlerts(h, p, c) ==
  LET A(l) == <<[level |-> l, host |-> h, pool |-> p, kind |-> "capacity"]>> IN
  IF c >= Critical THEN A("critical")
  ELSE IF c >= Warning THEN A("warning")
  ELSE <<>>

\* The alerts checkPool collects for a reading r, in its order.
CheckPool(h, p, r) ==
  LET crit(k) == <<[level |-> "critical", host |-> h, pool |-> p, kind |-> k]>>
  IN  (IF r.ailing THEN crit("health") ELSE <<>>)
        \o CapacityAlerts(h, p, r.capacity)
        \o (IF r.scrubErrors THEN crit("scrub") ELSE <<>>)

Raised == Len(log) + MapThenSumSet(LAMBDA e : Len(queue[e]), Evaluations)

\* CheckPools evaluates the pools of a host one after the other; the readings
\* were collected before, so an evaluation of several pools is one of each.
CheckPools(e) ==
  /\ Enabled
  /\ queue[e] = <<>>
  /\ \E h \in Hosts, p \in Pools, r \in Reading :
       /\ Raised + Len(CheckPool(h, p, r)) <= MaxAlerts
       /\ queue' = [queue EXCEPT ![e] = CheckPool(h, p, r)]
  /\ UNCHANGED <<clock, cooldown, sending, life, log>>

\* Mutant: an alert repeats one minute early.
CoolingShort(k) == cooldown[k] # Never /\ clock - cooldown[k] < Cooldown - 1
Cooling(k) == cooldown[k] # Never /\ clock - cooldown[k] < Cooldown

Muted(e) ==
  /\ queue[e] # <<>>
  /\ Cooling(Key(Head(queue[e])))
  /\ queue' = [queue EXCEPT ![e] = Tail(@)]
  /\ UNCHANGED <<clock, cooldown, sending, life, log>>

\* Mutant: the deliveries name the alert before the one that is let through.
DeliveriesOff == {<<Len(log), c>> : c \in Channels}
\* The goroutines started for the alert that becomes the next one of the log.
Deliveries == {<<Len(log) + 1, c>> : c \in Channels}

\* Under the mutex: check and set the cooldown, then start the deliveries.
Dispatch(e) ==
  /\ queue[e] # <<>>
  /\ LET a == Head(queue[e]) IN
     /\ ~Cooling(Key(a))
     /\ cooldown' = [cooldown EXCEPT ![Key(a)] = clock]
     /\ log' = Append(log, [alert |-> a, at |-> clock, life |-> life])
     /\ sending' = sending \cup Deliveries
  /\ queue' = [queue EXCEPT ![e] = Tail(@)]
  /\ UNCHANGED <<clock, life>>

\* sendEmail and sendWebhook: delivered or failed, it is never tried again.
Deliver ==
  /\ \E d \in sending : sending' = sending \ {d}
  /\ UNCHANGED <<clock, cooldown, queue, life, log>>

Tick ==
  /\ clock < MaxClock
  /\ clock' = clock + 1
  /\ UNCHANGED <<cooldown, queue, sending, life, log>>

\* The engine lives in memory: a restart forgets the cooldowns, the queues and
\* the deliveries under way, and nobody forgets the alerts that were sent.  A
\* restart of a process that sent nothing leads to a state that is reached
\* without its evaluations as well, and is left out.
Restart ==
  /\ life < Len(log)
  /\ cooldown' = [k \in Keys |-> Never]
  /\ queue' = [e \in Evaluations |-> <<>>]
  /\ sending' = {}
  /\ life' = Len(log)
  /\ UNCHANGED <<clock, log>>

Init ==
  /\ clock = 0
  /\ cooldown = [k \in Keys |-> Never]
  /\ queue = [e \in Evaluations |-> <<>>]
  /\ sending = {}
  /\ life = 0
  /\ log = <<>>

Next ==
  \/ \E e \in Evaluations : CheckPools(e) \/ Muted(e) \/ Dispatch(e)
  \/ Deliver \/ Tick \/ Restart

Spec == Init /\ [][Next]_vars
----------------------------------------------------------------------------
TypeOK ==
  /\ clock \in Nat
  /\ cooldown \in [Keys -> Nat \cup {Never}]
  /\ queue \in [Evaluations -> Seq(Alert)]
  /\ sending \subseteq (1..Len(log)) \X Channels
  /\ life \in Nat
  /\ log \in Seq([alert : Alert, at : Nat, life : Nat])

\* config.example.yaml:34 says "don't repeat alerts within 60 min".  Two alerts
\* of the same host, pool and level come closer than the cooldown only when the
\* server was restarted between them, whichever evaluations raised them and
\* however these interleaved; the map of alerts.go:69 is all that remembers
\* them (alerts.go:132-151).
CooldownRespected ==
  \A i, j \in 1..Len(log) :
    i < j /\ Key(log[i].alert) = Key(log[j].alert)
      => log[j].at - log[i].at >= Cooldown \/ log[i].life < log[j].life

\* An alert is dropped only if the running process has itself let an alert of
\* the same level through for its pool within the cooldown: a warning never
\* hides a critical alert, no alert is muted for longer than the cooldown, and
\* none by what was sent before a restart (alerts.go:133-139).
MutedOnlyAfterAlert ==
  [][\A e \in Evaluations :
       queue[e] # <<>> /\ queue'[e] = Tail(queue[e]) /\ log' = log /\ life' = life
         => \E i \in 1..Len(log) :
              /\ log[i].alert.host = Head(queue[e]).host
              /\ log[i].alert.pool = Head(queue[e]).pool
              /\ log[i].alert.level = Head(queue[e]).level
              /\ log[i].life = life
              /\ clock - log[i].at < Cooldown]_queue

\* config.example.yaml:34: "don't repeat alerts within 60 min".  Only repeats
\* are to be dropped: an alert that a pool is not ONLINE is dropped only if one
\* about the health of that pool was sent within the cooldown
\* (alerts.go:87-95 and 133-139).
HealthMutedOnlyAsRepeat ==
  [][\A e \in Evaluations :
       queue[e] # <<>> /\ queue'[e] = Tail(queue[e]) /\ log' = log /\ life' = life
         => \/ Head(queue[e]).kind # "health"
            \/ \E i \in 1..Len(log) : /\ log[i].alert = Head(queue[e])
                                      /\ clock - log[i].at < Cooldown]_queue
=============================================================================
