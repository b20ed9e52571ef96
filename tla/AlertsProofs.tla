----------------------------- MODULE AlertsProofs -----------------------------
(***************************************************************************)
(* Theorems about Alerts, for every configuration, number of evaluations   *)
(* and set of pools.                                                       *)
(*                                                                         *)
(* The map of cooldowns is a summary of what the running process has sent: *)
(* an entry is the time of an alert of its key, and of none before a later *)
(* one.  What an earlier process sent is in the log and not in the map.    *)
(***************************************************************************)
EXTENDS Alerts, TLAPS

\* An entry is not in the future.
CooldownPast == \A k \in Keys : cooldown[k] <= clock

\* An alert in the log is of the running process or of an earlier one.
LivesPast == \A i \in 1..Len(log) : log[i].life <= life

\* The key of an alert of this process has an entry at least as late as it.
CooldownCovers ==
  \A i \in 1..Len(log) : log[i].life = life =>
    /\ cooldown[Key(log[i].alert)] # Never
    /\ log[i].at <= cooldown[Key(log[i].alert)]

\* An entry is the time of an alert of this process.
CooldownLogged ==
  \A k \in Keys : cooldown[k] # Never =>
    \E i \in 1..Len(log) :
      Key(log[i].alert) = k /\ log[i].at = cooldown[k] /\ log[i].life = life

Inv ==
  /\ TypeOK
  /\ CooldownPast /\ LivesPast /\ CooldownCovers /\ CooldownLogged
  /\ CooldownRespected

Entry == [alert : Alert, at : Nat, life : Nat]
----------------------------------------------------------------------------
\* The cooldown in force is a number of minutes.
LEMMA CooldownNat == Cooldown \in Nat
BY AlertsAssumption DEF Cooldown, OrDefault

\* The key of an alert is one of the map.
LEMMA KeyType ==
  ASSUME NEW a \in Alert
  PROVE  Key(a) \in Keys
BY DEF Key, Keys, Alert

\* What checkPool collects are alerts.
LEMMA CheckPoolType ==
  ASSUME NEW h \in Hosts, NEW p \in Pools, NEW r \in Reading
  PROVE  CheckPool(h, p, r) \in Seq(Alert)
<1> DEFINE A(l, k) == <<[level |-> l, host |-> h, pool |-> p, kind |-> k]>>
<1>1. ASSUME NEW l \in Levels, NEW k \in Kinds PROVE A(l, k) \in Seq(Alert)
  <2>1. [level |-> l, host |-> h, pool |-> p, kind |-> k] \in Alert
    BY DEF Alert
  <2> QED
    BY <2>1
<1>2. <<>> \in Seq(Alert)
  OBVIOUS
<1>3. {"warning", "critical"} \subseteq Levels /\ {"health", "capacity", "scrub"} \subseteq Kinds
  BY DEF Levels, Kinds
<1>4. /\ A("critical", "health") \in Seq(Alert) /\ A("critical", "scrub") \in Seq(Alert)
      /\ A("critical", "capacity") \in Seq(Alert) /\ A("warning", "capacity") \in Seq(Alert)
  BY <1>1, <1>3
<1>5. CapacityAlerts(h, p, r.capacity) \in Seq(Alert)
  BY <1>2, <1>4 DEF CapacityAlerts
<1>6. (IF r.ailing THEN A("critical", "health") ELSE <<>>) \in Seq(Alert)
  BY <1>2, <1>4
<1>7. (IF r.scrubErrors THEN A("critical", "scrub") ELSE <<>>) \in Seq(Alert)
  BY <1>2, <1>4
<1> QED
  BY <1>5, <1>6, <1>7 DEF CheckPool

\* An alert that is let through comes after the cooldown of every earlier one
\* of its key, and its key's entry becomes its time.
LEMMA DispatchStep ==
  ASSUME Inv, NEW e \in Evaluations, Dispatch(e)
  PROVE  Inv'
<1> DEFINE a == Head(queue[e])
           n == Len(log)
           x == [alert |-> a, at |-> clock, life |-> life]
<1>1. /\ a \in Alert /\ Key(a) \in Keys
      /\ Tail(queue[e]) \in Seq(Alert)
  <2>1. queue[e] \in Seq(Alert) /\ queue[e] # <<>>
    BY DEF Dispatch, Inv, TypeOK
  <2>2. a \in Alert /\ Tail(queue[e]) \in Seq(Alert)
    BY <2>1
  <2> QED
    BY <2>2, KeyType
<1>2. /\ ~Cooling(Key(a))
      /\ cooldown' = [cooldown EXCEPT ![Key(a)] = clock]
      /\ log' = Append(log, x)
      /\ queue' = [queue EXCEPT ![e] = Tail(queue[e])]
      /\ sending' = sending \cup Deliveries
      /\ clock' = clock /\ life' = life
  BY DEF Dispatch
<1>3. /\ clock \in Nat /\ life \in Nat /\ log \in Seq(Entry) /\ n \in Nat
      /\ cooldown \in [Keys -> Nat \cup {Never}]
      /\ queue \in [Evaluations -> Seq(Alert)]
      /\ sending \subseteq (1..n) \X Channels
  BY DEF Inv, TypeOK, Entry
<1>4. x \in Entry
  BY <1>1, <1>3 DEF Entry
<1> HIDE DEF a, x
<1>5. /\ log' \in Seq(Entry) /\ Len(log') = n + 1
      /\ \A i \in 1..n : log'[i] = log[i]
      /\ log'[n + 1] = x
  BY <1>2, <1>3, <1>4
<1>6. x.alert = a /\ x.at = clock /\ x.life = life
  BY DEF x
<1>7. ASSUME NEW i \in 1..n
      PROVE  /\ log[i].alert \in Alert /\ log[i].at \in Nat /\ log[i].life \in Nat
             /\ log[i].life <= life /\ Key(log[i].alert) \in Keys
  <2>1. log[i] \in Entry
    BY <1>3
  <2>2. log[i].alert \in Alert /\ log[i].at \in Nat /\ log[i].life \in Nat
    BY <2>1 DEF Entry
  <2>3. log[i].life <= life
    BY DEF Inv, LivesPast
  <2> QED
    BY <2>2, <2>3, KeyType
<1>8. /\ cooldown'[Key(a)] = clock
      /\ \A k \in Keys : k # Key(a) => cooldown'[k] = cooldown[k]
  BY <1>1, <1>2, <1>3
<1>9. TypeOK'
  <2>1. sending' \subseteq (1..(n + 1)) \X Channels
    BY <1>2, <1>3 DEF Deliveries
  <2>2. cooldown' \in [Keys -> Nat \cup {Never}] /\ queue' \in [Evaluations -> Seq(Alert)]
    BY <1>1, <1>2, <1>3
  <2> QED
    BY <1>2, <1>3, <1>5, <2>1, <2>2 DEF TypeOK, Entry
<1>10. CooldownPast'
  BY <1>2, <1>3, <1>8 DEF Inv, CooldownPast
<1>14. LivesPast'
  <2> SUFFICES ASSUME NEW i \in 1..(n + 1) PROVE log'[i].life <= life
    BY <1>2, <1>5 DEF LivesPast
  <2>1. CASE i = n + 1
    BY <1>3, <1>5, <1>6, <2>1
  <2>2. CASE i # n + 1
    <3>1. i \in 1..n /\ log'[i] = log[i]
      BY <1>3, <1>5, <2>2
    <3> QED
      BY <1>7, <3>1
  <2> QED
    BY <2>1, <2>2
<1>11. CooldownCovers'
  <2> SUFFICES ASSUME NEW i \in 1..(n + 1), log'[i].life = life
               PROVE  /\ cooldown'[Key(log'[i].alert)] # Never
                      /\ log'[i].at <= cooldown'[Key(log'[i].alert)]
    BY <1>2, <1>5 DEF CooldownCovers, Key
  <2>1. CASE i = n + 1
    BY <1>3, <1>5, <1>6, <1>8, <2>1 DEF Never
  <2>2. CASE i # n + 1
    <3>1. i \in 1..n /\ log'[i] = log[i]
      BY <1>3, <1>5, <2>2
    <3>2. /\ cooldown[Key(log[i].alert)] # Never
          /\ log[i].at <= cooldown[Key(log[i].alert)]
          /\ cooldown[Key(log[i].alert)] <= clock
      BY <1>7, <3>1 DEF Inv, CooldownCovers, CooldownPast
    <3>3. CASE Key(log[i].alert) = Key(a)
      <4>1. cooldown[Key(a)] \in Nat
        BY <1>1, <1>3, <3>2, <3>3
      <4> QED
        BY <1>3, <1>7, <1>8, <3>1, <3>2, <3>3, <4>1 DEF Never
    <3>4. CASE Key(log[i].alert) # Key(a)
      BY <1>7, <1>8, <3>1, <3>2, <3>4
    <3> QED
      BY <3>3, <3>4
  <2> QED
    BY <2>1, <2>2
<1>12. CooldownLogged'
  <2> SUFFICES ASSUME NEW k \in Keys, cooldown'[k] # Never
               PROVE  \E i \in 1..(n + 1) :
                        /\ Key(log'[i].alert) = k /\ log'[i].at = cooldown'[k]
                        /\ log'[i].life = life
    BY <1>2, <1>5 DEF CooldownLogged, Key
  <2>1. CASE k = Key(a)
    <3>1. n + 1 \in 1..(n + 1)
      BY <1>3
    <3> QED
      BY <1>5, <1>6, <1>8, <2>1, <3>1
  <2>2. CASE k # Key(a)
    <3>1. PICK i \in 1..n : /\ Key(log[i].alert) = k /\ log[i].at = cooldown[k]
                            /\ log[i].life = life
      BY <1>8, <2>2 DEF Inv, CooldownLogged
    <3>2. i \in 1..(n + 1)
      BY <1>3
    <3> QED
      BY <1>5, <1>8, <2>2, <3>1, <3>2
  <2> QED
    BY <2>1, <2>2
<1>13. CooldownRespected'
  <2> SUFFICES ASSUME NEW i \in 1..(n + 1), NEW j \in 1..(n + 1), i < j,
                      Key(log'[i].alert) = Key(log'[j].alert)
               PROVE  \/ log'[j].at - log'[i].at >= Cooldown
                      \/ log'[i].life < log'[j].life
    BY <1>5 DEF CooldownRespected, Key
  <2>1. i \in 1..n /\ log'[i] = log[i]
    BY <1>3, <1>5
  <2>4. CASE j = n + 1 /\ log[i].life # life
    BY <1>3, <1>5, <1>6, <1>7, <2>1, <2>4
  <2>2. CASE j = n + 1 /\ log[i].life = life
    <3>1. /\ cooldown[Key(a)] # Never
          /\ log[i].at <= cooldown[Key(a)]
      BY <1>5, <1>6, <2>1, <2>2 DEF Inv, CooldownCovers
    <3>2. ~(clock - cooldown[Key(a)] < Cooldown)
      BY <1>2, <3>1 DEF Cooling
    <3>3. cooldown[Key(a)] \in Nat /\ log[i].at \in Nat
      BY <1>1, <1>3, <1>7, <2>1, <3>1
    <3>4. log'[j].at = clock
      BY <1>5, <1>6, <2>2
    <3> QED
      BY <1>3, <2>1, <3>1, <3>2, <3>3, <3>4, CooldownNat
  <2>3. CASE j # n + 1
    <3>1. j \in 1..n
      <4>1. j \in 1..(n + 1) /\ j # n + 1 /\ n \in Nat
        BY <1>3, <2>3
      <4> HIDE DEF n
      <4> QED
        BY <4>1
    <3>2. log'[j] = log[j]
      BY <1>5, <3>1
    <3>3. Key(log[i].alert) = Key(log[j].alert)
      BY <2>1, <3>2
    <3>4. log[j].at - log[i].at >= Cooldown \/ log[i].life < log[j].life
      BY <2>1, <3>1, <3>3 DEF Inv, CooldownRespected
    <3> QED
      BY <2>1, <3>2, <3>4
  <2> QED
    BY <2>2, <2>3, <2>4
<1> QED
  BY <1>9, <1>10, <1>14, <1>11, <1>12, <1>13 DEF Inv

\* The invariant is inductive.
LEMMA StepInv ==
  ASSUME Inv, [Next]_vars
  PROVE  Inv'
<1>1. ASSUME NEW e \in Evaluations, CheckPools(e) PROVE Inv'
  <2>1. PICK h \in Hosts, p \in Pools, r \in Reading :
          queue' = [queue EXCEPT ![e] = CheckPool(h, p, r)]
    BY <1>1 DEF CheckPools
  <2>2. queue' \in [Evaluations -> Seq(Alert)]
    BY <2>1, CheckPoolType DEF Inv, TypeOK
  <2> QED
    BY <1>1, <2>2 DEF CheckPools, Inv, TypeOK, CooldownPast, LivesPast, CooldownCovers,
                      CooldownLogged, CooldownRespected
<1>2. ASSUME NEW e \in Evaluations, Muted(e) PROVE Inv'
  <2>1. queue[e] \in Seq(Alert) /\ queue[e] # <<>>
    BY <1>2 DEF Muted, Inv, TypeOK
  <2>2. Tail(queue[e]) \in Seq(Alert)
    BY <2>1
  <2>3. queue' \in [Evaluations -> Seq(Alert)]
    BY <1>2, <2>2 DEF Muted, Inv, TypeOK
  <2> QED
    BY <1>2, <2>3 DEF Muted, Inv, TypeOK, CooldownPast, LivesPast, CooldownCovers,
                      CooldownLogged, CooldownRespected
<1>3. ASSUME NEW e \in Evaluations, Dispatch(e) PROVE Inv'
  BY <1>3, DispatchStep
<1>4. CASE Deliver
  BY <1>4 DEF Deliver, Inv, TypeOK, CooldownPast, LivesPast, CooldownCovers,
              CooldownLogged, CooldownRespected
<1>5. CASE Tick
  <2>1. CooldownPast'
    <3> SUFFICES ASSUME NEW k \in Keys PROVE cooldown[k] <= clock + 1
      BY <1>5 DEF Tick, CooldownPast
    <3>1. cooldown[k] <= clock /\ cooldown[k] \in Nat \cup {Never} /\ clock \in Nat
      BY DEF Inv, TypeOK, CooldownPast
    <3> QED
      BY <3>1 DEF Never
  <2> QED
    BY <1>5, <2>1 DEF Tick, Inv, TypeOK, LivesPast, CooldownCovers,
                      CooldownLogged, CooldownRespected
<1>6. CASE Restart
  <2>1. /\ clock' = clock /\ log' = log /\ life' = Len(log) /\ life < Len(log)
        /\ cooldown' = [k \in Keys |-> Never]
        /\ queue' = [e \in Evaluations |-> <<>>]
        /\ sending' = {}
    BY <1>6 DEF Restart
  <2>2. log \in Seq(Entry) /\ Len(log) \in Nat /\ life \in Nat /\ clock \in Nat
    BY DEF Inv, TypeOK, Entry
  <2>3. TypeOK'
    <3>1. <<>> \in Seq(Alert)
      OBVIOUS
    <3> QED
      BY <2>1, <2>2, <3>1 DEF TypeOK, Entry
  <2>4. CooldownPast' /\ CooldownLogged'
    BY <2>1, <2>2 DEF CooldownPast, CooldownLogged, Never
  <2>5. ASSUME NEW i \in 1..Len(log) PROVE log[i].life < Len(log) /\ log[i].life \in Nat
    <3>1. log[i] \in Entry /\ log[i].life <= life
      BY <2>2 DEF Inv, LivesPast
    <3> QED
      BY <2>1, <2>2, <3>1 DEF Entry
  <2>6. LivesPast' /\ CooldownCovers'
    BY <2>1, <2>2, <2>5 DEF LivesPast, CooldownCovers
  <2>7. CooldownRespected'
    BY <2>1 DEF Inv, CooldownRespected
  <2> QED
    BY <2>3, <2>4, <2>6, <2>7 DEF Inv
<1>7. CASE UNCHANGED vars
  BY <1>7 DEF vars, Inv, TypeOK, CooldownPast, LivesPast, CooldownCovers,
              CooldownLogged, CooldownRespected
<1> QED
  BY <1>1, <1>2, <1>3, <1>4, <1>5, <1>6, <1>7 DEF Next

\* The invariant holds in every state of every run.
LEMMA Invariance == Spec => []Inv
<1>1. Init => Inv
  <2> SUFFICES ASSUME Init PROVE Inv
    OBVIOUS
  <2>1. log \in Seq(Entry) /\ 1..Len(log) = {} /\ <<>> \in Seq(Alert)
    BY DEF Init
  <2>2. TypeOK
    BY <2>1 DEF Init, TypeOK, Entry
  <2>3. CooldownPast
    BY DEF Init, CooldownPast, Never
  <2> QED
    BY <2>1, <2>2, <2>3
    DEF Init, Inv, LivesPast, CooldownCovers, CooldownLogged, CooldownRespected
<1>2. Inv /\ [Next]_vars => Inv'
  BY StepInv
<1> QED
  BY <1>1, <1>2, PTL DEF Spec

\* What is queued are alerts, and every delivery under way is of an alert of the
\* log, whatever the evaluations do at the same time and over restarts.
THEOREM AlertsTypeCorrect == Spec => []TypeOK
<1>1. Inv => TypeOK
  BY DEF Inv
<1> QED
  BY <1>1, Invariance, PTL

\* Whatever the evaluations do at the same time, two alerts of a host, a pool
\* and a level come closer than the cooldown only over a restart.
THEOREM AlertsKeepTheirDistance == Spec => []CooldownRespected
<1>1. Inv => CooldownRespected
  BY DEF Inv
<1> QED
  BY <1>1, Invariance, PTL

\* An alert is dropped only within the cooldown of an alert of its host, pool
\* and level that the running process let through.
THEOREM MutingHasAReason == Spec => MutedOnlyAfterAlert
<1> DEFINE Justified ==
      \A e \in Evaluations :
        queue[e] # <<>> /\ queue'[e] = Tail(queue[e]) /\ log' = log /\ life' = life
          => \E i \in 1..Len(log) :
               /\ log[i].alert.host = Head(queue[e]).host
               /\ log[i].alert.pool = Head(queue[e]).pool
               /\ log[i].alert.level = Head(queue[e]).level
               /\ log[i].life = life
               /\ clock - log[i].at < Cooldown
<1>1. Inv /\ [Next]_vars => [Justified]_queue
  <2> SUFFICES ASSUME Inv, [Next]_vars, queue' # queue,
                      NEW e \in Evaluations, queue[e] # <<>>,
                      queue'[e] = Tail(queue[e]), log' = log, life' = life
               PROVE  \E i \in 1..Len(log) :
                        /\ log[i].alert.host = Head(queue[e]).host
                        /\ log[i].alert.pool = Head(queue[e]).pool
                        /\ log[i].alert.level = Head(queue[e]).level
                        /\ log[i].life = life
                        /\ clock - log[i].at < Cooldown
    OBVIOUS
  <2>1. queue[e] \in Seq(Alert) /\ log \in Seq(Entry)
    BY DEF Inv, TypeOK, Entry
  <2>2. queue'[e] # queue[e]
    <3>1. Len(Tail(queue[e])) # Len(queue[e])
      BY <2>1
    <3> QED
      BY <3>1
  <2>3. Head(queue[e]) \in Alert
    BY <2>1
  <2>4. CASE Muted(e)
    <3>1. PICK i \in 1..Len(log) :
            /\ Key(log[i].alert) = Key(Head(queue[e])) /\ log[i].life = life
            /\ log[i].at = cooldown[Key(Head(queue[e]))]
      BY <2>3, <2>4, KeyType DEF Muted, Cooling, Inv, CooldownLogged
    <3> QED
      BY <2>4, <3>1 DEF Muted, Cooling, Key
  <2>5. ASSUME NEW f \in Evaluations, f # e, CheckPools(f) \/ Muted(f) PROVE FALSE
    BY <2>2, <2>5 DEF CheckPools, Muted, Inv, TypeOK
  <2>6. ASSUME NEW f \in Evaluations, Dispatch(f) PROVE FALSE
    BY <2>1, <2>6 DEF Dispatch
  <2>7. ~CheckPools(e)
    BY DEF CheckPools
  <2>8. ~(Deliver \/ Tick \/ UNCHANGED vars)
    BY DEF Deliver, Tick, vars
  <2>9. ~Restart
    <3>1. life \in Nat /\ Len(log) \in Nat
      BY <2>1 DEF Inv, TypeOK
    <3> QED
      BY <3>1 DEF Restart
  <2> QED
    BY <2>4, <2>5, <2>6, <2>7, <2>8, <2>9 DEF Next
<1>2. []Inv /\ [][Next]_vars => [][Justified]_queue
  BY <1>1, PTL
<1> QED
  BY <1>2, Invariance DEF Spec, MutedOnlyAfterAlert
=============================================================================
