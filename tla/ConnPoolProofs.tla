--------------------------- MODULE ConnPoolProofs ----------------------------
(***************************************************************************)
(* Theorems about ConnPool, for every finite set of goroutines, every      *)
(* limit and every number of rows.                                         *)
(***************************************************************************)
EXTENDS ConnPool, FiniteSetTheorems, TLAPS

\* The goroutines whose statement runs and those that hold an open result.
Executing == {g \in Goroutines : pc[g] \in {"stmt0", "stmt", "stmt2"}}
Open == {g \in Goroutines : rows[g]}

\* A result is open only while its program iterates over it.
OpenWhileIterating ==
  \A g \in Goroutines : rows[g] => pc[g] \in {"rows", "acquire2", "stmt2"}

Inv ==
  /\ limit \in Nat
  /\ pc \in [Goroutines -> Places]
  /\ rows \in [Goroutines -> BOOLEAN]
  /\ OpenWhileIterating
  /\ InUse <= limit

\* A step that lends nothing to anybody keeps within the limit.
LEMMA NothingLent ==
  ASSUME Inv, UNCHANGED limit,
         Executing' \subseteq Executing, Open' \subseteq Open
  PROVE  InUse' <= limit'
<1>1. IsFiniteSet(Executing) /\ IsFiniteSet(Open)
  BY FS_Subset, ConnPoolAssumption DEF Executing, Open
<1>2. /\ Cardinality(Executing') <= Cardinality(Executing)
      /\ Cardinality(Open') <= Cardinality(Open)
  BY <1>1, FS_Subset
<1>3. /\ Cardinality(Executing) \in Nat /\ Cardinality(Executing') \in Nat
      /\ Cardinality(Open) \in Nat /\ Cardinality(Open') \in Nat
  BY <1>1, FS_Subset, FS_CardinalityType
<1>4. Cardinality(Executing) + Cardinality(Open) <= limit
  BY DEF Inv, InUse, Executing, Open
<1>5. Cardinality(Executing') + Cardinality(Open') <= limit'
  BY <1>2, <1>3, <1>4 DEF Inv
<1> QED
  BY <1>5 DEF InUse, Executing, Open

\* A step that lends one connection when one is free keeps within the limit.
LEMMA OneLent ==
  ASSUME Inv, UNCHANGED limit, FreeConn,
         NEW g \in Goroutines,
         \/ Executing' \subseteq Executing \cup {g} /\ Open' \subseteq Open
         \/ Executing' \subseteq Executing /\ Open' \subseteq Open \cup {g}
  PROVE  InUse' <= limit'
<1>1. /\ IsFiniteSet(Executing) /\ IsFiniteSet(Open)
      /\ IsFiniteSet(Executing \cup {g}) /\ IsFiniteSet(Open \cup {g})
  BY FS_Subset, FS_AddElement, ConnPoolAssumption DEF Executing, Open
<1>2. /\ Cardinality(Executing) \in Nat /\ Cardinality(Open) \in Nat
  BY <1>1, FS_CardinalityType
<1>3. Cardinality(Executing \cup {g}) <= Cardinality(Executing) + 1
  BY <1>1, <1>2, FS_AddElement
<1>4. Cardinality(Open \cup {g}) <= Cardinality(Open) + 1
  BY <1>1, <1>2, FS_AddElement
<1>5. /\ IsFiniteSet(Executing') /\ IsFiniteSet(Open')
      /\ \/ /\ Cardinality(Executing') <= Cardinality(Executing \cup {g})
            /\ Cardinality(Open') <= Cardinality(Open)
         \/ /\ Cardinality(Executing') <= Cardinality(Executing)
            /\ Cardinality(Open') <= Cardinality(Open \cup {g})
  <2>1. CASE Executing' \subseteq Executing \cup {g} /\ Open' \subseteq Open
    <3>1. IsFiniteSet(Executing')
          /\ Cardinality(Executing') <= Cardinality(Executing \cup {g})
      BY <1>1, <2>1, FS_Subset
    <3>2. IsFiniteSet(Open') /\ Cardinality(Open') <= Cardinality(Open)
      BY <1>1, <2>1, FS_Subset
    <3> QED
      BY <3>1, <3>2
  <2>2. CASE Executing' \subseteq Executing /\ Open' \subseteq Open \cup {g}
    <3>1. IsFiniteSet(Executing') /\ Cardinality(Executing') <= Cardinality(Executing)
      BY <1>1, <2>2, FS_Subset
    <3>2. IsFiniteSet(Open') /\ Cardinality(Open') <= Cardinality(Open \cup {g})
      BY <1>1, <2>2, FS_Subset
    <3> QED
      BY <3>1, <3>2
  <2> QED
    BY <2>1, <2>2
<1>6. /\ Cardinality(Executing \cup {g}) \in Nat
      /\ Cardinality(Open \cup {g}) \in Nat
      /\ Cardinality(Executing') \in Nat /\ Cardinality(Open') \in Nat
  BY <1>1, <1>5, FS_CardinalityType
<1>7. Cardinality(Executing) + Cardinality(Open) < limit
  BY DEF FreeConn, InUse, Executing, Open
<1>8. Cardinality(Executing') + Cardinality(Open') <= limit'
  BY <1>2, <1>3, <1>4, <1>5, <1>6, <1>7 DEF Inv
<1> QED
  BY <1>8 DEF InUse, Executing, Open

\* Every step preserves the invariant: by what it lends.
LEMMA PoolStep ==
  ASSUME Inv, [Next]_<<vars, limit>>
  PROVE  Inv'
<1> USE DEF Inv, OpenWhileIterating, Places
<1>1. CASE UNCHANGED <<vars, limit>>
  BY <1>1 DEF vars, InUse
<1>2. ASSUME NEW g \in Goroutines, UNCHANGED limit,
             NEW k \in Programs, Start(g, k)
      PROVE  Inv'
  <2>1. Executing' \subseteq Executing /\ Open' \subseteq Open
    BY <1>2 DEF Start, Goto, Executing, Open
  <2> QED
    BY <1>2, <2>1, NothingLent DEF Start, Goto
<1>3. ASSUME NEW g \in Goroutines, UNCHANGED limit,
             EndSchema(g) \/ EndStatement(g) \/ NextRow(g) \/ Return(g) \/ EndInner(g)
      PROVE  Inv'
  <2>1. Executing' \subseteq Executing /\ Open' \subseteq Open
    BY <1>3 DEF EndSchema, EndStatement, NextRow, Return, EndInner, Goto,
                Executing, Open
  <2> QED
    BY <1>3, <2>1, NothingLent
       DEF EndSchema, EndStatement, NextRow, Return, EndInner, Goto
<1>4. ASSUME NEW g \in Goroutines, UNCHANGED limit,
             Refused(g) \/ AwaitDone(g) \/ Cancel(g)
      PROVE  Inv'
  <2>1. Executing' \subseteq Executing /\ Open' \subseteq Open
    BY <1>4 DEF Refused, AwaitDone, Cancel, Goto, Executing, Open
  <2> QED
    BY <1>4, <2>1, NothingLent DEF Refused, AwaitDone, Cancel, Goto
<1>5. ASSUME NEW g \in Goroutines, UNCHANGED limit,
             AcquireSchema(g) \/ Acquire(g) \/ AcquireInner(g)
      PROVE  Inv'
  <2>1. \/ Executing' \subseteq Executing \cup {g} /\ Open' \subseteq Open
        \/ Executing' \subseteq Executing /\ Open' \subseteq Open \cup {g}
    BY <1>5 DEF AcquireSchema, Acquire, AcquireInner, Goto, Executing, Open
  <2>2. FreeConn
    BY <1>5 DEF AcquireSchema, Acquire, AcquireInner
  <2> QED
    BY <1>5, <2>1, <2>2, OneLent DEF AcquireSchema, Acquire, AcquireInner, Goto
<1> QED
  BY <1>1, <1>2, <1>3, <1>4, <1>5 DEF Next, Run

\* The invariant holds in every state of every run.
LEMMA PoolAlways == Spec => []Inv
<1>1. Init => Inv
  <2> SUFFICES ASSUME Init
               PROVE  Inv
    OBVIOUS
  <2>1. Executing = {} /\ Open = {}
    BY DEF Init, Executing, Open
  <2>2. InUse = 0
    BY <2>1, FS_EmptySet DEF InUse, Executing, Open
  <2> QED
    BY <2>2, ConnPoolAssumption DEF Init, Inv, OpenWhileIterating, Places
<1>2. Inv /\ [Next]_<<vars, limit>> => Inv'
  BY PoolStep
<1> QED
  BY <1>1, <1>2, PTL DEF Spec

\* With a limit of one or of any other number, nested statements and open results
\* included: the connections in use stay within the limit, and no path out of a
\* program leaves a result open (db.go:22, vdev/health.go:129-148).
THEOREM PoolIsAccounted == Spec => []ConnectionsAccounted
<1>1. Inv => ConnectionsAccounted
  BY DEF Inv, OpenWhileIterating, ConnectionsAccounted
<1> QED
  BY <1>1, PoolAlways, PTL
-----------------------------------------------------------------------------
\* A flat program that acquires a connection has a statement left to execute;
\* only flat programs give a connection back after every statement.
StatementsLeft ==
  \A g \in Goroutines :
    /\ pc[g] = "stmt" => prog[g] \notin Nested
    /\ pc[g] \in {"acquire0", "stmt0"} => prog[g] \in WithCtx
    /\ pc[g] \in {"acquire", "stmt"} /\ prog[g] \notin Nested => left[g] > 0

\* The most statements or rows a program counts.
Most == IF MaxRows > 3 THEN MaxRows ELSE 3

LEMMA MostIs == Most \in Nat /\ MaxRows \in Nat /\ MaxRows <= Most /\ 3 <= Most
BY ConnPoolAssumption DEF Most

Counting ==
  /\ prog \in [Goroutines -> Programs] /\ pc \in [Goroutines -> Places]
  /\ left \in [Goroutines -> 0..Most]
  /\ StatementsLeft

\* The counter of statements does not run below zero.
LEMMA CounterStep ==
  ASSUME Counting, [Next]_<<vars, limit>>
  PROVE  Counting'
<1> USE MostIs DEF Counting, StatementsLeft, Places
<1>1. CASE UNCHANGED <<vars, limit>>
  BY <1>1 DEF vars
<1>2. ASSUME NEW g \in Goroutines, NEW k \in Programs, Start(g, k) PROVE Counting'
  <2>1. k \in {"me", "collect", "analyze", "detect"}
    BY ConnPoolAssumption
  <2>2. PICK n \in CASE k = "me" -> {3} [] OTHER -> 0..MaxRows :
          left' = [left EXCEPT ![g] = n]
    BY <1>2 DEF Start
  <2>3. n \in 0..Most /\ (k \notin Nested \cup WithCtx => n > 0)
    BY <2>1, <2>2 DEF Nested, WithCtx
  <2>4. /\ prog' = [prog EXCEPT ![g] = k]
        /\ \/ k \in WithCtx /\ pc' = [pc EXCEPT ![g] = "acquire0"]
           \/ k \notin WithCtx /\ pc' = [pc EXCEPT ![g] = "acquire"]
    BY <1>2 DEF Start, Goto
  <2> QED
    BY <2>2, <2>3, <2>4
<1>3. ASSUME NEW g \in Goroutines, EndSchema(g) \/ EndInner(g) \/ AwaitDone(g) \/ Cancel(g)
      PROVE  Counting'
  <2>1. CASE EndSchema(g)
    BY <2>1 DEF EndSchema, Goto, WithCtx, Nested
  <2> QED
    BY <1>3, <2>1 DEF EndInner, AwaitDone, Cancel, Goto
<1>4. ASSUME NEW g \in Goroutines, EndStatement(g) PROVE Counting'
  <2>1. /\ left[g] - 1 \in 0..Most /\ prog[g] \notin Nested
        /\ left[g] # 1 => left[g] - 1 > 0
    BY <1>4 DEF EndStatement
  <2> QED
    BY <1>4, <2>1 DEF EndStatement, Goto
<1>5. ASSUME NEW g \in Goroutines, NextRow(g) \/ Return(g) PROVE Counting'
  BY <1>5 DEF NextRow, Return, Goto
<1>6. ASSUME NEW g \in Goroutines, Refused(g) PROVE Counting'
  <2>1. CASE pc[g] = "acquire" /\ prog[g] = "collect"
    <3>1. left[g] - 1 \in 0..Most /\ (left[g] # 1 => left[g] - 1 > 0)
      BY <2>1 DEF Nested
    <3> QED
      BY <1>6, <2>1, <3>1 DEF Refused, Goto, Nested
  <2>2. CASE pc[g] = "acquire" /\ prog[g] = "analyze"
    BY <1>6, <2>2 DEF Refused, Goto, Nested
  <2>3. CASE pc[g] = "acquire2"
    BY <1>6, <2>3 DEF Refused, Goto
  <2> QED
    BY <1>6, <2>1, <2>2, <2>3 DEF Refused
<1>7. ASSUME NEW g \in Goroutines, AcquireSchema(g) \/ Acquire(g) \/ AcquireInner(g)
      PROVE  Counting'
  BY <1>7 DEF AcquireSchema, Acquire, AcquireInner, Goto, Nested
<1> QED
  BY <1>1, <1>2, <1>3, <1>4, <1>5, <1>6, <1>7 DEF Next, Run

\* Nor do the other fields leave their ranges.
LEMMA FlagsStep ==
  ASSUME limit \in Limits, cancelled \in [Goroutines -> BOOLEAN], [Next]_<<vars, limit>>
  PROVE  limit' \in Limits /\ cancelled' \in [Goroutines -> BOOLEAN]
BY DEF Next, Run, Start, AcquireSchema, Acquire, AcquireInner, EndSchema, EndStatement,
       NextRow, Return, EndInner, Refused, AwaitDone, Cancel, vars

\* Whatever programs run and whichever of their contexts are cancelled: no
\* goroutine counts a statement or a row it does not have.
THEOREM PoolTypeCorrect == Spec => []TypeOK
<1>1. Init => Counting /\ limit \in Limits /\ cancelled \in [Goroutines -> BOOLEAN]
  BY MostIs DEF Init, Counting, StatementsLeft, Places
<1>2. Counting /\ [Next]_<<vars, limit>> => Counting'
  BY CounterStep
<1>3. limit \in Limits /\ cancelled \in [Goroutines -> BOOLEAN] /\ [Next]_<<vars, limit>>
        => (limit \in Limits /\ cancelled \in [Goroutines -> BOOLEAN])'
  BY FlagsStep
<1>4. Counting /\ Inv /\ limit \in Limits /\ cancelled \in [Goroutines -> BOOLEAN] => TypeOK
  BY DEF Counting, Inv, TypeOK, Most
<1> QED
  BY <1>1, <1>2, <1>3, <1>4, PoolAlways, PTL DEF Spec
=============================================================================
