------------------------------- MODULE ConnPool -------------------------------
(***************************************************************************)
(* The database/sql pool that every part of the server shares.  db.New     *)
(* opens it with SetMaxOpenConns(1) (db.go:22), so a goroutine that keeps a *)
(* result set open keeps the only connection, and everybody else waits in  *)
(* database/sql until it is put back.                                      *)
(*                                                                         *)
(* A goroutine runs one of the programs of the code that use the pool:     *)
(*                                                                         *)
(*   "me"       ValidateSession: three statements, one after the other,    *)
(*              each giving the connection back, with no context           *)
(*   "collect"  HealthCollector.CollectAll: one INSERT per vdev, under the *)
(*              context of the request                                     *)
(*   "analyze"  HealthCollector.AnalyzeAll: a query whose rows stay open   *)
(*              while Analyze runs a second query for every row, both      *)
(*              under the context of the request                           *)
(*   "detect"   DetectAndStoreAlerts: a query whose rows stay open until   *)
(*              it returns, with an INSERT per alert, with no context      *)
(*                                                                         *)
(* database/sql itself is external.  It hands a connection that is put     *)
(* back to a waiter picked at random from its map of requests; it closes   *)
(* the rows of a query whose context is cancelled; it refuses a statement  *)
(* whose context is already cancelled.                                     *)
(***************************************************************************)
EXTENDS Naturals, FiniteSets

CONSTANTS
  Goroutines,
  Limits,         \* the values of SetMaxOpenConns: db.go:22 passes 1
  Programs,       \* the programs goroutines may run
  MaxRows         \* bound on vdevs per collection, rows per result, alerts

ASSUME ConnPoolAssumption ==
  /\ IsFiniteSet(Goroutines)
  /\ Limits \subseteq Nat \ {0}
  /\ MaxRows \in Nat
  /\ Programs \subseteq {"me", "collect", "analyze", "detect"}

VARIABLES
  limit,      \* the limit of this pool, which db.New sets once
  prog,       \* prog[g]: the program g runs
  pc,         \* pc[g]: where g is, see Places
  left,       \* left[g]: statements, or rows of the open result, still to come
  rows,       \* rows[g]: does g keep a result set, and its connection, open?
  cancelled   \* cancelled[g]: has the client of g gone away?

vars == <<prog, pc, left, rows, cancelled>>

\* "acquire0" and "stmt0": waiting and executing the CREATE TABLE statements of
\* NewHealthCollector, which run without a context in every request;
\* "acquire" and "stmt": waiting for a connection and executing one statement;
\* "rows": between two rows of an open result; "acquire2" and "stmt2": waiting
\* and executing for a row while the result stays open.
Places == {"idle", "acquire0", "stmt0", "acquire", "stmt", "rows", "acquire2", "stmt2"}

Nested  == {"analyze", "detect"}

\* Mutant: the handler calls AnalyzeAll with context.Background().
WithCtxCollectOnly == {"collect"}
WithCtx == {"collect", "analyze"}

InUse == Cardinality({g \in Goroutines : pc[g] \in {"stmt0", "stmt", "stmt2"}})
           + Cardinality({g \in Goroutines : rows[g]})

FreeConn == InUse < limit

\* A statement under a cancelled context is refused.
CtxOk(g) == ~(prog[g] \in WithCtx /\ cancelled[g])

Goto(g, p) == pc' = [pc EXCEPT ![g] = p]
----------------------------------------------------------------------------
Start(g, k) ==
  /\ pc[g] = "idle"
  /\ prog' = [prog EXCEPT ![g] = k]
  /\ Goto(g, IF k \in WithCtx THEN "acquire0" ELSE "acquire")
  /\ \E n \in (CASE k = "me" -> {3}
                 [] OTHER -> 0..MaxRows) :
       left' = [left EXCEPT ![g] = n]
  /\ cancelled' = [cancelled EXCEPT ![g] = FALSE]
  /\ UNCHANGED rows

AcquireSchema(g) ==
  /\ pc[g] = "acquire0"
  /\ FreeConn
  /\ Goto(g, "stmt0")
  /\ UNCHANGED <<prog, left, rows, cancelled>>

\* A collection that finds no vdev, or no zpool that answers, is over.
EndSchema(g) ==
  /\ pc[g] = "stmt0"
  /\ Goto(g, IF prog[g] = "collect" /\ left[g] = 0 THEN "idle" ELSE "acquire")
  /\ UNCHANGED <<prog, left, rows, cancelled>>

\* The first statement of the program, or the next one of a flat program.
Acquire(g) ==
  /\ pc[g] = "acquire"
  /\ CtxOk(g)
  /\ FreeConn
  /\ IF prog[g] \in Nested
     THEN /\ Goto(g, "rows")
          /\ rows' = [rows EXCEPT ![g] = TRUE]
     ELSE /\ Goto(g, "stmt")
          /\ UNCHANGED rows
  /\ UNCHANGED <<prog, left, cancelled>>

\* Mutant: one statement too many.
EndStatementOnceMore(g) ==
  /\ pc[g] = "stmt"
  /\ left' = [left EXCEPT ![g] = @ - 1]
  /\ Goto(g, IF left[g] = 0 THEN "idle" ELSE "acquire")
  /\ UNCHANGED <<prog, rows, cancelled>>
\* A statement of a flat program ends and its connection goes back.
EndStatement(g) ==
  /\ pc[g] = "stmt"
  /\ left' = [left EXCEPT ![g] = @ - 1]
  /\ Goto(g, IF left[g] = 1 THEN "idle" ELSE "acquire")
  /\ UNCHANGED <<prog, rows, cancelled>>

\* rows.Next finds a row (AnalyzeAll), or an alert is due (DetectAndStoreAlerts).
NextRow(g) ==
  /\ pc[g] = "rows"
  /\ rows[g]
  /\ left[g] > 0
  /\ left' = [left EXCEPT ![g] = @ - 1]
  /\ Goto(g, "acquire2")
  /\ UNCHANGED <<prog, rows, cancelled>>

\* Mutant: return without the deferred rows.Close.
ReturnUnclosed(g) ==
  /\ pc[g] = "rows"
  /\ left[g] = 0 \/ ~rows[g]
  /\ left' = [left EXCEPT ![g] = 0]
  /\ Goto(g, "idle")
  /\ UNCHANGED <<prog, rows, cancelled>>
\* No row is left, or the rows were closed under the loop; the deferred
\* rows.Close gives the connection back if it is still held.
Return(g) ==
  /\ pc[g] = "rows"
  /\ left[g] = 0 \/ ~rows[g]
  /\ rows' = [rows EXCEPT ![g] = FALSE]
  /\ left' = [left EXCEPT ![g] = 0]
  /\ Goto(g, "idle")
  /\ UNCHANGED <<prog, cancelled>>

AcquireInner(g) ==
  /\ pc[g] = "acquire2"
  /\ CtxOk(g)
  /\ FreeConn
  /\ Goto(g, "stmt2")
  /\ UNCHANGED <<prog, left, rows, cancelled>>

EndInner(g) ==
  /\ pc[g] = "stmt2"
  /\ Goto(g, "rows")
  /\ UNCHANGED <<prog, left, rows, cancelled>>
----------------------------------------------------------------------------
\* The client disconnects, or its handler is done waiting for it.
Cancel(g) ==
  /\ pc[g] # "idle"
  /\ ~cancelled[g]
  /\ prog[g] \in WithCtx
  /\ cancelled' = [cancelled EXCEPT ![g] = TRUE]
  /\ UNCHANGED <<prog, pc, left, rows>>

\* A statement whose context is cancelled fails: CollectAll only logs the
\* error and goes on with the next vdev, AnalyzeAll gives up on its query but
\* skips the row when the inner one fails.
Refused(g) ==
  /\ ~CtxOk(g)
  /\ \/ /\ pc[g] = "acquire" /\ prog[g] = "collect"
        /\ left' = [left EXCEPT ![g] = @ - 1]
        /\ Goto(g, IF left[g] = 1 THEN "idle" ELSE "acquire")
     \/ /\ pc[g] = "acquire" /\ prog[g] = "analyze"
        /\ left' = [left EXCEPT ![g] = 0]
        /\ Goto(g, "idle")
     \/ /\ pc[g] = "acquire2"
        /\ Goto(g, "rows")
        /\ UNCHANGED left
  /\ UNCHANGED <<prog, rows, cancelled>>

\* database/sql closes the rows of a cancelled query behind the back of the
\* goroutine that iterates over them.
AwaitDone(g) ==
  /\ ~CtxOk(g)
  /\ rows[g]
  /\ rows' = [rows EXCEPT ![g] = FALSE]
  /\ UNCHANGED <<prog, pc, left, cancelled>>
----------------------------------------------------------------------------
Init ==
  /\ limit \in Limits
  /\ prog \in [Goroutines -> Programs]
  /\ pc = [g \in Goroutines |-> "idle"]
  /\ left = [g \in Goroutines |-> 0]
  /\ rows = [g \in Goroutines |-> FALSE]
  /\ cancelled = [g \in Goroutines |-> FALSE]

\* The steps the server takes by itself once a goroutine runs.
Run(g) ==
  \/ EndSchema(g) \/ EndStatement(g) \/ NextRow(g) \/ Return(g) \/ EndInner(g)
  \/ Refused(g) \/ AwaitDone(g)

Next ==
  /\ UNCHANGED limit
  /\ \E g \in Goroutines :
       \/ \E k \in Programs : Start(g, k)
       \/ AcquireSchema(g) \/ Acquire(g) \/ AcquireInner(g) \/ Run(g) \/ Cancel(g)

Spec == Init /\ [][Next]_<<vars, limit>>

\* Goroutines run when they can; a waiter is picked at random whenever a
\* connection is put back, so one that can be picked again and again is.
Fairness ==
  \A g \in Goroutines :
    /\ WF_vars(Run(g))
    /\ SF_vars(AcquireSchema(g))
    /\ SF_vars(Acquire(g))
    /\ SF_vars(AcquireInner(g))

\* Nothing makes a client disconnect, ...
FairSpec == Spec /\ Fairness

\* ... but a browser tab is closed at last.
ImpatientSpec == FairSpec /\ \A g \in Goroutines : WF_vars(Cancel(g))
----------------------------------------------------------------------------
TypeOK ==
  /\ limit \in Limits
  /\ prog \in [Goroutines -> Programs]
  /\ pc \in [Goroutines -> Places]
  /\ left \in [Goroutines -> 0..(IF MaxRows > 3 THEN MaxRows ELSE 3)]
  /\ rows \in [Goroutines -> BOOLEAN]
  /\ cancelled \in [Goroutines -> BOOLEAN]

\* The connection is neither lent twice nor kept: never are more in use than
\* db.New allows, nested statements and result sets that stay open included
\* (db.go:22, vdev/health.go:129-148), and no path out of a program, early return
\* and cancellation included, leaves a result open (the deferred rows.Close of
\* snapshots.go:130, vdev/health.go:115 and 136).
ConnectionsAccounted ==
  /\ InUse <= limit
  /\ \A g \in Goroutines : pc[g] = "idle" => ~rows[g]

\* Every program that was started returns.
EveryProgramReturns ==
  \A g \in Goroutines : pc[g] # "idle" ~> pc[g] = "idle"

\* handler.go:254: handleMe "returns current user or {"user": null}. ALWAYS
\* returns HTTP 200."
MeAlwaysReturns ==
  \A g \in Goroutines : pc[g] = "acquire" /\ prog[g] = "me" ~> pc[g] = "idle"
=============================================================================
