-------------------------------- MODULE Agent --------------------------------
(***************************************************************************)
(* The agent of a remote host, internal/agent/agent.go: it registers with  *)
(* the server unless its table has a registration, and then reports under  *)
(* the id of this registration.  The answer of the server and the INSERT   *)
(* are two steps; the process may die in between, statements may fail.     *)
(***************************************************************************)
EXTENDS Naturals, Sequences

CONSTANT MaxIds   \* bound on the registrations the server grants

AgentAssumption == MaxIds \in Nat \ {0}

VARIABLES
  agent,    \* where Run is
  reg,      \* Agent.reg.AgentID, 0 when it is empty
  table,    \* the ids of agent_registration, in the order of their insertion
  granted,  \* the server: how many ids it gave out
  failed    \* history: did a statement of this process fail?

agentVars == <<agent, reg, table, granted, failed>>

\* The error of CREATE TABLE, too, is dropped.
Start ==
  /\ agent = "down"
  /\ agent' = "select" /\ reg' = 0 /\ failed' \in BOOLEAN
  /\ UNCHANGED <<table, granted>>

\* Mutant: the table is asked for its newest row.
FirstRowNewest == table[Len(table)]
FirstRow == table[1]

\* SELECT ... LIMIT 1.  An error is taken for an empty table.
Select ==
  /\ agent = "select"
  /\ \/ table # <<>> /\ agent' = "run" /\ reg' = FirstRow /\ UNCHANGED failed
     \/ table = <<>> /\ agent' = "register" /\ UNCHANGED <<reg, failed>>
     \/ agent' = "register" /\ failed' = TRUE /\ UNCHANGED reg
  /\ UNCHANGED <<table, granted>>

\* The status of the answer is not looked at: an error in JSON decodes into an
\* empty registration.  Without an answer, or without JSON, Run returns.
Register ==
  /\ agent = "register"
  /\ \/ /\ granted < MaxIds
        /\ granted' = granted + 1
        /\ \/ agent' = "insert" /\ reg' = granted + 1
           \/ agent' = "down" /\ UNCHANGED reg
     \/ agent' \in {"insert", "down"} /\ UNCHANGED <<reg, granted>>
  /\ UNCHANGED <<table, failed>>

\* The error of the INSERT is dropped.
Insert ==
  /\ agent = "insert"
  /\ agent' = "run"
  /\ \/ Len(table) < MaxIds /\ table' = Append(table, reg) /\ UNCHANGED failed
     \/ failed' = TRUE /\ UNCHANGED table
  /\ UNCHANGED <<reg, granted>>

\* The loop of Run only reads what is modelled; it ends with its context.
Stop ==
  /\ agent # "down"
  /\ agent' = "down"
  /\ UNCHANGED <<reg, table, granted, failed>>

Init ==
  agent = "down" /\ reg = 0 /\ table = <<>> /\ granted = 0 /\ failed = FALSE

Next == Start \/ Select \/ Register \/ Insert \/ Stop
----------------------------------------------------------------------------
Typed ==
  /\ agent \in {"down", "select", "register", "insert", "run"}
  /\ granted \in 0..MaxIds /\ reg \in 0..granted
  /\ table \in Seq(0..granted) /\ Len(table) <= MaxIds
  /\ failed \in BOOLEAN

\* An agent that reports does so under the first registration it ever stored,
\* over restarts and crashes, unless a statement of this process failed
\* (agent.go:46-60).
ReportsAsRegistered ==
  agent = "run" /\ ~failed => table # <<>> /\ reg = table[1]
=============================================================================
