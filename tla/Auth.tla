-------------------------------- MODULE Auth --------------------------------
(***************************************************************************)
(* Accounts and sessions: the handlers of internal/web/handler.go that     *)
(* create the first account, log in, log out and authenticate a request,   *)
(* the service of internal/auth/auth.go and the statements of              *)
(* internal/db/db.go they execute.                                         *)
(*                                                                         *)
(* Every HTTP request runs on a goroutine of its own and each SQL          *)
(* statement is one auto-committed transaction on the only connection of   *)
(* the pool (db.go:22), so a statement is a step and any number of         *)
(* statements of other requests may come between two statements of one     *)
(* request.  What a handler computes after a statement and before the      *)
(* next one reads only its locals and belongs to the step of the statement *)
(* before it.                                                              *)
(*                                                                         *)
(* A table is the set of its rows.  Usernames and e-mail addresses stand   *)
(* for their classes under COLLATE NOCASE, which both the UNIQUE           *)
(* constraints and the queries use.  A password matches the hash stored    *)
(* for it and no other; a token is found under its own hash and no other.  *)
(***************************************************************************)
EXTENDS Naturals, FiniteSets

CONSTANTS
  Requests,        \* request slots: the goroutines that may run at a time
  UserIds,         \* uuids of accounts
  Tokens,          \* random session tokens
  Names,           \* usernames, up to case
  Emails,          \* e-mail addresses, up to case
  Passwords,
  ShortPasswords,  \* passwords of fewer than 8 bytes; an undecodable or
                   \* incomplete body is refused at the same place
  LongPasswords,   \* passwords of more than 72 bytes, which bcrypt refuses
  Duration,        \* SessionDuration, in ticks of the clock
  MaxClock,        \* bound on the clock
  DbFaults,        \* may the database fail (I/O error, database locked)?
  ForeignKeys,     \* does the driver enforce FOREIGN KEY ... ON DELETE CASCADE?
  StoreApi,        \* are the Store operations no route reaches used as well?
  None

ASSUME AuthAssumption ==
  /\ ShortPasswords \subseteq Passwords
  /\ LongPasswords \subseteq Passwords
  /\ Duration \in Nat \ {0}
  /\ MaxClock \in Nat
  /\ {DbFaults, ForeignKeys, StoreApi} \subseteq BOOLEAN
  /\ None \notin UserIds \cup Tokens \cup Names \cup Emails \cup Passwords

VARIABLES
  users,     \* the users table
  sessions,  \* the sessions table
  clock,     \* datetime('now')
  broken,    \* may a statement fail now?
  pc,        \* pc[r]: the statement request r executes next
  input,     \* input[r]: what request r carries
  usr,       \* usr[r]: the user id in r's locals
  answer,    \* answer[r]: the answer slot r gave last, or what it has so far
  enrolled,  \* history: every row ever committed to users
  granted,   \* history: every row ever committed to sessions
  revoked,   \* history: the tokens a logout has deleted
  known      \* the tokens that reached a client

db      == <<users, sessions>>
history == <<enrolled, granted, revoked, known>>
locals  == <<pc, input, usr, answer>>
world   == <<clock, broken>>
vars    == <<users, sessions, clock, broken, pc, input, usr, answer,
             enrolled, granted, revoked, known>>
----------------------------------------------------------------------------
User == [id : UserIds, name : Names, email : Emails, pw : Passwords,
         admin : BOOLEAN, active : BOOLEAN]

Session == [token : Tokens, user : UserIds, expires : Nat]

Kinds == {"setup", "login", "logout", "api", "me", "state"}

Input == [kind : Kinds \cup {"none"}, name : Names \cup {None},
          email : Emails \cup {None}, pw : Passwords \cup {None},
          token : Tokens \cup {None}]

Blank == [kind |-> "none", name |-> None, email |-> None, pw |-> None,
          token |-> None]

\* The answers that differ in their status or text, and the two intermediate
\* results GetSetupState keeps between its queries.
Answers == {"none", "ok", "forbidden", "anonymous", "bad request", "db error",
            "already complete", "setup required", "create failed",
            "auto-login failed", "complete", "incomplete",
            "complete, admin", "complete, no admin",
            "incomplete, admin", "incomplete, no admin"}

Statements == {"IsFirstRun", "CheckExisting", "CreateUser", "ReadBack",
               "GetUser", "CreateSession", "TouchLogin", "DeleteSession",
               "Guard", "GetSession", "GetUserByID", "TouchSession",
               "IsSetupComplete", "CountUsers", "CountHosts"}

\* The first statement of each handler.  setupGuard lets /api/setup and
\* /api/auth through before it asks the database anything.
Entry == [setup  |-> "IsFirstRun",    login |-> "GetUser",
          logout |-> "DeleteSession", api   |-> "Guard",
          me     |-> "GetSession",    state |-> "IsSetupComplete"]
----------------------------------------------------------------------------
(***************************************************************************)
(* Queries.                                                                *)
(***************************************************************************)
IsFirstRun == users = {}

IsSetupComplete == \E u \in users : u.admin

\* Mutant: the query forgets expires_at.
LiveAnyAge(s) == TRUE
Live(s) == s.expires > clock

\* Mutant: neither UNIQUE constraint is declared.
UniqueUserNoConstraint(u) == u.id \notin {v.id : v \in users}
\* The PRIMARY KEY and the UNIQUE constraints of the users table.
UniqueUser(u) ==
  \A v \in users : u.id # v.id /\ u.name # v.name /\ u.email # v.email

\* Mutant: the account is stored without the administrator flag.
NewUserNotAdmin(id, i) ==
  [id |-> id, name |-> i.name, email |-> i.email, pw |-> i.pw,
   admin |-> FALSE, active |-> TRUE]
\* Mutant: two arguments of the INSERT are swapped.
NewUserSwapped(id, i) ==
  [id |-> id, name |-> i.email, email |-> i.name, pw |-> i.pw,
   admin |-> TRUE, active |-> TRUE]
\* The row CreateUser inserts for CreateAdminUser: is_admin is passed as true
\* and is_active takes the default of the schema.
NewUser(id, i) ==
  [id |-> id, name |-> i.name, email |-> i.email, pw |-> i.pw,
   admin |-> TRUE, active |-> TRUE]

\* The user that Login accepts: found by name, active, right password.
Accepts(u, i) == u.name = i.name /\ u.active /\ u.pw = i.pw

ValidBody(i) == i.pw \notin ShortPasswords
----------------------------------------------------------------------------
(***************************************************************************)
(* Moving a request on.                                                    *)
(***************************************************************************)
Goto(r, s) ==
  /\ pc' = [pc EXCEPT ![r] = s]
  /\ UNCHANGED <<input, usr, answer>>

\* The handler writes its answer and returns: its locals are gone.
Reply(r, a) ==
  /\ pc' = [pc EXCEPT ![r] = "idle"]
  /\ input' = [input EXCEPT ![r] = Blank]
  /\ usr' = [usr EXCEPT ![r] = None]
  /\ answer' = [answer EXCEPT ![r] = a]

\* Moves to statement s with the user id u in the locals.
GotoWith(r, s, u) ==
  /\ pc' = [pc EXCEPT ![r] = s]
  /\ usr' = [usr EXCEPT ![r] = u]
  /\ UNCHANGED <<input, answer>>

\* A statement that only reads, or that failed: nothing durable changes.
ReadOnly == UNCHANGED <<db, history, world>>

Refused(r) == IF input[r].kind = "me" THEN "anonymous" ELSE "forbidden"

LoginFailed(r) ==
  IF input[r].kind = "setup" THEN "auto-login failed" ELSE "forbidden"
----------------------------------------------------------------------------
(***************************************************************************)
(* Requests arrive.  A client sends tokens it was given, or none at all.   *)
(***************************************************************************)
Arrive(r, i) ==
  /\ pc[r] = "idle"
  /\ pc' = [pc EXCEPT ![r] = Entry[i.kind]]
  /\ input' = [input EXCEPT ![r] = i]
  /\ answer' = [answer EXCEPT ![r] = "none"]
  /\ UNCHANGED usr
  /\ ReadOnly

ArriveSetup(r) ==
  \E n \in Names, e \in Emails, p \in Passwords :
    Arrive(r, [Blank EXCEPT !.kind = "setup", !.name = n, !.email = e, !.pw = p])

ArriveLogin(r) ==
  \E n \in Names, p \in Passwords :
    Arrive(r, [Blank EXCEPT !.kind = "login", !.name = n, !.pw = p])

\* handleLogin answers a body it cannot decode without asking the database.
LoginUndecodable(r) ==
  /\ pc[r] = "idle"
  /\ Reply(r, "bad request")
  /\ ReadOnly

ArriveWithCookie(r) ==
  \E k \in {"logout", "api", "me"}, t \in known \cup {None} :
    Arrive(r, [Blank EXCEPT !.kind = k, !.token = t])

ArriveState(r) == Arrive(r, [Blank EXCEPT !.kind = "state"])
----------------------------------------------------------------------------
(***************************************************************************)
(* handleSetupInit, and CreateAdminUser which it calls.                    *)
(***************************************************************************)
CheckFirstRun(r) ==
  /\ pc[r] = "IsFirstRun"
  /\ \/ broken /\ Reply(r, "db error")
     \/ ~IsFirstRun /\ Reply(r, "already complete")
     \/ IsFirstRun /\ ~ValidBody(input[r]) /\ Reply(r, "bad request")
     \/ IsFirstRun /\ ValidBody(input[r]) /\ Goto(r, "CheckExisting")
  /\ ReadOnly

\* The name must be free and bcrypt must accept the password.
CheckExisting(r) ==
  /\ pc[r] = "CheckExisting"
  /\ LET taken   == \E u \in users : u.name = input[r].name
         tooLong == input[r].pw \in LongPasswords
     IN  \/ (broken \/ taken \/ tooLong) /\ Reply(r, "create failed")
         \/ ~taken /\ ~tooLong /\ Goto(r, "CreateUser")
  /\ ReadOnly

CreateUser(r) ==
  /\ pc[r] = "CreateUser"
  /\ \E id \in UserIds \ {u.id : u \in enrolled} :
       LET row == NewUser(id, input[r]) IN
       \/ /\ UniqueUser(row)
          /\ users' = users \cup {row}
          /\ enrolled' = enrolled \cup {row}
          /\ GotoWith(r, "ReadBack", id)
          /\ UNCHANGED <<sessions, granted, revoked, known, world>>
       \/ /\ broken \/ ~UniqueUser(row)
          /\ Reply(r, "create failed")
          /\ ReadOnly

\* CreateAdminUser ends by reading the row back; an error of that query is
\* reported as an error of CreateAdminUser, a missing row is not.
ReadBack(r) ==
  /\ pc[r] = "ReadBack"
  /\ \/ broken /\ Reply(r, "create failed")
     \/ GotoWith(r, "GetUser", None)
  /\ ReadOnly
----------------------------------------------------------------------------
(***************************************************************************)
(* Login, called by handleLogin and at the end of handleSetupInit.         *)
(***************************************************************************)
GetUser(r) ==
  /\ pc[r] = "GetUser"
  /\ \/ \E u \in users : /\ Accepts(u, input[r])
                         /\ GotoWith(r, "CreateSession", u.id)
     \/ /\ broken \/ ~\E u \in users : Accepts(u, input[r])
        /\ Reply(r, LoginFailed(r))
  /\ ReadOnly

CreateSession(r) ==
  /\ pc[r] = "CreateSession"
  /\ \E t \in Tokens \ {s.token : s \in granted} :
       LET row == [token |-> t, user |-> usr[r], expires |-> clock + Duration]
           orphan == ForeignKeys /\ usr[r] \notin {u.id : u \in users}
       IN  \/ /\ ~orphan
              /\ sessions' = sessions \cup {row}
              /\ granted' = granted \cup {row}
              /\ pc' = [pc EXCEPT ![r] = "TouchLogin"]
              /\ input' = [input EXCEPT ![r].token = t]
              /\ UNCHANGED <<usr, answer, users, world, enrolled, revoked, known>>
           \/ /\ broken \/ orphan
              /\ Reply(r, LoginFailed(r))
              /\ ReadOnly

\* TouchLastLogin writes a column nobody reads and its error is ignored; then
\* the answer carries the token to the client.
TouchLogin(r) ==
  /\ pc[r] = "TouchLogin"
  /\ known' = known \cup {input[r].token}
  /\ Reply(r, "ok")
  /\ UNCHANGED <<db, world, enrolled, granted, revoked>>
----------------------------------------------------------------------------
(***************************************************************************)
(* handleLogout.  A request without a cookie deletes nothing, an error is  *)
(* only logged, and the answer is "ok" in every case.                      *)
(***************************************************************************)
\* Mutant: logout deletes every session of the user.
DeletedEverywhere(t) ==
  {s \in sessions : \E o \in sessions : o.token = t /\ o.user = s.user}
Deleted(t) == {s \in sessions : s.token = t}

DeleteSession(r) ==
  /\ pc[r] = "DeleteSession"
  /\ LET t == input[r].token IN
     \/ /\ t # None
        /\ sessions' = sessions \ Deleted(t)
        /\ revoked' = revoked \cup {t}
     \/ /\ t = None \/ broken
        /\ UNCHANGED <<sessions, revoked>>
  /\ Reply(r, "ok")
  /\ UNCHANGED <<users, world, enrolled, granted, known>>
----------------------------------------------------------------------------
(***************************************************************************)
(* setupGuard, requireAuth and ValidateSession; handleMe calls the latter  *)
(* without the guards.                                                     *)
(***************************************************************************)
\* IsSetupComplete answers false when its query fails.
Guard(r) ==
  /\ pc[r] = "Guard"
  /\ \/ IsSetupComplete /\ Goto(r, "GetSession")
     \/ (broken \/ ~IsSetupComplete) /\ Reply(r, "setup required")
  /\ ReadOnly

GetSession(r) ==
  /\ pc[r] = "GetSession"
  /\ LET found == {s \in sessions : s.token = input[r].token /\ Live(s)} IN
     \/ \E s \in found : GotoWith(r, "GetUserByID", s.user)
     \/ (broken \/ found = {}) /\ Reply(r, Refused(r))
  /\ ReadOnly

GetUserByID(r) ==
  /\ pc[r] = "GetUserByID"
  /\ LET exists == usr[r] \in {u.id : u \in users} IN
     \/ exists /\ Goto(r, "TouchSession")
     \/ (broken \/ ~exists) /\ Reply(r, Refused(r))
  /\ ReadOnly

\* Mutant: the touch is written as INSERT OR REPLACE of the row read before.
TouchSessionUpsert(r) ==
  /\ pc[r] = "TouchSession"
  /\ sessions' = sessions \cup
       {s \in granted : s.token = input[r].token}
  /\ Reply(r, "ok")
  /\ UNCHANGED <<users, history, world>>
\* TouchSessionActivity updates a column nobody decides on, if the row is
\* still there, and its error is ignored; then the protected handler runs.
TouchSession(r) ==
  /\ pc[r] = "TouchSession"
  /\ Reply(r, "ok")
  /\ ReadOnly
----------------------------------------------------------------------------
(***************************************************************************)
(* handleSetupState: GetSetupState asks for the administrators first, for  *)
(* the users next and for the hosts last.  A failing query counts as zero  *)
(* rows.  What the hosts table holds is not modelled.                      *)
(***************************************************************************)
\* Keeps what a query found and goes on to the next one.
Note(r, a, s) ==
  /\ answer' = [answer EXCEPT ![r] = a]
  /\ pc' = [pc EXCEPT ![r] = s]
  /\ UNCHANGED <<input, usr>>
  /\ ReadOnly

StateComplete(r) ==
  /\ pc[r] = "IsSetupComplete"
  /\ \E c \in {IsSetupComplete} \cup (IF broken THEN {FALSE} ELSE {}) :
       Note(r, IF c THEN "complete" ELSE "incomplete", "CountUsers")

AdminSet(complete, a) ==
  CASE complete = "complete" /\ a -> "complete, admin"
    [] complete = "complete" /\ ~a -> "complete, no admin"
    [] complete # "complete" /\ a -> "incomplete, admin"
    [] OTHER -> "incomplete, no admin"

\* Mutant: has_admin is computed from the negated count.
StateAdminInverted(r) ==
  /\ pc[r] = "CountUsers"
  /\ Note(r, AdminSet(answer[r], IsFirstRun), "CountHosts")
StateAdmin(r) ==
  /\ pc[r] = "CountUsers"
  /\ \E a \in {~IsFirstRun} \cup (IF broken THEN {FALSE} ELSE {}) :
       Note(r, AdminSet(answer[r], a), "CountHosts")

StateHosts(r) ==
  /\ pc[r] = "CountHosts"
  /\ Reply(r, answer[r])
  /\ ReadOnly
----------------------------------------------------------------------------
(***************************************************************************)
(* Store operations no route of this commit calls.                         *)
(***************************************************************************)
\* The schema asks for a cascade, which runs only where foreign keys are
\* enforced; _fk=true in the name of the database is not what the driver of
\* go.mod reads for that.
Cascaded(u) ==
  IF ForeignKeys THEN {s \in sessions : s.user # u.id} ELSE sessions

DeleteUser ==
  /\ StoreApi
  /\ \E u \in users :
       /\ users' = users \ {u}
       /\ sessions' = Cascaded(u)
  /\ UNCHANGED <<world, locals, history>>

Purged == {s \in sessions : ~Live(s)}

DeleteExpiredSessions ==
  /\ StoreApi
  /\ Purged # {}
  /\ sessions' = sessions \ Purged
  /\ UNCHANGED <<users, world, locals, history>>
----------------------------------------------------------------------------
Tick ==
  /\ clock < MaxClock
  /\ clock' = clock + 1
  /\ UNCHANGED <<db, locals, history, broken>>

\* From one statement to the next the database begins or ceases to fail.
Break ==
  /\ DbFaults
  /\ broken' = ~broken
  /\ UNCHANGED <<db, locals, history, clock>>

\* The process dies and is started again: the file keeps what was committed,
\* the requests in flight are gone.
Crash ==
  /\ \E r \in Requests : pc[r] # "idle"
  /\ pc' = [r \in Requests |-> "idle"]
  /\ input' = [r \in Requests |-> Blank]
  /\ usr' = [r \in Requests |-> None]
  /\ answer' = [r \in Requests |-> "none"]
  /\ UNCHANGED <<db, world, history>>

Init ==
  /\ users = {} /\ sessions = {} /\ clock = 0 /\ broken = FALSE
  /\ pc = [r \in Requests |-> "idle"]
  /\ input = [r \in Requests |-> Blank]
  /\ usr = [r \in Requests |-> None]
  /\ answer = [r \in Requests |-> "none"]
  /\ enrolled = {} /\ granted = {} /\ revoked = {} /\ known = {}

Arrivals(r) ==
  \/ ArriveSetup(r) \/ ArriveLogin(r) \/ LoginUndecodable(r)
  \/ ArriveWithCookie(r) \/ ArriveState(r)

Handle(r) ==
  \/ CheckFirstRun(r) \/ CheckExisting(r) \/ CreateUser(r) \/ ReadBack(r)
  \/ GetUser(r) \/ CreateSession(r) \/ TouchLogin(r)
  \/ DeleteSession(r)
  \/ Guard(r) \/ GetSession(r) \/ GetUserByID(r) \/ TouchSession(r)
  \/ StateComplete(r) \/ StateAdmin(r) \/ StateHosts(r)

Next ==
  \/ \E r \in Requests : Arrivals(r) \/ Handle(r)
  \/ DeleteUser \/ DeleteExpiredSessions
  \/ Tick \/ Break \/ Crash

Spec == Init /\ [][Next]_vars
----------------------------------------------------------------------------
(***************************************************************************)
(* Properties.                                                             *)
(***************************************************************************)
\* The shape of the tables, of the locals of the handlers and of the history.
TypeOK ==
  /\ users \subseteq User /\ enrolled \subseteq User
  /\ sessions \subseteq Session /\ granted \subseteq Session
  /\ clock \in Nat /\ broken \in BOOLEAN
  /\ pc \in [Requests -> Statements \cup {"idle"}]
  /\ input \in [Requests -> Input]
  /\ usr \in [Requests -> UserIds \cup {None}]
  /\ answer \in [Requests -> Answers]
  /\ revoked \subseteq Tokens /\ known \subseteq Tokens

\* No account shares its id, name or address with another one, although
\* CreateAdminUser checks the name in one statement and inserts in a later one
\* and never checks the address (auth.go:94-106).
UniqueAccounts ==
  \A u, v \in users :
    u.id = v.id \/ u.name = v.name \/ u.email = v.email => u = v

\* A token that a logout has deleted never authenticates again, whatever the
\* requests that read its session before were about to do (auth.go:71-90).
RevokedTokensStayDead == \A s \in sessions : s.token \notin revoked

\* A client that holds a token can use it until it logs out with that very
\* token, the session expires or the account goes: no crash, no purge and no
\* logout of another session loses it, and no client is given a token whose
\* session was not committed (auth.go:47-68).
KnownTokensAccounted ==
  \A t \in known : \E s \in granted :
    /\ s.token = t
    /\ \/ s \in sessions
       \/ t \in revoked
       \/ ~Live(s)
       \/ s.user \notin {u.id : u \in users}

\* The two tests of "is it set up": IsFirstRun counts users (db.go:35) and
\* IsSetupComplete counts administrators (wizard.go:14).  Were they to differ,
\* setupGuard would answer "setup required" and handleSetupInit "setup already
\* complete", for ever.
NoSetupLimbo == IsFirstRun <=> ~IsSetupComplete

\* The answers that tell a client, or are about to, that setup is complete.
SaysComplete == {"complete", "complete, admin", "complete, no admin", "already complete"}

\* While no account is deleted, what a client was told of a finished setup is so
\* and stays so, whichever of the two tests told it and whatever requests ran in
\* between; and unless the second query of /api/setup/state fails it never says
\* complete without an administrator, although the administrators and the users
\* are counted in different statements (wizard.go:23-35, handler.go:173-181).
\* Of the opposite mixture nothing is said: a setup that commits between the two
\* counts makes the answer "incomplete, admin", which was true at no moment.
SetupAnswersHold ==
  /\ [](\A r \in Requests : answer[r] \in SaysComplete => IsSetupComplete /\ ~IsFirstRun)
  /\ [][\A r \in Requests : ~broken /\ pc[r] = "CountUsers"
                            => answer'[r] # "complete, no admin"]_vars

(***************************************************************************)
(* What a comment of the code says, and the code does not keep.            *)
(***************************************************************************)
\* auth.go:92: "CreateAdminUser creates the first admin user."
OnlyTheFirstAdmin == Cardinality(users) <= 1
=============================================================================
